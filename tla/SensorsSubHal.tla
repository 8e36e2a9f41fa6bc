----------------------------- MODULE SensorsSubHal -----------------------------
(***************************************************************************)
(* SensorsSubHal between the multi-HAL proxy and its sensors: initialize   *)
(* and setOperationMode walk over the sensors one by one, activate comes   *)
(* from other threads meanwhile, and each sensor's runner posts through    *)
(* mCallback, which nothing protects. Both kinds of call write to a        *)
(* sensor's pipe and block there while it is full, activate() with         *)
(* mRunMutex held. A sensor is reduced to its flags, its pipe, who has its *)
(* mutex and how far its runner is. UEventSensor has the rest.             *)
(***************************************************************************)
EXTENDS Naturals

CONSTANTS
  NumSensors,   \* sensors the build has, with handles 1, 2, ...
  PipeCap,      \* bytes a sensor's pipe has room for
  MaxCalls      \* bound: calls of the proxy

ASSUME SubHalAssumption ==
  /\ NumSensors \in Nat
  /\ PipeCap \in Nat
  /\ MaxCalls \in Nat

VARIABLES
  mCallback,              \* the initialize() whose callback it is; 0 is nullptr
  mCurrentOperationMode,
  walk,        \* the call that walks over the sensors
  target,      \* the mode it sets
  reached,     \* the sensors it is done with: 1 .. reached
  step,        \* is it to set the next one's mode, or to write to its pipe?
  mMode,       \* of each sensor
  mIsEnabled,  \* of each sensor
  pipe,        \* bytes in each sensor's pipe
  writer,      \* is an activate() with mRunMutex held about to write to it?
  runner,      \* where each sensor's thread is
  wakelock,    \* the callback each thread had its wakelock from
  proxy,       \* has the proxy initialized the sub-HAL?
  calls,       \* calls made so far
  late         \* history: events of a sensor since DATA_INJECTION was set

walkVars   == <<walk, target, reached, step>>
pipeVars   == <<pipe, writer>>
sensorVars == <<mMode, mIsEnabled, pipeVars>>
postVars   == <<runner, wakelock, late>>
vars == <<mCallback, mCurrentOperationMode, walkVars, sensorVars, postVars,
          proxy, calls>>

Sensors == 1 .. NumSensors
Modes   == {"NORMAL", "DATA_INJECTION"}

\* A runner that has its event is in postEvents, mRunMutex held, before or
\* between the two uses of mCallback.
Posting == {"tapped", "posting"}

TypeOK ==
  /\ mCallback \in Nat
  /\ mCurrentOperationMode \in Modes
  /\ walk \in {"none", "initialize", "setOperationMode"}
  /\ target \in Modes
  /\ reached \in 0 .. NumSensors
  /\ step \in {"mode", "byte"}
  /\ mMode \in [Sensors -> Modes]
  /\ mIsEnabled \in [Sensors -> BOOLEAN]
  /\ pipe \in [Sensors -> Nat]
  /\ writer \in [Sensors -> BOOLEAN]
  /\ runner \in [Sensors -> {"rest", "poll"} \cup Posting]
  /\ wakelock \in [Sensors -> Nat]
  /\ proxy \in {"down", "up"}
  /\ calls \in 0 .. MaxCalls
  /\ late \in [Sensors -> Nat]

Init ==
  /\ mCallback = 0
  /\ mCurrentOperationMode = "NORMAL"
  /\ walk = "none"
  /\ target = "NORMAL"
  /\ reached = 0
  /\ step = "mode"
  /\ mMode = [s \in Sensors |-> "NORMAL"]
  /\ mIsEnabled = [s \in Sensors |-> FALSE]
  /\ pipe = [s \in Sensors |-> 0]
  /\ writer = [s \in Sensors |-> FALSE]
  /\ runner = [s \in Sensors |-> "rest"]
  /\ wakelock = [s \in Sensors |-> 0]
  /\ proxy = "down"
  /\ calls = 0
  /\ late = [s \in Sensors |-> 0]

-------------------------------------------------------------------------------
(* initialize and setOperationMode. The proxy makes these calls one at a time, *)
(* and no other before the first initialize() has returned; it initializes     *)
(* again when the framework has come back from a crash.                        *)

BeginCall == calls < MaxCalls /\ calls' = calls + 1

StartWalk(call, mode) ==
  /\ walk = "none"
  /\ walk' = call
  /\ target' = mode
  /\ reached' = 0
  /\ step' = "mode"
  /\ late' = [s \in Sensors |-> 0]

Initialize ==
  /\ BeginCall
  /\ mCallback' = mCallback + 1
  /\ StartWalk("initialize", "NORMAL")
  /\ UNCHANGED <<mCurrentOperationMode, sensorVars, runner, wakelock, proxy>>

SetOperationMode(mode) ==
  /\ BeginCall
  /\ proxy = "up"
  /\ StartWalk("setOperationMode", mode)
  /\ UNCHANGED <<mCallback, mCurrentOperationMode, sensorVars, runner, wakelock, proxy>>

MutexIgnored(s) == TRUE   \* mutant: the mode is set without the lock

MutexFree(s) == runner[s] \notin Posting /\ ~writer[s]

HasRoom(s) == pipe[s] < PipeCap

\* Sensor::setOperationMode waits for mRunMutex, also when the mode is the same.
SetNext ==
  /\ walk # "none" /\ step = "mode"
  /\ reached < NumSensors
  /\ MutexFree(reached + 1)
  /\ mMode' = [mMode EXCEPT ![reached + 1] = target]
  /\ step' = "byte"
  /\ UNCHANGED <<mCallback, mCurrentOperationMode, walk, target, reached, mIsEnabled,
                 pipeVars, postVars, proxy, calls>>

\* The override then writes its byte, without the mutex and whatever has changed.
InterruptNext ==
  /\ step = "byte"
  /\ HasRoom(reached + 1)
  /\ pipe' = [pipe EXCEPT ![reached + 1] = @ + 1]
  /\ step' = "mode"
  /\ reached' = reached + 1
  /\ UNCHANGED <<mCallback, mCurrentOperationMode, walk, target, mMode, mIsEnabled,
                 writer, postVars, proxy, calls>>

\* Mutant: the walk misses the last sensor.
FinishEarly ==
  /\ walk # "none" /\ step = "mode"
  /\ reached + 1 >= NumSensors
  /\ mCurrentOperationMode' = target
  /\ walk' = "none"
  /\ proxy' = "up"
  /\ UNCHANGED <<mCallback, target, reached, step, sensorVars, postVars, calls>>

Finish ==
  /\ walk # "none" /\ step = "mode"
  /\ reached = NumSensors
  /\ mCurrentOperationMode' = target
  /\ walk' = "none"
  /\ proxy' = "up"
  /\ UNCHANGED <<mCallback, target, reached, step, sensorVars, postVars, calls>>

-------------------------------------------------------------------------------
(* activate, on any thread of the proxy *)

\* Takes mRunMutex and, if the flag is to change, keeps it for the write.
Activate(s, enabled) ==
  /\ BeginCall
  /\ proxy = "up"
  /\ MutexFree(s)
  /\ mIsEnabled' = [mIsEnabled EXCEPT ![s] = enabled]
  /\ writer' = [writer EXCEPT ![s] = mIsEnabled[s] # enabled]
  /\ UNCHANGED <<mCallback, mCurrentOperationMode, walkVars, mMode, pipe, postVars, proxy>>

\* Mutant: the write is given up when there is no room.
ActivateWriteOrNot(s) ==
  /\ writer[s]
  /\ pipe' = [pipe EXCEPT ![s] = IF HasRoom(s) THEN @ + 1 ELSE @]
  /\ writer' = [writer EXCEPT ![s] = FALSE]
  /\ UNCHANGED <<mCallback, mCurrentOperationMode, walkVars, mMode, mIsEnabled, postVars,
                 proxy, calls>>

\* The byte is written and the mutex released.
ActivateWrite(s) ==
  /\ writer[s]
  /\ HasRoom(s)
  /\ pipe' = [pipe EXCEPT ![s] = @ + 1]
  /\ writer' = [writer EXCEPT ![s] = FALSE]
  /\ UNCHANGED <<mCallback, mCurrentOperationMode, walkVars, mMode, mIsEnabled, postVars,
                 proxy, calls>>

-------------------------------------------------------------------------------
(* A sensor's runner *)

RunnerGoto(s, next) == runner' = [runner EXCEPT ![s] = next]

\* Mutant: run() does not look at mMode.
PollAnyMode(s) ==
  /\ runner[s] = "rest" /\ MutexFree(s)
  /\ mIsEnabled[s]
  /\ RunnerGoto(s, "poll")
  /\ UNCHANGED <<mCallback, mCurrentOperationMode, walkVars, sensorVars, wakelock, late,
                 proxy, calls>>

Poll(s) ==
  /\ runner[s] = "rest" /\ MutexFree(s)
  /\ mIsEnabled[s] /\ mMode[s] = "NORMAL"
  /\ RunnerGoto(s, "poll")
  /\ UNCHANGED <<mCallback, mCurrentOperationMode, walkVars, sensorVars, wakelock, late,
                 proxy, calls>>

\* A wake-up byte, or a uevent that is none of its own: then a byte that came with it
\* is read as well.
Wake(s) ==
  /\ runner[s] = "poll" /\ MutexFree(s)
  /\ RunnerGoto(s, "rest")
  /\ \/ pipe[s] > 0 /\ pipe' = [pipe EXCEPT ![s] = @ - 1]
     \/ UNCHANGED pipe
  /\ UNCHANGED <<mCallback, mCurrentOperationMode, walkVars, mMode, mIsEnabled, writer,
                 wakelock, late, proxy, calls>>

\* The uevent it polls for; the flags may have changed since. A byte stays.
Tap(s) ==
  /\ runner[s] = "poll" /\ MutexFree(s)
  /\ mIsEnabled' = [mIsEnabled EXCEPT ![s] = FALSE]
  /\ RunnerGoto(s, "tapped")
  /\ UNCHANGED <<mCallback, mCurrentOperationMode, walkVars, mMode, pipeVars, wakelock, late,
                 proxy, calls>>

\* Mutant: mCallback has a lock, which initialize() keeps while it walks.
TakeWakelockLocked(s) ==
  /\ runner[s] = "tapped"
  /\ walk # "initialize"
  /\ wakelock' = [wakelock EXCEPT ![s] = mCallback]
  /\ RunnerGoto(s, "posting")
  /\ UNCHANGED <<mCallback, mCurrentOperationMode, walkVars, sensorVars, late, proxy,
                 calls>>

\* postEvents, its first statement: the wakelock, from mCallback as it is now.
TakeWakelock(s) ==
  /\ runner[s] = "tapped"
  /\ wakelock' = [wakelock EXCEPT ![s] = mCallback]
  /\ RunnerGoto(s, "posting")
  /\ UNCHANGED <<mCallback, mCurrentOperationMode, walkVars, sensorVars, late, proxy,
                 calls>>

Injecting == walk = "none" /\ mCurrentOperationMode = "DATA_INJECTION"

\* Its second: the events, to mCallback as it is by now.
PostEvents(s) ==
  /\ runner[s] = "posting"
  /\ RunnerGoto(s, "rest")
  /\ late' = IF Injecting THEN [late EXCEPT ![s] = @ + 1] ELSE late
  /\ UNCHANGED <<mCallback, mCurrentOperationMode, walkVars, sensorVars, wakelock,
                 proxy, calls>>

-------------------------------------------------------------------------------
Walk == SetNext \/ InterruptNext \/ Finish

Run(s) == Poll(s) \/ Wake(s) \/ Tap(s) \/ TakeWakelock(s) \/ PostEvents(s)

Next ==
  \/ Initialize
  \/ \E mode \in Modes : SetOperationMode(mode)
  \/ Walk
  \/ \E s \in Sensors, enabled \in BOOLEAN : Activate(s, enabled)
  \/ \E s \in Sensors : ActivateWrite(s)
  \/ \E s \in Sensors : Run(s)

Spec == Init /\ [][Next]_vars

\* A call goes on when it has the mutex or the room it waits for, and a post runs to
\* its end. WF is enough for the walk: a sensor posts once for an activate().
FairSpec ==
  /\ Spec
  /\ WF_vars(Walk)
  /\ \A s \in Sensors :
       WF_vars(ActivateWrite(s)) /\ WF_vars(TakeWakelock(s)) /\ WF_vars(PostEvents(s))

-------------------------------------------------------------------------------
(* Properties *)

\* While no call sets it, all sensors are in the mode getOperationMode() returns.
\* (setOperationMode)
ModesAgree == walk = "none" => \A s \in Sensors : mMode[s] = mCurrentOperationMode

\* A sensor never posts into a null mCallback, and once initialize() has returned
\* nobody holds a wakelock of the last callback: a post that had one was waited for,
\* though mCallback itself has no lock, since the walk takes every sensor's
\* mRunMutex. (initialize, postEvents)
PostsUseCallback ==
  \A s \in Sensors :
    /\ runner[s] \in Posting => mCallback # 0
    /\ runner[s] = "posting" /\ walk # "initialize" => wakelock[s] = mCallback

\* In DATA_INJECTION a sensor reports at most the one tap its poll() was already
\* waiting for. (setOperationMode, run)
InjectionSilences == \A s \in Sensors : late[s] <= 1

\* Each sensor is the SensorThread that UEventSensor implements: the walk, activate
\* and the posts do nothing to it that a sensor would not do.
RunnerAt(s) == IF runner[s] \in Posting THEN "tapped" ELSE runner[s]

Thread(s) == INSTANCE SensorThread
               WITH mode <- mMode[s], enabled <- mIsEnabled[s], runner <- RunnerAt(s)
ThreadSteps(s) == [Thread(s)!Next]_(Thread(s)!threadVars)
SensorsAreThreads ==
  /\ \A s \in Sensors : Thread(s)!Init
  /\ [][\A s \in Sensors : ThreadSteps(s)]_vars

\* initialize(), setOperationMode() and activate() return, whatever sensors post
\* meanwhile, as long as no more calls were made than a pipe has room for bytes: a
\* call writes at most one to a sensor. (After that they may not; see below.)
CallsReturn ==
  /\ walk # "none" ~> walk = "none" \/ calls > PipeCap
  /\ \A s \in Sensors : writer[s] ~> ~writer[s] \/ calls > PipeCap

\* An activate() blocked by a full pipe takes the sub-HAL with it: it stays blocked,
\* and a call that has not passed its sensor never gets past it, so that no mode
\* can be set and no framework initialize again. (activate, setOperationMode)
Blocked(s) == writer[s] /\ ~HasRoom(s)

BlockedStopsWalk ==
  [][\A s \in Sensors :
       Blocked(s) =>
         /\ Blocked(s)'
         /\ walk # "none" /\ reached < s => walk' = walk /\ reached' < s]_vars

-------------------------------------------------------------------------------
(* The inductive invariant *)

\* The sensors whose mode the walk has set.
Set == 1 .. (IF step = "byte" THEN reached + 1 ELSE reached)

\* The walk splits the sensors in two.
WalkInv ==
  /\ \A s \in Sensors :
       mMode[s] = IF walk # "none" /\ s \in Set THEN target ELSE mCurrentOperationMode
  /\ step = "byte" => walk # "none" /\ reached < NumSensors
  /\ proxy = "up" => mCallback # 0
  /\ walk = "setOperationMode" => proxy = "up"
  /\ walk = "initialize" => mCallback # 0

\* Sensors that the walk has passed post with the new callback.
BarrierInv ==
  \A s \in Sensors :
    /\ mIsEnabled[s] \/ runner[s] # "rest" => proxy = "up"
    /\ runner[s] = "posting" /\ (walk = "initialize" => s \in Set) =>
         wakelock[s] = mCallback

LateInv ==
  \A s \in Sensors :
    /\ walk # "none" => late[s] = 0
    /\ mCurrentOperationMode = "NORMAL" => late[s] = 0
    /\ late[s] <= 1
    /\ late[s] = 1 => runner[s] = "rest"

\* The walk has still to write to the sensor's pipe.
Due(s) == walk # "none" /\ s > reached

\* No more bytes in a pipe, or still to be written to it, than calls.
PipeInv ==
  \A s \in Sensors :
    /\ writer[s] => runner[s] \notin Posting
    /\ pipe[s] <= PipeCap /\ pipe[s] <= calls
    /\ writer[s] \/ Due(s) => pipe[s] + 1 <= calls
    /\ writer[s] /\ Due(s) => pipe[s] + 2 <= calls

SubHalInv == TypeOK /\ WalkInv /\ BarrierInv /\ LateInv /\ PipeInv
===============================================================================
