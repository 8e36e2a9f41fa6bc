----------------------------- MODULE UEventSensor -----------------------------
(***************************************************************************)
(* UEventPollingOneShotSensor with the Sensor base class underneath it: an *)
(* object shared by HAL threads (Callers) that activate it and switch its  *)
(* operation mode, by the thread the base constructor starts (the runner), *)
(* by the kernel that multicasts uevents, and by the thread that builds    *)
(* and destroys it.                                                        *)
(*                                                                         *)
(* They meet in mRunMutex, the condition variable mWaitCV, the wake-up     *)
(* pipe and the uevent socket. A step of the model is what a thread does   *)
(* between two points where another thread can interfere: taking the       *)
(* mutex, waiting on mWaitCV, poll(), and a write to the pipe.             *)
(***************************************************************************)
EXTENDS Integers, Sequences, FiniteSets

CONSTANTS
  Callers,     \* HAL threads that may call into the sensor
  PipeCap,     \* bytes the wake-up pipe holds before write() blocks
  SockCap,     \* bound: uevents queued on the socket
  MaxCalls,    \* bound: calls made during the life of the sensor
  VtableRace   \* may the runner's virtual call find the base class's vtable?

ASSUME CallersAssumption == Callers \cap {"free", "runner"} = {}
ASSUME BoundsAssumption ==
  /\ PipeCap \in Nat \ {0}
  /\ SockCap \in Nat
  /\ MaxCalls \in Nat
  /\ VtableRace \in BOOLEAN

VARIABLES
  life,         \* where construction and destruction have got to
  runBody,      \* which run() the runner was dispatched to
  pc,           \* where the runner is
  callerPc,     \* where each caller is
  mRunMutex,    \* who holds it
  mIsEnabled,
  mMode,
  mStopThread,
  mWaitPipeFd,  \* did pipe() succeed?
  pipe,         \* bytes in the wake-up pipe
  socket,       \* uevents queued on mPollFd
  revents,      \* what the last poll() reported readable
  calls,        \* calls made so far
  credit        \* history: events the latest activation still pays for

vars == <<life, runBody, pc, callerPc, mRunMutex, mIsEnabled, mMode,
          mStopThread, mWaitPipeFd, pipe, socket, revents, calls, credit>>

objectVars == <<life, runBody, mWaitPipeFd>>
flagVars   == <<mIsEnabled, mMode, mStopThread, credit>>
callVars   == <<callerPc, calls>>

Lives ==
  {"base", "derived", "built", "unwinding", "unwound", "joining", "gone"}
DerivedLives == {"derived", "built", "unwinding"}  \* vtable is the derived one
RunnerPcs ==
  {"start", "relock", "check", "cvwait", "timedwait",
   "poll", "polled", "pollfailed", "posting", "exit"}
CallerPcs == {"idle", "activateWrite", "modeWrite"}
Fds       == {"pipe", "socket"}   \* mPolls[0] and mPolls[1]
Modes     == {"NORMAL", "DATA_INJECTION"}

\* A uevent that names a key of mInfo as true, one that fills the receive
\* buffer, and every other (a recv() that fails included).
UEvents   == {"match", "overflow", "other"}

TypeOK ==
  /\ life \in Lives
  /\ runBody \in {"none", "Sensor", "UEvent"}
  /\ pc \in RunnerPcs
  /\ callerPc \in [Callers -> CallerPcs]
  /\ mRunMutex \in {"free", "runner"} \cup Callers
  /\ mIsEnabled \in BOOLEAN
  /\ mMode \in Modes
  /\ mStopThread \in BOOLEAN
  /\ mWaitPipeFd \in BOOLEAN
  /\ pipe \in 0 .. PipeCap
  /\ socket \in Seq(UEvents)
  /\ Len(socket) <= SockCap
  /\ revents \in SUBSET Fds
  /\ calls \in 0 .. MaxCalls
  /\ credit \in -1 .. 1

\* The Sensor constructor. It never assigns mStopThread, so the atomic keeps
\* whatever the memory held; the thread it starts may not have run yet.
Init ==
  /\ life = "base"
  /\ runBody = "none"
  /\ pc = "start"
  /\ callerPc = [c \in Callers |-> "idle"]
  /\ mRunMutex = "free"
  /\ mIsEnabled = FALSE
  /\ mMode = "NORMAL"
  /\ mStopThread \in BOOLEAN
  /\ mWaitPipeFd = FALSE
  /\ pipe = 0
  /\ socket = <<>>
  /\ revents = {}
  /\ calls = 0
  /\ credit = 0

-------------------------------------------------------------------------------
(* Helpers *)

Sampling == mIsEnabled /\ mMode = "NORMAL"

NotifyAllLost == UNCHANGED pc   \* mutant: the notify is forgotten

\* mWaitCV.notify_all(): every waiter goes on to take the mutex again.
NotifyAll == pc' = IF pc \in {"cvwait", "timedwait"} THEN "relock" ELSE pc

InterruptPollLost == UNCHANGED pipe   \* mutant: the byte is never written
InterruptPollWide == pipe < PipeCap /\ pipe' = pipe + 2   \* mutant: two bytes

\* One byte into the pipe; write() blocks while it is full.
InterruptPoll ==
  IF mWaitPipeFd
    THEN pipe < PipeCap /\ pipe' = pipe + 1
    ELSE UNCHANGED pipe

\* What readUEvent may answer to a uevent. Once the derived part is destroyed
\* so is mInfo, and what is found through it is anything.
ReadUEvent(e) ==
  IF life \in {"unwound", "joining"} /\ e # "overflow"
    THEN BOOLEAN
    ELSE {e \in {"match", "overflow"}}

\* History only: an event leaves for the framework.
Post == credit' = IF credit = -1 THEN -1 ELSE credit - 1

-------------------------------------------------------------------------------
(* Construction *)

\* The base constructors are done and the derived one has set its vtable.
EnterDerived ==
  /\ life = "base"
  /\ life' = "derived"
  /\ UNCHANGED <<runBody, pc, callVars, mRunMutex, flagVars, mWaitPipeFd,
                 pipe, socket, revents>>

\* The rest of the derived constructor; pipe() and the socket may each fail,
\* which stops the runner without waking it.
FinishConstruction ==
  /\ life = "derived"
  /\ \E pipeOk, socketOk \in BOOLEAN :
       /\ mWaitPipeFd' = pipeOk
       /\ mStopThread' = (mStopThread \/ ~pipeOk \/ ~socketOk)
  /\ life' = "built"
  /\ UNCHANGED <<runBody, pc, callVars, mRunMutex, mIsEnabled, mMode, credit,
                 pipe, socket, revents>>

-------------------------------------------------------------------------------
(* The runner: startThread, then Sensor::run or the derived run *)

\* The virtual call to run() lands in the class the vtable is of at that time.
RunnerStart ==
  /\ pc = "start"
  /\ \/ life \in DerivedLives /\ runBody' = "UEvent"
     \/ life \notin DerivedLives /\ VtableRace /\ runBody' = "Sensor"
  /\ pc' = "relock"
  /\ UNCHANGED <<life, callVars, mRunMutex, flagVars, mWaitPipeFd,
                 pipe, socket, revents>>

RunnerRelock ==
  /\ pc = "relock"
  /\ mRunMutex = "free"
  /\ mRunMutex' = "runner"
  /\ pc' = "check"
  /\ UNCHANGED <<objectVars, callVars, flagVars, pipe, socket, revents>>

\* The loop head, reached with the mutex held and left without it.
LoopHead(next) ==
  /\ pc = "check"
  /\ pc' = next
  /\ mRunMutex' = "free"
  /\ UNCHANGED <<objectVars, callVars, mIsEnabled, mMode, mStopThread,
                 pipe, socket, revents>>

RunExit ==
  /\ mStopThread
  /\ LoopHead("exit")
  /\ UNCHANGED credit

RunWait ==
  /\ ~mStopThread
  /\ ~Sampling
  /\ LoopHead("cvwait")
  /\ UNCHANGED credit

RunPoll ==
  /\ runBody = "UEvent"
  /\ ~mStopThread
  /\ Sampling
  /\ LoopHead("poll")
  /\ UNCHANGED credit

\* Sensor::run: a sample, unless the wall clock was set back, then wait_for.
RunSample ==
  /\ runBody = "Sensor"
  /\ ~mStopThread
  /\ Sampling
  /\ LoopHead("timedwait")
  /\ Post \/ UNCHANGED credit

SpuriousWake ==
  /\ pc = "cvwait"
  /\ pc' = "relock"
  /\ UNCHANGED <<objectVars, callVars, mRunMutex, flagVars, pipe, socket,
                 revents>>

TimedWake ==
  /\ pc = "timedwait"
  /\ pc' = "relock"
  /\ UNCHANGED <<objectVars, callVars, mRunMutex, flagVars, pipe, socket,
                 revents>>

ReadablePipe == {fd \in {"pipe"} : pipe > 0}  \* mutant: mPolls[1] is not polled

Readable ==
  {fd \in Fds : (fd = "pipe" /\ pipe > 0) \/ (fd = "socket" /\ socket # <<>>)}

\* poll() without the mutex, returning as soon as an fd is readable.
PollReturns ==
  /\ pc = "poll"
  /\ Readable # {}
  /\ revents' = Readable
  /\ pc' = "polled"
  /\ UNCHANGED <<objectVars, callVars, mRunMutex, flagVars, pipe, socket>>

PollFails ==
  /\ pc = "poll"
  /\ pc' = "pollfailed"
  /\ UNCHANGED <<objectVars, callVars, mRunMutex, flagVars, pipe, socket,
                 revents>>

\* Mutant: the result of poll() is handled before the mutex is taken again.
AfterPollUnlocked(next) ==
  /\ pc' = "relock"
  /\ UNCHANGED <<objectVars, callVars, mRunMutex, mMode, revents>>

\* Back under the mutex after poll(), the rest of the loop body.
AfterPoll(next) ==
  /\ mRunMutex = "free"
  /\ mRunMutex' = "runner"
  /\ pc' = next
  /\ UNCHANGED <<objectVars, callVars, mMode, revents>>

HandlePollError ==
  /\ pc = "pollfailed"
  /\ AfterPoll("check")
  /\ mStopThread' = TRUE
  /\ UNCHANGED <<mIsEnabled, credit, pipe, socket>>

\* Mutant: the sensor stays armed after its event.
HandleUEventStillArmed ==
  /\ pc = "polled"
  /\ "socket" \in revents
  /\ TRUE \in ReadUEvent(Head(socket))
  /\ AfterPoll("posting")
  /\ socket' = Tail(socket)
  /\ UNCHANGED <<mIsEnabled, mStopThread, credit, pipe>>

\* A uevent to report: disarm (no lock, no notify). Neither mIsEnabled nor mMode
\* is looked at again.
HandleUEvent ==
  /\ pc = "polled"
  /\ "socket" \in revents
  /\ TRUE \in ReadUEvent(Head(socket))
  /\ AfterPoll("posting")
  /\ socket' = Tail(socket)
  /\ mIsEnabled' = FALSE
  /\ UNCHANGED <<mStopThread, credit, pipe>>

\* postEvents(), a call into the sub-HAL and the framework that keeps mRunMutex.
PostEvents ==
  /\ pc = "posting"
  /\ pc' = "check"
  /\ Post
  /\ UNCHANGED <<objectVars, callVars, mRunMutex, mIsEnabled, mMode, mStopThread,
                 pipe, socket, revents>>

\* Nothing to report: one wake-up byte is taken out, if there was any.
HandleWakeup ==
  /\ pc = "polled"
  /\ "socket" \in revents => FALSE \in ReadUEvent(Head(socket))
  /\ AfterPoll("check")
  /\ socket' = IF "socket" \in revents THEN Tail(socket) ELSE socket
  /\ pipe' = IF "pipe" \in revents THEN pipe - 1 ELSE pipe
  /\ UNCHANGED <<mIsEnabled, mStopThread, credit>>

Handle == HandlePollError \/ HandleUEvent \/ PostEvents \/ HandleWakeup

Loop == RunExit \/ RunWait \/ RunPoll \/ RunSample

\* What the thread does of itself; a spurious wake-up and a failing poll()
\* come from outside.
Runner ==
  RunnerStart \/ RunnerRelock \/ Loop \/ TimedWake \/ PollReturns \/ Handle

-------------------------------------------------------------------------------
(* The callers *)

\* Mutant: the lock_guard is missing.
BeginCallUnlocked(c) ==
  /\ life = "built"
  /\ callerPc[c] = "idle"
  /\ calls < MaxCalls
  /\ calls' = calls + 1

BeginCall(c) ==
  /\ life = "built"
  /\ callerPc[c] = "idle"
  /\ mRunMutex = "free"
  /\ calls < MaxCalls
  /\ calls' = calls + 1

\* activate(enable) with nothing to change.
ActivateUnchanged(c) ==
  /\ BeginCall(c)
  /\ UNCHANGED <<objectVars, pc, callerPc, mRunMutex, flagVars, pipe, socket,
                 revents>>

\* activate(enable) up to interruptPoll(), which runs with the mutex held.
Activate(c) ==
  /\ BeginCall(c)
  /\ mIsEnabled' = ~mIsEnabled
  /\ credit' = IF mIsEnabled THEN credit ELSE 1
  /\ mRunMutex' = c
  /\ callerPc' = [callerPc EXCEPT ![c] = "activateWrite"]
  /\ UNCHANGED <<objectVars, pc, mMode, mStopThread, pipe, socket, revents>>

ActivateNotify(c) ==
  /\ callerPc[c] = "activateWrite"
  /\ InterruptPoll
  /\ NotifyAll
  /\ mRunMutex' = "free"
  /\ callerPc' = [callerPc EXCEPT ![c] = "idle"]
  /\ UNCHANGED <<objectVars, flagVars, socket, revents, calls>>

\* Sensor::setOperationMode, the locked part of the derived one.
SetOperationMode(c, mode) ==
  /\ BeginCall(c)
  /\ mMode' = mode
  /\ IF mMode # mode THEN NotifyAll ELSE UNCHANGED pc
  /\ callerPc' = [callerPc EXCEPT ![c] = "modeWrite"]
  /\ UNCHANGED <<objectVars, mRunMutex, mIsEnabled, mStopThread, credit,
                 pipe, socket, revents>>

\* Its interruptPoll(), after the mutex is released and whatever the runner
\* is doing.
ModeInterrupt(c) ==
  /\ callerPc[c] = "modeWrite"
  /\ InterruptPoll
  /\ callerPc' = [callerPc EXCEPT ![c] = "idle"]
  /\ UNCHANGED <<objectVars, pc, mRunMutex, flagVars, socket, revents, calls>>

FinishCall(c) == ActivateNotify(c) \/ ModeInterrupt(c)

-------------------------------------------------------------------------------
(* The kernel *)

\* A multicast uevent; one that finds the socket buffer full is lost.
UEventArrives(e) ==
  /\ life \notin {"base", "derived"}
  /\ Len(socket) < SockCap
  /\ socket' = Append(socket, e)
  /\ UNCHANGED <<objectVars, pc, callVars, mRunMutex, flagVars, pipe, revents>>

-------------------------------------------------------------------------------
(* Destruction *)

BeginDestroy ==
  /\ life = "built"
  /\ \A c \in Callers : callerPc[c] = "idle"
  /\ life' = "unwinding"
  /\ UNCHANGED <<runBody, pc, callVars, mRunMutex, flagVars, mWaitPipeFd,
                 pipe, socket, revents>>

\* ~UEventPollingOneShotSensor: wake the poll, before anything tells the
\* runner to stop.
DestroyUEvent ==
  /\ life = "unwinding"
  /\ InterruptPoll
  /\ life' = "unwound"
  /\ UNCHANGED <<runBody, pc, callVars, mRunMutex, flagVars, mWaitPipeFd,
                 socket, revents>>

\* ~Sensor up to join().
DestroySensor ==
  /\ life = "unwound"
  /\ mRunMutex = "free"
  /\ mStopThread' = TRUE
  /\ mIsEnabled' = FALSE
  /\ NotifyAll
  /\ life' = "joining"
  /\ UNCHANGED <<runBody, callVars, mRunMutex, mMode, credit, mWaitPipeFd,
                 pipe, socket, revents>>

Join ==
  /\ life = "joining"
  /\ pc = "exit"
  /\ life' = "gone"
  /\ UNCHANGED <<runBody, pc, callVars, mRunMutex, flagVars, mWaitPipeFd,
                 pipe, socket, revents>>

Destroy == DestroyUEvent \/ DestroySensor \/ Join

-------------------------------------------------------------------------------
Caller(c) ==
  \/ ActivateUnchanged(c)
  \/ Activate(c)
  \/ \E mode \in Modes : SetOperationMode(c, mode)
  \/ FinishCall(c)

Next ==
  \/ EnterDerived \/ FinishConstruction
  \/ Runner \/ SpuriousWake \/ PollFails
  \/ \E c \in Callers : Caller(c)
  \/ \E e \in UEvents : UEventArrives(e)
  \/ BeginDestroy \/ Destroy

Spec == Init /\ [][Next]_vars

\* Threads keep running: the runner, a constructor, a destructor and a call
\* that has begun. Nobody is bound to call, to destroy or to send a uevent.
Fairness ==
  /\ WF_vars(EnterDerived) /\ WF_vars(FinishConstruction)
  /\ WF_vars(Runner)
  /\ \A c \in Callers : WF_vars(FinishCall(c))
  /\ WF_vars(Destroy)

FairSpec == Spec /\ Fairness

-------------------------------------------------------------------------------
(* Properties *)

\* One activation pays for one event: however the deactivations, mode switches
\* and uevents interleave, the runner that executes the derived run() never
\* posts a second event for the same activate(true).
\* (UEventSensors.cpp run(): activate(false) before postEvents.)
OneShot == runBody = "UEvent" => credit >= 0

\* A runner blocked in poll() with nothing left to sample has a wake-up coming:
\* a byte is in the pipe, or the caller that changed the flags is still to write
\* it. (interruptPoll in activate and setOperationMode.)
NoLostWakeup ==
  /\ pc = "poll"
  /\ ~Sampling
  /\ life # "joining"
  => pipe > 0 \/ \E c \in Callers : callerPc[c] # "idle"

\* A runner waiting on mWaitCV has a reason to: whoever makes its predicate true
\* under the mutex also notifies, before the mutex can be taken again.
NoLostNotify ==
  pc = "cvwait" /\ (Sampling \/ life = "joining") =>
    \E c \in Callers : callerPc[c] = "activateWrite"

-------------------------------------------------------------------------------
(* The inductive invariant behind the three safety properties above *)

\* mRunMutex is held exactly by a runner in its loop body and by an activate()
\* on its way to the pipe.
MutexInv ==
  /\ pc \in {"check", "posting"} <=> mRunMutex = "runner"
  /\ \A c \in Callers : callerPc[c] = "activateWrite" <=> mRunMutex = c

\* What the stages of construction and destruction rule out.
LifeInv ==
  /\ life \in {"base", "derived"} => ~mIsEnabled
  /\ life # "built" => \A c \in Callers : callerPc[c] = "idle"
  /\ life \notin {"base", "derived"} /\ ~mWaitPipeFd => mStopThread
  /\ life \in {"joining", "gone"} => mStopThread /\ ~mIsEnabled

\* A runner that polls runs the derived run(), on a sensor whose pipe exists; one
\* that posts has disarmed it.
RunnerInv ==
  /\ pc = "start" <=> runBody = "none"
  /\ pc \in {"poll", "polled", "pollfailed"} =>
       runBody = "UEvent" /\ mWaitPipeFd /\ life \notin {"base", "derived"}
  /\ pc = "posting" => runBody = "UEvent" /\ ~mIsEnabled
  /\ pc = "polled" => /\ "socket" \in revents => socket # <<>>
                      /\ "pipe" \in revents => pipe > 0

\* An enabled sensor, and one that polls or posts, has its event still to come.
CreditInv ==
  runBody # "Sensor" =>
    /\ mIsEnabled => credit = 1
    /\ pc \in {"poll", "polled", "pollfailed", "posting"} => credit = 1
    /\ credit >= 0

\* The conjunction is preserved by every step; the runs check it and
\* UEventSensorProofs proves it.
IndInv ==
  /\ TypeOK
  /\ MutexInv
  /\ LifeInv
  /\ RunnerInv
  /\ CreditInv
  /\ NoLostWakeup
  /\ NoLostNotify

-------------------------------------------------------------------------------
Writers == {c \in Callers : callerPc[c] # "idle"}

\* The pipe never holds more bytes than there were calls (and one from the
\* destructor), so activate() cannot block in write() during the first PipeCap
\* calls, whatever the runner does meanwhile.
PipeBytesAccounted ==
  pipe + Cardinality(Writers) <=
    calls + (IF life \in {"unwound", "joining", "gone"} THEN 1 ELSE 0)

Wedged ==
  /\ mWaitPipeFd
  /\ pipe = PipeCap
  /\ \E c \in Callers : callerPc[c] = "activateWrite"

\* It takes more calls than the pipe has room for to block an activate() in
\* write(), however little of it the runner has read. (interruptPoll)
WedgeTakesCalls == Wedged => calls > PipeCap

\* What the full pipe costs: an activate() that finds it full blocks in write()
\* with mRunMutex held, the runner needs mRunMutex to drain the pipe, so nothing
\* ever ends it, no flag changes any more and no event is posted.
\* (activate(..., lock) calls interruptPoll under the lock.)
WedgedForever ==
  [][Wedged => Wedged' /\ UNCHANGED <<mIsEnabled, mMode, credit>>]_vars

Alive == life = "built" /\ ~mStopThread /\ runBody # "Sensor"

\* A sensor that stays enabled reports a matching uevent that is queued.
\* (No wake-up of the poll is missed or spent on the pipe for ever.)
TapReported ==
  Alive /\ Sampling /\ (\E i \in DOMAIN socket : socket[i] = "match")
    ~> ~Alive \/ ~Sampling

\* A sensor that stays disabled, or in DATA_INJECTION, brings its runner to rest
\* on mWaitCV: stale wake-up bytes never keep it busy.
QuietWhenDisabled ==
  Alive /\ ~Sampling ~> ~Alive \/ Sampling \/ pc = "cvwait"

\* Every activate() returns, and lets go of mRunMutex, as long as the calls made
\* fit in the pipe.
ActivateReturns ==
  \A c \in Callers : callerPc[c] = "activateWrite" ~> callerPc[c] = "idle"

\* "Uevent overflowed buffer, discarding": a discarded uevent changes nothing
\* and the sensor keeps processing those behind it. (Violated by readUEvent.)
OverflowDiscarded ==
  [][ /\ pc = "polled"
      /\ Len(socket') < Len(socket)
      /\ Head(socket) = "overflow"
      => mIsEnabled' = mIsEnabled /\ credit' = credit ]_vars

\* ~Sensor releases the lock before join(), "or a deadlock will occur": the join
\* returns. (Violated: the runner may be in poll().)
JoinReturns == life = "joining" ~> life = "gone"

\* When the runner finds the derived vtable, the sensor is a one-shot sensor in
\* the sense of OneShotContract: mIsEnabled is the arming, and every step is an
\* arming, a disarming, the one event, or none of the client's business.
Contract == INSTANCE OneShotContract WITH armed <- mIsEnabled, credit <- credit
ImplementsOneShot == Contract!Spec

\* The sensor is a SensorThread, which is all that SensorsSubHal knows of it: it
\* polls only when both flags let it, a tap disarms it, and until the post of that
\* tap is over neither a call nor the destructor changes a flag. (run, activate)
RunnerAt ==
  IF pc \in {"poll", "polled", "pollfailed"} THEN "poll"
  ELSE IF pc = "posting" THEN "tapped" ELSE "rest"

Thread == INSTANCE SensorThread
            WITH mode <- mMode, enabled <- mIsEnabled, runner <- RunnerAt
ImplementsSensorThread == Thread!Spec
===============================================================================
