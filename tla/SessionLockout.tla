---------------------------- MODULE SessionLockout ----------------------------
(***************************************************************************)
(* The lockout of one fingerprint Session: what resetLockout, onPointerDown*)
(* (the binder thread), the result of an authentication (the vendor        *)
(* library's notify thread) and the detached lockout timers do to its      *)
(* LockoutTracker and to the two timer flags, none of it under a lock, and *)
(* what the framework is told meanwhile. Any thread may run, and time may  *)
(* pass, between any two steps of another.                                 *)
(***************************************************************************)
EXTENDS LockoutTracker, FiniteSets

CONSTANTS
  StartTime,    \* the clock when the session is created
  HandlerTime,  \* assumed: the ticks that a call or a message takes at most
  Timers,       \* bound: the timer threads alive at one time
  MaxFailures,  \* bound: failed authentications
  MaxTime       \* bound: the time of the last call

ASSUME SessionAssumption ==
  /\ StartTime \in Nat \ {0}
  /\ HandlerTime \in Nat
  /\ MaxFailures \in Nat
  /\ MaxTime \in Nat

VARIABLES
  mIsLockoutTimerStarted,
  mIsLockoutTimerAborted,
  pc,           \* where the binder and the vendor thread are
  reg,          \* the value each has read or computed last
  began,        \* history: when the handler it runs began
  timer,        \* where each timer thread is
  deadline,     \* when its sleep ends
  now,
  told,         \* history: the lockout the framework was last told of
  failures,     \* history: failed authentications
  lastFailure,  \* history: when the last one was
  course        \* history: "disturbed" once a thread has written in the middle
                \* of another's handler

timerFlags  == <<mIsLockoutTimerStarted, mIsLockoutTimerAborted>>
threadVars  == <<pc, reg, began>>
timerVars   == <<timer, deadline>>
failureVars == <<failures, lastFailure>>
vars == <<trackerVars, timerFlags, threadVars, timerVars, now, told, failureVars, course>>

Threads == {"binder", "vendor"}
Pcs == {"idle", "count", "stampClock", "stamp", "mode", "start", "elapsed", "expire",
        "return", "permanent", "abort", "timeLeft", "clock", "left", "report", "decide",
        "spawn", "setStarted", "tellCleared"}
TimerPcs == {"none", "sleeping", "clearing", "telling", "finishing"}

TypeOK ==
  /\ TrackerTypeOK
  /\ mIsLockoutTimerStarted \in BOOLEAN
  /\ mIsLockoutTimerAborted \in BOOLEAN
  /\ pc \in [Threads -> Pcs]
  /\ reg \in [Threads -> Int]
  /\ began \in [Threads -> Nat]
  /\ timer \in [Timers -> TimerPcs]
  /\ deadline \in [Timers -> Int]
  /\ now \in Nat \ {0}
  /\ told \in LockoutModes
  /\ failures \in 0 .. MaxFailures
  /\ lastFailure \in Nat
  /\ course \in {"serial", "disturbed"}

Init ==
  /\ TrackerInit
  /\ mIsLockoutTimerStarted = FALSE
  /\ mIsLockoutTimerAborted = FALSE
  /\ pc = [t \in Threads |-> "idle"]
  /\ reg = [t \in Threads |-> 0]
  /\ began = [t \in Threads |-> 0]
  /\ timer = [i \in Timers |-> "none"]
  /\ deadline = [i \in Timers |-> 0]
  /\ now = StartTime
  /\ told = "NONE"
  /\ failures = 0
  /\ lastFailure = 0
  /\ course = "serial"

-------------------------------------------------------------------------------
(* Scheduling *)

Busy    == {t \in Threads : pc[t] # "idle"}
Pending == {i \in Timers : timer[i] # "none"}
Running == {i \in Timers : timer[i] \in {"clearing", "telling", "finishing"}}

\* No handler is under way; a sleeping timer has not begun its own.
Quiet == Busy = {} /\ Running = {}

\* A thread goes on with a value in its register, or ends its handler.
Goto(t, next, value) ==
  /\ pc' = [pc EXCEPT ![t] = next]
  /\ reg' = [reg EXCEPT ![t] = IF next = "idle" THEN 0 ELSE value]
  /\ began' = [began EXCEPT ![t] = IF next = "idle" THEN 0
                                   ELSE IF pc[t] = "idle" THEN now ELSE began[t]]

\* What a thread or a timer writes may be in another's way.
ThreadWrites(t) ==
  course' = IF Busy \ {t} = {} /\ Running = {} THEN course ELSE "disturbed"
TimerWrites(i) ==
  course' = IF Busy = {} /\ Running \ {i} = {} THEN course ELSE "disturbed"

\* A call or a message finds its thread idle.
Begin(t) ==
  /\ pc[t] = "idle"
  /\ now <= MaxTime

\* Bound: one that may start a timer finds a thread for it.
TimerLeft(t) == Cardinality(Busy \ {t}) < Cardinality(Timers \ Pending)

\* Time passes, within the time that the handlers under way may take.
Tick ==
  /\ now < MaxTime + TimedDuration + 2 * HandlerTime
  /\ \A t \in Busy : now < began[t] + HandlerTime
  /\ now' = now + 1
  /\ UNCHANGED <<trackerVars, timerFlags, threadVars, timerVars, told, failureVars, course>>

-------------------------------------------------------------------------------
(* HwFingerprintEngine::notify, FINGERPRINT_AUTHENTICATED, vendor thread *)

\* fid # 0: nothing is said of a lockout that ends here, no timer is aborted.
AuthSucceeded ==
  /\ Begin("vendor")
  /\ Reset(TRUE)
  /\ ThreadWrites("vendor")
  /\ UNCHANGED <<timerFlags, threadVars, timerVars, now, told, failureVars>>

\* fid = 0, up to the read in mFailedCount++.
AuthFailed ==
  /\ Begin("vendor")
  /\ TimerLeft("vendor")
  /\ failures < MaxFailures
  /\ failures' = failures + 1
  /\ lastFailure' = now
  /\ Goto("vendor", "count", mFailedCount)
  /\ UNCHANGED <<trackerVars, timerFlags, timerVars, now, told, course>>

\* Mutant: notify() forgets checkSensorLockout().
CountFailureUnchecked ==
  /\ pc["vendor"] = "count"
  /\ AddFailedAttempt(reg["vendor"])
  /\ Goto("vendor", "idle", 0)
  /\ ThreadWrites("vendor")
  /\ UNCHANGED <<timerFlags, timerVars, now, told, failureVars>>

CountFailure ==
  /\ pc["vendor"] = "count"
  /\ AddFailedAttempt(reg["vendor"])
  /\ Goto("vendor", IF LocksForATime(reg["vendor"]) THEN "stampClock" ELSE "mode", 0)
  /\ ThreadWrites("vendor")
  /\ UNCHANGED <<timerFlags, timerVars, now, told, failureVars>>

\* mLockoutTimedStart = Util::getSystemNanoTime(), in two steps.
ReadStampClock ==
  /\ pc["vendor"] = "stampClock"
  /\ Goto("vendor", "stamp", now)
  /\ UNCHANGED <<trackerVars, timerFlags, timerVars, now, told, failureVars, course>>

StampStart ==
  /\ pc["vendor"] = "stamp"
  /\ Stamp(reg["vendor"])
  /\ Goto("vendor", "mode", 0)
  /\ ThreadWrites("vendor")
  /\ UNCHANGED <<timerFlags, timerVars, now, told, failureVars>>

-------------------------------------------------------------------------------
(* Calls of the framework, binder thread *)

OnPointerDown ==
  /\ Begin("binder")
  /\ TimerLeft("binder")
  /\ Goto("binder", "mode", 0)
  /\ UNCHANGED <<trackerVars, timerFlags, timerVars, now, told, failureVars, course>>

ResetLockout ==
  /\ Begin("binder")
  /\ Reset(TRUE)
  /\ Goto("binder", "tellCleared", 0)
  /\ ThreadWrites("binder")
  /\ UNCHANGED <<timerFlags, timerVars, now, told, failureVars>>

TellCleared ==
  /\ pc["binder"] = "tellCleared"
  /\ told' = "NONE"
  /\ Goto("binder", "abort", 0)
  /\ ThreadWrites("binder")
  /\ UNCHANGED <<trackerVars, timerFlags, timerVars, now, failureVars>>

-------------------------------------------------------------------------------
(* LockoutTracker::getMode, on either thread *)

\* Each step of it that only reads, or goes on from what was read.
Reads == UNCHANGED <<trackerVars, timerFlags, timerVars, now, told, failureVars, course>>

ReadMode(t) ==
  /\ pc[t] = "mode"
  /\ Goto(t, IF mCurrentMode = "TIMED" THEN "start" ELSE "return", 0)
  /\ Reads

ReadStart(t) ==
  /\ pc[t] = "start"
  /\ Goto(t, "elapsed", mLockoutTimedStart)
  /\ Reads

TestElapsed(t) ==
  /\ pc[t] = "elapsed"
  /\ Goto(t, IF HasElapsed(reg[t], now) THEN "expire" ELSE "return", 0)
  /\ Reads

ExpireMode(t) ==
  /\ pc[t] = "expire"
  /\ Expire
  /\ Goto(t, "return", 0)
  /\ ThreadWrites(t)
  /\ UNCHANGED <<timerFlags, timerVars, now, told, failureVars>>

\* It returns mCurrentMode as it is now, and checkSensorLockout branches on that.
ReturnMode(t) ==
  /\ pc[t] = "return"
  /\ Goto(t, CASE mCurrentMode = "NONE" -> "idle"
               [] mCurrentMode = "TIMED" -> "timeLeft"
               [] mCurrentMode = "PERMANENT" -> "permanent", 0)
  /\ Reads

-------------------------------------------------------------------------------
(* LockoutTracker::getLockoutTimeLeft, on either thread *)

TestStart(t) ==
  /\ pc[t] = "timeLeft"
  /\ Goto(t, IF mLockoutTimedStart > 0 THEN "clock" ELSE "report", 0)
  /\ Reads

ReadClock(t) ==
  /\ pc[t] = "clock"
  /\ Goto(t, "left", now)
  /\ Reads

\* Mutant: the elapsed time is not taken off.
ComputeLeftWhole(t) ==
  /\ pc[t] = "left"
  /\ Goto(t, "report", TimedDuration)
  /\ Reads

\* A second read of mLockoutTimedStart.
ComputeLeft(t) ==
  /\ pc[t] = "left"
  /\ Goto(t, "report", TimedDuration - (reg[t] - mLockoutTimedStart))
  /\ Reads

-------------------------------------------------------------------------------
(* Session::checkSensorLockout, on either thread *)

\* Mutant: the permanent lockout is found but the timer is left to run.
TellPermanentOnly(t) ==
  /\ pc[t] = "permanent"
  /\ told' = "PERMANENT"
  /\ Goto(t, "idle", 0)
  /\ ThreadWrites(t)
  /\ UNCHANGED <<trackerVars, timerFlags, timerVars, now, failureVars>>

TellPermanent(t) ==
  /\ pc[t] = "permanent"
  /\ told' = "PERMANENT"
  /\ Goto(t, "abort", 0)
  /\ ThreadWrites(t)
  /\ UNCHANGED <<trackerVars, timerFlags, timerVars, now, failureVars>>

Report(t) ==
  /\ pc[t] = "report"
  /\ told' = "TIMED"
  /\ Goto(t, "decide", reg[t])
  /\ ThreadWrites(t)
  /\ UNCHANGED <<trackerVars, timerFlags, timerVars, now, failureVars>>

\* Mutant: the started flag is not looked at.
DecideAlways(t) ==
  /\ pc[t] = "decide"
  /\ Goto(t, "spawn", reg[t])
  /\ Reads

DecideTimer(t) ==
  /\ pc[t] = "decide"
  /\ Goto(t, IF mIsLockoutTimerStarted THEN "idle" ELSE "spawn", reg[t])
  /\ Reads

\* startLockoutTimer: the flags are set on either side of the detached thread,
\* which sleeps for timeLeft (not at all if that is not positive).
SpawnTimer(t) ==
  /\ pc[t] = "spawn"
  /\ mIsLockoutTimerAborted' = FALSE
  /\ \E i \in Timers :
       /\ timer[i] = "none"
       /\ timer' = [timer EXCEPT ![i] = "sleeping"]
       /\ deadline' = [deadline EXCEPT ![i] = now + reg[t]]
  /\ Goto(t, "setStarted", 0)
  /\ ThreadWrites(t)
  /\ UNCHANGED <<trackerVars, mIsLockoutTimerStarted, now, told, failureVars>>

SetStarted(t) ==
  /\ pc[t] = "setStarted"
  /\ mIsLockoutTimerStarted' = TRUE
  /\ Goto(t, "idle", 0)
  /\ ThreadWrites(t)
  /\ UNCHANGED <<trackerVars, mIsLockoutTimerAborted, timerVars, now, told, failureVars>>

\* The last statement of resetLockout and of the permanent branch.
AbortTimer(t) ==
  /\ pc[t] = "abort"
  /\ mIsLockoutTimerAborted' = TRUE
  /\ Goto(t, "idle", 0)
  /\ ThreadWrites(t)
  /\ UNCHANGED <<trackerVars, mIsLockoutTimerStarted, timerVars, now, told, failureVars>>

-------------------------------------------------------------------------------
(* Session::lockoutTimerExpired, on a timer thread *)

TimerGoto(i, next) ==
  /\ timer' = [timer EXCEPT ![i] = next]
  /\ deadline' = [deadline EXCEPT ![i] = 0]

\* The sleep is over, and the test of mIsLockoutTimerAborted.
TimerWakes(i) ==
  /\ timer[i] = "sleeping"
  /\ now >= deadline[i]
  /\ TimerGoto(i, IF mIsLockoutTimerAborted THEN "finishing" ELSE "clearing")
  /\ UNCHANGED <<trackerVars, timerFlags, threadVars, now, told, failureVars, course>>

\* clearLockout(false), its two statements.
TimerClears(i) ==
  /\ timer[i] = "clearing"
  /\ Reset(FALSE)
  /\ TimerGoto(i, "telling")
  /\ TimerWrites(i)
  /\ UNCHANGED <<timerFlags, threadVars, now, told, failureVars>>

\* Mutant: the timer resets the tracker and tells nobody.
TimerTellsNobody(i) ==
  /\ timer[i] = "telling"
  /\ TimerGoto(i, "finishing")
  /\ TimerWrites(i)
  /\ UNCHANGED <<trackerVars, timerFlags, threadVars, now, told, failureVars>>

TimerTells(i) ==
  /\ timer[i] = "telling"
  /\ told' = "NONE"
  /\ TimerGoto(i, "finishing")
  /\ TimerWrites(i)
  /\ UNCHANGED <<trackerVars, timerFlags, threadVars, now, failureVars>>

TimerFinishes(i) ==
  /\ timer[i] = "finishing"
  /\ mIsLockoutTimerStarted' = FALSE
  /\ mIsLockoutTimerAborted' = FALSE
  /\ TimerGoto(i, "none")
  /\ TimerWrites(i)
  /\ UNCHANGED <<trackerVars, threadVars, now, told, failureVars>>

-------------------------------------------------------------------------------
GetMode(t) ==
  ReadMode(t) \/ ReadStart(t) \/ TestElapsed(t) \/ ExpireMode(t) \/ ReturnMode(t)

GetLockoutTimeLeft(t) == TestStart(t) \/ ReadClock(t) \/ ComputeLeft(t)

StartLockoutTimer(t) == DecideTimer(t) \/ SpawnTimer(t) \/ SetStarted(t)

Check(t) ==
  \/ GetMode(t) \/ TellPermanent(t) \/ AbortTimer(t)
  \/ GetLockoutTimeLeft(t) \/ Report(t) \/ StartLockoutTimer(t)

VendorContinues == CountFailure \/ ReadStampClock \/ StampStart \/ Check("vendor")

BinderContinues == TellCleared \/ Check("binder")

TimerRuns(i) ==
  TimerWakes(i) \/ TimerClears(i) \/ TimerTells(i) \/ TimerFinishes(i)

Next ==
  \/ AuthSucceeded \/ AuthFailed \/ OnPointerDown \/ ResetLockout
  \/ VendorContinues \/ BinderContinues
  \/ \E i \in Timers : TimerRuns(i)
  \/ Tick

Spec == Init /\ [][Next]_vars

\* Handlers run on, time passes, and a timer whose sleep is over gets to run.
FairSpec ==
  /\ Spec
  /\ WF_vars(VendorContinues)
  /\ WF_vars(BinderContinues)
  /\ \A i \in Timers : WF_vars(TimerRuns(i))
  /\ WF_vars(Tick)

-------------------------------------------------------------------------------
(* Properties. Those that speak of course hold until a thread has written in *)
(* the middle of another's handler: nothing in the code keeps it from that.  *)

\* Whatever overlaps, a permanent lockout takes PermanentThreshold failures
\* and a timed one TimedThreshold.
LockoutIsEarned ==
  /\ mCurrentMode = "TIMED" => failures >= TimedThreshold
  /\ mCurrentMode = "PERMANENT" => failures >= PermanentThreshold

\* Whatever overlaps, a timed lockout is reported only within TimedDuration of
\* a failure, and with no more than that left, give or take the time the handlers
\* take; and undisturbed the time left is negative by no more than that.
\* (getMode and getLockoutTimeLeft, which read the start and the clock twice)
ReportsAreCurrent ==
  \A t \in Threads :
    pc[t] = "decide" =>
      /\ now - lastFailure <= TimedDuration + 2 * HandlerTime
      /\ reg[t] <= TimedDuration + HandlerTime
      /\ course = "serial" => reg[t] \in -HandlerTime .. TimedDuration

\* Whatever overlaps, no timer that sleeps on will do so for more than
\* TimedDuration after the last failure, give or take as much.
\* (startLockoutTimer)
SleepsAreBounded ==
  \A i \in Timers :
    timer[i] = "sleeping" /\ deadline[i] > now
      => deadline[i] - lastFailure <= TimedDuration + 2 * HandlerTime

\* The two flags are all that is known of the detached timers, and undisturbed
\* they are right: between handlers mIsLockoutTimerStarted says whether a timer
\* is pending, and there is never a second. (startLockoutTimer,
\* lockoutTimerExpired)
OneTimer ==
  course = "serial" /\ Quiet =>
    /\ mIsLockoutTimerStarted <=> Pending # {}
    /\ \A i, j \in Pending : i = j

\* Undisturbed, a permanent lockout ends only with the attempt counter back at
\* zero: by a successful authentication or resetLockout, never by a timer that an
\* earlier timed lockout left behind.
PermanentSticky ==
  [][course' = "serial" /\ mFailedCount >= PermanentThreshold
       => (mCurrentMode = "PERMANENT" /\ mCurrentMode' # "PERMANENT"
             => mFailedCount' = 0)]_vars

\* Undisturbed, the framework is never unaware of a lockout after the first
\* failure: between handlers, what it was last told agrees with the tracker
\* whenever the tracker is locked.
FrameworkKnows ==
  course = "serial" /\ Quiet /\ failures > 0 /\ mCurrentMode # "NONE"
    => told = mCurrentMode

\* Undisturbed, the session's lockout is the one LockoutPolicy promises: no step
\* that reports or ends a lockout acts on a mode that has changed since it was
\* looked at. (checkSensorLockout, clearLockout, lockoutTimerExpired)
Policy == INSTANCE LockoutPolicy WITH attempts <- mFailedCount, mode <- mCurrentMode
ImplementsLockoutPolicy == Policy!Spec

\* Undisturbed, a timer thread is not over before the framework knows of the end of
\* its timed lockout, unless the timer was aborted. (lockoutTimerExpired)
TimerEndsLockout ==
  \A i \in Timers :
    course = "serial" /\ timer[i] = "finishing" /\ told = "TIMED" => mIsLockoutTimerAborted

\* Whatever overlaps, a timer that nobody aborts ends the framework's timed lockout:
\* it is told so once the sleep is over.
TimerDelivers ==
  \A i \in Timers :
    timer[i] = "sleeping" /\ told = "TIMED" ~> told # "TIMED" \/ mIsLockoutTimerAborted

-------------------------------------------------------------------------------
(* Inductive invariants, whatever overlaps *)

\* A handler keeps to its time.
BeganInv ==
  \A t \in Busy : began[t] <= now /\ now <= began[t] + HandlerTime

\* The counter never runs ahead of the failures. (InitModes: NONE)
EarnedInv ==
  /\ mFailedCount <= failures
  /\ pc["vendor"] = "count" => reg["vendor"] < failures
  /\ LockoutIsEarned

\* When a failure locks for a time, the vendor thread still has its stamp to write.
StampInv ==
  /\ lastFailure <= now
  /\ mLockoutTimedStart <= now
  /\ mLockoutTimedStart <= lastFailure + HandlerTime
  /\ pc["vendor"] \in {"count", "stampClock", "stamp"} => began["vendor"] = lastFailure
  /\ pc["vendor"] = "stamp" => reg["vendor"] <= now

\* How old the failure is on which getMode will return TIMED, or has.
RecentInv ==
  \A t \in Threads :
    /\ pc[t] = "elapsed" => reg[t] <= lastFailure + HandlerTime
    /\ pc[t] = "return" /\ mCurrentMode = "TIMED"
         => began[t] <= lastFailure + HandlerTime + TimedDuration
    /\ pc[t] \in {"timeLeft", "clock", "left", "report", "decide"}
         => began[t] <= lastFailure + HandlerTime + TimedDuration

\* How long the timer may sleep that a handler may yet start.
LeftInv ==
  \A t \in Threads :
    /\ pc[t] = "left" => began[t] <= reg[t] /\ reg[t] <= now
    /\ pc[t] \in {"report", "decide"} => reg[t] <= TimedDuration + HandlerTime
    /\ pc[t] \in {"report", "decide", "spawn"} /\ reg[t] > 0
         => reg[t] + began[t] <= lastFailure + HandlerTime + TimedDuration

\* Undisturbed, what getMode has read still holds in getLockoutTimeLeft.
FreshInv ==
  course = "serial" =>
    \A t \in Threads :
      /\ pc[t] = "elapsed" => reg[t] = mLockoutTimedStart
      /\ pc[t] = "return" /\ mCurrentMode = "TIMED"
           => began[t] <= mLockoutTimedStart + TimedDuration
      /\ pc[t] \in {"timeLeft", "clock", "left"}
           => began[t] <= mLockoutTimedStart + TimedDuration
      /\ pc[t] = "left" => mLockoutTimedStart <= reg[t]
      /\ pc[t] \in {"report", "decide"} => reg[t] \in -HandlerTime .. TimedDuration

OverlapInv ==
  /\ TypeOK /\ BeganInv /\ EarnedInv /\ StampInv /\ RecentInv /\ LeftInv /\ FreshInv
  /\ SleepsAreBounded

-------------------------------------------------------------------------------
(* Inductive invariants of an undisturbed course *)

TimedPcs == {"start", "elapsed", "expire", "timeLeft", "clock", "left", "report",
             "decide", "spawn", "setStarted", "stampClock", "stamp"}

\* On its way to find or tell a permanent lockout and abort the timer.
AbortPcs == {"count", "mode", "return", "permanent", "abort"}

\* The started flag and the timers, the middle of startLockoutTimer included.
TimerInv ==
  /\ \A i, j \in Pending : i = j
  /\ \A t \in Threads :
       /\ pc[t] = "spawn" => ~mIsLockoutTimerStarted
       /\ pc[t] = "setStarted" => Pending # {}
  /\ (\A t \in Threads : pc[t] # "setStarted") =>
       (mIsLockoutTimerStarted <=> Pending # {})

\* What each handler knows of the mode while it runs, and: once a permanent
\* lockout has been seen by checkSensorLockout, a timer that is left is aborted.
ModeInv ==
  /\ \A t \in Threads :
       /\ pc[t] \in TimedPcs => mCurrentMode = "TIMED"
       /\ pc[t] = "permanent" => mCurrentMode = "PERMANENT"
       /\ pc[t] = "abort" => mCurrentMode # "TIMED"
       /\ pc[t] = "tellCleared" => mCurrentMode = "NONE"
  /\ \A i \in Timers : timer[i] = "telling" => mCurrentMode = "NONE"
  /\ mCurrentMode = "PERMANENT" /\ (\A t \in Threads : pc[t] \notin AbortPcs)
       => /\ Pending = {} \/ mIsLockoutTimerAborted
          /\ \A i \in Timers : timer[i] # "clearing"

\* No increment is lost.
CountInv == pc["vendor"] = "count" => reg["vendor"] = mFailedCount

\* Between the failure and the report the framework may be behind.
BehindPcs == {"count", "stampClock", "stamp", "mode", "start", "elapsed", "expire",
              "return", "permanent", "timeLeft", "clock", "left", "report"}

ToldInv ==
  failures > 0 /\ mCurrentMode # "NONE" /\ (\A t \in Threads : pc[t] \notin BehindPcs)
    => told = mCurrentMode

CourseInv == TimerInv /\ ModeInv /\ CountInv /\ ToldInv /\ TimerEndsLockout

SerialInv == TypeOK /\ (course = "serial" => CourseInv)
===============================================================================
