------------------------- MODULE SessionLockoutProofs -------------------------
(***************************************************************************)
(* Proofs about SessionLockout, for all thresholds, any duration and any   *)
(* set of timers, with the threads preempting each other at any step.      *)
(* OverlapInv holds whatever overlaps; SerialInv holds until a thread has  *)
(* written in the middle of another's handler.                             *)
(***************************************************************************)
EXTENDS SessionLockout, TLAPS

USE DEF Threads, Pcs, TimerPcs, LockoutModes

\* The steps of a handler that only read.
ReadStep(t) ==
  \/ ReadMode(t) \/ ReadStart(t) \/ TestElapsed(t) \/ ReturnMode(t)
  \/ TestStart(t) \/ ReadClock(t) \/ ComputeLeft(t) \/ DecideTimer(t)

\* The steps of a handler that write.
WriteStep(t) ==
  \/ ExpireMode(t) \/ TellPermanent(t) \/ Report(t)
  \/ SpawnTimer(t) \/ SetStarted(t) \/ AbortTimer(t)

\* The actions that a proof goes through, one by one.
LEMMA StepCases ==
  ASSUME [Next]_vars
  PROVE  \/ AuthSucceeded \/ AuthFailed \/ CountFailure \/ ReadStampClock \/ StampStart
         \/ OnPointerDown \/ ResetLockout \/ TellCleared
         \/ \E t \in Threads : ReadStep(t)
         \/ \E t \in Threads : WriteStep(t)
         \/ \E i \in Timers : TimerRuns(i)
         \/ Tick
         \/ UNCHANGED vars
BY DEF Next, VendorContinues, BinderContinues, Check, GetMode, GetLockoutTimeLeft,
       StartLockoutTimer, ReadStep, WriteStep

-------------------------------------------------------------------------------
(* Types *)

LEMMA TypeInit == Init => TypeOK
<1> SUFFICES ASSUME Init PROVE TypeOK
  OBVIOUS
<1>1. TrackerTypeOK
  BY TrackerAssumption DEF Init, TrackerInit, TrackerTypeOK
<1>2. mIsLockoutTimerStarted \in BOOLEAN /\ mIsLockoutTimerAborted \in BOOLEAN
  BY Zenon DEF Init
<1>3. /\ pc \in [Threads -> Pcs]
      /\ reg \in [Threads -> Int]
      /\ timer \in [Timers -> TimerPcs]
      /\ deadline \in [Timers -> Int]
  BY DEF Init
<1>4. began \in [Threads -> Nat]
  <2>1. 0 \in Nat
    OBVIOUS
  <2>2. QED
    BY <2>1, Zenon DEF Init
<1>5. QED
  BY <1>1, <1>2, <1>3, <1>4, SessionAssumption DEF Init, TypeOK

\* Where a thread goes, and that nothing else of the threads changes.
LEMMA GotoType ==
  ASSUME TypeOK, NEW t \in Threads, NEW next \in Pcs, NEW value \in Int,
         Goto(t, next, value)
  PROVE  /\ pc' \in [Threads -> Pcs]
         /\ reg' \in [Threads -> Int]
         /\ began' \in [Threads -> Nat]
BY DEF TypeOK, Goto

LEMMA CourseType ==
  ASSUME TypeOK,
         \/ \E t \in Threads : ThreadWrites(t)
         \/ \E i \in Timers : TimerWrites(i)
         \/ UNCHANGED course
  PROVE  course' \in {"serial", "disturbed"}
BY DEF TypeOK, ThreadWrites, TimerWrites

LEMMA ReadType == ASSUME TypeOK, NEW t \in Threads, ReadStep(t) PROVE TypeOK'
<1> USE DEF TypeOK, TrackerTypeOK
<1>1. Reads
  BY DEF ReadStep, ReadMode, ReadStart, TestElapsed, ReturnMode, TestStart, ReadClock,
         ComputeLeft, DecideTimer
<1>2. \E next \in Pcs, value \in Int : Goto(t, next, value)
  <2>1. CASE ReadMode(t)
    BY <2>1 DEF ReadMode
  <2>2. CASE ReadStart(t)
    BY <2>2 DEF ReadStart
  <2>3. CASE TestElapsed(t)
    BY <2>3 DEF TestElapsed
  <2>4. CASE ReturnMode(t)
    BY <2>4 DEF ReturnMode
  <2>5. CASE TestStart(t)
    BY <2>5 DEF TestStart
  <2>6. CASE ReadClock(t)
    BY <2>6 DEF ReadClock
  <2>7. CASE ComputeLeft(t)
    <3>1. TimedDuration - (reg[t] - mLockoutTimedStart) \in Int
      BY TrackerAssumption
    <3>2. QED
      BY <2>7, <3>1 DEF ComputeLeft
  <2>8. CASE DecideTimer(t)
    BY <2>8 DEF DecideTimer
  <2>9. QED
    BY <2>1, <2>2, <2>3, <2>4, <2>5, <2>6, <2>7, <2>8 DEF ReadStep
<1>3. /\ pc' \in [Threads -> Pcs]
      /\ reg' \in [Threads -> Int]
      /\ began' \in [Threads -> Nat]
  BY <1>2, GotoType
<1>4. QED
  BY <1>1, <1>3 DEF Reads, trackerVars, timerFlags, timerVars, failureVars

LEMMA WriteType == ASSUME TypeOK, NEW t \in Threads, WriteStep(t) PROVE TypeOK'
<1> USE DEF TypeOK, TrackerTypeOK, trackerVars, timerFlags, timerVars, failureVars
<1>1. course' \in {"serial", "disturbed"}
  BY CourseType DEF WriteStep, ExpireMode, TellPermanent, Report, SpawnTimer, SetStarted,
                    AbortTimer
<1>2. \E next \in Pcs, value \in Int : Goto(t, next, value)
  BY DEF WriteStep, ExpireMode, TellPermanent, Report, SpawnTimer, SetStarted, AbortTimer
<1>3. /\ pc' \in [Threads -> Pcs]
      /\ reg' \in [Threads -> Int]
      /\ began' \in [Threads -> Nat]
  BY <1>2, GotoType
<1>4. CASE ExpireMode(t)
  BY <1>1, <1>3, <1>4 DEF ExpireMode, Expire
<1>5. CASE TellPermanent(t) \/ Report(t)
  BY <1>1, <1>3, <1>5 DEF TellPermanent, Report
<1>6. CASE SpawnTimer(t)
  <2>1. timer' \in [Timers -> TimerPcs] /\ deadline' \in [Timers -> Int]
    BY <1>6 DEF SpawnTimer
  <2>2. mIsLockoutTimerAborted' \in BOOLEAN
    BY <1>6 DEF SpawnTimer
  <2>3. QED
    BY <1>1, <1>3, <1>6, <2>1, <2>2 DEF SpawnTimer
<1>7. CASE SetStarted(t)
  BY <1>1, <1>3, <1>7 DEF SetStarted
<1>8. CASE AbortTimer(t)
  BY <1>1, <1>3, <1>8 DEF AbortTimer
<1>9. QED
  BY <1>4, <1>5, <1>6, <1>7, <1>8 DEF WriteStep

LEMMA TimerType == ASSUME TypeOK, NEW i \in Timers, TimerRuns(i) PROVE TypeOK'
<1>1. course' \in {"serial", "disturbed"}
  <2>1. TimerWrites(i) \/ UNCHANGED course
    BY DEF TimerRuns, TimerWakes, TimerClears, TimerTells, TimerFinishes
  <2>2. QED
    BY <2>1, CourseType
<1> USE DEF TypeOK, TrackerTypeOK, trackerVars, timerFlags, threadVars, failureVars
<1>2. timer' \in [Timers -> TimerPcs] /\ deadline' \in [Timers -> Int]
  <2>1. \E next \in TimerPcs : TimerGoto(i, next)
    BY DEF TimerRuns, TimerWakes, TimerClears, TimerTells, TimerFinishes
  <2>2. QED
    BY <2>1 DEF TimerGoto
<1>3. CASE TimerWakes(i)
  BY <1>1, <1>2, <1>3 DEF TimerWakes
<1>4. CASE TimerClears(i)
  BY <1>1, <1>2, <1>4 DEF TimerClears, Reset
<1>5. CASE TimerTells(i)
  BY <1>1, <1>2, <1>5 DEF TimerTells
<1>6. CASE TimerFinishes(i)
  BY <1>1, <1>2, <1>6 DEF TimerFinishes
<1>7. QED
  BY <1>3, <1>4, <1>5, <1>6 DEF TimerRuns

LEMMA TypeNext == TypeOK /\ [Next]_vars => TypeOK'
<1> SUFFICES ASSUME TypeOK, [Next]_vars PROVE TypeOK'
  OBVIOUS
<1> USE TrackerAssumption, SessionAssumption
<1> USE DEF TypeOK, TrackerTypeOK, trackerVars, timerFlags, threadVars, timerVars,
            failureVars, Begin
<1>1. CASE AuthSucceeded
  BY <1>1, CourseType DEF AuthSucceeded, Reset
<1>2. CASE AuthFailed
  BY <1>2, GotoType DEF AuthFailed
<1>3. CASE CountFailure
  <2>1. /\ pc' \in [Threads -> Pcs]
        /\ reg' \in [Threads -> Int]
        /\ began' \in [Threads -> Nat]
    BY <1>3, GotoType DEF CountFailure
  <2>2. mFailedCount' \in Int /\ mCurrentMode' \in LockoutModes
    <3>1. reg["vendor"] + 1 \in Int
      OBVIOUS
    <3>2. QED
      BY <1>3, <3>1 DEF CountFailure, AddFailedAttempt
  <2>3. QED
    BY <1>3, <2>1, <2>2, CourseType DEF CountFailure, AddFailedAttempt
<1>4. CASE ReadStampClock
  BY <1>4, GotoType DEF ReadStampClock
<1>5. CASE StampStart
  BY <1>5, GotoType, CourseType DEF StampStart, Stamp
<1>6. CASE OnPointerDown
  BY <1>6, GotoType DEF OnPointerDown
<1>7. CASE ResetLockout
  BY <1>7, GotoType, CourseType DEF ResetLockout, Reset
<1>8. CASE TellCleared
  BY <1>8, GotoType, CourseType DEF TellCleared
<1>9. CASE Tick
  BY <1>9 DEF Tick
<1>10. CASE UNCHANGED vars
  BY <1>10 DEF vars
<1>11. QED
  BY StepCases, ReadType, WriteType, TimerType,
     <1>1, <1>2, <1>3, <1>4, <1>5, <1>6, <1>7, <1>8, <1>9, <1>10

\* Every variable of a session stays in its type.
THEOREM SessionTypeCorrect == Spec => []TypeOK
BY TypeInit, TypeNext, PTL DEF Spec

-------------------------------------------------------------------------------
(* How a step moves its thread *)

\* A step of t leaves the others where they are, and t its beginning.
Moves(t) ==
  /\ \A u \in Threads : u # t => pc'[u] = pc[u] /\ reg'[u] = reg[u] /\ began'[u] = began[u]
  /\ pc[t] # "idle" /\ pc'[t] # "idle" => began'[t] = began[t]

LEMMA GotoMoves ==
  ASSUME TypeOK, NEW t \in Threads, NEW next, NEW value, Goto(t, next, value)
  PROVE  /\ Moves(t)
         /\ pc'[t] = next
         /\ next # "idle" => reg'[t] = value
         /\ next # "idle" /\ pc[t] = "idle" => began'[t] = now
BY DEF TypeOK, Goto, Moves

LEMMA ReadMoves ==
  ASSUME TypeOK, NEW t \in Threads, ReadStep(t)
  PROVE  Moves(t) /\ pc[t] # "idle" /\ Reads
BY GotoMoves DEF ReadStep, ReadMode, ReadStart, TestElapsed, ReturnMode, TestStart,
                 ReadClock, ComputeLeft, DecideTimer

LEMMA WriteMoves ==
  ASSUME TypeOK, NEW t \in Threads, WriteStep(t)
  PROVE  Moves(t) /\ pc[t] # "idle" /\ UNCHANGED <<now, failureVars>>
BY GotoMoves DEF WriteStep, ExpireMode, TellPermanent, Report, SpawnTimer, SetStarted,
                 AbortTimer

LEMMA TimerMoves ==
  ASSUME NEW i \in Timers, TimerRuns(i)
  PROVE  UNCHANGED <<threadVars, now, failureVars>>
BY DEF TimerRuns, TimerWakes, TimerClears, TimerTells, TimerFinishes

\* The steps of the vendor thread's own.
VendorStep == CountFailure \/ ReadStampClock \/ StampStart

LEMMA VendorMoves ==
  ASSUME TypeOK, VendorStep
  PROVE  Moves("vendor") /\ pc["vendor"] # "idle" /\ UNCHANGED <<now, failureVars>>
BY GotoMoves DEF VendorStep, CountFailure, ReadStampClock, StampStart

LEMMA BinderMoves ==
  ASSUME TypeOK, TellCleared
  PROVE  Moves("binder") /\ pc["binder"] # "idle" /\ UNCHANGED <<now, failureVars>>
BY GotoMoves DEF TellCleared

LEMMA BeginMoves ==
  ASSUME TypeOK
  PROVE  /\ AuthFailed => Moves("vendor") /\ pc["vendor"] = "idle" /\ began'["vendor"] = now
         /\ OnPointerDown \/ ResetLockout
              => Moves("binder") /\ pc["binder"] = "idle" /\ began'["binder"] = now
         /\ AuthFailed \/ OnPointerDown \/ ResetLockout => now' = now
<1>1. ASSUME AuthFailed
      PROVE  Moves("vendor") /\ pc["vendor"] = "idle" /\ began'["vendor"] = now /\ now' = now
  <2>1. pc["vendor"] = "idle" /\ Goto("vendor", "count", mFailedCount) /\ now' = now
    BY <1>1 DEF AuthFailed, Begin
  <2>2. QED
    BY <2>1, GotoMoves
<1>2. ASSUME OnPointerDown \/ ResetLockout
      PROVE  Moves("binder") /\ pc["binder"] = "idle" /\ began'["binder"] = now /\ now' = now
  <2>1. /\ pc["binder"] = "idle" /\ now' = now
        /\ Goto("binder", "mode", 0) \/ Goto("binder", "tellCleared", 0)
    BY <1>2 DEF OnPointerDown, ResetLockout, Begin
  <2>2. QED
    BY <2>1, GotoMoves
<1>3. QED
  BY <1>1, <1>2

LEMMA BinderGoes ==
  ASSUME TypeOK, OnPointerDown \/ ResetLockout \/ TellCleared
  PROVE  pc'["binder"] \in {"mode", "tellCleared", "abort"}
<1>1. \/ Goto("binder", "mode", 0) \/ Goto("binder", "tellCleared", 0)
      \/ Goto("binder", "abort", 0)
  BY DEF OnPointerDown, ResetLockout, TellCleared
<1>2. QED
  BY <1>1, GotoMoves

-------------------------------------------------------------------------------
(* What holds whatever overlaps *)

LEMMA BeganInit == Init => BeganInv
BY DEF Init, BeganInv, Busy

LEMMA BeganNext == TypeOK /\ BeganInv /\ [Next]_vars => BeganInv'
<1> SUFFICES ASSUME TypeOK, BeganInv, [Next]_vars PROVE BeganInv'
  OBVIOUS
<1> USE SessionAssumption DEF BeganInv, Busy, Moves
<1>1. ASSUME NEW t \in Threads, Moves(t), pc[t] # "idle", now' = now PROVE BeganInv'
  BY <1>1
<1>2. ASSUME NEW t \in Threads, Moves(t), began'[t] = now, now' = now PROVE BeganInv'
  BY <1>2 DEF TypeOK
<1>3. CASE AuthSucceeded
  BY <1>3 DEF AuthSucceeded, threadVars
<1>4. CASE Tick
  BY <1>4 DEF Tick, threadVars, TypeOK
<1>5. CASE UNCHANGED vars
  BY <1>5 DEF vars, threadVars
<1>6. ASSUME NEW i \in Timers, TimerRuns(i) PROVE BeganInv'
  BY <1>6, TimerMoves DEF threadVars
<1>7. CASE AuthFailed \/ OnPointerDown \/ ResetLockout
  BY <1>2, <1>7, BeginMoves
<1>8. CASE VendorStep \/ TellCleared
  BY <1>1, <1>8, VendorMoves, BinderMoves
<1>9. ASSUME NEW t \in Threads, ReadStep(t) \/ WriteStep(t) PROVE BeganInv'
  <2>1. Moves(t) /\ pc[t] # "idle" /\ now' = now
    BY <1>9, ReadMoves, WriteMoves DEF Reads
  <2>2. QED
    BY <2>1, <1>1
<1>10. QED
  BY StepCases, <1>3, <1>4, <1>5, <1>6, <1>7, <1>8, <1>9 DEF VendorStep

LEMMA EarnedInit == ASSUME InitModes \subseteq {"NONE"} PROVE Init => EarnedInv
BY DEF Init, TrackerInit, EarnedInv, LockoutIsEarned

LEMMA EarnedNext == TypeOK /\ EarnedInv /\ [Next]_vars => EarnedInv'
<1> SUFFICES ASSUME TypeOK, EarnedInv, [Next]_vars PROVE EarnedInv'
  OBVIOUS
<1> USE TrackerAssumption DEF EarnedInv, LockoutIsEarned, trackerVars, failureVars
<1> failures \in Nat /\ mFailedCount \in Int /\ reg["vendor"] \in Int
  BY SessionAssumption DEF TypeOK, TrackerTypeOK
<1>1. CASE AuthFailed
  BY <1>1, GotoMoves DEF AuthFailed, TypeOK
<1>2. CASE CountFailure
  <2>1. reg["vendor"] + 1 <= failures /\ failures' = failures
    BY <1>2 DEF CountFailure
  <2>2. pc'["vendor"] # "count" /\ mFailedCount' <= failures'
    BY <1>2, <2>1, GotoMoves DEF CountFailure, AddFailedAttempt
  <2>3. mCurrentMode' = "TIMED" => failures' >= TimedThreshold
    BY <1>2, <2>1 DEF CountFailure, AddFailedAttempt, LocksForATime
  <2>4. mCurrentMode' = "PERMANENT" => failures' >= PermanentThreshold
    BY <1>2, <2>1 DEF CountFailure, AddFailedAttempt, LocksForATime
  <2>5. QED
    BY <2>2, <2>3, <2>4
<1>3. CASE ReadStampClock
  BY <1>3, GotoMoves DEF ReadStampClock
<1>4. CASE StampStart
  BY <1>4, GotoMoves DEF StampStart, Stamp
<1>5. CASE AuthSucceeded
  BY <1>5 DEF AuthSucceeded, Reset, threadVars
<1>6. CASE OnPointerDown \/ ResetLockout \/ TellCleared
  BY <1>6, GotoMoves DEF OnPointerDown, ResetLockout, TellCleared, Reset, Moves
<1>7. ASSUME NEW t \in Threads, ReadStep(t) PROVE EarnedInv'
  <2>1. pc'["vendor"] = "count" => pc["vendor"] = "count" /\ reg'["vendor"] = reg["vendor"]
    BY <1>7, GotoMoves
       DEF ReadStep, ReadMode, ReadStart, TestElapsed, ReturnMode, TestStart, ReadClock,
           ComputeLeft, DecideTimer, Moves, TypeOK, TrackerTypeOK
  <2>2. QED
    BY <1>7, <2>1, ReadMoves DEF Reads
<1>8. ASSUME NEW t \in Threads, WriteStep(t) PROVE EarnedInv'
  <2>1. pc'["vendor"] = "count" => pc["vendor"] = "count" /\ reg'["vendor"] = reg["vendor"]
    BY <1>8, GotoMoves
       DEF WriteStep, ExpireMode, TellPermanent, Report, SpawnTimer, SetStarted, AbortTimer,
           Moves
  <2>2. mFailedCount' = mFailedCount /\ mCurrentMode' \in {mCurrentMode, "NONE"}
    BY <1>8 DEF WriteStep, ExpireMode, Expire, TellPermanent, Report, SpawnTimer, SetStarted,
                AbortTimer
  <2>3. QED
    BY <1>8, <2>1, <2>2, WriteMoves
<1>9. ASSUME NEW i \in Timers, TimerRuns(i) PROVE EarnedInv'
  <2>1. mFailedCount' = mFailedCount /\ mCurrentMode' \in {mCurrentMode, "NONE"}
    BY <1>9 DEF TimerRuns, TimerWakes, TimerClears, TimerTells, TimerFinishes, Reset
  <2>2. QED
    BY <1>9, <2>1, TimerMoves DEF threadVars
<1>10. CASE Tick \/ UNCHANGED vars
  BY <1>10 DEF Tick, vars, threadVars
<1>11. QED
  BY StepCases, <1>1, <1>2, <1>3, <1>4, <1>5, <1>6, <1>7, <1>8, <1>9, <1>10

\* A lockout is earned: however the handlers interleave and whatever increments
\* of mFailedCount are lost, a session is locked for a time only after
\* TimedThreshold failures and for good only after PermanentThreshold.
THEOREM LockoutsAreEarned ==
  ASSUME InitModes \subseteq {"NONE"} PROVE Spec => []LockoutIsEarned
<1>1. EarnedInv => LockoutIsEarned
  BY DEF EarnedInv
<1>2. QED
  BY <1>1, SessionTypeCorrect, EarnedInit, EarnedNext, PTL DEF Spec

\* What the uninitialised mLockoutTimedStart holds is no time on the clock.
NoTime == \A start \in InitStarts : start <= 0

LEMMA StampInit == ASSUME NoTime PROVE Init => StampInv
<1> SUFFICES ASSUME Init PROVE StampInv
  OBVIOUS
<1>1. mLockoutTimedStart \in Int /\ mLockoutTimedStart <= 0
  BY TrackerAssumption DEF Init, TrackerInit, NoTime
<1>2. QED
  BY <1>1, SessionAssumption DEF Init, StampInv

LEMMA StampNext == TypeOK /\ BeganInv /\ StampInv /\ [Next]_vars => StampInv'
<1> SUFFICES ASSUME TypeOK, BeganInv, StampInv, [Next]_vars PROVE StampInv'
  OBVIOUS
<1> USE SessionAssumption DEF StampInv, trackerVars, failureVars
<1>0. /\ now \in Nat /\ lastFailure \in Nat /\ mLockoutTimedStart \in Int
      /\ reg["vendor"] \in Int /\ began["vendor"] \in Nat
  BY DEF TypeOK, TrackerTypeOK
<1>1. CASE AuthFailed
  <2>1. /\ pc'["vendor"] = "count" /\ began'["vendor"] = now
        /\ lastFailure' = now /\ now' = now /\ mLockoutTimedStart' = mLockoutTimedStart
    BY <1>1, GotoMoves DEF AuthFailed, Begin
  <2>2. QED
    BY <1>0, <2>1
<1>2. CASE CountFailure
  <2>1. /\ pc'["vendor"] \in {"stampClock", "mode"} /\ began'["vendor"] = began["vendor"]
        /\ pc["vendor"] = "count"
    BY <1>2, GotoMoves DEF CountFailure, Moves
  <2>2. UNCHANGED <<now, lastFailure, mLockoutTimedStart>>
    BY <1>2 DEF CountFailure, AddFailedAttempt
  <2>3. QED
    BY <1>0, <2>1, <2>2
<1>3. CASE ReadStampClock
  <2>1. /\ pc["vendor"] = "stampClock" /\ pc'["vendor"] = "stamp" /\ reg'["vendor"] = now
        /\ began'["vendor"] = began["vendor"]
    BY <1>3, GotoMoves DEF ReadStampClock, Moves
  <2>2. QED
    BY <1>0, <1>3, <2>1 DEF ReadStampClock
<1>4. CASE StampStart
  <2>1. pc["vendor"] = "stamp" /\ pc'["vendor"] = "mode"
    BY <1>4, GotoMoves DEF StampStart
  <2>2. mLockoutTimedStart' = reg["vendor"] /\ UNCHANGED <<now, lastFailure>>
    BY <1>4 DEF StampStart, Stamp
  <2>3. now <= lastFailure + HandlerTime
    BY <2>1 DEF BeganInv, Busy
  <2>4. QED
    BY <1>0, <2>1, <2>2, <2>3
<1>5. CASE AuthSucceeded
  BY <1>0, <1>5 DEF AuthSucceeded, Reset, threadVars
<1>6. CASE OnPointerDown \/ ResetLockout \/ TellCleared
  <2>1. Moves("binder") /\ UNCHANGED <<now, lastFailure>>
    BY <1>6, BeginMoves, BinderMoves DEF OnPointerDown, ResetLockout, TellCleared
  <2>2. mLockoutTimedStart' \in {mLockoutTimedStart, 0}
    BY <1>6 DEF OnPointerDown, ResetLockout, TellCleared, Reset
  <2>3. QED
    BY <1>0, <2>1, <2>2 DEF Moves
<1>7. ASSUME NEW t \in Threads, ReadStep(t) PROVE StampInv'
  <2>1. pc'["vendor"] \in {"count", "stampClock", "stamp"}
          => pc'["vendor"] = pc["vendor"] /\ t # "vendor"
    BY <1>7, GotoMoves
       DEF ReadStep, ReadMode, ReadStart, TestElapsed, ReturnMode, TestStart, ReadClock,
           ComputeLeft, DecideTimer, Moves, TypeOK, TrackerTypeOK
  <2>2. QED
    BY <1>0, <1>7, <2>1, ReadMoves DEF Reads, Moves
<1>8. ASSUME NEW t \in Threads, WriteStep(t) PROVE StampInv'
  <2>1. pc'["vendor"] \in {"count", "stampClock", "stamp"}
          => pc'["vendor"] = pc["vendor"] /\ t # "vendor"
    BY <1>8, GotoMoves
       DEF WriteStep, ExpireMode, TellPermanent, Report, SpawnTimer, SetStarted, AbortTimer,
           Moves
  <2>2. mLockoutTimedStart' \in {mLockoutTimedStart, 0}
    BY <1>8 DEF WriteStep, ExpireMode, Expire, TellPermanent, Report, SpawnTimer, SetStarted,
                AbortTimer
  <2>3. QED
    BY <1>0, <1>8, <2>1, <2>2, WriteMoves DEF Moves
<1>9. ASSUME NEW i \in Timers, TimerRuns(i) PROVE StampInv'
  <2>1. mLockoutTimedStart' \in {mLockoutTimedStart, 0}
    BY <1>9 DEF TimerRuns, TimerWakes, TimerClears, TimerTells, TimerFinishes, Reset
  <2>2. QED
    BY <1>0, <1>9, <2>1, TimerMoves DEF threadVars
<1>10. CASE Tick \/ UNCHANGED vars
  BY <1>0, <1>10 DEF Tick, vars, threadVars
<1>11. QED
  BY StepCases, <1>1, <1>2, <1>3, <1>4, <1>5, <1>6, <1>7, <1>8, <1>9, <1>10

LEMMA RecentInit == Init => RecentInv
BY DEF Init, RecentInv

\* Where the age of a failure comes from, one thread at a time.
Recent(t) ==
  /\ pc[t] = "elapsed" => reg[t] <= lastFailure + HandlerTime
  /\ pc[t] = "return" /\ mCurrentMode = "TIMED"
       => began[t] <= lastFailure + HandlerTime + TimedDuration
  /\ pc[t] \in {"timeLeft", "clock", "left", "report", "decide"}
       => began[t] <= lastFailure + HandlerTime + TimedDuration

LEMMA RecentStays ==
  ASSUME TypeOK, NEW t \in Threads, Recent(t), UNCHANGED <<pc[t], reg[t], began[t]>>,
         lastFailure' \in Nat, lastFailure' >= lastFailure,
         mCurrentMode' \in {mCurrentMode, "NONE", "PERMANENT"}
  PROVE  Recent(t)'
<1> USE SessionAssumption, TrackerAssumption
<1>1. reg[t] \in Int /\ began[t] \in Nat /\ lastFailure \in Nat
  BY DEF TypeOK
<1>2. QED
  BY <1>1 DEF Recent

LEMMA RecentRead ==
  ASSUME TypeOK, BeganInv, StampInv, NEW t \in Threads, Recent(t), ReadStep(t)
  PROVE  Recent(t)'
<1> USE SessionAssumption, TrackerAssumption DEF Recent
<1>1. /\ reg[t] \in Int /\ began[t] \in Nat /\ lastFailure \in Nat /\ now \in Nat
      /\ mLockoutTimedStart \in Int
  BY DEF TypeOK, TrackerTypeOK
<1>2. Moves(t) /\ pc[t] # "idle" /\ lastFailure' = lastFailure /\ mCurrentMode' = mCurrentMode
  BY ReadMoves DEF Reads, failureVars, trackerVars
<1>3. began[t] <= now
  BY <1>2 DEF BeganInv, Busy
<1>4. CASE ReadMode(t)
  BY <1>2, <1>4, GotoMoves DEF ReadMode
<1>5. CASE ReadStart(t)
  <2>1. pc'[t] = "elapsed" /\ reg'[t] = mLockoutTimedStart
    BY <1>5, GotoMoves DEF ReadStart
  <2>2. QED
    BY <1>1, <1>2, <2>1 DEF StampInv
<1>6. CASE TestElapsed(t)
  <2>1. /\ pc[t] = "elapsed" /\ pc'[t] \in {"expire", "return"}
        /\ pc'[t] = "return" => ~HasElapsed(reg[t], now)
    BY <1>6, GotoMoves DEF TestElapsed
  <2>2. pc'[t] = "return" => now <= lastFailure + HandlerTime + TimedDuration
    BY <1>1, <2>1 DEF HasElapsed
  <2>3. pc'[t] = "return" => began'[t] = began[t]
    BY <1>2 DEF Moves
  <2>4. QED
    BY <1>1, <1>2, <1>3, <2>1, <2>2, <2>3
<1>7. CASE ReturnMode(t)
  <2>1. /\ pc[t] = "return" /\ pc'[t] \in {"idle", "timeLeft", "permanent"}
        /\ pc'[t] = "timeLeft" => mCurrentMode = "TIMED"
    BY <1>7, GotoMoves DEF ReturnMode, TypeOK, TrackerTypeOK
  <2>2. QED
    BY <1>1, <1>2, <2>1 DEF Moves
<1>8. CASE TestStart(t)
  <2>1. pc[t] = "timeLeft" /\ pc'[t] \in {"clock", "report"}
    BY <1>8, GotoMoves DEF TestStart
  <2>2. QED
    BY <1>1, <1>2, <2>1 DEF Moves
<1>9. CASE ReadClock(t)
  <2>1. pc[t] = "clock" /\ pc'[t] = "left"
    BY <1>9, GotoMoves DEF ReadClock
  <2>2. QED
    BY <1>1, <1>2, <2>1 DEF Moves
<1>10. CASE ComputeLeft(t)
  <2>1. pc[t] = "left" /\ pc'[t] = "report"
    BY <1>10, GotoMoves DEF ComputeLeft
  <2>2. QED
    BY <1>1, <1>2, <2>1 DEF Moves
<1>11. CASE DecideTimer(t)
  <2>1. pc[t] = "decide" /\ pc'[t] \in {"idle", "spawn"}
    BY <1>11, GotoMoves DEF DecideTimer
  <2>2. QED
    BY <2>1
<1>12. QED
  BY <1>4, <1>5, <1>6, <1>7, <1>8, <1>9, <1>10, <1>11 DEF ReadStep

LEMMA RecentWrite ==
  ASSUME TypeOK, NEW t \in Threads, Recent(t), WriteStep(t)
  PROVE  Recent(t)'
<1>1. pc'[t] \in {"return", "abort", "decide", "setStarted", "idle"}
  BY GotoMoves
     DEF WriteStep, ExpireMode, TellPermanent, Report, SpawnTimer, SetStarted, AbortTimer
<1>2. pc'[t] = "return" => mCurrentMode' = "NONE"
  BY GotoMoves
     DEF WriteStep, ExpireMode, Expire, TellPermanent, Report, SpawnTimer, SetStarted, AbortTimer
<1>3. pc'[t] = "decide" => pc[t] = "report"
  BY GotoMoves
     DEF WriteStep, ExpireMode, TellPermanent, Report, SpawnTimer, SetStarted, AbortTimer
<1>4. began[t] \in Nat /\ lastFailure \in Nat
  BY DEF TypeOK
<1>5. QED
  BY <1>1, <1>2, <1>3, <1>4, WriteMoves DEF Recent, Moves, failureVars

LEMMA RecentNext ==
  TypeOK /\ BeganInv /\ StampInv /\ RecentInv /\ [Next]_vars => RecentInv'
<1> SUFFICES ASSUME TypeOK, BeganInv, StampInv, RecentInv, [Next]_vars,
                    NEW u \in Threads
             PROVE  Recent(u)'
  BY DEF RecentInv, Recent
<1>0. Recent(u) /\ lastFailure \in Nat /\ now \in Nat /\ mCurrentMode' \in LockoutModes
  BY TypeNext DEF RecentInv, Recent, TypeOK, TrackerTypeOK
<1>1. CASE AuthFailed
  <2>1. lastFailure' = now /\ lastFailure <= now /\ mCurrentMode' = mCurrentMode
    BY <1>1 DEF AuthFailed, trackerVars, StampInv
  <2>2. CASE u = "vendor"
    BY <1>1, <2>2, GotoMoves DEF AuthFailed, Recent
  <2>3. CASE u # "vendor"
    BY <1>0, <1>1, <2>1, <2>3, BeginMoves, RecentStays DEF Moves
  <2>4. QED
    BY <2>2, <2>3
<1>2. CASE CountFailure
  <2>1. Moves("vendor") /\ lastFailure' = lastFailure
    BY <1>2, VendorMoves DEF VendorStep, failureVars
  <2>2. CASE u = "vendor"
    BY <1>2, <2>2, GotoMoves DEF CountFailure, Recent
  <2>3. CASE u # "vendor"
    <3>1. UNCHANGED <<pc[u], reg[u], began[u]>>
      BY <2>1, <2>3 DEF Moves
    <3>2. pc[u] # "idle" => began[u] <= lastFailure + HandlerTime
      BY <1>2, SessionAssumption DEF CountFailure, BeganInv, StampInv, Busy, TypeOK
    <3>3. began[u] \in Nat
      BY DEF TypeOK
    <3>4. QED
      BY <1>0, <2>1, <3>1, <3>2, <3>3, SessionAssumption, TrackerAssumption DEF Recent
  <2>4. QED
    BY <2>2, <2>3
<1>3. CASE ReadStampClock \/ StampStart
  <2>1. Moves("vendor") /\ lastFailure' = lastFailure /\ mCurrentMode' = mCurrentMode
    BY <1>3, VendorMoves
       DEF VendorStep, failureVars, ReadStampClock, StampStart, Stamp, trackerVars
  <2>2. CASE u = "vendor"
    BY <1>3, <2>2, GotoMoves DEF ReadStampClock, StampStart, Recent
  <2>3. CASE u # "vendor"
    BY <1>0, <2>1, <2>3, RecentStays DEF Moves
  <2>4. QED
    BY <2>2, <2>3
<1>4. CASE OnPointerDown \/ ResetLockout \/ TellCleared
  <2>1. /\ Moves("binder") /\ lastFailure' = lastFailure
        /\ mCurrentMode' \in {mCurrentMode, "NONE"}
    BY <1>4, BeginMoves, BinderMoves
       DEF failureVars, OnPointerDown, ResetLockout, TellCleared, Reset, trackerVars
  <2>2. CASE u = "binder"
    BY <1>4, <2>2, BinderGoes DEF Recent
  <2>3. CASE u # "binder"
    BY <1>0, <2>1, <2>3, RecentStays DEF Moves
  <2>4. QED
    BY <2>2, <2>3
<1>5. CASE AuthSucceeded
  BY <1>0, <1>5, RecentStays DEF AuthSucceeded, Reset, threadVars, failureVars
<1>6. ASSUME NEW t \in Threads, ReadStep(t) PROVE Recent(u)'
  <2>1. Moves(t) /\ lastFailure' = lastFailure /\ mCurrentMode' = mCurrentMode
    BY <1>6, ReadMoves DEF Reads, failureVars, trackerVars
  <2>2. CASE u = t
    BY <1>0, <1>6, <2>2, RecentRead
  <2>3. CASE u # t
    BY <1>0, <2>1, <2>3, RecentStays DEF Moves
  <2>4. QED
    BY <2>2, <2>3
<1>7. ASSUME NEW t \in Threads, WriteStep(t) PROVE Recent(u)'
  <2>1. Moves(t) /\ lastFailure' = lastFailure
    BY <1>7, WriteMoves DEF failureVars
  <2>2. mCurrentMode' \in {mCurrentMode, "NONE"}
    BY <1>7 DEF WriteStep, ExpireMode, Expire, TellPermanent, Report, SpawnTimer, SetStarted,
                AbortTimer, trackerVars
  <2>3. CASE u = t
    BY <1>0, <1>7, <2>3, RecentWrite
  <2>4. CASE u # t
    BY <1>0, <2>1, <2>2, <2>4, RecentStays DEF Moves
  <2>5. QED
    BY <2>3, <2>4
<1>8. ASSUME NEW i \in Timers, TimerRuns(i) PROVE Recent(u)'
  <2>1. mCurrentMode' \in {mCurrentMode, "NONE"}
    BY <1>8 DEF TimerRuns, TimerWakes, TimerClears, TimerTells, TimerFinishes, Reset,
                trackerVars
  <2>2. QED
    BY <1>0, <1>8, <2>1, TimerMoves, RecentStays DEF threadVars, failureVars
<1>9. CASE Tick \/ UNCHANGED vars
  BY <1>0, <1>9, RecentStays DEF Tick, vars, threadVars, failureVars, trackerVars
<1>10. QED
  BY StepCases, <1>1, <1>2, <1>3, <1>4, <1>5, <1>6, <1>7, <1>8, <1>9

LEMMA LeftInit == Init => LeftInv
BY DEF Init, LeftInv

\* What the time left is worth, one thread at a time.
LeftOf(t) ==
  /\ pc[t] = "left" => began[t] <= reg[t] /\ reg[t] <= now
  /\ pc[t] \in {"report", "decide"} => reg[t] <= TimedDuration + HandlerTime
  /\ pc[t] \in {"report", "decide", "spawn"} /\ reg[t] > 0
       => reg[t] + began[t] <= lastFailure + HandlerTime + TimedDuration

LEMMA LeftStays ==
  ASSUME TypeOK, NEW t \in Threads, LeftOf(t), UNCHANGED <<pc[t], reg[t], began[t]>>,
         lastFailure' \in Nat, lastFailure' >= lastFailure, now' \in Nat, now' >= now
  PROVE  LeftOf(t)'
<1> USE SessionAssumption, TrackerAssumption
<1>1. reg[t] \in Int /\ began[t] \in Nat /\ lastFailure \in Nat /\ now \in Nat
  BY DEF TypeOK
<1>2. QED
  BY <1>1 DEF LeftOf

LEMMA LeftRead ==
  ASSUME TypeOK, BeganInv, StampInv, NEW t \in Threads, LeftOf(t), ReadStep(t)
  PROVE  LeftOf(t)'
<1> USE SessionAssumption, TrackerAssumption DEF LeftOf
<1>1. /\ reg[t] \in Int /\ began[t] \in Nat /\ lastFailure \in Nat /\ now \in Nat
      /\ mLockoutTimedStart \in Int
  BY DEF TypeOK, TrackerTypeOK
<1>2. Moves(t) /\ pc[t] # "idle" /\ lastFailure' = lastFailure /\ now' = now
  BY ReadMoves DEF Reads, failureVars
<1>3. began[t] <= now /\ now <= began[t] + HandlerTime
  BY <1>2 DEF BeganInv, Busy
<1>4. CASE ReadMode(t) \/ ReadStart(t) \/ TestElapsed(t) \/ ReturnMode(t)
  <2>1. pc'[t] \notin {"left", "report", "decide", "spawn"}
    BY <1>4, GotoMoves DEF ReadMode, ReadStart, TestElapsed, ReturnMode, TypeOK, TrackerTypeOK
  <2>2. QED
    BY <2>1
<1>5. CASE TestStart(t)
  <2>1. pc'[t] = "clock" \/ (pc'[t] = "report" /\ reg'[t] = 0)
    BY <1>5, GotoMoves DEF TestStart
  <2>2. QED
    BY <1>1, <2>1
<1>6. CASE ReadClock(t)
  <2>1. pc'[t] = "left" /\ reg'[t] = now
    BY <1>6, GotoMoves DEF ReadClock
  <2>2. QED
    BY <1>1, <1>2, <1>3, <2>1 DEF Moves
<1>7. CASE ComputeLeft(t)
  <2>1. /\ pc[t] = "left" /\ pc'[t] = "report"
        /\ reg'[t] = TimedDuration - (reg[t] - mLockoutTimedStart)
    BY <1>7, GotoMoves DEF ComputeLeft
  <2>2. began'[t] = began[t]
    BY <1>2, <2>1 DEF Moves
  <2>3. mLockoutTimedStart <= now /\ mLockoutTimedStart <= lastFailure + HandlerTime
    BY DEF StampInv
  <2>4. QED
    BY <1>1, <1>2, <1>3, <2>1, <2>2, <2>3
<1>8. CASE DecideTimer(t)
  <2>1. /\ pc[t] = "decide" /\ pc'[t] \in {"idle", "spawn"}
        /\ pc'[t] = "spawn" => reg'[t] = reg[t]
    BY <1>8, GotoMoves DEF DecideTimer
  <2>2. QED
    BY <1>1, <1>2, <2>1 DEF Moves
<1>9. QED
  BY <1>4, <1>5, <1>6, <1>7, <1>8 DEF ReadStep

LEMMA LeftWrite ==
  ASSUME TypeOK, NEW t \in Threads, LeftOf(t), WriteStep(t)
  PROVE  LeftOf(t)'
<1>1. CASE Report(t)
  <2>1. pc[t] = "report" /\ pc'[t] = "decide" /\ reg'[t] = reg[t]
    BY <1>1, GotoMoves DEF Report
  <2>2. began'[t] = began[t] /\ lastFailure' = lastFailure
    BY <1>1, <2>1, WriteMoves DEF WriteStep, Moves, failureVars
  <2>3. QED
    BY <2>1, <2>2 DEF LeftOf
<1>2. CASE ~Report(t)
  <2>1. pc'[t] \in {"return", "abort", "setStarted", "idle"}
    BY <1>2, GotoMoves DEF WriteStep, ExpireMode, TellPermanent, SpawnTimer, SetStarted,
                           AbortTimer
  <2>2. QED
    BY <2>1 DEF LeftOf
<1>3. QED
  BY <1>1, <1>2

LEMMA LeftNext ==
  TypeOK /\ BeganInv /\ StampInv /\ LeftInv /\ [Next]_vars => LeftInv'
<1> SUFFICES ASSUME TypeOK, BeganInv, StampInv, LeftInv, [Next]_vars, NEW u \in Threads
             PROVE  LeftOf(u)'
  BY DEF LeftInv, LeftOf
<1>0. LeftOf(u) /\ lastFailure \in Nat /\ now \in Nat
  BY DEF LeftInv, LeftOf, TypeOK
<1>1. CASE AuthFailed
  <2>1. lastFailure' = now /\ lastFailure <= now /\ now' = now
    BY <1>1 DEF AuthFailed, StampInv
  <2>2. CASE u = "vendor"
    BY <1>1, <2>2, GotoMoves DEF AuthFailed, LeftOf
  <2>3. CASE u # "vendor"
    BY <1>0, <1>1, <2>1, <2>3, BeginMoves, LeftStays DEF Moves
  <2>4. QED
    BY <2>2, <2>3
<1>2. CASE VendorStep
  <2>1. Moves("vendor") /\ lastFailure' = lastFailure /\ now' = now
    BY <1>2, VendorMoves DEF failureVars
  <2>2. CASE u = "vendor"
    <3>1. pc'["vendor"] \in {"stampClock", "stamp", "mode"}
      BY <1>2, GotoMoves DEF VendorStep, CountFailure, ReadStampClock, StampStart
    <3>2. QED
      BY <2>2, <3>1 DEF LeftOf
  <2>3. CASE u # "vendor"
    BY <1>0, <2>1, <2>3, LeftStays DEF Moves
  <2>4. QED
    BY <2>2, <2>3
<1>3. CASE OnPointerDown \/ ResetLockout \/ TellCleared
  <2>1. Moves("binder") /\ lastFailure' = lastFailure /\ now' = now
    BY <1>3, BeginMoves, BinderMoves
       DEF failureVars, OnPointerDown, ResetLockout, TellCleared
  <2>2. CASE u = "binder"
    BY <1>3, <2>2, BinderGoes DEF LeftOf
  <2>3. CASE u # "binder"
    BY <1>0, <2>1, <2>3, LeftStays DEF Moves
  <2>4. QED
    BY <2>2, <2>3
<1>4. CASE AuthSucceeded
  BY <1>0, <1>4, LeftStays DEF AuthSucceeded, threadVars, failureVars
<1>5. ASSUME NEW t \in Threads, ReadStep(t) \/ WriteStep(t) PROVE LeftOf(u)'
  <2>1. Moves(t) /\ lastFailure' = lastFailure /\ now' = now
    BY <1>5, ReadMoves, WriteMoves DEF Reads, failureVars
  <2>2. CASE u = t
    BY <1>0, <1>5, <2>2, LeftRead, LeftWrite
  <2>3. CASE u # t
    BY <1>0, <2>1, <2>3, LeftStays DEF Moves
  <2>4. QED
    BY <2>2, <2>3
<1>6. ASSUME NEW i \in Timers, TimerRuns(i) PROVE LeftOf(u)'
  BY <1>0, <1>6, TimerMoves, LeftStays DEF threadVars, failureVars
<1>7. CASE Tick \/ UNCHANGED vars
  BY <1>0, <1>7, LeftStays DEF Tick, vars, threadVars, failureVars
<1>8. QED
  BY StepCases, <1>1, <1>2, <1>3, <1>4, <1>5, <1>6, <1>7 DEF VendorStep

LEMMA SleepInit == Init => SleepsAreBounded
BY DEF Init, SleepsAreBounded

LEMMA SleepNext ==
  TypeOK /\ BeganInv /\ StampInv /\ LeftInv /\ SleepsAreBounded /\ [Next]_vars
    => SleepsAreBounded'
<1> SUFFICES ASSUME TypeOK, BeganInv, StampInv, LeftInv, SleepsAreBounded, [Next]_vars,
                    NEW j \in Timers, timer'[j] = "sleeping", deadline'[j] > now'
             PROVE  deadline'[j] - lastFailure' <= TimedDuration + 2 * HandlerTime
  BY DEF SleepsAreBounded
<1> USE SessionAssumption, TrackerAssumption
<1>0. now \in Nat /\ lastFailure \in Nat /\ deadline[j] \in Int
  BY DEF TypeOK
<1>1. ASSUME timer[j] = "sleeping", deadline'[j] = deadline[j],
             now' \in Nat, now' >= now, lastFailure' \in Nat, lastFailure' >= lastFailure
      PROVE  deadline'[j] - lastFailure' <= TimedDuration + 2 * HandlerTime
  <2>1. deadline[j] - lastFailure <= TimedDuration + 2 * HandlerTime
    BY <1>0, <1>1 DEF SleepsAreBounded
  <2>2. QED
    BY <1>0, <1>1, <2>1
<1>2. ASSUME NEW t \in Threads, SpawnTimer(t)
      PROVE  deadline'[j] - lastFailure' <= TimedDuration + 2 * HandlerTime
  <2>0. now' = now /\ lastFailure' = lastFailure /\ pc[t] = "spawn"
    BY <1>2 DEF SpawnTimer, failureVars
  <2>1. PICK i \in Timers : /\ timer' = [timer EXCEPT ![i] = "sleeping"]
                            /\ deadline' = [deadline EXCEPT ![i] = now + reg[t]]
    BY <1>2 DEF SpawnTimer
  <2>2. CASE i = j
    <3>1. reg[t] \in Int /\ began[t] \in Nat /\ deadline'[j] = now + reg[t]
      BY <2>1, <2>2 DEF TypeOK
    <3>2. reg[t] + began[t] <= lastFailure + HandlerTime + TimedDuration
      BY <1>0, <2>0, <3>1 DEF LeftInv
    <3>3. now <= began[t] + HandlerTime
      BY <2>0 DEF BeganInv, Busy
    <3>4. QED
      BY <1>0, <2>0, <3>1, <3>2, <3>3
  <2>3. CASE i # j
    <3>1. timer[j] = "sleeping" /\ deadline'[j] = deadline[j]
      BY <2>1, <2>3 DEF TypeOK
    <3>2. QED
      BY <1>0, <1>1, <2>0, <3>1
  <2>4. QED
    BY <2>2, <2>3
<1>3. ASSUME NEW i \in Timers, TimerRuns(i)
      PROVE  deadline'[j] - lastFailure' <= TimedDuration + 2 * HandlerTime
  <2>1. \E next \in TimerPcs : next # "sleeping" /\ TimerGoto(i, next)
    BY <1>3 DEF TimerRuns, TimerWakes, TimerClears, TimerTells, TimerFinishes
  <2>2. timer[j] = "sleeping" /\ deadline'[j] = deadline[j]
    BY <2>1 DEF TimerGoto, TypeOK
  <2>3. QED
    BY <1>0, <1>1, <1>3, <2>2, TimerMoves DEF failureVars
<1>4. ASSUME UNCHANGED timerVars, now' \in Nat, now' >= now, lastFailure' \in Nat,
             lastFailure' >= lastFailure
      PROVE  deadline'[j] - lastFailure' <= TimedDuration + 2 * HandlerTime
  BY <1>1, <1>4 DEF timerVars
<1>5. CASE AuthFailed
  BY <1>0, <1>4, <1>5 DEF AuthFailed, StampInv
<1>6. CASE AuthSucceeded \/ VendorStep \/ OnPointerDown \/ ResetLockout \/ TellCleared
  <2>1. UNCHANGED <<timerVars, now, failureVars>>
    BY <1>6 DEF AuthSucceeded, VendorStep, CountFailure, ReadStampClock, StampStart,
                OnPointerDown, ResetLockout, TellCleared
  <2>2. QED
    BY <1>0, <1>4, <2>1 DEF failureVars
<1>7. ASSUME NEW t \in Threads, ReadStep(t)
      PROVE  deadline'[j] - lastFailure' <= TimedDuration + 2 * HandlerTime
  BY <1>0, <1>4, <1>7, ReadMoves DEF Reads, failureVars
<1>8. ASSUME NEW t \in Threads, WriteStep(t), ~SpawnTimer(t)
      PROVE  deadline'[j] - lastFailure' <= TimedDuration + 2 * HandlerTime
  BY <1>0, <1>4, <1>8, WriteMoves
     DEF WriteStep, ExpireMode, TellPermanent, Report, SetStarted, AbortTimer, failureVars
<1>9. CASE Tick \/ UNCHANGED vars
  BY <1>0, <1>4, <1>9 DEF Tick, vars, failureVars
<1>10. QED
  BY StepCases, <1>2, <1>3, <1>5, <1>6, <1>7, <1>8, <1>9 DEF VendorStep

-------------------------------------------------------------------------------
(* A write that disturbs nobody *)

\* As long as the course is serial, a thread that writes is alone.
LEMMA AloneThread ==
  ASSUME NEW t \in Threads, ThreadWrites(t), course' = "serial"
  PROVE  /\ \A u \in Threads : u # t => pc[u] = "idle"
         /\ \A i \in Timers : timer[i] \notin {"clearing", "telling", "finishing"}
<1>1. Busy \ {t} = {} /\ Running = {}
  BY DEF ThreadWrites
<1>2. QED
  BY <1>1 DEF Busy, Running

LEMMA AloneTimer ==
  ASSUME NEW i \in Timers, TimerWrites(i), course' = "serial"
  PROVE  /\ \A t \in Threads : pc[t] = "idle"
         /\ \A j \in Timers : j # i => timer[j] \notin {"clearing", "telling", "finishing"}
<1>1. Busy = {} /\ Running \ {i} = {}
  BY DEF TimerWrites
<1>2. QED
  BY <1>1 DEF Busy, Running

\* A disturbed course stays so.
LEMMA CourseStays ==
  ASSUME [Next]_vars, course' = "serial" PROVE course = "serial"
<1>1. \/ \E t \in Threads : ThreadWrites(t)
      \/ \E i \in Timers : TimerWrites(i)
      \/ UNCHANGED course
  <2>1. ASSUME NEW t \in Threads, ReadStep(t) PROVE UNCHANGED course
    BY <2>1 DEF ReadStep, ReadMode, ReadStart, TestElapsed, ReturnMode, TestStart, ReadClock,
                ComputeLeft, DecideTimer, Reads
  <2>2. ASSUME NEW t \in Threads, WriteStep(t) PROVE ThreadWrites(t)
    BY <2>2 DEF WriteStep, ExpireMode, TellPermanent, Report, SpawnTimer, SetStarted,
                AbortTimer
  <2>3. ASSUME NEW i \in Timers, TimerRuns(i) PROVE TimerWrites(i) \/ UNCHANGED course
    BY <2>3 DEF TimerRuns, TimerWakes, TimerClears, TimerTells, TimerFinishes
  <2>4. QED
    BY StepCases, <2>1, <2>2, <2>3
       DEF AuthSucceeded, AuthFailed, CountFailure, ReadStampClock, StampStart, OnPointerDown,
           ResetLockout, TellCleared, Tick, vars
<1>2. QED
  BY <1>1 DEF ThreadWrites, TimerWrites

\* The step of a thread that writes.
Wrote(t) ==
  \/ t = "vendor" /\ (AuthSucceeded \/ CountFailure \/ StampStart)
  \/ t = "binder" /\ (ResetLockout \/ TellCleared)
  \/ WriteStep(t)

LEMMA WroteAlone ==
  ASSUME NEW t \in Threads, Wrote(t), course' = "serial"
  PROVE  /\ \A u \in Threads : u # t => pc[u] = "idle"
         /\ \A i \in Timers : timer[i] \notin {"clearing", "telling", "finishing"}
<1>1. ThreadWrites(t)
  BY DEF Wrote, WriteStep, ExpireMode, TellPermanent, Report, SpawnTimer, SetStarted,
         AbortTimer, AuthSucceeded, CountFailure, StampStart, ResetLockout, TellCleared
<1>2. QED
  BY <1>1, AloneThread

LEMMA WroteMoves ==
  ASSUME TypeOK, NEW t \in Threads, Wrote(t), course' = "serial"
  PROVE  \A u \in Threads : u # t => pc'[u] = "idle"
<1>1. \A u \in Threads : u # t => pc'[u] = pc[u]
  <2>1. CASE AuthSucceeded
    BY <2>1 DEF AuthSucceeded, threadVars
  <2>2. CASE ~AuthSucceeded
    BY <2>2, VendorMoves, BinderMoves, BeginMoves, WriteMoves DEF Wrote, VendorStep, Moves
  <2>3. QED
    BY <2>1, <2>2
<1>2. QED
  BY <1>1, WroteAlone

\* The steps of which an undisturbed course consists.
LEMMA CourseCases ==
  ASSUME [Next]_vars
  PROVE  \/ \E t \in Threads : Wrote(t)
         \/ AuthFailed \/ OnPointerDown \/ ReadStampClock
         \/ \E t \in Threads : ReadStep(t)
         \/ \E i \in Timers : TimerRuns(i)
         \/ Tick
         \/ UNCHANGED vars
BY StepCases DEF Wrote

LEMMA FreshInit == Init => FreshInv
BY DEF Init, FreshInv

\* What getMode has read, one thread at a time.
Fresh(t) ==
  /\ pc[t] = "elapsed" => reg[t] = mLockoutTimedStart
  /\ pc[t] = "return" /\ mCurrentMode = "TIMED"
       => began[t] <= mLockoutTimedStart + TimedDuration
  /\ pc[t] \in {"timeLeft", "clock", "left"}
       => began[t] <= mLockoutTimedStart + TimedDuration
  /\ pc[t] = "left" => mLockoutTimedStart <= reg[t]
  /\ pc[t] \in {"report", "decide"} => reg[t] \in -HandlerTime .. TimedDuration

LEMMA FreshRead ==
  ASSUME TypeOK, BeganInv, StampInv, LeftInv, NEW t \in Threads, Fresh(t), ReadStep(t)
  PROVE  Fresh(t)'
<1> USE SessionAssumption, TrackerAssumption DEF Fresh
<1>1. /\ reg[t] \in Int /\ began[t] \in Nat /\ now \in Nat /\ mLockoutTimedStart \in Int
      /\ mLockoutTimedStart <= now
  BY DEF TypeOK, TrackerTypeOK, StampInv
<1>2. /\ Moves(t) /\ pc[t] # "idle" /\ mLockoutTimedStart' = mLockoutTimedStart
      /\ mCurrentMode' = mCurrentMode
  BY ReadMoves DEF Reads, trackerVars
<1>3. began[t] <= now /\ now <= began[t] + HandlerTime
  BY <1>2 DEF BeganInv, Busy
<1>4. CASE ReadMode(t)
  <2>1. /\ pc'[t] \in {"start", "return"}
        /\ pc'[t] = "return" => mCurrentMode # "TIMED"
    BY <1>4, GotoMoves DEF ReadMode
  <2>2. QED
    BY <1>2, <2>1
<1>5. CASE ReadStart(t)
  <2>1. pc'[t] = "elapsed" /\ reg'[t] = mLockoutTimedStart
    BY <1>5, GotoMoves DEF ReadStart
  <2>2. QED
    BY <1>2, <2>1
<1>6. CASE TestElapsed(t)
  <2>1. /\ pc[t] = "elapsed" /\ pc'[t] \in {"expire", "return"}
        /\ pc'[t] = "return" => ~HasElapsed(reg[t], now)
    BY <1>6, GotoMoves DEF TestElapsed
  <2>2. pc'[t] = "return" => now <= mLockoutTimedStart + TimedDuration
    BY <1>1, <2>1 DEF HasElapsed
  <2>3. pc'[t] = "return" => began'[t] = began[t]
    BY <1>2 DEF Moves
  <2>4. QED
    BY <1>1, <1>2, <1>3, <2>1, <2>2, <2>3
<1>7. CASE ReturnMode(t)
  <2>1. /\ pc[t] = "return" /\ pc'[t] \in {"idle", "timeLeft", "permanent"}
        /\ pc'[t] = "timeLeft" => mCurrentMode = "TIMED"
    BY <1>7, GotoMoves DEF ReturnMode, TypeOK, TrackerTypeOK
  <2>2. QED
    BY <1>1, <1>2, <2>1 DEF Moves
<1>8. CASE TestStart(t)
  <2>1. /\ pc[t] = "timeLeft" /\ pc'[t] \in {"clock", "report"}
        /\ pc'[t] = "report" => reg'[t] = 0
    BY <1>8, GotoMoves DEF TestStart
  <2>2. QED
    BY <1>1, <1>2, <2>1 DEF Moves
<1>9. CASE ReadClock(t)
  <2>1. pc[t] = "clock" /\ pc'[t] = "left" /\ reg'[t] = now
    BY <1>9, GotoMoves DEF ReadClock
  <2>2. QED
    BY <1>1, <1>2, <2>1 DEF Moves
<1>10. CASE ComputeLeft(t)
  <2>1. /\ pc[t] = "left" /\ pc'[t] = "report"
        /\ reg'[t] = TimedDuration - (reg[t] - mLockoutTimedStart)
    BY <1>10, GotoMoves DEF ComputeLeft
  <2>2. reg[t] <= now /\ mLockoutTimedStart <= reg[t]
    BY <2>1 DEF LeftInv
  <2>3. reg[t] <= mLockoutTimedStart + TimedDuration + HandlerTime
    BY <1>1, <1>3, <2>1, <2>2
  <2>4. reg'[t] \in -HandlerTime .. TimedDuration
    BY <1>1, <2>1, <2>2, <2>3
  <2>5. QED
    BY <2>1, <2>4
<1>11. CASE DecideTimer(t)
  <2>1. pc'[t] \in {"idle", "spawn"}
    BY <1>11, GotoMoves DEF DecideTimer
  <2>2. QED
    BY <2>1
<1>12. QED
  BY <1>4, <1>5, <1>6, <1>7, <1>8, <1>9, <1>10, <1>11 DEF ReadStep

LEMMA FreshNext ==
  TypeOK /\ BeganInv /\ StampInv /\ LeftInv /\ FreshInv /\ [Next]_vars => FreshInv'
<1> SUFFICES ASSUME TypeOK, BeganInv, StampInv, LeftInv, FreshInv, [Next]_vars,
                    course' = "serial", NEW u \in Threads
             PROVE  Fresh(u)'
  BY DEF FreshInv, Fresh
<1>0. \A t \in Threads : Fresh(t)
  BY CourseStays DEF FreshInv, Fresh
<1>1. ASSUME UNCHANGED <<pc[u], reg[u], began[u], trackerVars>> PROVE Fresh(u)'
  BY <1>0, <1>1 DEF Fresh, trackerVars
<1>2. ASSUME pc'[u] \in {"idle", "count", "stampClock", "stamp", "mode", "abort",
                         "setStarted", "tellCleared"}
      PROVE  Fresh(u)'
  BY <1>2 DEF Fresh
<1>3. ASSUME NEW t \in Threads, Wrote(t) PROVE Fresh(u)'
  <2>1. CASE u # t
    BY <1>2, <1>3, <2>1, WroteMoves
  <2>2. CASE u = t /\ ExpireMode(t)
    <3>1. pc'[t] = "return" /\ mCurrentMode' = "NONE"
      BY <2>2, GotoMoves DEF ExpireMode, Expire
    <3>2. QED
      BY <2>2, <3>1 DEF Fresh
  <2>3. CASE u = t /\ Report(t)
    <3>1. pc[t] = "report" /\ pc'[t] = "decide" /\ reg'[t] = reg[t]
      BY <2>3, GotoMoves DEF Report
    <3>2. QED
      BY <1>0, <2>3, <3>1 DEF Fresh
  <2>4. CASE u = t /\ (TellPermanent(t) \/ SpawnTimer(t) \/ SetStarted(t) \/ AbortTimer(t))
    <3>1. pc'[t] \in {"abort", "setStarted", "idle"}
      BY <2>4, GotoMoves DEF TellPermanent, SpawnTimer, SetStarted, AbortTimer
    <3>2. QED
      BY <1>2, <2>4, <3>1
  <2>5. CASE u = "vendor" /\ (CountFailure \/ StampStart)
    <3>1. pc'["vendor"] \in {"stampClock", "mode"}
      BY <2>5, GotoMoves DEF CountFailure, StampStart
    <3>2. QED
      BY <1>2, <2>5, <3>1
  <2>6. CASE u = "vendor" /\ AuthSucceeded
    BY <1>2, <2>6 DEF AuthSucceeded, Begin, threadVars
  <2>7. CASE u = "binder" /\ (ResetLockout \/ TellCleared)
    BY <1>2, <2>7, BinderGoes
  <2>8. QED
    BY <1>3, <2>1, <2>2, <2>3, <2>4, <2>5, <2>6, <2>7 DEF Wrote, WriteStep
<1>4. CASE AuthFailed \/ ReadStampClock
  <2>1. Moves("vendor") /\ UNCHANGED trackerVars /\ pc'["vendor"] \in {"count", "stamp"}
    BY <1>4, GotoMoves DEF AuthFailed, ReadStampClock
  <2>2. QED
    BY <1>1, <1>2, <2>1 DEF Moves
<1>5. CASE OnPointerDown
  <2>1. Moves("binder") /\ UNCHANGED trackerVars /\ pc'["binder"] = "mode"
    BY <1>5, GotoMoves DEF OnPointerDown
  <2>2. QED
    BY <1>1, <1>2, <2>1 DEF Moves
<1>6. ASSUME NEW t \in Threads, ReadStep(t) PROVE Fresh(u)'
  <2>1. Moves(t) /\ UNCHANGED trackerVars
    BY <1>6, ReadMoves DEF Reads
  <2>2. QED
    BY <1>0, <1>1, <1>6, <2>1, FreshRead DEF Moves
<1>7. ASSUME NEW i \in Timers, TimerRuns(i) PROVE Fresh(u)'
  <2>1. CASE TimerWrites(i)
    BY <1>2, <1>7, <2>1, AloneTimer, TimerMoves DEF threadVars
  <2>2. CASE TimerWakes(i)
    BY <1>1, <2>2 DEF TimerWakes, threadVars
  <2>3. QED
    BY <1>7, <2>1, <2>2 DEF TimerRuns, TimerClears, TimerTells, TimerFinishes
<1>8. CASE Tick \/ UNCHANGED vars
  BY <1>1, <1>8 DEF Tick, vars, threadVars
<1>9. QED
  BY CourseCases, <1>3, <1>4, <1>5, <1>6, <1>7, <1>8

-------------------------------------------------------------------------------
(* The theorems for any overlap *)

LEMMA TimesInductive == ASSUME NoTime PROVE Spec =>
  [](TypeOK /\ BeganInv /\ StampInv /\ RecentInv /\ LeftInv /\ FreshInv /\ SleepsAreBounded)
<1>1. Init => BeganInv /\ StampInv /\ RecentInv /\ LeftInv /\ FreshInv /\ SleepsAreBounded
  BY BeganInit, StampInit, RecentInit, LeftInit, FreshInit, SleepInit
<1>2. TypeOK /\ BeganInv /\ StampInv /\ RecentInv /\ LeftInv /\ FreshInv
        /\ SleepsAreBounded /\ [Next]_vars
        => (BeganInv /\ StampInv /\ RecentInv /\ LeftInv /\ FreshInv /\ SleepsAreBounded)'
  BY BeganNext, StampNext, RecentNext, LeftNext, FreshNext, SleepNext
<1>3. QED
  BY <1>1, <1>2, SessionTypeCorrect, PTL DEF Spec

\* However handlers overlap, the detached thread of a lockout timer does not sleep
\* past the lockout it was started for, or past that of a later failure, by more
\* than the time of two handlers.
THEOREM TimerSleepsAreBounded == ASSUME NoTime PROVE Spec => []SleepsAreBounded
BY TimesInductive, PTL

\* A report of a timed lockout is current, however handlers overlap: it goes out
\* within TimedDuration and the time of two handlers after a failure, and leaves no
\* more than TimedDuration and the time of one. Undisturbed, the time left is at
\* most TimedDuration, and negative by at most the time of a handler.
THEOREM TimedReportsAreCurrent == ASSUME NoTime PROVE Spec => []ReportsAreCurrent
<1>1. TypeOK /\ BeganInv /\ RecentInv /\ LeftInv /\ FreshInv => ReportsAreCurrent
  <2> SUFFICES ASSUME TypeOK, BeganInv, RecentInv, LeftInv, FreshInv,
                      NEW t \in Threads, pc[t] = "decide"
               PROVE  /\ now - lastFailure <= TimedDuration + 2 * HandlerTime
                      /\ reg[t] <= TimedDuration + HandlerTime
                      /\ course = "serial" => reg[t] \in -HandlerTime .. TimedDuration
    BY DEF ReportsAreCurrent
  <2>1. now <= began[t] + HandlerTime
    BY DEF BeganInv, Busy
  <2>2. began[t] <= lastFailure + HandlerTime + TimedDuration
    BY DEF RecentInv
  <2>3. now - lastFailure <= TimedDuration + 2 * HandlerTime
    BY <2>1, <2>2, SessionAssumption, TrackerAssumption DEF TypeOK
  <2>4. reg[t] <= TimedDuration + HandlerTime
    BY DEF LeftInv
  <2>5. course = "serial" => reg[t] \in -HandlerTime .. TimedDuration
    BY DEF FreshInv
  <2>6. QED
    BY <2>3, <2>4, <2>5
<1>2. QED
  BY <1>1, TimesInductive, PTL

\* What no preemption of a handler can break, in one invariant.
THEOREM OverlapInductive ==
  ASSUME NoTime, InitModes \subseteq {"NONE"} PROVE Spec => []OverlapInv
<1>1. Spec => []EarnedInv
  BY SessionTypeCorrect, EarnedInit, EarnedNext, PTL DEF Spec
<1>2. TypeOK /\ BeganInv /\ StampInv /\ RecentInv /\ LeftInv /\ FreshInv
        /\ SleepsAreBounded /\ EarnedInv => OverlapInv
  BY DEF OverlapInv
<1>3. QED
  BY <1>1, <1>2, TimesInductive, PTL

-------------------------------------------------------------------------------
(* What holds in an undisturbed course. Each lemma goes from a serial state to *)
(* a serial state.                                                             *)

Serial == course = "serial" /\ TypeOK /\ CourseInv

LEMMA CourseInit == Init => CourseInv
<1> SUFFICES ASSUME Init PROVE CourseInv
  OBVIOUS
<1>1. Pending = {}
  BY DEF Init, Pending
<1>2. CourseInv
  BY <1>1 DEF Init, CourseInv, TimerInv, ModeInv, CountInv, ToldInv, TimerEndsLockout, AbortPcs,
              BehindPcs, TimedPcs
<1>3. QED
  BY <1>2

\* What a reading step of a thread knows of the mode and of the started flag.
LEMMA ReadGoes ==
  ASSUME TypeOK, NEW t \in Threads, ReadStep(t)
  PROVE  \/ pc[t] = "mode" /\ pc'[t] = "start" /\ mCurrentMode = "TIMED"
         \/ pc[t] = "mode" /\ pc'[t] = "return"
         \/ pc[t] = "start" /\ pc'[t] = "elapsed"
         \/ pc[t] = "elapsed" /\ pc'[t] \in {"expire", "return"}
         \/ pc[t] = "return" /\ pc'[t] = "idle" /\ mCurrentMode = "NONE"
         \/ pc[t] = "return" /\ pc'[t] = "timeLeft" /\ mCurrentMode = "TIMED"
         \/ pc[t] = "return" /\ pc'[t] = "permanent" /\ mCurrentMode = "PERMANENT"
         \/ pc[t] = "timeLeft" /\ pc'[t] \in {"clock", "report"}
         \/ pc[t] = "clock" /\ pc'[t] = "left"
         \/ pc[t] = "left" /\ pc'[t] = "report"
         \/ pc[t] = "decide" /\ pc'[t] = "spawn" /\ ~mIsLockoutTimerStarted
         \/ pc[t] = "decide" /\ pc'[t] = "idle"
<1>1. CASE ReadMode(t)
  BY <1>1, GotoMoves DEF ReadMode
<1>2. CASE ReadStart(t)
  BY <1>2, GotoMoves DEF ReadStart
<1>3. CASE TestElapsed(t)
  BY <1>3, GotoMoves DEF TestElapsed
<1>4. CASE ReturnMode(t)
  BY <1>4, GotoMoves DEF ReturnMode, TypeOK, TrackerTypeOK
<1>5. CASE TestStart(t)
  BY <1>5, GotoMoves DEF TestStart
<1>6. CASE ReadClock(t) \/ ComputeLeft(t)
  BY <1>6, GotoMoves DEF ReadClock, ComputeLeft
<1>7. CASE DecideTimer(t)
  BY <1>7, GotoMoves DEF DecideTimer
<1>8. QED
  BY <1>1, <1>2, <1>3, <1>4, <1>5, <1>6, <1>7 DEF ReadStep

\* The steps of the vendor thread that begin or go on without a write, and of the
\* binder thread.
LEMMA BeginGoes ==
  ASSUME TypeOK
  PROVE  /\ AuthFailed => /\ Moves("vendor") /\ pc["vendor"] = "idle"
                          /\ pc'["vendor"] = "count" /\ reg'["vendor"] = mFailedCount
         /\ ReadStampClock => /\ Moves("vendor") /\ pc["vendor"] = "stampClock"
                              /\ pc'["vendor"] = "stamp"
         /\ OnPointerDown => /\ Moves("binder") /\ pc["binder"] = "idle"
                             /\ pc'["binder"] = "mode"
<1>1. ASSUME AuthFailed
      PROVE  /\ Moves("vendor") /\ pc["vendor"] = "idle"
             /\ pc'["vendor"] = "count" /\ reg'["vendor"] = mFailedCount
  BY <1>1, GotoMoves DEF AuthFailed, Begin
<1>2. ASSUME ReadStampClock
      PROVE  Moves("vendor") /\ pc["vendor"] = "stampClock" /\ pc'["vendor"] = "stamp"
  BY <1>2, GotoMoves DEF ReadStampClock
<1>3. ASSUME OnPointerDown
      PROVE  Moves("binder") /\ pc["binder"] = "idle" /\ pc'["binder"] = "mode"
  BY <1>3, GotoMoves DEF OnPointerDown, Begin
<1>4. QED
  BY <1>1, <1>2, <1>3

\* What a writing step of a thread does: where the thread is tells which it is.
LEMMA WriteGoes ==
  ASSUME TypeOK, NEW t \in Threads, Wrote(t)
  PROVE  \/ /\ AuthSucceeded /\ pc[t] = "idle" /\ pc'[t] = "idle" /\ mCurrentMode' = "NONE"
            /\ UNCHANGED <<timerFlags, timerVars, told>>
         \/ /\ ResetLockout /\ pc[t] = "idle" /\ pc'[t] = "tellCleared" /\ mCurrentMode' = "NONE"
            /\ UNCHANGED <<timerFlags, timerVars, told>>
         \/ /\ TellCleared /\ pc[t] = "tellCleared" /\ pc'[t] = "abort" /\ told' = "NONE"
            /\ UNCHANGED <<timerFlags, timerVars, trackerVars>>
         \/ /\ CountFailure /\ pc[t] = "count" /\ UNCHANGED <<timerFlags, timerVars, told>>
            /\ pc'[t] = "mode" \/ (pc'[t] = "stampClock" /\ mCurrentMode' = "TIMED")
         \/ /\ StampStart /\ pc[t] = "stamp" /\ pc'[t] = "mode" /\ mCurrentMode' = mCurrentMode
            /\ UNCHANGED <<timerFlags, timerVars, told>>
         \/ /\ ExpireMode(t) /\ pc[t] = "expire" /\ pc'[t] = "return" /\ mCurrentMode' = "NONE"
            /\ UNCHANGED <<timerFlags, timerVars, told>>
         \/ /\ TellPermanent(t) /\ pc[t] = "permanent" /\ pc'[t] = "abort"
            /\ told' = "PERMANENT" /\ UNCHANGED <<timerFlags, timerVars, trackerVars>>
         \/ /\ Report(t) /\ pc[t] = "report" /\ pc'[t] = "decide" /\ told' = "TIMED"
            /\ UNCHANGED <<timerFlags, timerVars, trackerVars>>
         \/ /\ SpawnTimer(t) /\ pc[t] = "spawn" /\ pc'[t] = "setStarted"
            /\ UNCHANGED <<mIsLockoutTimerStarted, trackerVars, told>>
         \/ /\ SetStarted(t) /\ pc[t] = "setStarted" /\ pc'[t] = "idle"
            /\ mIsLockoutTimerStarted'
            /\ UNCHANGED <<mIsLockoutTimerAborted, timerVars, trackerVars, told>>
         \/ /\ AbortTimer(t) /\ pc[t] = "abort" /\ pc'[t] = "idle"
            /\ mIsLockoutTimerAborted'
            /\ UNCHANGED <<mIsLockoutTimerStarted, timerVars, trackerVars, told>>
<1>1. CASE t = "vendor" /\ AuthSucceeded
  BY <1>1 DEF AuthSucceeded, Reset, Begin, threadVars
<1>2. CASE t = "binder" /\ ResetLockout
  BY <1>2, GotoMoves DEF ResetLockout, Reset, Begin
<1>3. CASE t = "binder" /\ TellCleared
  BY <1>3, GotoMoves DEF TellCleared
<1>4. CASE t = "vendor" /\ CountFailure
  <2>1. LocksForATime(reg["vendor"]) => mCurrentMode' = "TIMED"
    BY <1>4, TrackerAssumption DEF CountFailure, AddFailedAttempt, LocksForATime, TypeOK
  <2>2. /\ pc["vendor"] = "count"
        /\ pc'["vendor"] \in {"mode", "stampClock"}
        /\ pc'["vendor"] = "stampClock" => LocksForATime(reg["vendor"])
    BY <1>4, GotoMoves DEF CountFailure
  <2>3. UNCHANGED <<timerFlags, timerVars, told>>
    BY <1>4 DEF CountFailure
  <2>4. pc'[t] = "mode" \/ (pc'[t] = "stampClock" /\ mCurrentMode' = "TIMED")
    BY <1>4, <2>1, <2>2
  <2>5. QED
    BY <1>4, <2>2, <2>3, <2>4
<1>5. CASE t = "vendor" /\ StampStart
  BY <1>5, GotoMoves DEF StampStart, Stamp
<1>6. CASE ExpireMode(t)
  BY <1>6, GotoMoves DEF ExpireMode, Expire
<1>7. CASE TellPermanent(t)
  BY <1>7, GotoMoves DEF TellPermanent
<1>8. CASE Report(t)
  BY <1>8, GotoMoves DEF Report
<1>9. CASE SpawnTimer(t)
  BY <1>9, GotoMoves DEF SpawnTimer
<1>10. CASE SetStarted(t)
  BY <1>10, GotoMoves DEF SetStarted
<1>11. CASE AbortTimer(t)
  BY <1>11, GotoMoves DEF AbortTimer
<1>12. QED
  BY <1>1, <1>2, <1>3, <1>4, <1>5, <1>6, <1>7, <1>8, <1>9, <1>10, <1>11 DEF Wrote, WriteStep

\* What a step of a timer does.
LEMMA TimerGoes ==
  ASSUME TypeOK, NEW i \in Timers, TimerRuns(i)
  PROVE  /\ UNCHANGED <<pc, reg, failures>>
         /\ \A j \in Timers : j # i => timer'[j] = timer[j]
         /\ \/ /\ timer[i] = "sleeping" /\ UNCHANGED <<trackerVars, timerFlags, told>>
               /\ timer'[i] = IF mIsLockoutTimerAborted THEN "finishing" ELSE "clearing"
            \/ /\ timer[i] = "clearing" /\ timer'[i] = "telling" /\ TimerWrites(i)
               /\ mCurrentMode' = "NONE" /\ UNCHANGED <<timerFlags, told, mFailedCount>>
            \/ /\ timer[i] = "telling" /\ timer'[i] = "finishing" /\ TimerWrites(i)
               /\ told' = "NONE" /\ UNCHANGED <<trackerVars, timerFlags>>
            \/ /\ timer[i] = "finishing" /\ timer'[i] = "none" /\ TimerWrites(i)
               /\ ~mIsLockoutTimerStarted' /\ ~mIsLockoutTimerAborted'
               /\ UNCHANGED <<trackerVars, told>>
<1>1. ASSUME NEW next, TimerGoto(i, next)
      PROVE  timer'[i] = next /\ \A j \in Timers : j # i => timer'[j] = timer[j]
  BY <1>1 DEF TimerGoto, TypeOK
<1>2. UNCHANGED <<pc, reg, failures>>
  BY TimerMoves DEF threadVars, failureVars
<1>3. CASE TimerWakes(i)
  BY <1>1, <1>2, <1>3 DEF TimerWakes
<1>4. CASE TimerClears(i)
  BY <1>1, <1>2, <1>4 DEF TimerClears, Reset
<1>5. CASE TimerTells(i)
  BY <1>1, <1>2, <1>5 DEF TimerTells
<1>6. CASE TimerFinishes(i)
  BY <1>1, <1>2, <1>6 DEF TimerFinishes
<1>7. QED
  BY <1>3, <1>4, <1>5, <1>6 DEF TimerRuns

LEMMA TimerNext ==
  ASSUME Serial, [Next]_vars, course' = "serial" PROVE TimerInv'
<1> USE DEF Serial, CourseInv
<1>1. ASSUME timer' = timer, mIsLockoutTimerStarted' = mIsLockoutTimerStarted,
             \A t \in Threads : \/ pc'[t] = pc[t]
                                \/ pc'[t] \notin {"spawn", "setStarted"} /\ pc[t] # "setStarted"
                                \/ pc'[t] = "spawn" /\ ~mIsLockoutTimerStarted
                                     /\ pc[t] # "setStarted"
      PROVE  TimerInv'
  <2>1. Pending' = Pending
    BY <1>1 DEF Pending
  <2>2. QED
    BY <1>1, <2>1 DEF TimerInv
<1>2. ASSUME NEW t \in Threads, Wrote(t) PROVE TimerInv'
  <2>0. /\ \A u \in Threads : u # t => pc[u] = "idle" /\ pc'[u] = "idle"
        /\ \A i \in Timers : timer[i] \notin {"clearing", "telling", "finishing"}
    BY <1>2, WroteAlone, WroteMoves
  <2>1. CASE pc[t] = "spawn"
    <3>1. pc[t] = "spawn" /\ pc'[t] = "setStarted"
      BY <1>2, <2>1, WriteGoes
    <3>2. Pending = {}
      BY <2>0, <3>1 DEF TimerInv
    <3>3. PICK i \in Timers : timer' = [timer EXCEPT ![i] = "sleeping"]
      BY <1>2, <2>1, WriteGoes DEF SpawnTimer
    <3>4. Pending' = {i}
      BY <3>2, <3>3 DEF Pending, TypeOK
    <3>5. QED
      BY <2>0, <3>1, <3>4 DEF TimerInv
  <2>2. CASE pc[t] = "setStarted"
    <3>1. pc[t] = "setStarted" /\ pc'[t] = "idle" /\ mIsLockoutTimerStarted' /\ timer' = timer
      BY <1>2, <2>2, WriteGoes DEF timerVars
    <3>2. Pending' = Pending /\ Pending # {}
      BY <3>1 DEF Pending, TimerInv
    <3>3. QED
      BY <2>0, <3>1, <3>2 DEF TimerInv
  <2>3. CASE pc[t] \notin {"spawn", "setStarted"}
    <3>1. timer' = timer /\ mIsLockoutTimerStarted' = mIsLockoutTimerStarted
      BY <1>2, <2>3, WriteGoes DEF timerFlags, timerVars
    <3>2. pc'[t] \notin {"spawn", "setStarted"} /\ pc[t] # "setStarted"
      BY <1>2, <2>3, WriteGoes
    <3>3. QED
      BY <1>1, <2>0, <3>1, <3>2
  <2>4. QED
    BY <2>1, <2>2, <2>3
<1>3. CASE AuthFailed \/ ReadStampClock \/ OnPointerDown
  <2>1. timer' = timer /\ mIsLockoutTimerStarted' = mIsLockoutTimerStarted
    BY <1>3 DEF AuthFailed, ReadStampClock, OnPointerDown, timerFlags, timerVars
  <2>2. QED
    BY <1>1, <1>3, <2>1, BeginGoes DEF Moves
<1>4. ASSUME NEW t \in Threads, ReadStep(t) PROVE TimerInv'
  <2>1. timer' = timer /\ mIsLockoutTimerStarted' = mIsLockoutTimerStarted
    BY <1>4, ReadMoves DEF Reads, timerFlags, timerVars
  <2>2. \/ pc'[t] \notin {"spawn", "setStarted"} /\ pc[t] # "setStarted"
        \/ pc'[t] = "spawn" /\ ~mIsLockoutTimerStarted /\ pc[t] # "setStarted"
    BY <1>4, ReadGoes
  <2>3. QED
    BY <1>1, <1>4, <2>1, <2>2, ReadMoves DEF Moves
<1>5. ASSUME NEW i \in Timers, TimerRuns(i) PROVE TimerInv'
  <2>1. CASE timer'[i] # "none"
    <3>1. Pending' = Pending
      BY <1>5, <2>1, TimerGoes DEF Pending
    <3>2. UNCHANGED pc /\ mIsLockoutTimerStarted' = mIsLockoutTimerStarted
      BY <1>5, <2>1, TimerGoes DEF timerFlags
    <3>3. QED
      BY <3>1, <3>2 DEF TimerInv
  <2>2. CASE timer'[i] = "none"
    <3>1. /\ TimerWrites(i) /\ UNCHANGED pc /\ ~mIsLockoutTimerStarted'
          /\ timer[i] = "finishing" /\ \A j \in Timers : j # i => timer'[j] = timer[j]
      BY <1>5, <2>2, TimerGoes
    <3>2. \A t \in Threads : pc'[t] = "idle"
      BY <3>1, AloneTimer
    <3>3. Pending' = {}
      BY <2>2, <3>1 DEF Pending, TimerInv
    <3>4. QED
      BY <3>1, <3>2, <3>3 DEF TimerInv
  <2>3. QED
    BY <2>1, <2>2
<1>6. CASE Tick \/ UNCHANGED vars
  BY <1>1, <1>6 DEF Tick, vars, threadVars, timerVars, timerFlags
<1>7. QED
  BY CourseCases, <1>2, <1>3, <1>4, <1>5, <1>6

LEMMA ModeNext ==
  ASSUME Serial, [Next]_vars, course' = "serial" PROVE ModeInv'
<1> USE DEF Serial, CourseInv, TimedPcs, AbortPcs
<1>1. ASSUME UNCHANGED <<timer, mIsLockoutTimerAborted, mCurrentMode>>,
             \A t \in Threads :
               \/ pc'[t] = pc[t]
               \/ pc'[t] \in AbortPcs \ {"permanent", "abort"}
               \/ pc'[t] \in TimedPcs /\ mCurrentMode = "TIMED"
               \/ pc'[t] = "permanent" /\ mCurrentMode = "PERMANENT"
               \/ pc'[t] = "abort" /\ mCurrentMode # "TIMED"
               \/ pc'[t] = "idle" /\ pc[t] \notin AbortPcs
               \/ pc'[t] = "idle" /\ mCurrentMode # "PERMANENT"
      PROVE  ModeInv'
  <2>1. Pending' = Pending
    BY <1>1 DEF Pending
  <2>2. QED
    BY <1>1, <2>1 DEF ModeInv
<1>2. ASSUME NEW t \in Threads, Wrote(t) PROVE ModeInv'
  <2>0. /\ \A u \in Threads : u # t => pc[u] = "idle" /\ pc'[u] = "idle"
        /\ \A i \in Timers : timer[i] \notin {"clearing", "telling", "finishing"}
    BY <1>2, WroteAlone, WroteMoves
  <2>1. \A i \in Timers : timer'[i] \notin {"clearing", "telling", "finishing"}
    <3>1. CASE SpawnTimer(t)
      BY <2>0, <3>1 DEF SpawnTimer, TypeOK
    <3>2. CASE ~SpawnTimer(t)
      BY <1>2, <2>0, <3>2, WriteGoes DEF timerVars
    <3>3. QED
      BY <3>1, <3>2
  <2>2. ASSUME mCurrentMode' = "NONE", pc'[t] \in {"idle", "tellCleared", "return", "abort"}
        PROVE  ModeInv'
    BY <2>0, <2>1, <2>2 DEF ModeInv
  <2>3. ASSUME pc'[t] \in {"mode", "return"} PROVE ModeInv'
    BY <2>0, <2>1, <2>3 DEF ModeInv
  <2>4. ASSUME mCurrentMode' = "TIMED", pc'[t] \in TimedPcs \cup {"idle"} PROVE ModeInv'
    BY <2>0, <2>1, <2>4 DEF ModeInv
  <2>5. ASSUME mCurrentMode' = "PERMANENT", pc'[t] = "abort" PROVE ModeInv'
    BY <2>0, <2>1, <2>5 DEF ModeInv
  <2>6. CASE pc[t] \in {"idle", "count", "stamp", "expire"}
    BY <1>2, <2>2, <2>3, <2>4, <2>6, WriteGoes
  <2>7. CASE pc[t] = "tellCleared"
    BY <1>2, <2>2, <2>7, WriteGoes DEF ModeInv, trackerVars
  <2>8. CASE pc[t] = "permanent"
    BY <1>2, <2>5, <2>8, WriteGoes DEF ModeInv, trackerVars
  <2>9. CASE pc[t] \in {"report", "spawn", "setStarted"}
    BY <1>2, <2>4, <2>9, WriteGoes DEF ModeInv, trackerVars
  <2>10. CASE pc[t] = "abort"
    <3>1. /\ pc[t] = "abort" /\ pc'[t] = "idle" /\ mCurrentMode' = mCurrentMode
          /\ mIsLockoutTimerAborted'
      BY <1>2, <2>10, WriteGoes DEF trackerVars
    <3>2. QED
      BY <2>0, <2>1, <3>1 DEF ModeInv
  <2>11. QED
    BY <1>2, <2>6, <2>7, <2>8, <2>9, <2>10, WriteGoes
<1>3. CASE AuthFailed \/ ReadStampClock \/ OnPointerDown
  <2>1. UNCHANGED <<timer, mIsLockoutTimerAborted, mCurrentMode>>
    BY <1>3 DEF AuthFailed, ReadStampClock, OnPointerDown, timerFlags, timerVars, trackerVars
  <2>2. ReadStampClock => mCurrentMode = "TIMED"
    BY BeginGoes DEF ModeInv
  <2>3. QED
    BY <1>1, <1>3, <2>1, <2>2, BeginGoes DEF Moves
<1>4. ASSUME NEW t \in Threads, ReadStep(t) PROVE ModeInv'
  <2>1. UNCHANGED <<timer, mIsLockoutTimerAborted, mCurrentMode>>
    BY <1>4, ReadMoves DEF Reads, timerFlags, timerVars, trackerVars
  <2>2. \/ pc'[t] \in AbortPcs \ {"permanent", "abort"}
        \/ pc'[t] \in TimedPcs /\ mCurrentMode = "TIMED"
        \/ pc'[t] = "permanent" /\ mCurrentMode = "PERMANENT"
        \/ pc'[t] = "idle" /\ pc[t] \notin AbortPcs
        \/ pc'[t] = "idle" /\ mCurrentMode # "PERMANENT"
    BY <1>4, ReadGoes DEF ModeInv
  <2>3. QED
    BY <1>1, <1>4, <2>1, <2>2, ReadMoves DEF Moves
<1>5. ASSUME NEW i \in Timers, TimerRuns(i) PROVE ModeInv'
  <2>0. UNCHANGED pc /\ \A j \in Timers : j # i => timer'[j] = timer[j]
    BY <1>5, TimerGoes
  <2>1. CASE timer[i] = "sleeping"
    <3>1. /\ UNCHANGED <<mCurrentMode, mIsLockoutTimerAborted>>
          /\ timer'[i] = IF mIsLockoutTimerAborted THEN "finishing" ELSE "clearing"
      BY <1>5, <2>1, TimerGoes DEF trackerVars, timerFlags
    <3>2. Pending # {} /\ Pending' = Pending
      BY <2>0, <2>1, <3>1 DEF Pending
    <3>3. QED
      BY <2>0, <3>1, <3>2 DEF ModeInv
  <2>2. CASE timer[i] # "sleeping"
    <3>1. TimerWrites(i) /\ \A t \in Threads : pc[t] = "idle"
      BY <1>5, <2>2, TimerGoes, AloneTimer
    <3>2. \A j \in Timers : j # i => timer[j] \notin {"clearing", "telling", "finishing"}
      BY <3>1, AloneTimer
    <3>3. CASE timer[i] \in {"clearing", "telling"}
      <4>1. mCurrentMode' = "NONE"
        BY <1>5, <3>3, TimerGoes DEF ModeInv, trackerVars
      <4>2. QED
        BY <2>0, <3>1, <4>1 DEF ModeInv
    <3>4. CASE timer[i] = "finishing"
      <4>1. timer'[i] = "none" /\ mCurrentMode' = mCurrentMode
        BY <1>5, <3>4, TimerGoes DEF trackerVars
      <4>2. Pending' = {}
        BY <2>0, <3>4, <4>1 DEF Pending, TimerInv
      <4>3. QED
        BY <2>0, <3>1, <3>2, <4>1, <4>2 DEF ModeInv
    <3>5. QED
      BY <1>5, <2>2, <3>3, <3>4, TimerGoes
  <2>3. QED
    BY <2>1, <2>2
<1>6. CASE Tick \/ UNCHANGED vars
  BY <1>1, <1>6 DEF Tick, vars, threadVars, timerVars, timerFlags, trackerVars
<1>7. QED
  BY CourseCases, <1>2, <1>3, <1>4, <1>5, <1>6

LEMMA CountNext ==
  ASSUME Serial, [Next]_vars, course' = "serial" PROVE CountInv'
<1> USE DEF Serial, CourseInv, CountInv
<1>1. ASSUME NEW t \in Threads, Wrote(t) PROVE CountInv'
  <2>1. pc'["vendor"] # "count"
    <3>1. CASE t = "vendor"
      BY <1>1, <3>1, WriteGoes
    <3>2. CASE t = "binder"
      BY <1>1, <3>2, WroteMoves
    <3>3. QED
      BY <3>1, <3>2
  <2>2. QED
    BY <2>1
<1>2. CASE AuthFailed \/ ReadStampClock \/ OnPointerDown
  BY <1>2, BeginGoes DEF Moves, AuthFailed, ReadStampClock, OnPointerDown, trackerVars
<1>3. ASSUME NEW t \in Threads, ReadStep(t) PROVE CountInv'
  <2>1. pc'["vendor"] = "count" => pc["vendor"] = "count" /\ reg'["vendor"] = reg["vendor"]
    BY <1>3, ReadMoves, ReadGoes DEF Moves
  <2>2. QED
    BY <1>3, <2>1, ReadMoves DEF Reads, trackerVars
<1>4. ASSUME NEW i \in Timers, TimerRuns(i) PROVE CountInv'
  <2>1. CASE TimerWrites(i)
    BY <1>4, <2>1, AloneTimer, TimerGoes
  <2>2. CASE ~TimerWrites(i)
    BY <1>4, <2>2, TimerGoes DEF trackerVars
  <2>3. QED
    BY <2>1, <2>2
<1>5. CASE Tick \/ UNCHANGED vars
  BY <1>5 DEF Tick, vars, threadVars, trackerVars
<1>6. QED
  BY CourseCases, <1>1, <1>2, <1>3, <1>4, <1>5

LEMMA ToldNext ==
  ASSUME Serial, [Next]_vars, course' = "serial" PROVE ToldInv'
<1> USE DEF Serial, CourseInv, BehindPcs
<1>1. ASSUME UNCHANGED <<told, mCurrentMode, failures>>,
             \A t \in Threads : \/ pc[t] \in BehindPcs => pc'[t] \in BehindPcs
                                \/ mCurrentMode = "NONE"
      PROVE  ToldInv'
  BY <1>1 DEF ToldInv
<1>2. ASSUME NEW t \in Threads, Wrote(t) PROVE ToldInv'
  <2>0. \A u \in Threads : u # t => pc[u] = "idle" /\ pc'[u] = "idle"
    BY <1>2, WroteAlone, WroteMoves
  <2>1. CASE pc[t] \in {"idle", "count", "stamp", "expire"}
    <3>1. mCurrentMode' = "NONE" \/ pc'[t] \in BehindPcs
      BY <1>2, <2>1, WriteGoes
    <3>2. QED
      BY <3>1 DEF ToldInv
  <2>2. CASE pc[t] \in {"tellCleared", "permanent", "report"}
    <3>1. told' = mCurrentMode'
      BY <1>2, <2>2, WriteGoes DEF ModeInv, TimedPcs, trackerVars
    <3>2. QED
      BY <3>1 DEF ToldInv
  <2>3. CASE pc[t] \in {"spawn", "setStarted", "abort"}
    <3>1. UNCHANGED <<told, mCurrentMode>>
      BY <1>2, <2>3, WriteGoes DEF trackerVars
    <3>2. failures' = failures
      BY <1>2, <2>3, WriteMoves, WriteGoes DEF WriteStep, failureVars
    <3>3. QED
      BY <1>1, <2>0, <2>3, <3>1, <3>2
  <2>4. QED
    BY <1>2, <2>1, <2>2, <2>3, WriteGoes
<1>3. CASE AuthFailed
  BY <1>3, BeginGoes DEF ToldInv
<1>4. CASE ReadStampClock \/ OnPointerDown
  <2>1. UNCHANGED <<told, mCurrentMode, failures>>
    BY <1>4 DEF ReadStampClock, OnPointerDown, trackerVars, failureVars
  <2>2. QED
    BY <1>1, <1>4, <2>1, BeginGoes DEF Moves
<1>5. ASSUME NEW t \in Threads, ReadStep(t) PROVE ToldInv'
  <2>1. UNCHANGED <<told, mCurrentMode, failures>>
    BY <1>5, ReadMoves DEF Reads, trackerVars, failureVars
  <2>2. \/ pc[t] \in BehindPcs => pc'[t] \in BehindPcs
        \/ mCurrentMode = "NONE"
    BY <1>5, ReadGoes
  <2>3. QED
    BY <1>1, <1>5, <2>1, <2>2, ReadMoves DEF Moves
<1>6. ASSUME NEW i \in Timers, TimerRuns(i) PROVE ToldInv'
  BY <1>6, TimerGoes DEF ToldInv, ModeInv, trackerVars
<1>7. CASE Tick \/ UNCHANGED vars
  BY <1>7 DEF Tick, vars, threadVars, trackerVars, failureVars, ToldInv
<1>8. QED
  BY CourseCases, <1>2, <1>3, <1>4, <1>5, <1>6, <1>7

LEMMA EndsNext ==
  ASSUME Serial, [Next]_vars, course' = "serial" PROVE TimerEndsLockout'
<1> USE DEF Serial, CourseInv, TimerEndsLockout
<1>1. ASSUME NEW t \in Threads, Wrote(t) PROVE TimerEndsLockout'
  <2>0. \A i \in Timers : timer[i] \notin {"clearing", "telling", "finishing"}
    BY <1>1, WroteAlone
  <2>1. CASE SpawnTimer(t)
    BY <2>0, <2>1 DEF SpawnTimer, TypeOK
  <2>2. CASE ~SpawnTimer(t)
    BY <1>1, <2>0, <2>2, WriteGoes DEF timerVars
  <2>3. QED
    BY <2>1, <2>2
<1>2. CASE AuthFailed \/ ReadStampClock \/ OnPointerDown
  BY <1>2 DEF AuthFailed, ReadStampClock, OnPointerDown, timerFlags, timerVars
<1>3. ASSUME NEW t \in Threads, ReadStep(t) PROVE TimerEndsLockout'
  BY <1>3, ReadMoves DEF Reads, timerFlags, timerVars
<1>4. ASSUME NEW i \in Timers, TimerRuns(i) PROVE TimerEndsLockout'
  <2>1. CASE timer[i] \in {"sleeping", "clearing", "telling"}
    BY <1>4, <2>1, TimerGoes DEF timerFlags
  <2>2. CASE timer[i] = "finishing"
    <3>1. timer'[i] = "none" /\ TimerWrites(i) /\ \A j \in Timers : j # i => timer'[j] = timer[j]
      BY <1>4, <2>2, TimerGoes
    <3>2. QED
      BY <3>1, AloneTimer
  <2>3. QED
    BY <1>4, <2>1, <2>2, TimerGoes
<1>5. CASE Tick \/ UNCHANGED vars
  BY <1>5 DEF Tick, vars, timerFlags, timerVars
<1>6. QED
  BY CourseCases, <1>1, <1>2, <1>3, <1>4, <1>5

-------------------------------------------------------------------------------
(* The theorems for an undisturbed course *)

\* Until a thread writes in the middle of another's handler, timers, flags, tracker,
\* counter and framework stay in step with one another, whatever the uninitialised
\* members hold.
THEOREM SerialInductive == Spec => []SerialInv
<1>1. Init => SerialInv
  BY TypeInit, CourseInit DEF SerialInv
<1>2. SerialInv /\ [Next]_vars => SerialInv'
  <2> SUFFICES ASSUME SerialInv, [Next]_vars PROVE SerialInv'
    OBVIOUS
  <2>1. TypeOK'
    BY TypeNext DEF SerialInv
  <2>2. ASSUME course' = "serial" PROVE CourseInv'
    <3>1. Serial
      BY <2>2, CourseStays DEF Serial, SerialInv
    <3>2. QED
      BY <2>2, <3>1, TimerNext, ModeNext, CountNext, ToldNext, EndsNext DEF CourseInv
  <2>3. QED
    BY <2>1, <2>2 DEF SerialInv
<1>3. QED
  BY <1>1, <1>2, PTL DEF Spec

\* Undisturbed and between handlers, mIsLockoutTimerStarted says whether a lockout
\* timer is pending, and never are two: for all thresholds and durations.
THEOREM AtMostOneTimer == Spec => []OneTimer
<1>1. SerialInv => OneTimer
  BY DEF SerialInv, CourseInv, TimerInv, OneTimer, Quiet, Busy
<1>2. QED
  BY <1>1, SerialInductive, PTL

\* A permanent lockout is permanent in an undisturbed course: the only steps that
\* leave it zero the attempt counter. A timer that is still pending has been aborted
\* by the time the check that found the lockout is over (ModeInv), and a further
\* failure finds the count still at the threshold (CountInv).
THEOREM PermanentIsPermanent == Spec => PermanentSticky
<1>1. ASSUME Serial, [Next]_vars, course' = "serial", mFailedCount >= PermanentThreshold,
             mCurrentMode = "PERMANENT", mCurrentMode' # "PERMANENT"
      PROVE  mFailedCount' = 0
  <2>1. CASE AuthSucceeded \/ ResetLockout
    BY <2>1 DEF AuthSucceeded, ResetLockout, Reset
  <2>2. CASE CountFailure
    <3>1. reg["vendor"] = mFailedCount /\ mFailedCount \in Int
      BY <2>2, <1>1 DEF CountFailure, Serial, CourseInv, CountInv, TypeOK, TrackerTypeOK
    <3>2. QED
      BY <1>1, <2>2, <3>1, TrackerAssumption DEF CountFailure, AddFailedAttempt, LocksForATime
  <2>3. ASSUME NEW t \in Threads, Wrote(t),
               ~(AuthSucceeded \/ ResetLockout \/ CountFailure)
        PROVE  FALSE
    BY <1>1, <2>3, WriteGoes DEF Serial, CourseInv, ModeInv, TimedPcs, trackerVars
  <2>4. ASSUME NEW i \in Timers, TimerRuns(i) PROVE FALSE
    <3>1. timer[i] = "clearing" /\ TimerWrites(i)
      BY <1>1, <2>4, TimerGoes DEF Serial, trackerVars
    <3>2. QED
      BY <1>1, <3>1, AloneTimer DEF Serial, CourseInv, ModeInv, AbortPcs
  <2>5. ASSUME NEW t \in Threads, ReadStep(t) PROVE FALSE
    BY <1>1, <2>5, ReadMoves DEF Serial, Reads, trackerVars
  <2>6. CASE AuthFailed \/ OnPointerDown \/ ReadStampClock \/ Tick \/ UNCHANGED vars
    BY <1>1, <2>6 DEF AuthFailed, OnPointerDown, ReadStampClock, Tick, vars, trackerVars
  <2>7. QED
    BY <1>1, CourseCases, <2>1, <2>2, <2>3, <2>4, <2>5, <2>6
<1>2. SerialInv /\ [Next]_vars =>
        [course' = "serial" /\ mFailedCount >= PermanentThreshold
           => (mCurrentMode = "PERMANENT" /\ mCurrentMode' # "PERMANENT"
                 => mFailedCount' = 0)]_vars
  BY <1>1, CourseStays DEF SerialInv, Serial
<1>3. QED
  BY <1>2, SerialInductive, PTL DEF Spec, PermanentSticky

\* Undisturbed, the framework is never unaware of a lockout.
THEOREM FrameworkIsTold == Spec => []FrameworkKnows
<1>1. SerialInv => FrameworkKnows
  BY DEF SerialInv, CourseInv, ToldInv, FrameworkKnows, Quiet, Busy, BehindPcs
<1>2. QED
  BY <1>1, SerialInductive, PTL

\* Undisturbed, a lockout timer does not end while the framework believes in its
\* lockout.
THEOREM TimersTellBeforeTheyEnd == Spec => []TimerEndsLockout
<1>1. SerialInv => TimerEndsLockout
  BY DEF SerialInv, CourseInv, TimerEndsLockout
<1>2. QED
  BY <1>1, SerialInductive, PTL

-------------------------------------------------------------------------------
(* The session implements LockoutPolicy *)

PolicyStep == [Policy!Next]_(Policy!policyVars)

\* A step that leaves the tracker, the framework and the course alone.
LEMMA Stutters ==
  ASSUME UNCHANGED <<trackerVars, told, course>> PROVE PolicyStep
BY DEF PolicyStep, trackerVars, Policy!policyVars

\* The steps of the threads that write the tracker or call the framework.
LEMMA PolicyWrites ==
  ASSUME Serial, course' = "serial", NEW t \in Threads, Wrote(t) PROVE PolicyStep
<1> USE DEF Serial, CourseInv, PolicyStep, Policy!Next, Policy!Keep
<1>0. course' = course
  OBVIOUS
<1>1. CASE AuthSucceeded \/ ResetLockout
  <2>1. Policy!Clear
    BY <1>1 DEF AuthSucceeded, ResetLockout, Reset, Policy!Clear
  <2>2. QED
    BY <1>0, <2>1
<1>2. CASE CountFailure
  <2>1. mFailedCount' = mFailedCount + 1 /\ mFailedCount \in Int /\ told' = told
    BY <1>2 DEF CountFailure, AddFailedAttempt, CountInv, TypeOK, TrackerTypeOK
  <2>2. \/ mFailedCount' >= PermanentThreshold /\ mCurrentMode' = "PERMANENT"
        \/ /\ mFailedCount' \in TimedThreshold .. PermanentThreshold - 1
           /\ mCurrentMode' = "TIMED"
        \/ mFailedCount' < TimedThreshold /\ mCurrentMode' = mCurrentMode
    BY <1>2, <2>1 DEF CountFailure, AddFailedAttempt, LocksForATime, CountInv
  <2>3. Policy!Fail
    BY <2>1, <2>2, TrackerAssumption DEF Policy!Fail
  <2>4. QED
    BY <1>0, <2>3
<1>3. CASE ExpireMode(t)
  <2>1. Policy!Expire
    BY <1>3 DEF ExpireMode, Expire, ModeInv, TimedPcs, Policy!Expire
  <2>2. QED
    BY <1>0, <2>1
<1>4. CASE TellCleared \/ TellPermanent(t) \/ Report(t)
  <2>1. told' = mCurrentMode /\ UNCHANGED trackerVars
    BY <1>4 DEF TellCleared, TellPermanent, Report, ModeInv, TimedPcs
  <2>2. Policy!Tell
    BY <2>1 DEF Policy!Tell, trackerVars
  <2>3. QED
    BY <1>0, <2>2
<1>5. CASE SpawnTimer(t) \/ SetStarted(t) \/ AbortTimer(t)
  BY <1>0, <1>5, Stutters DEF SpawnTimer, SetStarted, AbortTimer
<1>6. CASE StampStart
  BY <1>0, <1>6 DEF StampStart, Stamp, Policy!policyVars
<1>7. QED
  BY <1>1, <1>2, <1>3, <1>4, <1>5, <1>6 DEF Wrote, WriteStep

\* The steps of the timers.
LEMMA PolicyTimers ==
  ASSUME Serial, course' = "serial", NEW i \in Timers, TimerRuns(i) PROVE PolicyStep
<1> USE DEF Serial, CourseInv, PolicyStep, Policy!Next, Policy!Keep
<1>0. course' = course
  OBVIOUS
<1>1. CASE TimerWakes(i) \/ TimerFinishes(i)
  BY <1>0, <1>1, Stutters DEF TimerWakes, TimerFinishes
<1>2. CASE TimerClears(i)
  <2>1. timer[i] = "clearing" /\ \A t \in Threads : pc[t] = "idle"
    BY <1>2, AloneTimer DEF TimerClears
  <2>2. mCurrentMode \in {"NONE", "TIMED"}
    BY <2>1 DEF ModeInv, AbortPcs, TypeOK, TrackerTypeOK
  <2>3. mCurrentMode' = "NONE" /\ UNCHANGED <<mFailedCount, told>>
    BY <1>2 DEF TimerClears, Reset
  <2>4. QED
    BY <1>0, <2>2, <2>3 DEF Policy!Expire, Policy!policyVars
<1>3. CASE TimerTells(i)
  <2>1. Policy!Tell
    BY <1>3 DEF TimerTells, ModeInv, trackerVars, Policy!Tell
  <2>2. QED
    BY <1>0, <2>1
<1>4. QED
  BY <1>1, <1>2, <1>3 DEF TimerRuns

\* Undisturbed the session is a LockoutPolicy: its writes of the tracker and its calls
\* of the framework are each a step of the policy's; the rest stutter.
THEOREM SessionIsPolicy == Spec => ImplementsLockoutPolicy
<1>1. Init => Policy!Init
  BY DEF Init, TrackerInit, Policy!Init
<1>2. ASSUME SerialInv, [Next]_vars PROVE PolicyStep
  <2>1. CASE course' = "disturbed"
    BY <2>1 DEF PolicyStep, Policy!Next, Policy!Disturb
  <2>2. CASE course' = "serial"
    <3>1. Serial
      BY <1>2, <2>2, CourseStays DEF Serial, SerialInv
    <3>2. ASSUME NEW t \in Threads, ReadStep(t) PROVE PolicyStep
      BY <3>1, <3>2, ReadMoves, Stutters DEF Serial, Reads
    <3>3. CASE AuthFailed \/ OnPointerDown \/ ReadStampClock \/ Tick \/ UNCHANGED vars
      BY <3>3, Stutters DEF AuthFailed, OnPointerDown, ReadStampClock, Tick, vars
    <3>4. QED
      BY <1>2, <2>2, <3>1, <3>2, <3>3, CourseCases, PolicyWrites, PolicyTimers
  <2>3. QED
    BY <1>2, <2>1, <2>2, TypeNext DEF SerialInv, TypeOK
<1>3. SerialInv /\ [Next]_vars => [Policy!Next]_(Policy!policyVars)
  BY <1>2 DEF PolicyStep
<1>4. QED
  BY <1>1, <1>3, SerialInductive, PTL DEF Spec, ImplementsLockoutPolicy, Policy!Spec
===============================================================================
