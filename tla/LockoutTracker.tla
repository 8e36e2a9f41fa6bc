---------------------------- MODULE LockoutTracker ----------------------------
(***************************************************************************)
(* LockoutTracker: the failed attempts of a session and the lockout they   *)
(* have led to. No method locks anything: a method in the middle of which  *)
(* another thread can come is given here as its tests and its writes.      *)
(***************************************************************************)
EXTENDS Integers

CONSTANTS
  TimedThreshold,      \* LOCKOUT_TIMED_THRESHOLD
  PermanentThreshold,  \* LOCKOUT_PERMANENT_THRESHOLD
  TimedDuration,       \* LOCKOUT_TIMED_DURATION, in clock ticks
  InitModes,           \* what the uninitialised mCurrentMode may hold
  InitStarts           \* what the uninitialised mLockoutTimedStart may hold

LockoutModes == {"NONE", "TIMED", "PERMANENT"}

ASSUME TrackerAssumption ==
  /\ TimedThreshold \in Nat \ {0}
  /\ PermanentThreshold \in Nat
  /\ TimedThreshold < PermanentThreshold
  /\ TimedDuration \in Nat \ {0}
  /\ InitModes \in SUBSET LockoutModes
  /\ \A start \in InitStarts : start \in Int

VARIABLES
  mFailedCount,
  mLockoutTimedStart,
  mCurrentMode

trackerVars == <<mFailedCount, mLockoutTimedStart, mCurrentMode>>

TrackerTypeOK ==
  /\ mFailedCount \in Int
  /\ mLockoutTimedStart \in Int
  /\ mCurrentMode \in LockoutModes

\* Only mFailedCount has an initialiser.
TrackerInit ==
  /\ mFailedCount = 0
  /\ mLockoutTimedStart \in InitStarts
  /\ mCurrentMode \in InitModes

Reset(clearAttemptCounter) ==
  /\ mFailedCount' = IF clearAttemptCounter THEN 0 ELSE mFailedCount
  /\ mLockoutTimedStart' = 0
  /\ mCurrentMode' = "NONE"

\* The attempt after count others locks for a time.
LocksForATime(count) == count + 1 \in TimedThreshold .. PermanentThreshold - 1

\* Mutant: the permanent threshold is compared one attempt early.
AddFailedAttemptEarly(count) ==
  /\ mFailedCount' = count + 1
  /\ mCurrentMode' = IF count + 1 >= PermanentThreshold - 1 THEN "PERMANENT"
                     ELSE mCurrentMode
  /\ UNCHANGED mLockoutTimedStart

\* addFailedAttempt, given the count its mFailedCount++ has read, down to the
\* new mode; the time of a timed lockout is stamped later.
AddFailedAttempt(count) ==
  /\ mFailedCount' = count + 1
  /\ \/ /\ count + 1 >= PermanentThreshold
        /\ mCurrentMode' = "PERMANENT"
     \/ /\ LocksForATime(count)
        /\ mCurrentMode' = "TIMED"
     \/ /\ count + 1 < TimedThreshold
        /\ UNCHANGED mCurrentMode
  /\ UNCHANGED mLockoutTimedStart

Stamp(time) ==
  /\ mLockoutTimedStart' = time
  /\ UNCHANGED <<mFailedCount, mCurrentMode>>

\* Mutant: the lockout is left to the timer alone.
HasElapsedNever(start, time) == FALSE

\* Util::hasElapsed(start, TimedDuration), which is strict.
HasElapsed(start, time) == time >= start /\ time - start > TimedDuration

Expire ==
  /\ mCurrentMode' = "NONE"
  /\ mLockoutTimedStart' = 0
  /\ UNCHANGED mFailedCount
===============================================================================
