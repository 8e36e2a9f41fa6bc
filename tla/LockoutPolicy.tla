----------------------------- MODULE LockoutPolicy -----------------------------
(***************************************************************************)
(* What a fingerprint session promises of its lockout: it takes so many    *)
(* failures, only a success or resetLockout forgets them, time ends a timed*)
(* lockout and never a permanent one, and the framework is never told of a *)
(* lockout that is not, nor of an end that has not come. No threads, timers*)
(* or flags, and no clock: when a timed lockout expires is left open. The  *)
(* promise ends when two of the session's threads have come in each other's*)
(* way.                                                                    *)
(***************************************************************************)
EXTENDS Naturals

CONSTANTS TimedThreshold, PermanentThreshold, InitModes

VARIABLES
  attempts,  \* failures since the last Clear
  mode,      \* the lockout they have led to
  told,      \* what the framework was last told of it
  course     \* "serial" as long as the promise stands

policyVars == <<attempts, mode, told, course>>

Init == attempts = 0 /\ mode \in InitModes /\ told = "NONE" /\ course = "serial"

Fail ==
  /\ attempts' = attempts + 1
  /\ mode' = CASE attempts' >= PermanentThreshold -> "PERMANENT"
               [] attempts' \in TimedThreshold .. PermanentThreshold - 1 -> "TIMED"
               [] OTHER -> mode
  /\ UNCHANGED told

\* A success or resetLockout.
Clear ==
  /\ attempts' = 0
  /\ mode' = "NONE"
  /\ UNCHANGED told

\* The failures stay: the next one locks again.
Expire ==
  /\ mode = "TIMED"
  /\ mode' = "NONE"
  /\ UNCHANGED <<attempts, told>>

Tell ==
  /\ told' = mode
  /\ UNCHANGED <<attempts, mode>>

Keep == (Fail \/ Clear \/ Expire \/ Tell) /\ UNCHANGED course

Disturb == course' = "disturbed"

Next == Keep \/ Disturb

Spec == Init /\ [][Next]_policyVars
===============================================================================
