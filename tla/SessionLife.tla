------------------------------ MODULE SessionLife ------------------------------
(***************************************************************************)
(* What createSession and close promise the framework: one session at a    *)
(* time. A session is created only when there is none or the last one has  *)
(* been closed to the end, onSessionClosed included, and a session is      *)
(* closed once, whether its client does it or the notice of its death.     *)
(***************************************************************************)
EXTENDS Naturals

VARIABLES
  sessions,  \* created so far
  phase      \* of the last one

vars == <<sessions, phase>>

Init == sessions = 0 /\ phase = "none"

Create ==
  /\ phase \in {"none", "closed"}
  /\ sessions' = sessions + 1
  /\ phase' = "open"

\* From here on isClosed() is true.
StartClose ==
  /\ phase = "open"
  /\ phase' = "closing"
  /\ UNCHANGED sessions

\* onSessionClosed has been called.
EndClose ==
  /\ phase = "closing"
  /\ phase' = "closed"
  /\ UNCHANGED sessions

Next == Create \/ StartClose \/ EndClose

Spec == Init /\ [][Next]_vars
===============================================================================
