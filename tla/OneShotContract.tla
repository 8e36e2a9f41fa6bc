--------------------------- MODULE OneShotContract ---------------------------
(***************************************************************************)
(* What a one-shot sensor promises its client, free of threads, pipes and  *)
(* sockets: activating it buys one event; reporting that event disarms it; *)
(* deactivating it may come too late to take the event back.               *)
(***************************************************************************)
EXTENDS Naturals

VARIABLES
  armed,    \* the client's view of "enabled"
  credit    \* events the latest activation still pays for

contractVars == <<armed, credit>>

Init == armed = FALSE /\ credit = 0

\* The client arms the sensor, which buys one event whatever was left over.
Arm ==
  /\ ~armed
  /\ armed' = TRUE
  /\ credit' = 1

\* The client disarms it. An event already on its way may still be reported.
Disarm ==
  /\ armed
  /\ armed' = FALSE
  /\ UNCHANGED credit

\* The event: it costs the credit and leaves the sensor disarmed.
Fire ==
  /\ credit = 1
  /\ credit' = 0
  /\ armed' = FALSE

Next == Arm \/ Disarm \/ Fire

Spec == Init /\ [][Next]_contractVars
==============================================================================
