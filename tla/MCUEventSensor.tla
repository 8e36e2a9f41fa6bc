---- MODULE MCUEventSensor ----
(* TLC instances of UEventSensor. *)
EXTENDS UEventSensor, TLC

CONSTANTS c1, c2
OneCaller == {c1}
TwoCallers == {c1, c2}
CallerSymmetry == Permutations(TwoCallers)
====
