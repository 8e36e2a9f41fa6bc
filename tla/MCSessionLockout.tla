---- MODULE MCSessionLockout ----
(* TLC instances of SessionLockout. *)
EXTENDS SessionLockout, TLC

CONSTANTS s1, s2, s3
Slots == {s1, s2, s3}
TwoSlots == {s1, s2}
SlotSymmetry == Permutations(Slots)

\* Memory that was zeroed, and memory that was not.
ZeroMode   == {"NONE"}
ZeroStart  == {0}
AnyMode    == LockoutModes
AnyStart   == {-9, 0, 99}

\* Beyond a disturbance the properties of an undisturbed course say nothing.
Undisturbed == course = "serial"
====
