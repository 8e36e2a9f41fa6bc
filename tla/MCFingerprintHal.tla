---- MODULE MCFingerprintHal ----
(* TLC instances of FingerprintHal. *)
EXTENDS FingerprintHal, TLC

CONSTANTS u1, u2
OneUser == {u1}
TwoUsers == {u1, u2}
UserSymmetry == Permutations(TwoUsers)
====
