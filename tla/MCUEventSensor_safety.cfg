SPECIFICATION Spec
CONSTANTS
  c1 = c1
  c2 = c2
  Callers <- TwoCallers
  PipeCap = 2
  SockCap = 2
  MaxCalls = 5
  VtableRace = TRUE
SYMMETRY CallerSymmetry
INVARIANTS
  IndInv
  OneShot
  NoLostWakeup
  NoLostNotify
  WedgeTakesCalls
PROPERTIES
  WedgedForever
CHECK_DEADLOCK FALSE
