SPECIFICATION Spec
CONSTANTS
  c1 = c1
  c2 = c2
  Callers <- OneCaller
  PipeCap = 2
  SockCap = 2
  MaxCalls = 2
  VtableRace = TRUE
PROPERTIES
  OverflowDiscarded
CHECK_DEADLOCK FALSE
