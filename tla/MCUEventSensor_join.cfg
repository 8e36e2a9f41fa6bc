SPECIFICATION FairSpec
CONSTANTS
  c1 = c1
  c2 = c2
  Callers <- OneCaller
  PipeCap = 3
  SockCap = 1
  MaxCalls = 2
  VtableRace = TRUE
PROPERTIES
  JoinReturns
CHECK_DEADLOCK FALSE
