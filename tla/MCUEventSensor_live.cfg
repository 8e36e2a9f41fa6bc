SPECIFICATION FairSpec
CONSTANTS
  c1 = c1
  c2 = c2
  Callers <- TwoCallers
  PipeCap = 4
  SockCap = 2
  MaxCalls = 3
  VtableRace = FALSE
PROPERTIES
  ImplementsOneShot
  ImplementsSensorThread
  TapReported
  QuietWhenDisabled
  ActivateReturns
CHECK_DEADLOCK FALSE
