SPECIFICATION FairSpec
CONSTANTS
  NumSensors = 3
  PipeCap = 3
  MaxCalls = 5
INVARIANTS
  SubHalInv
  ModesAgree
  PostsUseCallback
  InjectionSilences
PROPERTIES
  CallsReturn
  BlockedStopsWalk
  SensorsAreThreads
CHECK_DEADLOCK FALSE
