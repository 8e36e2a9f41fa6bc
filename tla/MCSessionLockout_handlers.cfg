SPECIFICATION Spec
CONSTANTS
  s1 = s1
  s2 = s2
  s3 = s3
  TimedThreshold = 2
  PermanentThreshold = 3
  TimedDuration = 2
  InitModes <- AnyMode
  InitStarts <- AnyStart
  StartTime = 4
  HandlerTime = 1
  Timers <- Slots
  MaxFailures = 5
  MaxTime = 8
SYMMETRY SlotSymmetry
CONSTRAINT Undisturbed
INVARIANTS
  OneTimer
  FrameworkKnows
  SerialInv
PROPERTIES
  PermanentSticky
  ImplementsLockoutPolicy
CHECK_DEADLOCK FALSE
