SPECIFICATION Spec
CONSTANTS
  s1 = s1
  s2 = s2
  s3 = s3
  TimedThreshold = 2
  PermanentThreshold = 3
  TimedDuration = 2
  InitModes <- ZeroMode
  InitStarts <- ZeroStart
  StartTime = 4
  HandlerTime = 1
  Timers <- Slots
  MaxFailures = 4
  MaxTime = 7
SYMMETRY SlotSymmetry
INVARIANTS
  LockoutIsEarned
  ReportsAreCurrent
  SleepsAreBounded
CHECK_DEADLOCK FALSE
