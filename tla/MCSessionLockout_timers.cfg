SPECIFICATION FairSpec
CONSTANTS
  s1 = s1
  s2 = s2
  s3 = s3
  TimedThreshold = 1
  PermanentThreshold = 2
  TimedDuration = 2
  InitModes <- ZeroMode
  InitStarts <- ZeroStart
  StartTime = 4
  HandlerTime = 1
  Timers <- TwoSlots
  MaxFailures = 2
  MaxTime = 5
PROPERTIES
  TimerDelivers
CHECK_DEADLOCK FALSE
