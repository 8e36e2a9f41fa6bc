SPECIFICATION FairSpec
CONSTANTS
  u1 = u1
  u2 = u2
  MaxSessions = 3
  Users <- OneUser
  Templates = 1
  MaxLeftovers = 1
INVARIANTS
  CheckPasses
  DeathNoticed
PROPERTIES
  DeathCloses
CHECK_DEADLOCK FALSE
