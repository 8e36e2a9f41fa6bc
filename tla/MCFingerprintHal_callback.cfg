SPECIFICATION Spec
CONSTANTS
  u1 = u1
  u2 = u2
  MaxSessions = 1
  Users <- OneUser
  Templates = 1
  MaxLeftovers = 1
INVARIANTS
  CallbacksOffBinder
CHECK_DEADLOCK FALSE
