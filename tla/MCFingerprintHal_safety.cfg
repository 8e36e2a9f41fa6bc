SPECIFICATION Spec
CONSTANTS
  u1 = u1
  u2 = u2
  MaxSessions = 3
  Users <- TwoUsers
  Templates = 2
  MaxLeftovers = 2
INVARIANTS
  HalInv
  CookieLives
  OpenIsServed
  ReportsExact
  ResultsMeetTheirSession
PROPERTIES
  ImplementsSessionLife
SYMMETRY UserSymmetry
CHECK_DEADLOCK FALSE
