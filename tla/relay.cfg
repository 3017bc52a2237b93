SPECIFICATION FairSpec
CONSTANTS
  c1 = c1
  c2 = c2
  c3 = c3
  u1 = u1
  u2 = u2
  Users <- MCUsers
  Conns <- ThreeConns
  MaxConns = 2
  SkipAuth = TRUE
  Owner = None
  Anonymous = u2
  None = None
INVARIANTS
  TypeOK
  CountsExact
PROPERTIES
  ImplementsSlotPool
  DrainedSessionsDone
  ShutdownEnds
  AuthEnds
