SPECIFICATION FeedSpec
CONSTANTS
  a1 = a1
  a2 = a2
  m1 = m1
  m2 = m2
  c1 = c1
  LabWide = LabWide
  Assets <- TwoAssets
  Tasks <- MCTasks
  Valid <- MCTasks
  Scope <- MCScope
  Marks <- MCMarks
  Template <- MCTemplate
  Chunks <- MarkedLines
  Ring = 2
  Clients <- NoClients
  MaxLines = 2
  QueueCap = 2
  WireCap = 1
  MaxConns = 2
INVARIANTS
  EarnedUnlessGap
CHECK_DEADLOCK FALSE
