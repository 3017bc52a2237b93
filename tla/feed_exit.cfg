SPECIFICATION FairFeedSpec
CONSTANTS
  a1 = a1
  a2 = a2
  m1 = m1
  m2 = m2
  c1 = c1
  LabWide = LabWide
  Assets <- OneAsset
  Tasks <- MCTasks
  Valid <- MCTasks
  Scope <- MCScope
  Marks <- MCMarks
  Template <- MCTemplate
  Chunks <- AllLines
  Ring = 2
  Clients <- OneClient
  MaxLines = 3
  QueueCap = 1
  WireCap = 1
  MaxConns = 2
INVARIANTS
  NothingWithheld
  NoGhostClient
PROPERTY
  OnlyStallHoldsExit
