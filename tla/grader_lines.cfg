SPECIFICATION Spec
CONSTANTS
  a1 = a1
  a2 = a2
  m1 = m1
  m2 = m2
  LabWide = LabWide
  Assets <- TwoAssets
  Tasks <- MCTasks
  Valid <- MCValid
  Scope <- ScopeEach
  Marks <- MCMarks
  Template <- MCTemplate
  Chunks <- CutChunks
  Ring = 2
  Clients <- NoClients
  MaxLines = 3
INVARIANTS
  TypeOK
  GradeEarned
  ScrollbackMatched
CHECK_DEADLOCK FALSE
