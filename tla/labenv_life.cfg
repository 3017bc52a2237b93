SPECIFICATION FairSpec
CONSTANTS
  web = web
  db = db
  Assets <- OneAsset
  BadAssets <- NoAssets
  MaxBorn = 2
  MaxLag = 2
  LaggingParts <- OnePart
  MaxFlips = 1
  MaxFaults = 1
INVARIANTS
  TypeOK
  ReportedMeansProvisioned
PROPERTIES
  NamespaceIsHeld
  ImplementsLifecycle
  CleanupCompletes
  StatusSettles
CHECK_DEADLOCK FALSE
