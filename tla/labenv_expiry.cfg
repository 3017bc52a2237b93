SPECIFICATION FairSpec
CONSTANTS
  web = web
  db = db
  Assets <- TwoAssets
  BadAssets <- OneAsset
  MaxBorn = 2
  MaxLag = 2
  LaggingParts <- OnePart
  MaxFlips = 1
  MaxFaults = 1
PROPERTIES
  NoEarlyEviction
  EnvExpires
CHECK_DEADLOCK FALSE
