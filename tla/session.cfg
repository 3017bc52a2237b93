SPECIFICATION FairSpec
CONSTANTS
  FwdCap = 1
  WireCap = 1
  MaxFrames = 2
  MaxChunks = 3
INVARIANTS
  TypeOK
  LastOutputDelivered
PROPERTIES
  OutputReachesClient
  OnlyStallHoldsSession
  OnlyInputHoldsSession
CHECK_DEADLOCK FALSE
