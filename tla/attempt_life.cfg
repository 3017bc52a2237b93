SPECIFICATION FairSpec
CONSTANTS
  u1 = u1
  a1 = a1
  a2 = a2
  Users <- MCUsers
  Versions = {v1, v2, v3, v4, v5, v6, v7, v8, v9}
  Attempts <- OneAttempt
  Malformed <- NoAttempts
  UserDesired = {"decommissioned"}
  MayErase = TRUE
  FaultKinds = {"patch", "get", "kube", "stream", "watch", "restart", "status"}
  PodPhases = {"Ready"}
  MaxFaults = 1
  MaxRequests = 1
  MaxFeed = 1
  MaxWatch = 2
PROPERTIES
  DecommissionCompletes
  PickedUp
