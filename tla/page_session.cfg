SPECIFICATION FairSpec
CONSTANTS
  OtherTab = TRUE
  Failing = TRUE
  Lossy = {"new", "provisioned"}
  LateSaves = FALSE
  MaxAttempts = 2
  MaxVisits = 2
  MaxClicks = 4
  MaxRuns = 1
  MaxEvents = 1
INVARIANTS
  TypeOK
  GraderFollowsAttempt
  TabsFollowAttempt
PROPERTIES
  RunningIsWatched
  EndIsShown
  GraderClosedOnLeave
CHECK_DEADLOCK FALSE
