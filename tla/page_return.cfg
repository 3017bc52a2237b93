SPECIFICATION FairSpec
CONSTANTS
  OtherTab = FALSE
  Failing = FALSE
  Lossy = {}
  LateSaves = FALSE
  MaxAttempts = 1
  MaxVisits = 2
  MaxClicks = 4
  MaxRuns = 1
  MaxEvents = 1
PROPERTIES
  BadgesConnect
CHECK_DEADLOCK FALSE
