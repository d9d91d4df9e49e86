SPECIFICATION FairSpec
CONSTANTS
  Runners = {"installer"}
  HasFallback = TRUE
  Wish = FALSE
  MaxWait = 120
  StartLimit = 120
  MaxPeers = 2
  Faults = {"wg"}
PROPERTIES
  FailsafeConnects
