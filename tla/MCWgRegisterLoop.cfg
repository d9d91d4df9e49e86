SPECIFICATION Spec
CONSTANTS
  Runners = {"unit"}
  HasFallback = TRUE
  Wish = FALSE
  MaxWait = 120
  StartLimit = 120
  MaxPeers = 2
  Faults = {}
INVARIANTS
  RestartMeansNoFallback
