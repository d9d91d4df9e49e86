SPECIFICATION Spec
CONSTANTS
  Runners = {"installer", "unit"}
  HasFallback = TRUE
  Wish = FALSE
  MaxWait = 120
  StartLimit = 120
  MaxPeers = 2
  Faults = {}
PROPERTIES
  NeverDuplicates
