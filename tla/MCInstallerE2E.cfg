SPECIFICATION FairSpec
CONSTANTS
  Runs = {r1, r2}
  Concurrent = FALSE
  ExposeSsh = FALSE
  Timeout = 3
  DiscoveryLimit = 1
  StaleAfter = 1
  Faults = {"vbox", "ssh", "interrupt", "kill"}
INVARIANTS
  CompleteIsInstalled
  NoFalseTimeout
  HangIsStale
PROPERTIES
  RunEnds
  NothingLeft
CHECK_DEADLOCK FALSE
