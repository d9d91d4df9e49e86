\* Each of these is refuted: keep one at a time (README, known divergences).
SPECIFICATION Spec
CONSTANTS
  Runs = {r1, r2}
  Concurrent = FALSE
  ExposeSsh = FALSE
  Timeout = 3
  DiscoveryLimit = 1
  StaleAfter = 1
  Faults = {"ssh", "interrupt"}
INVARIANTS
  HangIsAHang
  ReachedMeansRan
  NeverMeansNever
PROPERTIES
  KeptIsLeft
  CleanupWarns
CHECK_DEADLOCK FALSE
