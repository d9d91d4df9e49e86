SPECIFICATION Spec
CONSTANTS
  Runners = {"unit"}
  HasFallback = FALSE
  Wish = FALSE
  MaxWait = 120
  StartLimit = 120
  MaxPeers = 2
  Faults = {"reboot"}
INVARIANTS
  PersistedIsWhole
