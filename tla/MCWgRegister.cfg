SPECIFICATION Spec
CONSTANTS
  Runners = {"unit"}
  HasFallback = TRUE
  Wish = TRUE
  MaxWait = 120
  StartLimit = 120
  MaxPeers = 2
  Faults = {"kill", "reboot", "wg"}
INVARIANTS
  TypeOK
  RaisesItsPeer
  KeepsIdentity
PROPERTIES
  NeverDuplicates
