SPECIFICATION FairSpec
CONSTANTS
  ExposeSsh = TRUE
  Shipped = {"netbird", "snapshot", "compose", "restore"}
  Faults = {"power", "abort", "stack", "ufw", "ctrl_c"}
INVARIANTS
  TypeOK
  FlagMeansComplete
  DownIsMarked
  OneOwner
PROPERTIES
  ConsoleHandedOver
  RunEnds
  KeepsPromise
