SPECIFICATION FairSpec
CONSTANTS
  MaxSaves = 2
  Faults = {"reboot"}
INVARIANTS
  NotLeftDown
PROPERTIES
  ServerReturns
