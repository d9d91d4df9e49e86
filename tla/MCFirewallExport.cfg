SPECIFICATION Spec
CONSTANTS
  MaxCalls = 1
  MaxReboots = 1
  WebuiDies = FALSE
INVARIANTS
  ExportInSync
CHECK_DEADLOCK FALSE
