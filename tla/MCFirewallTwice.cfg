SPECIFICATION Spec
CONSTANTS
  MaxCalls = 1
  MaxReboots = 0
  WebuiDies = FALSE
INVARIANTS
  Idempotent
CHECK_DEADLOCK FALSE
