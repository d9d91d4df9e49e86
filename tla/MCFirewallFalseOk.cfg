SPECIFICATION Spec
CONSTANTS
  MaxCalls = 2
  MaxReboots = 0
  WebuiDies = FALSE
PROPERTIES
  OkMeansApplied
CHECK_DEADLOCK FALSE
