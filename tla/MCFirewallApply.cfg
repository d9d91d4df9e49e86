SPECIFICATION FairSpec
CONSTANTS
  MaxCalls = 1
  MaxReboots = 1
  WebuiDies = TRUE
INVARIANTS
  TypeOK
  QuietIsClosed
  LoneRunIsExact
PROPERTIES
  SavedIsRead
CHECK_DEADLOCK FALSE
