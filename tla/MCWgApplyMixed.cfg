SPECIFICATION Spec
CONSTANTS
  Callers = {c1, c2}
  MaxRequests = 2
  Faults = {}
INVARIANTS
  OkMeansMyAction
CHECK_DEADLOCK FALSE
