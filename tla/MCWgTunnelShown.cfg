SPECIFICATION TunnelSpec
CONSTANTS
  Callers = {user, monitor}
  Monitor = monitor
  MaxRequests = 2
  Faults = {}
INVARIANTS
  DisconnectedIsDown
CHECK_DEADLOCK FALSE
