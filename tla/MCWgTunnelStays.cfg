SPECIFICATION TunnelSpec
CONSTANTS
  Callers = {user, monitor}
  Monitor = monitor
  MaxRequests = 3
  Faults = {}
PROPERTIES
  StaysDown
CHECK_DEADLOCK FALSE
