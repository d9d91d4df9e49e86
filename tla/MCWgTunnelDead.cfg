SPECIFICATION TunnelFairSpec
CONSTANTS
  Callers = {user, monitor}
  Monitor = monitor
  MaxRequests = 2
  Faults = {}
PROPERTIES
  DeadPeerIsNoticed
CHECK_DEADLOCK FALSE
