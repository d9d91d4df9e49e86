SPECIFICATION TunnelFairSpec
CONSTANTS
  Callers = {user, monitor}
  Monitor = monitor
  MaxRequests = 2
  Faults = {}
PROPERTIES
  DownIsAttended

