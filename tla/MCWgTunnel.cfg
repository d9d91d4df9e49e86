SPECIFICATION TunnelSpec
CONSTANTS
  Callers = {user, monitor}
  Monitor = monitor
  MaxRequests = 2
  Faults = {"webui_restart", "reboot", "disk"}
INVARIANTS
  TunnelTypeOK
PROPERTIES
  RaisedIsCurrent
