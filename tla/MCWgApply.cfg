SPECIFICATION Spec
CONSTANTS
  Callers = {c1, c2}
  MaxRequests = 3
  Faults = {"webui_restart", "reboot", "disk"}
SYMMETRY CallerSymmetry
INVARIANTS
  TypeOK
  OkIsBacked
  MixOnlyWithNewer
PROPERTIES
  NeverBackwards
  ImplementsHostCall
