SPECIFICATION Spec
CONSTANTS
  MaxSaves = 1
  Faults = {"webui_restart"}
INVARIANTS
  NotLeftDown
