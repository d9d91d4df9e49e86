SPECIFICATION Spec
CONSTANTS
  MaxSaves = 3
  Faults = {"webui_restart", "reboot", "docker", "escape"}
INVARIANTS
  TypeOK
  NeverFromPartial
PROPERTIES
  RestoredIsTheArchive
