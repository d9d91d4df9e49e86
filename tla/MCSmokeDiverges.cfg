\* Each of these is refuted: keep one at a time (README, known divergences).
SPECIFICATION Spec
CONSTANTS
  Boxes <- OneBox
  MaxArchives = 5
  Shown = 1
  MaxPolls = 2
  MaxUpsets = 1
  Faults = {"lost", "webui", "game", "job", "tool"}
INVARIANTS
  FreshInstallPasses
  NoNewArchiveFails
PROPERTIES
  PalworldRuns
CHECK_DEADLOCK FALSE
