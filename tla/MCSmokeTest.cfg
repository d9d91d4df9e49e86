SPECIFICATION Spec
CONSTANTS
  Boxes <- MCBoxes
  MaxArchives = 5
  Shown = 1
  MaxPolls = 2
  MaxUpsets = 1
  Faults = {"lost", "webui", "game", "job", "tool"}
INVARIANTS
  VerdictIsExact
  FlawIsSeen
  NewArchiveIsNew
PROPERTIES
  VersionStays
CHECK_DEADLOCK FALSE
