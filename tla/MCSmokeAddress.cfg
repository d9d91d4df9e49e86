SPECIFICATION Spec
CONSTANTS
  Boxes <- JoiningBox
  MaxArchives = 5
  Shown = 1
  MaxPolls = 2
  MaxUpsets = 1
  Faults = {"lost", "webui", "game", "job", "tool"}
INVARIANT
  VerdictIsExact
CHECK_DEADLOCK FALSE
