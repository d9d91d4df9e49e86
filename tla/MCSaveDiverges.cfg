\* Each of these is refuted: keep one at a time (README, known divergences).
SPECIFICATION Spec
CONSTANTS
  MaxSaves = 2
  Faults = {}
INVARIANTS
  NoContention
  SnapshotIsOfOneSave
PROPERTIES
  RestoreReplaces
  BackupIsCold
