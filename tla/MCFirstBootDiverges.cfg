\* Each of these is refuted: keep one at a time (README, known divergences).
SPECIFICATION Spec
CONSTANTS
  ExposeSsh = FALSE
  Shipped = {"netbird", "snapshot", "compose", "restore"}
  Faults = {"power", "abort", "stack", "ufw", "ctrl_c"}
INVARIANTS
  CtrlCGivesShell
  MarkedIsDown
  StockIsClosed
