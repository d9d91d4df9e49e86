SPECIFICATION Spec
CONSTANTS
  MaxSaves = 1
  Faults = {"docker"}
PROPERTIES
  RestoredMeansRestarted
