SPECIFICATION Spec
CONSTANTS
  Configs = {1, 2}
  Revisit = FALSE
  Faults = {"curl"}
  MaxFaults = 1
  MaxEdits = 2
  MaxLag = 3
INVARIANT
  UpToDateMeansInstalled
CHECK_DEADLOCK FALSE
