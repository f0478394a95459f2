SPECIFICATION Spec
CONSTANTS
  Fields = {"k3sVersion"}
  Paths <- Version
  Live = {"k3sVersion"}
  Values = {0, 1}
  Owned = {}
  Modes = {"enabled"}
  Lag = FALSE
  Faults = {}
  MaxEdits = 2
  MaxFaults = 0
INVARIANT
  IgnoredDriftIsLeft
CHECK_DEADLOCK FALSE
