SPECIFICATION LiveSpec
CONSTANTS
  Configs = {1, 2}
  Revisit = TRUE
  Faults = {"crash", "api", "ssh", "ctx", "lag", "curl", "orphan", "unit", "wipe"}
  MaxFaults = 2
  MaxEdits = 4
  MaxLag = 3
INVARIANT
  SendsUnderProtection
PROPERTY
  DeletionCompletes
CHECK_DEADLOCK FALSE
