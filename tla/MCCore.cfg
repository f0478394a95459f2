SPECIFICATION LiveSpec
CONSTANTS
  Configs = {1, 2, 3}
  Revisit = FALSE
  Faults = {"crash", "api", "ssh", "ctx", "lag", "unit", "wipe"}
  MaxFaults = 3
  MaxEdits = 4
  MaxLag = 3
INVARIANTS
  TypeOK
  InstalledIsProtected
  CreatesOnlyWhenAbsent
  UpToDateMeansInstalled
  PendingIsCleared
  ProtectionInv
  PromiseInv
PROPERTIES
  SpecChangesAreUsers
  KeepsThePromise
  Converges
CHECK_DEADLOCK FALSE
