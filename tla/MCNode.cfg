SPECIFICATION LiveSpec
CONSTANTS
  Namespaces = {"a", "b"}
  Home = "a"
  RefNamespace = "b"
  Optional = FALSE
  Configs = {1, 2}
  Faults = {"crash", "api", "ssh", "curl", "unit", "wipe", "server"}
  MaxFaults = 2
  MaxEdits = 2
INVARIANTS
  TypeOK
  JoinedIsProtected
  NeverJoinsNothing
  UpToDateMeansJoined
  JoinsItsCluster
PROPERTIES
  SpecChangesAreUsers
  KeepsThePromise
  DeletionCompletes
  Joining
CHECK_DEADLOCK FALSE
