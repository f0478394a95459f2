SPECIFICATION Spec
CONSTANTS
  Namespaces = {"a"}
  Home = "a"
  RefNamespace = "a"
  Optional = TRUE
  Configs = {1}
  Faults = {}
  MaxFaults = 0
  MaxEdits = 1
INVARIANT
  NeverJoinsNothing
CHECK_DEADLOCK FALSE
