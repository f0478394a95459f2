SPECIFICATION Spec
CONSTANTS
    Size = 2
    Faults = {"lost", "expire"}
    MaxFaults = 1
    MaxInstalls = 1
INVARIANTS GenuineDetails
CHECK_DEADLOCK TRUE
