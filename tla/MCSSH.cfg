SPECIFICATION LiveSpec
CONSTANTS
    Size = 2
    Faults = {"refuse", "exit", "hang", "silent", "lost", "expire", "crash"}
    MaxFaults = 2
    MaxInstalls = 2
INVARIANTS TypeOK WholeOnSuccess
PROPERTIES BuffersAreQuiet ExecuteReturns DetailsAreKept DetailsCatchUp
CHECK_DEADLOCK TRUE
