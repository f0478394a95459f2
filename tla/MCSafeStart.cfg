SPECIFICATION LiveSpec
CONSTANTS
    Deadline = 5
    Interval = 2
    Faults = {"error", "slow", "exit"}
    MaxFaults = 2
INVARIANTS GatedMeansAllowed SafeStartIsNotLost StartsWhenServed
PROPERTIES ServedKindsRun
CHECK_DEADLOCK FALSE
