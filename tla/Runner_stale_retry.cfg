CONSTANTS
    NumRuns = 2
    StepLimit = 3
    MaxCrashes = 0
    MaxFaults = 0
    MaxRecoveries = 1
    StopRuns = {1}
    Happens = {"stop"}
SPECIFICATION Spec
INVARIANTS
    NothingRunsTwice
CHECK_DEADLOCK FALSE
