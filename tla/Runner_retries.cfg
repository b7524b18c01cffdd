CONSTANTS
    NumRuns = 3
    StepLimit = 2
    MaxCrashes = 0
    MaxFaults = 1
    MaxRecoveries = 1
    StopRuns = {}
    Happens = {"paused"}
SPECIFICATION Spec
INVARIANTS
    StepsAnswerTheMessage
CHECK_DEADLOCK FALSE
