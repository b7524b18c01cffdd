CONSTANTS
    NumRuns = 1
    StepLimit = 2
    MaxCrashes = 2
    MaxFaults = 1
    MaxRecoveries = 1
    StopRuns = {1}
    Happens = {"stop", "upgrade"}
SPECIFICATION FairSpec
INVARIANTS
    TypeOK
PROPERTIES
    StopIsAnswered
    EveryRunIsAnswered
    EveryReplyEnds
CHECK_DEADLOCK FALSE
