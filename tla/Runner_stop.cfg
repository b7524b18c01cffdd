CONSTANTS
    NumRuns = 2
    StepLimit = 2
    MaxCrashes = 0
    MaxFaults = 0
    MaxRecoveries = 1
    StopRuns = {1}
    Happens = {"stopByKey", "timeout"}
SPECIFICATION Spec
INVARIANTS
    StopByKeyIsNotLost
PROPERTIES
    EndedReplyStays
    OnlyTheOwnerWrites
CHECK_DEADLOCK FALSE
