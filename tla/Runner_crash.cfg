CONSTANTS
    NumRuns = 2
    StepLimit = 2
    MaxCrashes = 1
    MaxFaults = 1
    MaxRecoveries = 1
    StopRuns = {}
    Happens = {"upgrade", "ran_out"}
SPECIFICATION Spec
INVARIANTS
    JournalEndsOnce
    NoCallRunsTwice
    GrantOutlivesReply
    HeadAgreesWithJournal
CHECK_DEADLOCK FALSE
