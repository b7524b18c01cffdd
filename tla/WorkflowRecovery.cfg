CONSTANTS
    Askers = {a1, a2}
    Steps = {s1, s2}
    KeepMax = 1
    MaxWorkflows = 2
    MaxFaults = 2
SPECIFICATION FairSpec
INVARIANTS
    NeverTwoAtOnce
    AnsweredOnce
    NoneIsLost
    StoppedIsCancelled
PROPERTY
    RecoveryEnds
CHECK_DEADLOCK FALSE
