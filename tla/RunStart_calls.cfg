CONSTANTS
    NumRuns = 2
    StepLimit = 1
    NumCalls = 3
    MaxTries = 1
    MaxFaults = 1
SPECIFICATION FairSpec
INVARIANTS
    TypeOK
    RunHasGrant
    NoGrantLeftBehind
    AnswersTheTurn
PROPERTY
    EveryCallIsAnswered
CHECK_DEADLOCK FALSE
