CONSTANTS
    Chats = {c1}
    Other = 0
    MaxKeys = 2
    MaxSeq = 1
    MaxEvents = 0
    MaxAsks = 1
    MaxOpens = 0
    MaxFaults = 0
    Happens = {"edit", "stop", "otherDevice"}
SPECIFICATION Spec
INVARIANTS
    SentTurnStays
    EditIsNotDropped
PROPERTY
    RetryFindsItsRun
CHECK_DEADLOCK FALSE
