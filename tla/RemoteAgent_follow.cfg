CONSTANTS
    Chats = {c1}
    Other = 0
    MaxKeys = 1
    MaxSeq = 1
    MaxEvents = 2
    MaxAsks = 2
    MaxOpens = 0
    MaxFaults = 2
    Happens = {"stop"}
SPECIFICATION FairSpec
INVARIANTS
    ShownIsTheJournal
    SettledEndIsShown
PROPERTIES
    ReplyLetsGo
    StoppedStartEnds
CHECK_DEADLOCK FALSE
