CONSTANTS
    Chats = {c1, c2}
    Other = 0
    MaxKeys = 1
    MaxSeq = 1
    MaxEvents = 1
    MaxAsks = 1
    MaxOpens = 2
    MaxFaults = 1
    Happens = {"stop"}
SPECIFICATION Spec
INVARIANTS
    EventsCountOnce
    OpenChatIsLookedUp
CHECK_DEADLOCK FALSE
