CONSTANTS
    Chats = {c1, c2}
    MaxCopies = 3
    MaxSaid = 3
    MaxAsked = 2
    MaxFaults = 1
SPECIFICATION Spec
INVARIANTS
    TypeOK
    DeletedStaysGone
    LatestOpenWins
    NothingSaidIsLost
PROPERTY
    KeepsChats
CHECK_DEADLOCK FALSE
