SPECIFICATION FairSpec
CONSTANTS
    u1 = u1
    u2 = u2
    c1 = c1
    c2 = c2
    Malformed = Malformed
    Users = {u1, u2}
    Clients = {c1, c2}
    UserOf <- TwoTabs
    SendCap = 1
    MaxMessages = 2
    MaxCrashes = 1
INVARIANTS
    TypeOK
    NoPanic
    NothingLost
    DeliveredInOrder
    BlockedOnlyPastCapacity
PROPERTIES
    GoneIsForgotten
    EveryMessageLeavesQueue
CHECK_DEADLOCK FALSE
