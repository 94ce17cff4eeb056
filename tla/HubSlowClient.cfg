SPECIFICATION FairSpec
CONSTANTS
    u1 = u1
    u2 = u2
    c1 = c1
    c2 = c2
    Malformed = Malformed
    Users = {u1}
    Clients = {c1}
    UserOf <- OneTab
    SendCap = 1
    MaxMessages = 3
    MaxCrashes = 0
PROPERTIES
    SlowClientIsDisconnected
CHECK_DEADLOCK FALSE
