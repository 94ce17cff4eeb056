SPECIFICATION FairSpec
CONSTANTS
    None = None
    MaxOutages = 0
    MaxStops = 0
    MaxRequests = 0
PROPERTIES
    TheyMeet
CHECK_DEADLOCK FALSE
