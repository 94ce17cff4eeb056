SPECIFICATION FairSpec
CONSTANTS
    None = None
    MaxOutages = 1
    MaxStops = 2
    MaxRequests = 1
INVARIANTS
    TypeOK
    ServingIsAttached
PROPERTIES
    PhasesEnd
CHECK_DEADLOCK FALSE
