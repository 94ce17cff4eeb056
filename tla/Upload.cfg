SPECIFICATION FairSpec
CONSTANTS
    v1 = v1
    v2 = v2
    p1 = p1
    p2 = p2
    Uploads = {v1}
    Partitions = {p1, p2}
    SemCap = 2
    MaxChunks = 3
    MaxRetries = 1
    MaxCrashes = 1
INVARIANTS
    TypeOK
    ReturnWaitsForProducers
    LogIsTruthful
PROPERTIES
    AcceptedFileIsRemoved
CHECK_DEADLOCK FALSE
