SPECIFICATION FairIngestSpec
CONSTANTS
    v1 = v1
    p1 = p1
    k1 = k1
    k2 = k2
    None = None
    Videos = {v1}
    Total <- OneOfTwo
    Partitions = {p1}
    Consumers = {k1, k2}
    SemCap = 2
    MaxTotal = 2
    MaxDups = 1
    MaxDowns = 1
    MaxRebalances = 1
    MaxCrashes = 1
PROPERTIES
    ImplementsContract
    AcceptedIsProcessed
INVARIANTS
    TypeOK
    ProcessedWhole
    EveryRunIsPaidFor
CHECK_DEADLOCK FALSE
