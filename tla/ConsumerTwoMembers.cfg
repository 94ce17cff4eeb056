SPECIFICATION FairSpec
CONSTANTS
    v1 = v1
    p1 = p1
    p2 = p2
    k1 = k1
    k2 = k2
    None = None
    Videos = {v1}
    Total <- OneOfTwo
    Partitions = {p1, p2}
    Consumers = {k1, k2}
    MaxDups = 0
    MaxRebalances = 0
    MaxCrashes = 0
PROPERTIES
    EveryVideoIsProcessed
CHECK_DEADLOCK FALSE
