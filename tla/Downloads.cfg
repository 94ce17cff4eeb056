SPECIFICATION Spec
CONSTANTS
    f1 = f1
    f2 = f2
    clean = clean
    explicit = explicit
    q1 = q1
    q2 = q2
    q3 = q3
    None = None
    Files = {f1, f2}
    Contents = {clean, explicit}
    Size <- MCSize
    Explicit <- MCExplicit
    Calls = {q1, q2, q3}
    ChunkSize = 2
    TextLen = 1
    MaxFaults = 1
SYMMETRY Interchangeable
INVARIANTS
    TypeOK
    CompleteIsWhole
    DownloadIsComplete
    VerdictIsFounded
CHECK_DEADLOCK FALSE
