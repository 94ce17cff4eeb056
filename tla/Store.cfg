SPECIFICATION Spec
CONSTANTS
    v1 = v1
    v2 = v2
    d1 = d1
    d2 = d2
    q1 = q1
    q2 = q2
    q3 = q3
    q4 = q4
    None = None
    u1 = u1
    u2 = u2
    Users = {u1, u2}
    Owner <- MCOwner
    Limit = 1
    Videos = {v1, v2}
    RowIds = {d1, d2}
    Requests = {q1, q2, q3, q4}
    ListedKinds = {"master"}
    SegKinds = {"seg"}
    MaxFaults = 2
SYMMETRY Interchangeable
INVARIANTS
    TypeOK
    RowHasObject
    NoOrphanOriginal
    ListingIsRight
PROPERTIES
    RowGoesLast
CHECK_DEADLOCK FALSE
