SPECIFICATION Spec
CONSTANTS
    v1 = v1
    v2 = v2
    d1 = d1
    d2 = d2
    q1 = q1
    q2 = q2
    q3 = q3
    q4 = q4
    None = None
    u1 = u1
    u2 = u2
    Users = {u1}
    Owner <- MCOwner
    Limit = 1
    Videos = {v1}
    RowIds = {d1}
    Requests = {q1, q2, q3}
    ListedKinds = {"master"}
    SegKinds = {}
    MaxFaults = 0
PROPERTIES
    RemovalTakesGeneratedFiles
CHECK_DEADLOCK FALSE
