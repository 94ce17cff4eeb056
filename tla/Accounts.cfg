SPECIFICATION Spec
CONSTANTS
    n1 = n1
    n2 = n2
    e1 = e1
    e2 = e2
    s1 = s1
    s2 = s2
    long = long
    d0 = d0
    d1 = d1
    d2 = d2
    d3 = d3
    b1 = b1
    b2 = b2
    c1 = c1
    c2 = c2
    c3 = c3
    None = None
    Names = {n1, n2}
    Emails = {e1, e2}
    Secrets = {s1, s2, long}
    Long = {long}
    Key <- MCKey
    Ids = {d0, d1, d2, d3}
    Seeds <- MCSeeds
    Browsers = {b1, b2}
    Calls = {c1, c2, c3}
    MaxFaults = 1
SYMMETRY Interchangeable
INVARIANTS
    TypeOK
    OneAccountEach
    RegisteredCanLogIn
    SessionIsEarned
CHECK_DEADLOCK FALSE
