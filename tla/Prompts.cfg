SPECIFICATION Spec
CONSTANTS
    p1 = p1  p2 = p2
    n1 = n1  n2 = n2
    prod = prod  latest = latest
    c1 = c1  c2 = c2
    NoName = NoName
    Ids = {p1, p2}
    Names = {n1, n2}
    Labels = {prod}
    Latest = latest
    Asked = {prod}
    Calls = {c1, c2}
    MaxVersions = 2
    Env <- Errors
SYMMETRY Sym
CHECK_DEADLOCK FALSE
INVARIANTS TypeOK LatestIsHighest CacheFollows
PROPERTY DeletedStaysDeleted
