SPECIFICATION Spec
CONSTANTS
    k1 = k1  k2 = k2
    c1 = c1  c2 = c2
    NoMax = NoMax
    NoEnd = NoEnd
    Ids = {k1, k2}
    Calls = {c1, c2}
    TierLists <- SomeLists
    EndDates <- Ends1
    MaxTime = 1
    MaxRequests = 1
    MaxFree = 2
    MaxUsage = 4
    FlatPrice = 5
    Env <- Errors
SYMMETRY Sym
CHECK_DEADLOCK FALSE
INVARIANTS TypeOK RequestsWhole BilledByPosition
PROPERTY EndedStaysEnded
