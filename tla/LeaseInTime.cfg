SPECIFICATION Spec
CONSTANTS
    u1 = u1
    u2 = u2
    i1 = i1
    c1 = c1
    c2 = c2
    c3 = c3
    NoUser = NoUser
    NoItem = NoItem
    Users <- TwoUsers
    Items <- OneItem
    Calls <- ThreeCalls
    Ops <- LeaseOps
    Timeouts <- Two
    DefaultTimeout = 2
    MaxAge = 3
    Env <- AllFailures
SYMMETRY Sym
INVARIANTS
    IInv
    LeaseExclusive
    OneAnnotatorInTime
PROPERTY ImplementsLease
