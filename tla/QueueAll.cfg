SPECIFICATION FairSpec
CONSTANTS
    u1 = u1
    u2 = u2
    i1 = i1
    c1 = c1
    c2 = c2
    c3 = c3
    NoUser = NoUser
    NoItem = NoItem
    Users <- TwoUsers
    Items <- OneItem
    Calls <- TwoCalls
    Ops <- ReviewOps
    Timeouts <- Unset
    DefaultTimeout = 1
    MaxAge = 2
    Env <- NoFailure
INVARIANTS TypeOK ScoresFollowCompletion
PROPERTIES NeverReopened AbandonedLockFreed
