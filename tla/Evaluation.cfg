SPECIFICATION FairSpec
CONSTANTS
    j1 = j1
    j2 = j2
    j3 = j3
    Jobs = {j1, j2, j3}
    Env <- Everything
    MaxLost = 2
CHECK_DEADLOCK FALSE
INVARIANTS TypeOK IInv CompletedMeansDone CompletedAddsUp
PROPERTIES NothingUndone ExecutionEnds
