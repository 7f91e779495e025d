CONSTANTS
    b1 = b1  b2 = b2  b3 = b3
    s1 = s1  s2 = s2  sum1 = sum1  gauge1 = gauge1
    c1 = c1  c2 = c2
    NoBatch = NoBatch
    Batches = {b1}
    Events = {sum1, gauge1}
    KindOf <- KindOfMetrics
    Consumers = {c1}
    Env <- InsertErrorEnv
    MaxCopies = 1
    BatchSize = 1
    MaxRetries = 1
    MaxSlips = 0
SPECIFICATION Spec
CHECK_DEADLOCK FALSE
INVARIANT AckedIsPreserved
