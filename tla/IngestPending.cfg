CONSTANTS
    b1 = b1  b2 = b2  b3 = b3
    s1 = s1  s2 = s2  sum1 = sum1  gauge1 = gauge1
    c1 = c1  c2 = c2
    NoBatch = NoBatch
    Batches = {b1}
    Events = {s1}
    KindOf <- KindOfOneSpan
    Consumers = {c1}
    Env <- DLQErrorEnv
    MaxCopies = 1
    BatchSize = 1
    MaxRetries = 1
    MaxSlips = 0
SPECIFICATION FairSpec
CHECK_DEADLOCK FALSE
PROPERTY PendingIsRetried
