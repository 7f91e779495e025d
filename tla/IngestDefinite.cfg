CONSTANTS
    b1 = b1  b2 = b2  b3 = b3
    s1 = s1  s2 = s2  sum1 = sum1  gauge1 = gauge1
    c1 = c1  c2 = c2
    NoBatch = NoBatch
    Batches = {b1, b2, b3}
    Events = {s1, s2}
    KindOf <- KindOfSpans
    Consumers = {c1, c2}
    Env <- DefiniteEnv
    MaxCopies = 1
    BatchSize = 2
    MaxRetries = 1
    MaxSlips = 0
SPECIFICATION Spec
CHECK_DEADLOCK FALSE
SYMMETRY Symmetry
INVARIANTS TypeOK StoredOnce IInv DuplicateAnswerTrue AckedSpansSafe
PROPERTIES StoredKeepsClaim ImplementsSpanStore
