SPECIFICATION Spec
CONSTANTS
    Trim <- MCTrim
    TagValues = {"x", "y"}
    Window = 1
    Ingests = {r1, r2}
    Batches <- MCBatches
    Queries = {q1}
    Reads <- MCMCPReads
    Limit = 2
    SubmittedDays = {0}
    InitialDays = 2
    HalfRange = 8
    MaxClock = 3
INVARIANT
    CorrelationAnswered
CHECK_DEADLOCK FALSE
