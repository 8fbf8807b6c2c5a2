SPECIFICATION Spec
CONSTANTS
    Trim <- MCTrim
    TagValues = {"x"}
    Window = 2
    Ingests = {r1}
    Batches <- MCBatches
    Queries = {q1}
    Reads <- MCReads
    Limit = 1
    SubmittedDays = {0}
    InitialDays = 2
    HalfRange = 8
    MaxClock = 3
    PageOf <- MCPageOf
    Pages = 2
INVARIANTS
    TypeOK
    StoredPrefix
    RetentionInForce
PROPERTY
    ImplementsRepository
CHECK_DEADLOCK FALSE
