SPECIFICATION Spec
CONSTANTS
    Trim <- MCTrim
    TagValues = {"x", "y"}
    Window = 1
    Ingests = {r1, r2}
    Batches <- MCBatches
    Queries = {q1}
    Reads <- MCReads
    Limit = 2
    SubmittedDays = {0}
    InitialDays = 2
    HalfRange = 8
    MaxClock = 3
SYMMETRY Symmetric
INVARIANTS
    TypeOK
    BatchAllOrNothing
PROPERTY
    ImplementsRepository
CHECK_DEADLOCK FALSE
