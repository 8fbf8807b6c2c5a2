SPECIFICATION Spec
CONSTANTS
    Clients = {c1, c2}
    Tools = {t}
    Drafts <- MCDrafts
    NewId <- MCNewId
    MaxClock = 2
    MaxIds = 1
    MaxStarts = 2
    MaxClaims = 1
SYMMETRY Symmetry
INVARIANTS
    TypeOK
    CreatedOnce
PROPERTIES
    ShutdownCutsNothingOff
CHECK_DEADLOCK FALSE
