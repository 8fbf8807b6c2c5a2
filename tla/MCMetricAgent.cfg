SPECIFICATION FairSpec
CONSTANTS
    BatchSize = 2
    BufferSize = 2
    MaxEvents = 4
    MaxFaults = 2
    Poison <- ThirdBad
INVARIANTS
    TypeOK
    PendingInOrder
    NothingVanishes
    CloseDrains
    CleanCloseDelivers
    ExactlyOnceWithoutFaults
    PoisonBlocksLater
    OverflowDropsOldest
    FirstStoredInOrder
PROPERTIES
    OverflowOnlyWhileFailing
    ImplementsDelivery
    EventuallySettled
    ShutdownEnds
CHECK_DEADLOCK FALSE
