SPECIFICATION Spec
CONSTANTS
    BatchSize = 2
    BufferSize = 2
    MaxEvents = 3
    MaxFaults = 1
    Poison <- NoPoison
INVARIANT CloseDrainsAll
CHECK_DEADLOCK FALSE
