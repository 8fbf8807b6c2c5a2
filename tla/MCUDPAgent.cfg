SPECIFICATION FairSpec
CONSTANTS
    BatchSize = 2
    ChanSize = 1
    MaxPackets = 5
    Invalid = {4}
INVARIANTS
    TypeOK
    PipelineInOrder
    ExactlyOneFate
PROPERTIES
    EventuallyDecided
    InterruptEnds
CHECK_DEADLOCK FALSE
