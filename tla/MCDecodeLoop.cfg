SPECIFICATION Spec
CONSTANTS
    Streams = 2
    MaxUnits = 3
    PacketUnits = 2
    MaxDelay = 2
    Faults <- AllFaults
CHECK_DEADLOCK FALSE
INVARIANTS
    TypeOK
    InStreamOrder
    DeliveredOrExplained
    PacketsFreed
    FrameTypeKnown
PROPERTIES
    IsFrameSource
    EndsOrDecoderStalls
