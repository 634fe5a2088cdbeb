SPECIFICATION SafeSpec
CONSTANTS
    Streams = 2
    MaxUnits = 2
    PacketUnits = 1
    MaxDelay = 1
    Faults <- NoFaults
CHECK_DEADLOCK FALSE
INVARIANTS
    AllDecodersFlushed
