SPECIFICATION Spec
CONSTANTS
    w1 = w1
    w2 = w2
    Main = Main
    Workers <- MCWorkers
    NoFrame = NoFrame
    MaxFrames = 5
    QueueSize = 1
    Faults <- NoFaults
CHECK_DEADLOCK FALSE
INVARIANTS
    MemoryBounded
PROPERTIES
    DecodingCompletes
    PoppedIsRecorded
    EndsOrHangsDrained
