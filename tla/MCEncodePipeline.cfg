SPECIFICATION SafeSpec
CONSTANTS
    w1 = w1
    w2 = w2
    Main = Main
    Workers <- MCWorkers
    NoFrame = NoFrame
    MaxFrames = 4
    QueueSize = 2
    Faults <- AllFaults
CHECK_DEADLOCK FALSE
SYMMETRY Symmetric
INVARIANTS
    TypeOK
    OneOwnerPerFrame
    RecordedOnce
    MxfInPictureOrder
    OnlyQueueTailLost
    MuxInputsOnDisk
    FinishedLeavesNoTemp
    HangsOnlyDrained
    FinalizedExplained
