SPECIFICATION SafeSpec
CONSTANTS
    w1 = w1
    w2 = w2
    Main = Main
    Workers <- MCWorkers
    NoFrame = NoFrame
    MaxFrames = 2
    QueueSize = 2
    Faults <- NoFaults
CHECK_DEADLOCK FALSE
INVARIANTS
    NoFrameLost
