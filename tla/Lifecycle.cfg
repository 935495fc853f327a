SPECIFICATION FairSpec
CONSTANTS
    NumWorkers = 1
    MaxQueued = 1
    MaxSignals = 1
    SizeMod = 8
    ArgMinions = {0, 7}
    HwThreads = {0}
    Files = {"a.so"}
    Named = {}
    Valid = {}
    ReadMax = 2
    QueueMax = 1
    MaxRewrites = 0
INVARIANTS TypeOK MediatorOutlivesCommands
PROPERTIES RestartOnce SignalNotLost DeathNoticed
CHECK_DEADLOCK FALSE
