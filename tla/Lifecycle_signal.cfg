SPECIFICATION FairSpec
CONSTANTS
    NumWorkers = 1
    MaxQueued = 0
    MaxSignals = 1
    SizeMod = 8
    ArgMinions = {0}
    HwThreads = {0}
    Files = {}
    Named = {}
    Valid = {}
    ReadMax = 2
    QueueMax = 1
    MaxRewrites = 0
PROPERTY SignalEndsServer
CHECK_DEADLOCK FALSE
