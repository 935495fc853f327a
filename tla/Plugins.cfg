SPECIFICATION FairSpec
CONSTANTS
    Files = {"a.so", "b.so", "c.txt"}
    Named = {"a.so", "b.so"}
    Valid = {"a.so", "b.so"}
    ReadMax = 2
    QueueMax = 3
    MaxRewrites = 1
INVARIANT HandlesBalanced
PROPERTIES NoLateNotify HeadLoaded
CHECK_DEADLOCK FALSE
