SPECIFICATION FairSpec
CONSTANTS
    Threads = {"t1", "t2", "t3"}
    MaxWrites = 1
    Files = {"log.txt", "new.txt"}
    LogTxt = "log.txt"
    MaxSets = 2
INVARIANTS TypeOK OneLogger LinesWhole
PROPERTY Logged
CHECK_DEADLOCK FALSE
