SPECIFICATION FairSpec
CONSTANTS
    c1 = c1
    c2 = c2
    c3 = c3
    Conns = {c1, c2, c3}
    Requests <- Mixed
    Owner <- MCOwner
    Kind <- MCKind
    NumWorkers = 2
    MaxFds = 3
    Pipelining = {c2}
    HangUps = {c1}
    Refused <- MixedRefused
INVARIANTS RepliesStayHome FramesIntact
PROPERTIES Answered FdsReclaimed
CHECK_DEADLOCK FALSE
