SPECIFICATION FairSpec
CONSTANTS
    Requests <- MCRequests
    Kind <- MCKind
    Workers = {1, 2}
    Depths = {1, 3}
    Chunks = 2
    Refused = {"w"}
INVARIANTS StreamIntact AnsweredOnce
PROPERTIES Answered EndNoticed
CHECK_DEADLOCK FALSE
