SPECIFICATION Spec
CONSTANTS
    c1 = c1
    c2 = c2
    c3 = c3
    Conns = {c1}
    Requests <- SameClient
    Owner <- MCOwner
    Kind <- MCKind
    NumWorkers = 1
    MaxFds = 2
    Pipelining = {}
    HangUps = {c1}
    Refused = {}
INVARIANTS ServerSurvives
CHECK_DEADLOCK FALSE
