SPECIFICATION FairSpec
CONSTANTS
    Workers = {w1}
    low = low
    med = med
    high = high
    adm = adm
    Commands = {med}
    Priority <- MCPriority
    StopBound = 1
    SuspendBound = 1
PROPERTIES StopReturns
