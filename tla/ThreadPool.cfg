SPECIFICATION FairSpec
CONSTANTS
    Workers = {w1, w2}
    low = low
    med = med
    high = high
    adm = adm
    Commands = {low, high, adm}
    Priority <- MCPriority
    StopBound = 3
    SuspendBound = 3
INVARIANTS TypeOK TokensCoverWorkers StopTokensMatch StopDrains ExactlyOnce
PROPERTIES SuspendHolds NoStrayExit ImplementsTaskPool StopJoins CommandsRun SuspendTakesHold
