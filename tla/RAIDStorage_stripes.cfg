SPECIFICATION FairSpec
CONSTANTS
    NumPrimary = 2
    MinionSize = 2
    Threads = {t1, t2}
    Backends = {"memory", "file"}
    Flaky = {2}
    MaxWrites = 2
    MaxLen = 2
    MetaFaults = FALSE
    Crashes = FALSE
INVARIANTS NoStaleCopy
PROPERTIES RequestsReturn
