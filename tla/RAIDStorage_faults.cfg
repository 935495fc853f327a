SPECIFICATION Spec
CONSTANTS
    NumPrimary = 2
    MinionSize = 1
    Threads = {t1, t2}
    Backends = {"memory", "file"}
    Flaky = {0}
    MaxWrites = 2
    MaxLen = 2
    MetaFaults = TRUE
    Crashes = TRUE
INVARIANTS TypeOK NoStaleCopy MetaInSync MetaDurable
PROPERTIES SurvivesOneFailure
SYMMETRY ThreadSymmetry
