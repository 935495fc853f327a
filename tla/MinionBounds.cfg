SPECIFICATION Spec
CONSTANTS
    NumPrimary = 1
    MinionSize = 3
    SizeMod = 16
    MaxLen = 7
    Backends = {"memory", "file"}
INVARIANTS AcceptedFits DefinedBehaviour
CHECK_DEADLOCK FALSE
