SPECIFICATION Spec
CONSTANTS
    Cores = {0, 1}
    Warps <- MCWarps
    NumThreads = 2
INVARIANTS
    NoLostUpdate
CHECK_DEADLOCK FALSE
