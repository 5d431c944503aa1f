SPECIFICATION Spec
CONSTANTS
    NumSockets = 2
    CoresPerSocket = 1
    NumWarps = 2
    Barriers = {"b0"}
    PCs <- MCPCs
    StartPC = "start"
    Code <- GlobalCode
INVARIANTS
    NeverAllSuspended
