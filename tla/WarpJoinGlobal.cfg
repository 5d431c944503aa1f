SPECIFICATION Spec
CONSTANTS
    NumSockets = 1
    CoresPerSocket = 2
    NumWarps = 2
    Barriers = {"b0"}
    PCs <- MCPCs
    StartPC = "start"
    Code <- JoinThenGlobalCode
INVARIANTS
    HoldersStalled
