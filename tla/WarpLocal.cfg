SPECIFICATION FairSpec
CONSTANTS
    NumSockets = 1
    CoresPerSocket = 1
    NumWarps = 3
    Barriers = {"b0", "b1"}
    PCs <- MCPCs
    StartPC = "start"
    Code <- LocalCode
INVARIANTS
    TypeOK
    HoldersStalled
    NoOrphanStall
    BarrierMembersParked
    BarrierSeparates
    JoinWaits
PROPERTIES
    SpawnWaitsForAll
    StallsEnd
