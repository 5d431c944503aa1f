SPECIFICATION FairSpec
CONSTANTS
    NumWarps = 2
    IssueWidth = 1
    IbufSize = 1
    QueueSize = 1
    InOrderUnits = {"alu"}
    OtherUnits = {"lsu"}
    Instrs <- Packets
    MaxInstrs = 2
INVARIANTS
    FetchedInOrder
    WritersAlone
    RegistersTracked
    PendingCounts
PROPERTY AllCommitted
