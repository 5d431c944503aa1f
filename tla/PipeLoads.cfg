SPECIFICATION Spec
CONSTANTS
    NumWarps = 1
    IssueWidth = 1
    IbufSize = 2
    QueueSize = 2
    InOrderUnits = {"alu"}
    OtherUnits = {"lsu"}
    Instrs <- LoadPackets
    MaxInstrs = 2
INVARIANT RegistersTracked
