SPECIFICATION FairSpec
CONSTANTS
    Lines <- MCLines
    Sets <- MCSets
    SetOf <- MCSetOf
    MshrSize = 2
    Configs <- BothBanks
    WriteResponse = TRUE
    Traffic = {"read", "write", "io_read", "io_write"}
    MaxReqs = 4
INVARIANTS
    OneWayPerLine
    FillsMatched
    ReplayHits
    RequestsConserved
PROPERTIES
    ReadsAnswered
CHECK_DEADLOCK FALSE
