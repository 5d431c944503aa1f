SPECIFICATION Spec
CONSTANTS
    Lines <- MCLines
    Sets <- MCSets
    SetOf <- MCSetOf
    MshrSize = 2
    Configs <- OnlyWriteBack
    WriteResponse = FALSE
    Traffic = {"read", "write"}
    MaxReqs = 4
INVARIANTS
    WrittenLinesDirty
CHECK_DEADLOCK FALSE
