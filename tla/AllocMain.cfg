SPECIFICATION Spec
CONSTANTS
    Word = 128
    BaseAddress = 8
    Capacity = 36
    PageAlign = 8
    BlockAlign = 2
    Sizes = {1, 3, 8, 35, 37}
    Addrs = {8, 19}
    MaxBuffers = 4
INVARIANTS
    BlocksTilePages
    FreeBlocksMerged
    RuntimeAgrees
PROPERTY ImplementsDeviceMemory
