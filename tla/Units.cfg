SPECIFICATION FairSpec
CONSTANTS
    Drivers = {"simx", "rtlsim", "opae", "xrt"}
    Values = {"v", "w"}
    Timeouts = {0, 1, 2}
    MaxTimeout = 2
    TimeoutBits = 2
    Second = 2
    XrtSleep = 2
    MaxCalls = 5
    NumLines = 4
    Banks = 2
    Window = 2
    RqSize = 3
    MaxPending = 2
    MaxCmds = 2
    MemSize = 6
    BlockSize = 2
    Rights = {"r", "w"}
    MaxBuffers = 2
    Shapes <- UnitShapes
    NumLanes = 4
    NumOuts = 2
    GlobalLines = {"a", "b"}
    LmemBanks = {"s", "t"}
    QueueIn = 2
    QueueOut = 2
    Programs <- LsuPrograms
    MaxInputs = 1
    MaxRuns = 2
    Launches <- SoundLaunches
    Edges <- TileEdges
    TileLogSize = 3
    Origins <- TilePlaces
    Scissors <- TileScissors
INVARIANTS
    LanesConserved
    FenceOrders
    ReadyMeansFinished
    ResultsOfLastRun
    InStep
    NoAbort
    EachTaskOnce
    DmaIntact
    ChecksEveryByte
    AnswersReturn
    InputsServed
    CoverageExact
PROPERTIES
    InstrsComplete
    CallsReturn
    DmaEnds
    RasterDrains
CHECK_DEADLOCK FALSE
