SPECIFICATION Spec
CONSTANTS
    KbBuf = 4
    MaxScancodes = 7
    Chars = {"x", "y"}
    CmdBuf = 3
    HistoryMax = 2
    MaxLines = 4
    VfsNodes = 5
    MaxMounts = 3
    Frames <- MCFrames
    PageSize = 4
    KiB = 1
    WordSize = 64
    MemSizes <- MCMemSizes
    KernelEnd = 11
    LowFrames = 2
    UserSlots <- MCUserSlots
    KernelSlots <- MCKernelSlots
    Pages <- MCPages
    SbrkPool = 3
    Increments <- MCIncrements
    Width = 3
    Height = 2
    Tab = 2
    MaxOut = 6
INVARIANTS
    TypeOK
    KeysInOrder
    HistoryRecalls
    NodesOwned
    FramesOwned
    ShowsTail
PROPERTIES
    KeyIsRead
CHECK_DEADLOCK FALSE
