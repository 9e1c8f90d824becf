CONSTANTS
    Byte = {0, 1, 2, 3, 4, 5, 10, 11, 12, 13, 14, 20}
    MemSize = 6
    BulkMax = 2
    TotalMax = 3
    CallMax = 3
    CmdTries = 2
    ZeroMax = 1
    MaxSeq = 100
    FileLen = 5
    CtrlMax = 2
    SmallMax = 1
    Word = 16
    ChunkMax = 3
    Base = 1
    FrameLen = 6
    TplLen = 4
SPECIFICATION MCSpec
INVARIANTS
    CmdTypeOK
    WriteDelivers
    DumpIsPrefix
    BurnStopsAtFrame
PROPERTIES
    WriteStaysInRange
    CommandEnds
CHECK_DEADLOCK FALSE
