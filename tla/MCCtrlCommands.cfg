CONSTANTS
    TplRetries = 2
    SnRetries = 3
    FrameMax = 3
    CmdMax = 5
    LenMax = 6
    Versions <- MCVersions
    Stages = {0, 8, 16}
    IdMax = 5
    PageLen = 4
    PageAsked = 3
    IdOffset = 1
    ChipIdLen = 2
    PwdMax = 2
    Numbers <- MCNumbers
    IntMax = 20
    Byte = {0, 1, 2, 3, 4, 5, 6, 7, 10, 11, 12, 13}
    Junk = Junk
    MemSize = 8
    PacketMax = 2
    BulkMax = 4
    RegLen = 1
    Ranges <- MCRanges
    Memories <- MCMemories
    Inputs <- MCInputs
SPECIFICATION Spec
INVARIANTS
    TypeOK
    ReplyIsOwn
    SuccessMeansBurned
    ReportedIsSo
    SuccessMeansCopied
    FileByteOrigin
PROPERTIES
    WritesInRange
    CommandEnds
CHECK_DEADLOCK FALSE
