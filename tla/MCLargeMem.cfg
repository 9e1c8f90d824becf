CONSTANTS
    Byte = {0, 1}
    MemSize = 3
    BulkMax = 2
    TotalMax = 3
    CallMax = 3
    CmdTries = 2
    ZeroMax = 1
    MaxSeq = 2
SPECIFICATION FairSpec
INVARIANTS
    TypeOK
    CountedBytesInPlace
    WithinDeclared
PROPERTIES
    OutsideUntouched
    FreshSequenceNumber
    CallReturns
    ImplementsTransfer
CHECK_DEADLOCK FALSE
