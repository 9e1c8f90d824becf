CONSTANTS
    FileLen = 7
    ChunkMax = 2
    Sector = 2
    ValueWord = 3
    RequestMax = 5
    MaxRequests = 2
    Base = 2
    MaxLen = 10
    Chunk = 4
SPECIFICATION MCFairSpec
INVARIANTS
    TypeOK
    DeliveredAsRequested
    ChecksumsAreSums
PROPERTIES
    DownloadEnds
CHECK_DEADLOCK FALSE
