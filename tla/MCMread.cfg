CONSTANTS
    MaxSize = 5
    ChunkMax = 2
    MaxPolls = 2
SPECIFICATION FairSpec
INVARIANTS
    SuccessMeansRead
    DataInOrder
    AnsweredForItself
PROPERTIES
    CommandEnds
CHECK_DEADLOCK FALSE
