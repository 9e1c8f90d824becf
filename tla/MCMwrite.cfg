CONSTANTS
    Chunks = 2
    Attempts = 3
    MaxPolls = 2
SPECIFICATION FairSpec
INVARIANTS
    TypeOK
    SuccessMeansBurned
    WrittenMeansStored
PROPERTIES
    NeverCatchesUp
    CommandEnds
    ImplementsBurnImage
CHECK_DEADLOCK FALSE
