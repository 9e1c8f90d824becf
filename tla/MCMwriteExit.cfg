CONSTANTS
    Chunks = 2
    Attempts = 3
    MaxPolls = 2
SPECIFICATION Spec
INVARIANT
    ExitZeroMeansBurned
CHECK_DEADLOCK FALSE
