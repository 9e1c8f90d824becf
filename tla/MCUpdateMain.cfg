CONSTANTS
    MaxArgc = 8
    DevNos = {0, 1, 7, 8, 10, 15, 16, 17}
    Boards = {0, 1, 2, 9, 16}
    MaxDev = 16
    MaxSn = 8
    Radix = 10
SPECIFICATION Spec
INVARIANTS
    NamedBoardOnly
    StatusTells
    CountedArgumentsOnly
CHECK_DEADLOCK FALSE
