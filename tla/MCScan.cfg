CONSTANTS
    b1 = b1
    b2 = b2
    b3 = b3
    mouse = mouse
    Unit = {b1, b2, b3, mouse}
    Board = {b1, b2, b3}
    Bus = {1, 2}
    Num = {1, 2}
    MaxNames = 2
    MaxPlugs = 2
SPECIFICATION Spec
SYMMETRY Boards3
INVARIANTS
    TypeOK
    HandleIsChosenUnit
CHECK_DEADLOCK FALSE
