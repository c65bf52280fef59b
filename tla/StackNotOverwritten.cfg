SPECIFICATION HeapSpec
CONSTANTS
    Process = {p1, p2}
    IST = ist
    Idle = idle
    BootPages = 4
    STACK_PAGES = 2
    Sizes = {1, 2}
    MaxPages = 12
INVARIANT StackNotOverwritten
CHECK_DEADLOCK FALSE
