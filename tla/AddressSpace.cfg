SPECIFICATION Spec
CONSTANTS
    Process = {p1, p2}
    IST = ist
    Idle = idle
    InitProcess = p1
    BootPages = 4
    STACK_PAGES = 2
    Sizes = {2}
    MaxPages = 10
    Frame = {1, 2, 3, 4, 5, 6, 7, 8, 9, 10, 11}
    PAGE_SIZE = 2
    TableSize = 3
    Tables = 2
    ElfPages = 1
    UserStack = 1
    Lengths = {3}
INVARIANTS
    
    OverlapOnlyTop
    InteriorMapped
PROPERTIES
    MmapGivesFresh
    HeapSpec
CHECK_DEADLOCK FALSE
