SPECIFICATION FairSpec
CONSTANTS
    MaxPid = 3
    MaxSleep = 2
    Futex = {f1}
INVARIANTS
    
    OnePlace
    
    NoDangling
    BooksAgree
PROPERTIES
    ImplementsLife
    RoundRobin
    SleepersWake
CHECK_DEADLOCK FALSE
