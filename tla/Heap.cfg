SPECIFICATION Spec
CONSTANTS
    TagSize = 1
    MinExp = 1
    MaxExp = 5
    MaxComplete = 1
    PageSize = 10
    MaxPages = 2
    Size = {1, 4, 6, 8, 12}
    KeySize = 1
INVARIANT
    HeapOK
PROPERTY
    ImplementsAllocator
