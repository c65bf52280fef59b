SPECIFICATION Spec
CONSTANTS
    max = 4
    Byte = {b1, b2}
INVARIANT
    RestFits
PROPERTY
    ImplementsQueue
