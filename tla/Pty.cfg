SPECIFICATION Spec
CONSTANTS
    Reader = {r1, r2}
    PTY_BUFFER_SIZE = 2
    ReadSize = {1}
    MaxIrq = 2
INVARIANT
    WaitersOK

    
SYMMETRY ReaderSymmetry
