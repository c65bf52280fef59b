SPECIFICATION Spec
CONSTANTS
    Glue <- MCGlue
    BlockSize = 2
    Name <- MCName
    MaxNode = 13
    BufferSize = 1
    Byte = {x}
    Proc = {p1, p2}
    InitProc = p1
    Image <- MCImage
    Path <- MCPath
    Dir <- MCDir
    Mode <- MCMode
    Size = {1}
    Capacity = 2
    MaxOffset = 1
    MaxSize = 2
    MaxOpen = 2
INVARIANTS
    FilesOK
    
    TarReachable
PROPERTIES
    
    NamesChange
