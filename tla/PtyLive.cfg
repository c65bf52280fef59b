SPECIFICATION FairSpec
CONSTANTS
    Reader = {r1}
    PTY_BUFFER_SIZE = 3
    ReadSize = {1, 2}
    MaxIrq = 0
PROPERTIES
    LinesWake
    ReadSettles
