SPECIFICATION Spec
CONSTANTS
    Process = {1, 2}
    Signal = {15, 19, 32}
    Handled = {15, 32}
    Terminating = {15}
    Stopping = {19}
    NWords = 16
    Timeout = {0, 10}
    MaxPending = 2
INVARIANTS
    QueuesOK
    LockReleased
PROPERTIES
    
    PollEnds
