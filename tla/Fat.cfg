SPECIFICATION Spec
CONSTANTS
    LastCluster = 5
    Limit = 7
    EntriesPerSector = 3
    Slots = 2
    RootCluster = 5
    ParentCluster = 9
    Length = {0, 5}
    MaxFault = 10
    Volumes <- MCVolumes
INVARIANTS
    ChainsOK
    
PROPERTY
    OthersKept
