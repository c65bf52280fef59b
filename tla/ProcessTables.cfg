SPECIFICATION Spec
CONSTANTS
    IntBits = 3
    WordBits = 6
    PerPage = 21
    MaxSlabs = 1
    NamedLists = 4
    MaxPid = 3
INVARIANTS
    TablesAgree
    ObjectsOwned
PROPERTY
    ListsImplementLife
