SPECIFICATION FairSpec
CONSTANTS
    BITMAP_SIZE = 6
    Reserved = {0, 3}
INVARIANT
    MapAgrees
PROPERTIES
    LowestFree
    FailsOnlyWhenFull
    SearchEnds
