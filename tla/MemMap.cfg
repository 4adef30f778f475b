SPECIFICATION Spec
CONSTANTS
    Top = 6
    Capacity = 6
    MapSize = 6
    MaxRequest = 3
    BootMap <- MCBootMap
    BootFree <- MCBootFree
    Region <- MCRegion
    BootMissing <- MCBootMissing
INVARIANTS
    EachPageOnce
    AreasAreBacked
PROPERTIES
    FreeReturnsTheArea
CONSTRAINT RegularCalls
CHECK_DEADLOCK FALSE
