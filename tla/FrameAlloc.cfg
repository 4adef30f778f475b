SPECIFICATION FairSpec
CONSTANTS
    N = 6
    W = 2
    P = 2
    MaxRequest = 3
    InitFree <- UsableFree
    BootFrames <- UsableBoot
INVARIANTS
    PoolDistinct
    NoDoubleAllocation
    ScanSkipsNone
PROPERTIES
    OnlyFailedArraysLose
    FailureRewinds
    RequestsEnd
