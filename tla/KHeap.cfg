SPECIFICATION FairSpec
CONSTANTS
    H = 6
    MaxDescriptors = 5
    MaxOps = 4
    OpsRange = 6
INVARIANTS
    Partition
    AnswerIsABlock
PROPERTIES
    ImplementsHeap
    CallsReturn
