SPECIFICATION FairBringUp
CONSTANTS
    Boards <- BothBoards
    Entries = 128
    Pml4 = 1064960
    Memories <- TwoMemories
    BssSizes <- AnyAlignment
    StackSize = 16
    Garbage = 1
    FifoDepth = 16
    MessageSize = 27
INVARIANTS
    PagingIsIdentity
    BssIsZero
    StackUntouched
    TypeOK
    NothingLost
    LineIsSet
PROPERTIES
    KernelMainStarts
    MessageEnds
    PutCharReturns
