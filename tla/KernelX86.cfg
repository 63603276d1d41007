SPECIFICATION FairSpec
CONSTANTS
    BufSize = 3
    Keys <- ThreeCodes
    EarlyKeys = FALSE
INVARIANTS
    TypeOK
    EntersReadyHandler
    EoiEndsItsOwn
    ByteIsAnnounced
PROPERTIES
    HandlerIsAtomic
    RingIsFifo
    DecodesAsTyped
    KeyIsRead
    QueuedKeyIsRead
