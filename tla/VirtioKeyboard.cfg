SPECIFICATION FairSpec
CONSTANTS
    QueueSize = 3
    IdxMod = 6
    NoEvent = NoEvent
    Events <- TypistEvents
INVARIANTS
    TypeOK
    OneOwnerEach
    NotifiesLiveDevice
PROPERTIES
    RingIsFifo
    ReadReturns
    BuffersComeBack
