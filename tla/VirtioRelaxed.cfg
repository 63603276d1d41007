SPECIFICATION RelaxedSpec
CONSTANTS
    QueueSize = 3
    IdxMod = 6
    NoEvent = NoEvent
    Events <- TwoKeys
    Harts <- RelaxedHarts
INVARIANTS
    RelaxedTypeOK
    OneOwnerInFlight
    InOrderDecodesAnnounced
    CirculationIsClosed
