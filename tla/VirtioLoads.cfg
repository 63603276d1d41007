SPECIFICATION RelaxedSpec
CONSTANTS
    QueueSize = 2
    IdxMod = 4
    NoEvent = NoEvent
    Events <- TwoKeys
    Harts <- LoadsRelaxed
INVARIANTS
    DecodesAnnounced
