SPECIFICATION Spec
CONSTANTS
    QueueSize = 2
    IdxMod = 4
    NoEvent = NoEvent
    Events <- TwoKeys
PROPERTIES
    EchoesTypedKeys
