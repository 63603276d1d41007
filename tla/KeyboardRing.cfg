SPECIFICATION TypistSpec
CONSTANTS
    BufSize = 2
    Keys <- TheirBytes
    Hands <- ThreeKeys
    UnderWay = 4
INVARIANTS
    TypeOK
    TypistTypeOK
    FetchedIsHead
    ShiftLetsGo
PROPERTIES
    DecodesAsTyped
    UpperNeedsShiftSent
