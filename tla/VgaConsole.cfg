SPECIFICATION Spec
CONSTANTS
    Width = 3
    Height = 2
    Typed <- TypedChars
    Banner <- LongBanner
INVARIANTS
    TypeOK
PROPERTIES
    ScreenIsStrip
