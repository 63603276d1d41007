SPECIFICATION Spec
CONSTANTS
    Routines = {"poll", "put_char"}
    Vectors <- AllVectors
INVARIANTS
    FrameIsTrue
PROPERTIES
    GoesOnWhereItWas
