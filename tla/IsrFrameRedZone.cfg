SPECIFICATION Spec
CONSTANTS
    Routines = {"poll", "put_char"}
    Vectors <- KernelVectors
INVARIANTS
    LocalsSurvive
