SPECIFICATION Spec
CONSTANTS
    NULL = NULL
    Numbers <- MCNumbers
    Serials <- MCSerials
    InitialRows <- MCInitialRows
    MaxEdits = 3
INVARIANTS
    EqualMeansSame
    NearMissesAreFloats
CHECK_DEADLOCK FALSE
