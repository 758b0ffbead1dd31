SPECIFICATION Spec
CONSTANTS
    Proc = {p1, p2, p3}
    MaxLines = 2
    Widths = {1, 3}
    MaxCalls = 5
    MaxCrashes = 1
SYMMETRY Symmetry
INVARIANTS
    TypeOK
    LostOnlyToTrim
PROPERTIES
    SoleWriterKept
CHECK_DEADLOCK FALSE
