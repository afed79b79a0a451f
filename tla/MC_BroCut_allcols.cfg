CONSTANTS
    Names <- MCNames
    SepSpecs <- MCSepSpecs
    MaxLogs = 3
    MaxData = 2
    AllowUnterminated = TRUE
    Cols <- NoCols
    Negate = FALSE
    TimeConv = 1
    ShowHdr = 0
    Ofs = 0
SPECIFICATION Spec
INVARIANTS
    MemorySafe
PROPERTIES
    FatalIffMalformed
CHECK_DEADLOCK FALSE
