CONSTANTS
    Names <- MCNames
    SepSpecs <- MCSepSpecs
    MaxLogs = 3
    MaxData = 2
    AllowUnterminated = FALSE
    Cols <- SelectCols
    Negate = FALSE
    TimeConv = 2
    ShowHdr = 1
    Ofs = 0
SPECIFICATION Spec
INVARIANTS
    TypeOK
    IndexesInRange
PROPERTIES
    OutputFaithful
    FatalIffMalformed
CHECK_DEADLOCK FALSE
