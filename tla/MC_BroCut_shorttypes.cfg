CONSTANTS
    Names <- MCNames
    SepSpecs <- MCSepSpecs
    MaxLogs = 1
    MaxData = 2
    AllowUnterminated = FALSE
    Cols <- SelectCols
    Negate = FALSE
    TimeConv = 0
    ShowHdr = 1
    Ofs = 0
SPECIFICATION Spec
PROPERTIES
    FatalIffMalformed
CHECK_DEADLOCK FALSE
