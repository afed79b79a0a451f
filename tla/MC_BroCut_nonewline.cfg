CONSTANTS
    Names <- MCNames
    SepSpecs <- MCSepSpecs
    MaxLogs = 1
    MaxData = 2
    AllowUnterminated = TRUE
    Cols <- SelectCols
    Negate = FALSE
    TimeConv = 2
    ShowHdr = 1
    Ofs = 0
SPECIFICATION Spec
PROPERTIES
    OutputFaithful
CHECK_DEADLOCK FALSE
