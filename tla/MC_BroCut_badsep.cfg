CONSTANTS
    Names <- MCNames
    SepSpecs <- BadSepSpecs
    MaxLogs = 1
    MaxData = 2
    AllowUnterminated = FALSE
    Cols <- SelectCols
    Negate = FALSE
    TimeConv = 2
    ShowHdr = 1
    Ofs = 0
SPECIFICATION Spec
PROPERTIES
    SeparatorPolicy
CHECK_DEADLOCK FALSE
