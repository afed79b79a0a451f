CONSTANTS
    Names <- MCNames
    SepSpecs <- MCSepSpecs
    MaxLogs = 3
    MaxData = 2
    AllowUnterminated = FALSE
    Cols <- NegateCols
    Negate = TRUE
    TimeConv = 1
    ShowHdr = 2
    Ofs = 124
SPECIFICATION Spec
INVARIANTS
    IndexesInRange
PROPERTIES
    OutputFaithful
CHECK_DEADLOCK FALSE
