CONSTANTS
    MaxWords    = 2
    RMaxOff     = 7
    RMaxLen     = 13
    Versions    = {1, 2}
    WMaxOff     = 5
    WMaxLen     = 10
    Bits        = 2
    Resolutions = {TRUE, FALSE}
SPECIFICATION Spec
INVARIANTS TypeOK ReadDeliversMemory PiecesFit WriteIsMaskedMerge
CHECK_DEADLOCK FALSE
