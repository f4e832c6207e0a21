CONSTANTS
    FrameMod = 4
    FrameWinSize = 2
    FragWinSize = 2
    FRAG_MAX = 3
    MaxFrames = 5
    MaxFrags = 2
    Lossy = TRUE
    ReorderDepth = 0
    MaxDups = 0
SPECIFICATION Spec
INVARIANTS TypeOK 
PROPERTY WindowDrains
CHECK_DEADLOCK FALSE
