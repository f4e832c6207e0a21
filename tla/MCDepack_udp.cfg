CONSTANTS
    FrameMod = 4
    FrameWinSize = 2
    FragWinSize = 2
    FRAG_MAX = 3
    MaxFrames = 5
    MaxFrags = 2
    Lossy = TRUE
    ReorderDepth = 2
    MaxDups = 1
SPECIFICATION Spec
INVARIANT FrameIntegrity
CHECK_DEADLOCK FALSE
