CONSTANTS
    b1 = b1
    b2 = b2
    b3 = b3
    Bufs <- MCBufs
    Nil = Nil
    Cap = 2
    MaxOff = 3
    MaxLen = 3
    MaxIns = 1
    MaxOps = 6
    MiddleUnlink = FALSE
    Junk = Junk
    Zero = Zero
SYMMETRY BufSymmetry
SPECIFICATION Spec
INVARIANTS TypeOK ChainConsistent ExtractMatchesFlat
PROPERTIES InsertReturns
CHECK_DEADLOCK FALSE
