CONSTANTS
    R = R
    A = A
    B = B
    Leaf = Leaf
    Devs = {R, A, B}
    Hier <- MCHier
    Names = {"a", "b", "x", "y", "z", "q"}
    MaxIdx = 1
    MaxComps = 2
SPECIFICATION Spec
VIEW MCView
INVARIANTS TypeOK PathWellFormed IterMatchesComposite
