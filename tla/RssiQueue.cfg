CONSTANTS
    Depth = 2
    MaxWrites = 4
    MaxRx = 3
    WriteTimeouts = {"indefinite", "none"}
    ReadTimeouts = {"indefinite", "none", "finite"}
    DownTimeouts = {"indefinite", "none", "finite"}
SPECIFICATION Spec
INVARIANTS TypeOK WritesReachWire
CHECK_DEADLOCK FALSE
