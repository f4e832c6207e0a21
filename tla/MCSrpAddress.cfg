CONSTANTS
    RetryCnt = 1
    TidMod   = 3
    MaxCalls = 2
    Vals     = {1, 2}
    InitVal  = 0
    NoVal    = NoVal
    Lossy    = TRUE
    Rejects  = TRUE
SPECIFICATION Spec
INVARIANTS TypeOK RetryBudget
PROPERTIES RefinesSrpRegister
CHECK_DEADLOCK FALSE
