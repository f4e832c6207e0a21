SPECIFICATION Spec
CONSTANTS
    AvgShft = 4
    MargShft = 1
    CapUs = 1
    UsrTimeout = 2
    RetryCnt = 3
    TidMod = 4
    RoundTrips = {4, 5, 6}
INVARIANTS TypeOK
PROPERTIES SettlesOnFirstAttempt
