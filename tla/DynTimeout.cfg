CONSTANTS
    AvgShft = 7
    MargShft = 1
    CapUs = 4
    Inits = {0, 3, 40}
    RoundTrips = {0, 1, 9}
    AvgMax = 3000
    Rt = 9
SPECIFICATION Spec
INVARIANTS TypeOK
PROPERTIES UpdateStaysBetween RelaxNeverShrinks SettlesOnRoundTrip
