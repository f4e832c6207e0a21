CONSTANTS
    Ports = {8192}
    TDests = {0, 1}
    VCs = {0, 1}
    Versions = {2, 3}
    MaxAddrs = 3
    None = None
SPECIFICATION Spec
INVARIANTS TypeOK EndpointsExclusive StackAsRequested
CHECK_DEADLOCK FALSE
