SPECIFICATION Spec
CONSTANTS
    AOClients = {ao1, ao2}
    NXClients = {}
    NumChars = 2
    GaugeBound = 3
    RestThreads = {}
    NoThread = NoThread
    AuthTokens = {}
    NoAuth = NoAuth
    OverlappingRequests = FALSE
    SweepBatch = 1
    MaxRequests = 0
CHECK_DEADLOCK FALSE
INVARIANTS
    OneOwner
