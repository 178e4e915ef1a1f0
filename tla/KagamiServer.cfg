SPECIFICATION Spec
CONSTANTS
    AOClients = {ao1}
    NXClients = {nx1, nx2}
    NumChars = 2
    GaugeBound = 3
    RestThreads = {t1, t2}
    NoThread = NoThread
    AuthTokens = {}
    NoAuth = NoAuth
    OverlappingRequests = FALSE
    SweepBatch = 1
    MaxRequests = 5
SYMMETRY Symmetry
CHECK_DEADLOCK FALSE
INVARIANTS
    TypeOK
    NoLostCharacter
    RoomConsistent
    NXGaugeNeverOver
