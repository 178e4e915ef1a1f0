SPECIFICATION MCSpec
CONSTANTS
    AOClients = {}
    NXClients = {nx1, nx2}
    NumChars = 1
    GaugeBound = 2
    RestThreads = {t1, t2}
    NoThread = NoThread
    AuthTokens = {a1}
    NoAuth = NoAuth
    OverlappingRequests = TRUE
    SweepBatch = 1
    MaxRequests = 4
    PartsToRun = {"rest", "ws"}
    NumWsClients = 1
    NumSlots = 1
    MaxMsgs = 2
    Banned = {}
    MaxKicks = 1
    NoSlot = NoSlot
CHECK_DEADLOCK FALSE
PROPERTIES
    
    IdleSwept
    RequestsAnswered
    TransportDrains
