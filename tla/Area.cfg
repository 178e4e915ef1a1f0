SPECIFICATION MCSpec
CONSTANTS
    AOClients = {ao1, ao2}
    NXClients = {nx1}
    Absentees = {ao2, nx1}
    shared = {ao2}
    ao1 = ao1
    ao2 = ao2
    i1 = i1
    i2 = i2
    IPIDs = {i1, i2}
    Address <- OneEach
    Areas = {lobby, court}
    Lobby = lobby
    None = None
SYMMETRY MCSymmetry
CHECK_DEADLOCK FALSE
INVARIANTS
    LockAnnounced
    OwnersLive
PROPERTIES
    LockedEntry
    LockAuthority
