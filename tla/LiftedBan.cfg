SPECIFICATION MCSpec
CONSTANTS
    DbVersion = 3
    OldVersion = 1
    MaxQueue = 2
    MaxTime = 2
    Ipids = {i1, i2}
    Hdids = {}
    NoHdid = none
    Durations <- MCDurations
    MaxBans = 2
    MaxRestarts = 1
    MaxEdits = 1
    Names = {u1}
    AoClients = {a1}
    NxClients = {n1}
    Threads = {t1, t2}
    TokenTtl = 1
    MaxTokens = 2
    MaxChanges = 3
    MaxFailures = 1
SYMMETRY MCSymmetry
CHECK_DEADLOCK FALSE
INVARIANT LiftedStaysLifted
