SPECIFICATION MCSpec
CONSTANTS
    DbVersion = 1
    OldVersion = 1
    MaxQueue = 2
    MaxTime = 3
    Speakers = {s1, s2}
    Messages <- MCMessages
    HeatCfg <- MCHeatCfg
    TrustReward = 1000
    MaxTrust = 1500
    RingSize = 2
    Window = 1
    ClusterThreshold = 2
    MaxMessages = 3
    MaxResets = 2
    Hosts = {"h1"}
    Nets = {"net"}
    NetOf <- MCNetOf
    Visitors = {v1, v2}
    HostOf <- MCHostOf
    Details = {d1, d2}
    WhiteNets = {"net"}
    Multiplier = 2
    WatchT = 1
    RateT = 1
    BlockT = 2
    EventWindow = 2
    Sustained = 1
    BlockFor = {0, 1}
    AutoBlock = 1
    CacheTtl = 1
    FailTtl = 1
    BatchMax = 2
    Budget = 1
    MaxClock = 3
    MaxReports = 4
    Chatters = {c1, c2}
    Hwids = {w1}
    Lines <- MCLines
    EchoThreshold = 2
    EchoWindow = 1
    JoinMax = 2
    BurstThreshold = 2
    BurstWindow = 1
    HwidThreshold = 2
    JoinKept = 2
    HwidKept = 2
    MaxInstant = 4
    MaxSaid = 4
    MaxBurst = 2
    Actions = {"ws_frame"}
    Keys = {k1}
    Rules <- MCRules
    Costs = {1, 2}
    MaxIdle = 2
    MaxMoment = 5
    MaxAsked = 4
    Listed <- MCListed
    Exempt <- MCExempt
    Doubled = {"o"}
    Endings <- MCEndings
    Links = {"good", "evil", "other"}
    Allow = {"good"}
    Block = {"evil"}
    CombiningT = 30
    ExoticT = 40
    FormatT = 10
    UnicodeMax = 30
    BlockedScore = 90
    UnknownScore = 20
    MaxSpelling = 3
    MaxRetries = 2
    MaxHops = 2
    MaxBoots = 2
SYMMETRY MCSymmetry
CHECK_DEADLOCK FALSE
INVARIANTS
    MutesKept
    VerdictsEarned
    
    SpamAlertsEarned
    RateBound
    
    CachesHold
