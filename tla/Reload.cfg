SPECIFICATION FairSpec
CONSTANTS
    a1 = a1
    u1 = u1
    u2 = u2
    MaxVersion = 4
    Invalid = {2}
    Disabled = {3}
    GlobalRateLimit <- MCGlobalRateLimit
    RateLimit <- MCRateLimit
    Watcher = Watcher
    Admins <- MCAdmins
    Requests <- MCRequests
INVARIANTS
    TypeOK
    GlobalFollows
PROPERTIES
    FileReachesConfig
    ProjectLimiterConverges
CHECK_DEADLOCK FALSE
