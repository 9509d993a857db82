SPECIFICATION FairSpec
CONSTANTS
    w1 = w1
    w2 = w2
    m1 = m1
    m2 = m2
    m3 = m3
    NoMsg = NoMsg
    Workers <- TwoWorkers
    Msgs <- TwoMsgs
    Strict <- OneStrict
    ChannelSize = 1
    MaxFails = 1
    Policies = {"drop", "block", "fallback"}
    WALFails = FALSE
    Panics = {"send"}
    MaxOutages = 2
PROPERTIES
    AckedSettles
    ImplementsDelivery
    WorkersExit
    ProbedCircuitCloses
CHECK_DEADLOCK FALSE
