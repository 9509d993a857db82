SPECIFICATION FairSpec
CONSTANTS
    w1 = w1
    w2 = w2
    m1 = m1
    m2 = m2
    m3 = m3
    NoMsg = NoMsg
    Workers <- OneWorker
    Msgs <- ThreeMsgs
    Strict <- NoneStrict
    ChannelSize = 1
    MaxFails = 1
    Policies = {"fallback"}
    WALFails = FALSE
    Panics = {}
    MaxOutages = 2
PROPERTIES
    CircuitRecovers
CHECK_DEADLOCK FALSE
