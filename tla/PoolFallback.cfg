SPECIFICATION Spec
CONSTANTS
    w1 = w1
    w2 = w2
    m1 = m1
    m2 = m2
    m3 = m3
    NoMsg = NoMsg
    Workers <- TwoWorkers
    Msgs <- ThreeMsgs
    Strict <- OneStrict
    ChannelSize = 1
    MaxFails = 1
    Policies = {"drop", "block", "fallback"}
    WALFails = TRUE
    Panics = {"send", "probe"}
    MaxOutages = 1
SYMMETRY MCSymmetry
INVARIANTS
    TypeOK
    NotUsedAfterRelease
    ShutdownSettles
    SingleProbe
CHECK_DEADLOCK FALSE
