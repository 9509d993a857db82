SPECIFICATION Spec
CONSTANTS
    m1 = m1
    m2 = m2
    m3 = m3
    m4 = m4
    Msgs <- MCMsgs
    Unrouted <- MCNone
    PipelineFails <- MCUnrouted
    NPools = 2
    ChannelSize = 2
    MaxRejects = 0
    MaxReloads = 0
    NoCopy = NoCopy
INVARIANT
    AckedNotLost
CHECK_DEADLOCK FALSE
