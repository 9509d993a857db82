SPECIFICATION Spec
CONSTANTS
    m1 = m1
    m2 = m2
    m3 = m3
    m4 = m4
    Msgs <- MCFewMsgs
    Unrouted <- MCUnrouted
    PipelineFails <- MCNone
    NPools = 2
    ChannelSize = 1
    MaxRejects = 1
    MaxReloads = 1
    NoCopy = NoCopy
SYMMETRY MCSymmetry
INVARIANTS
    TypeOK
    NoSinkForgotten
    PipelineOnce
PROPERTY
    EntryLeavesWhenTaken
CHECK_DEADLOCK FALSE
