SPECIFICATION Spec
CONSTANTS
    MaxEntries = 3
    Size <- MCSize
    MaxSegmentBytes = 2
    HardReplayLineCap = 1
    ScanBuffer = 1
    Modes <- FaultyModes
    MaxSegment = 4
    MaxRestarts = 2
    MaxRejects = 1
INVARIANTS
    TypeOK
    DurableKept
    ReplayInOrder
PROPERTY
    RemovedOnlyAfterAcceptance
CHECK_DEADLOCK FALSE
