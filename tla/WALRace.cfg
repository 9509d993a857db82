SPECIFICATION Spec
CONSTANTS
    MaxEntries = 4
    Size <- MCSize
    MaxSegmentBytes = 2
    HardReplayLineCap = 2
    ScanBuffer = 1
    Modes <- SoundMode
    MaxSegment = 4
    MaxRestarts = 1
    MaxRejects = 1
INVARIANT
    ActiveNeverReplayed
CHECK_DEADLOCK FALSE
