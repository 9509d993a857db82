SPECIFICATION FairSpec
CONSTANTS
    MaxEntries = 3
    Size <- MCSize
    MaxSegmentBytes = 2
    HardReplayLineCap = 2
    ScanBuffer = 1
    Modes <- SoundMode
    MaxSegment = 3
    MaxRestarts = 1
    MaxRejects = 1
PROPERTY
    BacklogReplayedWithoutRestart
CHECK_DEADLOCK FALSE
