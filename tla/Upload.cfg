SPECIFICATION Spec
CONSTANTS
    g1 = g1
    g2 = g2
    m1 = m1
    m2 = m2
    m3 = m3
    None = None
    Goroutines = {g1, g2}
    Messages = {m1, m2, m3}
    Requests <- MCRequests
    Nonces = {"n1", "n2"}
    Versions = {1, 2, 3, 4, 5, 6}
    AuthOf <- MCAuthOf
    MaxBodyBytes <- MCMaxBodyBytes
    MaxClock <- MCMaxClock
    Sent <- MCSent
    Second = 2
    HalfWord = 8
    Edits <- MCEdits
    Fields <- MCFields
    Values <- MCValues
    Texts = {"text", "mask"}
    Unencodable = {"odd"}
    Undecodable = {"huge"}
    Absent = "absent"
    Reencode <- MCReencode
    Projects = {"a", "b"}
    ProjectOf <- MCProjectOf
    NPools = 2
    Closing = {5}
SYMMETRY MCSymmetry
INVARIANTS
    TypeOK
    MessageInOnePlace
PROPERTIES
    SinkGetsExpected
    
    NonceSpacing
    CacheBounded
    RetryRecognised
CHECK_DEADLOCK FALSE
