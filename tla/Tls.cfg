SPECIFICATION FairSpec
CONSTANTS
    MaxSent = 4
    MaxPieces = 2
    WireCap = 3
    Timeouts = {0, 1, 2}
    MaxLen = 2
INVARIANTS
    TlsInOrder
    EofMeansAll
PROPERTY
    TimedReadsReturn
CHECK_DEADLOCK FALSE
