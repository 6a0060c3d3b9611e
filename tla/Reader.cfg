SPECIFICATION FairSpec
CONSTANTS
    I64Max = 4
    MaxNow = 4
    Timeouts = {0, 2, 9}
    Units = 2
    ReadBuffer = 3
    MaxUnits = 5
INVARIANTS
    DeadlineInForce
    AtMostParkedRead
    BlocksInOrder
    EndAtBoundary
PROPERTY
    ReadEnds
CHECK_DEADLOCK FALSE
