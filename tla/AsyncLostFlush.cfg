SPECIFICATION Spec
CONSTANTS
    Units = 2
    ReadBuf = 2
    UpCap = 2
    DownCap = 4
    MaxFaults = 1
    FaultKinds = {"drop"}
    Disciplined = TRUE
    MaxSelect = 1
    MaxInsert = 0
    MaxData = 0
    MaxDataEnd = 0
    MaxCalls <- MCMaxCalls
INVARIANT FlushedBeforeEveryRead
CHECK_DEADLOCK FALSE
