SPECIFICATION FairSpec
CONSTANTS
    Units = 2
    ReadBuf = 2
    UpCap = 1
    DownCap = 4
    MaxFaults = 1
    FaultKinds = {"close"}
    Disciplined = TRUE
    MaxSelect = 2
    MaxInsert = 1
    MaxData = 2
    MaxDataEnd = 1
    MaxCalls <- MCMaxCalls
PROPERTIES
    MethodReturns
    QueryAnswered
CHECK_DEADLOCK FALSE
