SPECIFICATION Spec
CONSTANTS
    Units = 2
    ReadBuf = 2
    UpCap = 8
    DownCap = 8
    MaxFaults = 2
    FaultKinds = {"drop", "io", "zero", "oom", "close"}
    Disciplined = FALSE
    MaxSelect = 1
    MaxInsert = 1
    MaxData = 1
    MaxDataEnd = 1
    MaxCalls <- MCMaxCalls
INVARIANTS
    TypeOK
    OutboundIntegrity
    InboundIntegrity
    NoEventLost
    FlushBeforeRead
PROPERTY
    ImplementsConnection
CHECK_DEADLOCK FALSE
