SPECIFICATION ReceivingSpec
CONSTANTS
    BlockUnits = 2
    UpCap = 1
    DownCap = 2
    MaxTag = 2
    MaxData = 2
    Stream = 1
    Burst = 1
    Breakable = TRUE
INVARIANTS
    ServerNeverConfused
PROPERTIES
    EventsInStep
    ImplementsConnection
    CallsReturn
    QueriesEnd
