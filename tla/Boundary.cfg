SPECIFICATION Spec
CONSTANTS
    Text = {"a", "b"}
    Nul = "nul"
    MaxSettings = 2
    MaxParams = 1
    Flagged = TRUE
    MaxPackets = 2
    Cap = 3
    Bytes = {1, 2, 3}
    Lead = 2
    Trail = 3
    MaxText = 4
    MaxWrites = 2
    Tags = {"chc_kind", "chc_interval_unit", "chc_col_kind", "chc_packet_kind", "errors"}
    Names <- MCNames
    Arms <- MCArms
    ClientOnly = {"ZERO"}
    Sentinels = {"COUNT"}
    Inits <- MCInits
    MaxEntries = 3
INVARIANTS
    SeenAsAsked
    HelloAsAsked
    CalledAreInstalled
    MessageIsThisCalls
    LongTextIsWhole
    LiteralValuesMatchC
    NeverAnotherVariant
    PassedMeansCovered
