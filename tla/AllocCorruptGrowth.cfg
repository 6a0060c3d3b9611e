SPECIFICATION AllocSpec
CONSTANTS
    Addr = {a1, a2}
    Null = null
    ALIGN = 4
    IsizeMax = 15
    AllocSizes = {0, 12}
    ReallocSizes = {0, 12, 13, 31}
    CorruptSizes = {31}
INVARIANT NoInvalidLayout
