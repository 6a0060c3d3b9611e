SPECIFICATION AllocSpec
CONSTANTS
    Addr = {a1, a2, a3, a4}
    Null = null
    ALIGN = 4
    IsizeMax = 15
    AllocSizes = {0, 1, 12, 13, 31}
    ReallocSizes = {0, 1, 5, 12}
    CorruptSizes = {13, 31}
INVARIANTS
    BooksAgree
    NoInvalidLayout
