SPECIFICATION Spec
CONSTANTS
    UsizeMax = 7
    IsizeMax = 3
    ByteBase = 2
    Sizes = {0, 1, 2, 7}
    Lens = {0, 2, 3}
    Offsets <- MCOffsets
    KeySlabs <- MCKeySlabs
    MaxNodes = 3
    MaxCols = 2
INVARIANTS
    WriterStaysInBounds
    RowsFitSlice
    RawBlockCurrent
CHECK_DEADLOCK FALSE
