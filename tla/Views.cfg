SPECIFICATION ViewSpec
CONSTANTS
    UsizeMax = 3
    U64Max = 5
    MaxRows = 2
    MaxWidth = 2
    MaxColumns = 2
INVARIANTS
    ViewWithinSlab
    EveryRowInView
    CheckedIndexInRange
