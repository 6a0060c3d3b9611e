SPECIFICATION OwnSpec
CONSTANTS
    Obj = {o1, o2, o3}
    NoObj = noobj
INVARIANTS
    SingleOwner
    NoBadFree
    PartsOutliveConnection
CHECK_DEADLOCK FALSE
