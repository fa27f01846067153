CONSTANTS
    Closures = {c, d}
    Listened = {"PASS_EXECUTION", "GGC_START", "FINISH"}
    Locs = {start, other}
    Start = start
    MaxDepth = 4
    MayFail = TRUE
    OnFinish = OnFinish
    BAD_EVENT = BAD_EVENT
SPECIFICATION Spec
INVARIANTS TypeOK Restored FinishesInOrder
PROPERTY Ends
