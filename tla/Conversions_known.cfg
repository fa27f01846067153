\* WithinRange's claim that its value is known to be within its range.
CONSTANTS
    x = x
    y = y
    Vars = {x, y}
    Stmts <- MCStmts
    SMin <- ThreeBitsMin
    SMax = 3
    UMax = 7
SPECIFICATION ConvertingSpec
INVARIANT ValuesKnown
CHECK_DEADLOCK FALSE
