CONSTANTS
    x = x
    y = y
    Vars = {x, y}
    Stmts <- MCStmts
    SMin <- MCSMin
    SMax = 2
    UMax = 3
SPECIFICATION Spec
INVARIANTS TypeOK Sound SplitsRight OutcomesReal
CHECK_DEADLOCK FALSE
