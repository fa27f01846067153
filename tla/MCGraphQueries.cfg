SPECIFICATION Spec
CONSTANTS
    NoStmt = NoStmt
    Stmts <- MCStmts
    Programs <- MCPrograms
    MaxDepth = 4
INVARIANTS ShortestFound CallersFirst RemovedExactly
PROPERTIES RunFollowed TasksEnd
CHECK_DEADLOCK FALSE
