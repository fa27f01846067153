\* Every function of the five shapes, with a small and an ample budget.
CONSTANTS
    Nodes <- MCNodes
    Blocks <- MCBlocks
    PtrVars = {"p", "q", "a"}
    IntVars = {"n"}
    Parms = {"a"}
    Programs <- MCPrograms
    MaxTransOptions = {6, 40}
SPECIFICATION Spec
INVARIANTS TypeOK Complete Feasible DefiniteIsInevitable
           StopsCleanly
PROPERTIES NothingLost Terminates
CHECK_DEADLOCK FALSE
