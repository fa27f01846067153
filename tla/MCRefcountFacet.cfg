\* Two objects, a list and a tuple; any one of them may be an argument.
CONSTANTS
    NULL = NULL
    Atoms = {x, y}
    Lists = {l}
    Tuples = {t}
    ArgChoices <- MCArgChoices
    TupleLen = 1
    MaxOutside = 2
    MaxOps = 5
SPECIFICATION Spec
INVARIANTS TypeOK LowerBound FreedIsKnown NoSurprise VerdictExact
SYMMETRY Symmetry
CHECK_DEADLOCK FALSE
