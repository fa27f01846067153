SPECIFICATION Spec
CONSTANTS
  NULL = NULL
  o1 = o1
  o2 = o2
  b1 = b1
  Objects = {o1, o2}
  Blocks = {b1}
  ArgChoices <- MCArgChoices
  MaxCalls = 2
  MaxVarargs = 2
SYMMETRY MCSymmetry
INVARIANT TypeOK
PROPERTY KeepsContract
CHECK_DEADLOCK FALSE
