SPECIFICATION MemorySpec
CONSTANTS
  Size = 2
  MaxInt = 2
  Wrap = 16
  MaxSteps = 4
INVARIANTS ReadsRight PoisonReal
CHECK_DEADLOCK FALSE
