SPECIFICATION Spec
CONSTANTS
  BLKSZ = 4
  BLOCKS = 3
  MaxCalls = 2
INVARIANT InOrder
PROPERTY ImplementsStore
CHECK_DEADLOCK FALSE
