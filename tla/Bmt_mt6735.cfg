SPECIFICATION Spec
CONSTANTS
  system_block_count = 2
  bmt_block_count = 3
  page_per_block = 2
  MARKS_TARGET = FALSE
  FactoryBad = {1}
  MaxFails = 2
  FailsForever = FALSE
  MaxCuts = 0
  MaxWrites = 1
PROPERTY MarkedAfterRedirected
