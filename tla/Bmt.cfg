SPECIFICATION FairSpec
CONSTANTS
  system_block_count = 2
  bmt_block_count = 3
  page_per_block = 3
  MARKS_TARGET = TRUE
  FactoryBad = {1}
  MaxFails = 1
  FailsForever = TRUE
  MaxCuts = 1
  MaxWrites = 2
INVARIANTS Durable RedirectedIsMarked Disjoint
PROPERTIES MarkedAfterRedirected UpdateEnds
