SPECIFICATION MblockSpec
CONSTANTS
  VERSION = 1
  PAGE = 2
  ranks <- MCRanks
  CUSTOM_CONFIG_MAX_DRAM_SIZE = 18
  MBLOCK_NUM_MAX = 4
  MBLOCK_RESERVED_NUM_MAX = 128
  Requests <- MCRequests
  MaxRequests = 4
INVARIANTS Conserved ListHolds
PROPERTY HighestPossible
CHECK_DEADLOCK FALSE
