SPECIFICATION MblockSpec
CONSTANTS
  VERSION = 2
  PAGE = 2
  ranks <- MCRanks
  CUSTOM_CONFIG_MAX_DRAM_SIZE = 12
  MBLOCK_NUM_MAX = 128
  MBLOCK_RESERVED_NUM_MAX = 3
  Requests <- MCRequests2
  MaxRequests = 4
INVARIANTS Exclusive RecordHolds
PROPERTY HighestPossible
CHECK_DEADLOCK FALSE
