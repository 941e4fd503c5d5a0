SPECIFICATION MblockSpec
CONSTANTS
  VERSION = 2
  PAGE = 2
  ranks <- MCRanks
  CUSTOM_CONFIG_MAX_DRAM_SIZE = 18
  MBLOCK_NUM_MAX = 4
  MBLOCK_RESERVED_NUM_MAX = 4
  Requests <- MCRequests2
  MaxRequests = 4
INVARIANT ListHolds
CHECK_DEADLOCK FALSE
