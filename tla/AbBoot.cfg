SPECIFICATION FairSpec
CONSTANTS
  TOP_PRIORITY = 7
  RETRY = 3
  CHECKS_AFTER_INVALID = TRUE
  HEALTHY = {"b"}
  MaxFaults = 2
  MaxCuts = 1
  NULL = NULL
INVARIANTS TypeOK RetryAccounting BootedSlotIsBest RecoveryIsLastResort PreloaderMatchesSlot
PROPERTIES ImplementsSlots FailingSlotIsLeft
