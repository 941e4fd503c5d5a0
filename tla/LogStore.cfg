SPECIFICATION Spec
CONSTANTS
  HALF = 1
  FULL = 2
  TOP = 3
  SCALE = 2
  MaxBoots = 7
  MaxPower = 1
  MaxFaults = 1
INVARIANTS NewestIsKept PreviousIsKept OwedIsDue TopAreSaved
CHECK_DEADLOCK FALSE
