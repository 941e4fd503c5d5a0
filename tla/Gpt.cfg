SPECIFICATION Spec
CONSTANTS
  TABLES <- MCTables
  BUILDS = {"ab", "bits"}
  MaxFails = 3
  NONE = NONE
INVARIANTS AnswersAreVouchedFor HalvesAgree ReadableBoots
PROPERTY WritesAreSafe
CHECK_DEADLOCK FALSE
