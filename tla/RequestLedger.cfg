SPECIFICATION FairSpec
CONSTANTS
  MaxAttempts = 4
  Fallbacks = 2
  MaxFaults = 1
  Fallible <- AllFaults
  Subscription = TRUE
  CallerMayLeave = TRUE
  MayCrash = TRUE
INVARIANTS
  RequestTruthful
  OrphansExplained
  SuccessEndsOnSuccess
PROPERTIES
  RowsAreFinal
  RequestSettles
CHECK_DEADLOCK FALSE
