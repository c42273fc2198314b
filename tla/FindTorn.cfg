CONSTANTS
  MaxEvents <- OneEach
  MaxRetries = 1
  Tears = TRUE
  MaxCrashes = 1
SPECIFICATION FairSpec
PROPERTIES
  WritesAreReconciled
CHECK_DEADLOCK FALSE
