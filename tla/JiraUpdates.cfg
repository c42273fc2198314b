CONSTANTS
  MaxEvents <- TwoComments
  MaxRetries = 1
  Tears = TRUE
  MaxCrashes = 1
SPECIFICATION FairSpec
INVARIANTS
  BaselineNotReplayed
  NothingSkipped
PROPERTIES
  SentOnlyIfAbsent
  DeliverySpec
  EventsArrive
CHECK_DEADLOCK FALSE
