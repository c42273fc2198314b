CONSTANTS
  None = none
  IdOnly = idonly
  Status <- MCStatus
  Observation <- MCObservation
  Place <- MCPlace
  Offered <- MCOffered
  Transitions <- MCTransitions
  Rules <- MCRules
  StatusMap <- MCStatusMap
  Submitted = "Submitted"
  Attempts = 2
  MaxByHand = 1
  MaxCrashes = 1
SPECIFICATION FairSpec
INVARIANTS
  CommentedOnce
PROPERTIES
  OutboxSpec
  CardFollows
  FieldsFollow
