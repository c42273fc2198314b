CONSTANTS
  MaxVersion = 3
  MaxFaults = 3
  MaxKills = 2
SPECIFICATION Spec
INVARIANTS
  NothingLost
  RunsWithItsConfig
  CanTryAgain
PROPERTIES
  EndsInService
