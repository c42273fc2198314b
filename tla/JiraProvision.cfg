CONSTANTS
  Fields <- MCFields
  Beforehand <- MCBeforehand
  MaxFaults = 1
  MaxByHand = 1
SPECIFICATION FairSpec
INVARIANTS
  UsableThroughout
PROPERTIES
  ReadyMeansPrepared
  
  Converges
