CONSTANTS
  Timeout <- MCTimeout
  Grace = 1
  Pause = 1
  MaxHealthAge = 30
  Base = 2
  Factor = 2
  Cap = 6
  Attempts = 4
  Stages <- IntakeStages
  SlowStages = {"create"}
  Creates = {"create"}
  MaxFaults = 2
SPECIFICATION FairSpec
INVARIANTS
  AttemptsAreCounted
  ProbeIsCurrent
  ParkedIsSeen
PROPERTIES
  WaitEnds
  Recovers
