CONSTANTS
  i1 = i1
  i2 = i2
  k1 = k1
  k2 = k2
  a = a
  b = b
  None = none
  Key = {k1, k2}
  Issue = {i1}
  Owner <- OneOwner
  Content = {a, b}
  Mappable = {a, b}
  Mode = "approval"
  Cap = 0
  Attempts = 2
  Restores = FALSE
  MaxCrashes = 1
SPECIFICATION Spec
INVARIANTS
  TypeOK
  BegunIsOnRecord
PROPERTIES
  SentAsApproved
  UnknownStaysParked
  ParkedOnlyUnrecorded
  HeldAcrossMoves
  ReconcileSettles
  SubmissionSpec
  QueuesSpec
