CONSTANTS
  i1 = i1
  i2 = i2
  k1 = k1
  k2 = k2
  a = a
  b = b
  None = none
  Key = {k1, k2}
  Issue = {i1}
  Owner <- OneOwner
  Content = {a, b}
  Mappable = {a}
  Mode = "todo"
  Cap = 0
  Attempts = 1
  Restores = TRUE
  MaxCrashes = 1
SPECIFICATION Spec
INVARIANTS
  AtMostOneSend
  EntryHasRequest
