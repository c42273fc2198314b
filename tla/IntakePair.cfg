CONSTANTS
  i1 = i1
  i2 = i2
  k1 = k1
  k2 = k2
  a = a
  b = b
  None = none
  Key = {k1, k2}
  Issue = {i1, i2}
  Owner <- TwoOwners
  Content = {a}
  Mappable = {a}
  Mode = "plain"
  Cap = 1
  Attempts = 1
  Restores = FALSE
  MaxCrashes = 1
SPECIFICATION AnsweredSpec
PROPERTIES
  BegunIsSettled
  EveryoneIsServed
