SPECIFICATION Spec
CONSTANTS
  t = t
  u = u
  o = o
  Dicts = {t, u}
  Objects = {o}
  Keys <- MCKeys
  Values = {1, 2}
  HashOf <- MCHashOf
  EqualTo <- MCEqualTo
  SizeMod = 64
  Uses <- MCUses
  Features = {}
INVARIANTS
  Placed
  LengthCounts
  IterationComplete
PROPERTIES
  ImplementsDictionaries
