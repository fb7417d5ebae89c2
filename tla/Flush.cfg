SPECIFICATION MCSpec
CONSTANTS
  a = a
  b = b
  Meta = Meta
  Coll = {a, b}
  Setups <- MCSetups
  MaxWrites = 3
  MaxCrashes = 2
  r1 = r1
  r2 = r2
  r3 = r3
  f1 = f1
  f2 = f2
  Request = {r1, r2, r3}
  File = {f1, f2}
  Adapters <- MCAdapters
SYMMETRY Symmetry
INVARIANTS CommitIsDurable CleanMeansStored AllOrNothing
PROPERTIES AlarmIsReal KeepsStorage
