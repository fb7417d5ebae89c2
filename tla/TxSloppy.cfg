SPECIFICATION FairSpec
CONSTANTS
  t1 = t1
  t2 = t2
  a = a
  b = b
  x1 = x1
  x2 = x2
  y = y
  o1 = o1
  o2 = o2
  NoTx = NoTx
  Tx = {t1, t2}
  Coll = {a, b}
  Loaded = {b}
  Write = {x1, o1}
  Owner <- MCOwner
  Target <- Disjoint
  Reads <- ReadOwn
  Window = 2
  AwaitsWrites = FALSE
  FreshHandles = FALSE
INVARIANT OutsiderSurvives
PROPERTIES
  EveryTransactionEnds
CHECK_DEADLOCK FALSE
