SPECIFICATION Spec
CONSTANTS
  t1 = t1
  t2 = t2
  a = a
  b = b
  x1 = x1
  x2 = x2
  y = y
  o1 = o1
  o2 = o2
  NoTx = NoTx
  Tx = {t1, t2}
  Coll = {a, b}
  Loaded = {a}
  Write = {x1, x2, y, o1}
  Owner <- MCOwner
  Target <- Contended
  Reads <- ReadAll
  Window = 2
  AwaitsWrites = TRUE
  FreshHandles = TRUE
INVARIANTS
  RolledBackLeavesNoTrace
  CommitIsComplete
  EffectsFollowCommit
CHECK_DEADLOCK FALSE
