SPECIFICATION Spec
CONSTANTS
  Call = {c1, c2, c3, c4}
  Doc = {1, 2}
  MaxAsked = 3
  Setups <- MCSetups
SYMMETRY Symmetry
INVARIANTS MirrorAgrees EventsAreLogged IteratorLosesNothing
PROPERTIES RestoreIsExact
CHECK_DEADLOCK FALSE
