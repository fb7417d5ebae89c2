SPECIFICATION Spec
CONSTANTS
  Call = {c1, c2, c3}
  Id = {1, 2, 3, 4, 5}
  MaxKey = 4
  Setups <- MCSetups
SYMMETRY Symmetry
INVARIANTS Distinct IndexesAgree UpdatesKept FailedLeavesNothing
CHECK_DEADLOCK FALSE
