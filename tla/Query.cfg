SPECIFICATION Spec
CONSTANTS
  Id = {1, 2, 3}
  MaxWrites = 3
  Setups <- MCSetups
  Filters <- MCFilters
INVARIANTS FindsAreExact FindIsComplete SearchRanksBest
CHECK_DEADLOCK FALSE
