SPECIFICATION Spec
CONSTANTS
  Callers = {c1, c2}
  Names = {x, y}
  Docs = {d1}
  Mortal = {d1}
  MaxSize = 2
  MaxCalls = 4
  MaxRenames = 1
  StoreIds = {1, 2, 3, 4, 5}
  HandleIds = {1, 2, 3, 4}
  NoFile = NoFile
  NoCall = NoCall
  Setups <- Careless
INVARIANTS AckedIsStored
SYMMETRY SameCallers
CHECK_DEADLOCK FALSE
