SPECIFICATION Spec
CONSTANTS
  Key = {k1, k2, k3}
  Value = {v1, v2}
  NULL = NULL
  UNDEFINED = UNDEFINED
  HashValue = {0, 3, 7}
  MIN_CAPACITY = 2
  GROW_FACTOR = 2
  MAP_LOAD_PERCENT = 75
SYMMETRY Symmetry
INVARIANTS IInv RoomLeft
PROPERTIES IsDictionary LoopComplete LoopOnce
CHECK_DEADLOCK FALSE
