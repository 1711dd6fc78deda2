SPECIFICATION Spec
CONSTANTS
  Fiber = {f1, f2, f3}
  NULL = NULL
INVARIANTS ReturnsToCaller
CHECK_DEADLOCK FALSE
