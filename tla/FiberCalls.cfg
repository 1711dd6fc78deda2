SPECIFICATION Spec
CONSTANTS
  Fiber = {f1, f2, f3, f4}
  NULL = NULL
SYMMETRY Symmetry
INVARIANTS ApiReady OnlyTransferStrays IInv
PROPERTIES AbortedIsOver CallsNest
CHECK_DEADLOCK FALSE
