SPECIFICATION Spec
CONSTANTS
  Obj <- MCObj
  Null = Null
  Dead = Dead
  Boot <- MCBoot
  Calls <- MCCalls
  MaxCalls = 1
  MaxCollections = 2
INVARIANTS NothingLost NoGarbageLeft NoDangling RootsReturned
CHECK_DEADLOCK FALSE
