SPECIFICATION Spec
CONSTANTS
  Obj <- MCObj
  Null = Null
  Dead = Dead
  Boot <- MCBoot
  Calls <- MCUnsafe
  MaxCalls = 1
  MaxCollections = 1
INVARIANT NoDangling
CHECK_DEADLOCK FALSE
