SPECIFICATION Spec
CONSTANTS
  CoreVariables <- Core
  LocalNames <- Lower
  StaticNames <- Under
  MAX_LOCALS = 12
  MAX_FIELDS = 3
  MAX_CONSTANTS = 24
  Programs <- MCRebound
  Chosen <- One
  MaxFlips = 4
INVARIANTS FieldsInBounds
