SPECIFICATION Spec
CONSTANTS
  Chunk = 8
  Callback = TRUE
  Line <- MCCommentLine
  MaxLines = 4
  Name <- MCName
  Key <- MCKey
  Val <- MCVal
  MaxEdits = 0
INVARIANTS EveryPairSet
CHECK_DEADLOCK FALSE
