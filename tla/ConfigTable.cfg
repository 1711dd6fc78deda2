SPECIFICATION Spec
CONSTANTS
  Chunk = 8
  Callback = FALSE
  Line <- MCAnyLine
  MaxLines = 3
  Name <- MCName
  Key <- MCKey
  Val <- MCVal
  MaxEdits = 2
INVARIANTS IInv MeaningKept RoundTrip OverflowExplained
PROPERTIES EntriesIndependent
CHECK_DEADLOCK FALSE
