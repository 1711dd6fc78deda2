SPECIFICATION FairSpec
CONSTANTS
  Conn = {c1, c2}
  Fd = {5, 6}
  FdSetSize = 6
  MaxReads = 2
  MaxInput = 2
  Attached = TRUE
  NoFd = NoFd
INVARIANTS IInv OnlyKnownFaults BufferAccount TableCurrent DescriptorsHeld
PROPERTIES InputTaken Handled Closed
CHECK_DEADLOCK FALSE
