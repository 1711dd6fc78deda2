SPECIFICATION FairSpec
CONSTANTS
  Conn = {c1}
  Fd = {5, 6, 7}
  FdSetSize = 6
  MaxReads = 1
  MaxInput = 1
  Attached = FALSE
  NoFd = NoFd
PROPERTIES EventsDispatched
CHECK_DEADLOCK FALSE
