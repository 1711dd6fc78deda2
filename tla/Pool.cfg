SPECIFICATION FairSpec
CONSTANTS
  Task = {t1, t2, t3}
  Owned = {t1}
  Worker = {w1, w2, w3}
  Waiter = {v1}
  NULL = NULL
  EndWhileWaiting = TRUE
INVARIANTS NoLeak NoStranded IInv
PROPERTIES WaitMeansDone Implements TaskServed EndTerminates WaiterReturns
CHECK_DEADLOCK FALSE
