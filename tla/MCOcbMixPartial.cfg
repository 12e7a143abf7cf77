SPECIFICATION Spec
CONSTANTS
  Threads = {t1, t2}
  Ops <- TxOps
  RxMax = 1
  TxMax = 2
INVARIANTS
  NoLostWriterWakeup
CHECK_DEADLOCK FALSE
