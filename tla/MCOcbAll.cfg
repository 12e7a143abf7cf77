SPECIFICATION Spec
CONSTANTS
  Threads = {t1, t2, t3}
  Ops <- EveryOp
  RxMax = 2
  TxMax = 2
SYMMETRY Symmetry
INVARIANTS
  IInv
  RxJobHasReader
  NoLostReaderWakeup
  ShadowAccounted
  NoLostCloserWakeup
  ClosedIsQuiet
  FreedIsDead
PROPERTIES
  EmptyReadHasReason
  ImplementsContract
CHECK_DEADLOCK FALSE
