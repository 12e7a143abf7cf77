SPECIFICATION UnmixedSpec
CONSTANTS
  Threads = {t1, t2, t3}
  Ops <- EveryOp
  RxMax = 2
  TxMax = 2
SYMMETRY Symmetry
INVARIANTS
  UnmixedInv
  TxJobHasOwner
  NoLostWriterWakeup
PROPERTIES
  WriteEndsWithItsJob
  EmptyWriteHasReason
