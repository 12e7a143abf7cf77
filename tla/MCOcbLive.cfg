SPECIFICATION FairUnmixedSpec
CONSTANTS
  Threads = {t1, t2, t3}
  Ops <- JobOps
  RxMax = 1
  TxMax = 1
PROPERTIES
  CloseCompletes
  ReadReturns
  WriteReturns
