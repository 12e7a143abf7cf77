SPECIFICATION Spec
CONSTANTS
  MaxTx = 3
  MaxRx = 6
  StdLast = 2
  ExtBase = 5
  EvBase = 12
  EvLast = 15
  EvBusload = 15
  CodeBase = 20
  MaxRounds = 2
  MaxNets = 2
  Args <- SomeArgs
  Delays <- SomeDelays
INVARIANTS
  CanTestInv
  FilterAsAsked
  LeavesClean
PROPERTIES
  KidsFindHandle
CHECK_DEADLOCK FALSE
