SPECIFICATION FairSpec
CONSTANTS
  Dpcs = {d1, d2}
  Callers = {c1, c2}
  TrigMax = 2
INVARIANTS
  DpcInv
  NoLostTrigger
  ReachableExists
PROPERTIES
  ImplementsContract
  TriggerServed
  DestroyReturns
CHECK_DEADLOCK FALSE
