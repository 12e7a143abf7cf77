SPECIFICATION FairSpec
CONSTANTS
  Dpcs = {d1}
  Callers = {c1}
  TrigMax = 2
PROPERTIES
  UnloadReturns
CHECK_DEADLOCK FALSE
