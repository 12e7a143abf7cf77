SPECIFICATION FairSpec
CONSTANTS
  Threads = {t1}
  Ocbs = {o1}
  NoOcb = NoOcb
  Asked = {"SET_BAUD"}
  IdMax = 0
  WordMax = 1
  RangeArgs = {}
PROPERTIES
  AskedReturns
CHECK_DEADLOCK FALSE
