SPECIFICATION Spec
CONSTANTS
  Threads = {t1, t2}
  Ocbs = {o1, o2}
  NoOcb = NoOcb
  Asked = {"SET_BAUD", "GET_INFO"}
  IdMax = 1
  WordMax = 2
  RangeArgs <- SomeRanges
SYMMETRY Symmetry
INVARIANTS
  FileInv
  CallsFindLiveOcb
  WrongCardUntouched
  RangeAddAllOrNothing
PROPERTIES
  LostOnlyToRival
CHECK_DEADLOCK FALSE
