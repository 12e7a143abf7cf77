SPECIFICATION Spec
CONSTANTS
  Ratio = 2
  MaxLvl = 3
  FixedStep = 3
  Delays = {0, 1, 4, 7, 13, 15}
  Horizon = 22
INVARIANTS
  TimerInv
  NotLost
  InTime
PROPERTIES
  NotEarly
CHECK_DEADLOCK FALSE
