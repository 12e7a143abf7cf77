SPECIFICATION Spec
CONSTANTS
  Devs = {p1, p2, p3}
  Files = {f1, f2}
  MaxCards = 2
  NodesPerCard = 2
  Hotplug = FALSE
INVARIANTS
  CardInv
  MinorsTrue
  OnlyForgottenLeaks
  OsifOutlivesCards
CHECK_DEADLOCK FALSE
