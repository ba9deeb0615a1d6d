SPECIFICATION Spec
CONSTANTS
  Orders = {o1, o2}
  Operators = {a1}
  Purchases = {p1}
  Documents = {d1, d2}
  Skews <- OneClock
  MaxClock = 2
  MaxSyncs = 0
SYMMETRY Symmetry
PROPERTIES PromotedOnCurrentFacts
CHECK_DEADLOCK FALSE
