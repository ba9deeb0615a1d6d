SPECIFICATION Spec
CONSTANTS
  Orders = {o1, o2}
  Operators = {a1}
  Purchases = {p1}
  Documents = {d1, d2}
  Skews <- OneClock
  MaxClock = 4
  MaxSyncs = 0
SYMMETRY Symmetry
INVARIANTS ConflictsNeedOverlap
CHECK_DEADLOCK FALSE
