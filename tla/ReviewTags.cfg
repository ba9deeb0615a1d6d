SPECIFICATION Spec
CONSTANTS
  Orders = {o1}
  Operators = {a1, a2}
  Purchases = {p1}
  Documents = {d1}
  Skews <- Clocks
  MaxClock = 4
  MaxSyncs = 3
SYMMETRY Symmetry
INVARIANTS ValidETagIsOfThisGeneration
PROPERTIES CommandsActOnWhatWasRead ApprovedAsShown ChangesFollowTheirBase
CHECK_DEADLOCK FALSE
