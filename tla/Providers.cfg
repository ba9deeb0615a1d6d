SPECIFICATION Spec
CONSTANTS
  MaxCalls = 3
  Partners = {p1, p2}
  Prices = {agreed, raised}
  Tolerated = {agreed}
  MaxChanges = 1
SYMMETRY Symmetry
INVARIANTS SoldAsApproved ReplayIsNotBlocked ReceiptsAreBacked ProgressedDealIsReported
CHECK_DEADLOCK FALSE
