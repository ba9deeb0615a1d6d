SPECIFICATION Spec
CONSTANTS
  Requests = {r1, r2, r3}
  Contents = {c1, c2}
  Budget = 1
  Lease = 2
  MaxRetries = 2
SYMMETRY Symmetry
INVARIANTS RedeliveryIsServed OneExecution ForeignContentIsNeverWorkedOn
  LiveOwnerIsNeverRefused RetryGrantsOneExecution
PROPERTIES TakeoverOnlyAfterExpiry
CHECK_DEADLOCK FALSE
