SPECIFICATION Spec
CONSTANTS
  Requests = {r1, r2}
  Contents = {c1}
  Budget = 1
  Lease = 2
  MaxRetries = 0
INVARIANTS IdenticalDeliveryRecovers
CHECK_DEADLOCK FALSE
