SPECIFICATION Spec
CONSTANTS
  None = None
  Blank = Blank
  Malformed = Malformed
  Acme = Acme
  Apex = Apex
  Name = Name
  PO = PO
  EUR = EUR
  XXX = XXX
  Bolt = Bolt
  Nut = Nut
  SupportedCurrencies = {EUR}
  TolerancePercent = 10
  HighValueThreshold = 40
  Responses <- MCResponses
  Candidates <- MCCandidates
  Worlds <- MCWorlds
  MaxRevisions = 2
  MaxChanges = 2
INVARIANTS ReadyIsPromotable PromotedAsRequested HighValueIsElevated
  RefusedOnlyAfterChange
CHECK_DEADLOCK FALSE
