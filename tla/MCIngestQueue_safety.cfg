CONSTANTS
  Workers = {w1, w2}
  Jobs = {j1}
  None = None
  Limit = 1
  Unit = 1
  Stale = 1
  MaxHold = 1
  Handover = 2
  Lead = 1
  Skew = 1
  JobTime = 2
  Backoff = 1
  CalmFrom = 9
  Horizon = 4
SPECIFICATION Spec
SYMMETRY Symmetry
INVARIANTS TypeOK ExclusiveUnlessOverruled HeldIsOwned
PROPERTIES FinalUnlessOverruled IsClaimLease
CHECK_DEADLOCK FALSE
