CONSTANTS
  Workers = {w1, w2}
  Jobs = {j1}
  None = None
  Limit = 1
  Unit = 1
  Stale = 1
  MaxHold = 1
  Handover = 4
  Lead = 3
  Skew = 0
  JobTime = 1
  Backoff = 1
  CalmFrom = 2
  Horizon = 6
SPECIFICATION FairSpec
INVARIANT SweepSparesTheLiving
PROPERTY EveryJobFinishes
CHECK_DEADLOCK FALSE
