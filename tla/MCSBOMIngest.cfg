SPECIFICATION FairSpec
CONSTANTS
  j1 = j1
  j2 = j2
  f1 = f1
  f2 = f2
  l1 = l1
  l2 = l2
  None = None
  Workers = {w1, w2}
  Jobs = {j1, j2}
  Source <- TwoFiles
  Licenses = {l1, l2}
  Findings <- OneOrBoth
  MaxDeferrals = 1
  MaxFaults = 2
INVARIANTS CommittedIsComplete NoOrphans OneOwner
PROPERTY BecomesVisible
CHECK_DEADLOCK FALSE
