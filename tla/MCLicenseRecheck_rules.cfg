SPECIFICATION OnwardSpec
CONSTANTS
  Workers = {w1, w2}
  Docs = {s1}
  Digests = {1, 2}
  First = 1
  Exempting = {2}
  Scoped = {}
  Delay = 2
  Stale = 1
  RunTime = 0
  MaxChanges = 1
  MaxFaults = 1
  MaxJobs = 9
SYMMETRY Symmetry
INVARIANTS DoneMeansCurrent
