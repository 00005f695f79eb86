SPECIFICATION FairSpec
CONSTANTS
  Workers = {w1}
  Docs = {s1}
  Digests = {1, 2}
  First = 1
  Exempting = {2}
  Scoped = {}
  Delay = 2
  Stale = 1
  RunTime = 0
  MaxChanges = 1
  MaxFaults = 3
  MaxJobs = 10

PROPERTY ChangesReachAll
