SPECIFICATION FairSpec
CONSTANTS
  f1 = f1
  u1 = u1
  u2 = u2
  a = a
  e = e
  None = None
  DirFiles = {f1}
  Objects = {}
  Uploads = {u1, u2}
  Pushed = {u2}
  Hash <- Places
  VEX = {f1}
  BatchSize = 2
  Limit = 1
  MaxFaults = 1
INVARIANTS QueuedAgainForAReason MissingFileIsReported UploadsKeepTheirLabels CleanRunQueuesAll
PROPERTIES FoundIsIngested AnsweredIsIngested
