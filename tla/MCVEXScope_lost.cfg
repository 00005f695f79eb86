SPECIFICATION Spec
CONSTANTS
  w1 = w1
  w2 = w2
  s1 = s1
  s2 = s2
  v1 = v1
  v2 = v2
  p1 = p1
  p2 = p2
  wide = wide
  part = part
  also = also
  d = d
  e1 = e1
  e2 = e2
  e3 = e3
  e4 = e4
  e5 = e5
  None = None
  Workers = {w1, w2}
  SBOMs = {s1, s2}
  VEXJobs = {v1, v2}
  Statements = {wide, part, also}
  Refs = {p1, p2}
  Doc <- DocOf
  Target <- NoTarget
  Product <- ProductOf
  VexID <- IDsOf
  Wide = {wide}
  Describes <- Products
  Unsafe = {}
  MaxFaults = 0
  Earlier = {e1, e2, e3, e4, e5}
  Content <- ContentOf
  Says <- SaysOf
  MappingFile <- NoMapping
  Rank <- RankOf
  Lower <- LowerOf
  Hosts = {"github.com", "ghcr.io"}
  Majors = {"v1", "v2"}
  Blanket = {"AGPL-3.0-only"}
  Covered <- CoveredOf
  Archived = {"gh/a", "gh/c"}
  RepoOf <- ReposOf
  Matches = {s1, e3, e4}
  BatchSize = 2

SYMMETRY Symmetry
INVARIANT NeverLost
CHECK_DEADLOCK FALSE
