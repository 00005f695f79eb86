SPECIFICATION Spec
CONSTANTS
  s1 = s1
  s2 = s2
  a = a
  b = b
  v1 = v1
  v2 = v2
  SBOMs = {s1, s2}
  PURLs = {a, b}
  Packages <- Shared
  Vulns = {v1, v2}
  Affects <- AffectsOf
  SkipOSV = FALSE
  MaxRuns = 2
  MaxFaults = 2
INVARIANTS CatchesUpUnlessKnown NewReachAll
CHECK_DEADLOCK FALSE
