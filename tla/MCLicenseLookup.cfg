SPECIFICATION Spec
CONSTANTS
  w1 = w1
  w2 = w2
  None = None
  Workers <- Workers2
  Documents <- Two
  Redirect <- Redirects
  MajorSuffixes = {"v2"}
  Unknown = "unknown"
  Newest = {"latest"}
  Unexpanded = {"${project.version}"}
  DevVersions = {"dev-main"}
  OwnVersions = {"0.0.0-use.local"}
  Properties = {"${project.groupId}"}
  Repository <- Repositories
  Override <- Verified
  Upstream <- Upstreams
  Default <- Defaults
  Spelling <- Spellings
  Ids <- SPDXIds
  NoInfo <- Empty
  LicenseURLs <- URLs
  Classifiers <- Trove
  MaxReset = 1
  MaxFaults = 2
SYMMETRY Interchangeable
CHECK_DEADLOCK FALSE
INVARIANTS FirstAnswerWins SourcesAreTrue RegistryCachesAreTrue
PROPERTIES KnowledgeStays
