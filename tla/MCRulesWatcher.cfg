SPECIFICATION FairWatcher
CONSTANTS
  Documents = {a, b, broken, Emptied, Missing}
  a = a
  b = b
  broken = broken
  Good = {a, b}
  Missing = Missing
  Emptied = Emptied
  Conditional = TRUE
  Remote = TRUE
  Nothing = Nothing
  NotModified = NotModified
  Failure = Failure
  MaxEdits = 4
  MaxFailures = 2
  Permissive <- Allowed
  Copyleft <- Denied
  Spellings <- SPDX
  TempNames <- Temporary
  Everywhere = {"all projects"}
  Exceptions <- ExceptionsOf
  Projects <- ProjectsOf
  Leaves <- Alone
INVARIANTS NotPaperedOver StrictIsTheBestChoice RecheckIsReingest
PROPERTY GoodRulesReach
