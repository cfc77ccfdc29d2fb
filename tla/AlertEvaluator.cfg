\* Two rules, every call may fail, one crash.
SPECIFICATION FairSpec
CONSTANTS
  backup = backup
  queue = queue
  site = site
  NumRules = 2
  Names <- MCNames
  NameOf <- MCNameOf
  Series <- MCSeries
  Repeat = 1
  MaxGap = 1
  MaxCrashes = 1
INVARIANTS
  CooldownRespected
  RowsMatchAnswer
PROPERTIES
  PagesAsPromised
  PersistentAlertIsTold
  AbsentAlertIsCleared
CHECK_DEADLOCK FALSE
