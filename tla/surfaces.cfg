SPECIFICATION FairSpec
CONSTANTS
  MaxIds = 3
  Imported <- Two
  Project <- One
  Blocked <- One
  About <- Two
  EntriesCap = 2
  AuditCap = 2
  SuggestionCap = 1
  MaxRows = 2
  MaxEvents = 12
  CallCost = 4
  ClickCost = 5
  MaxFaults = 1
  MaxSearch = 2
  PageSize = 1
  Absent = Absent
PROPERTY BookKept
PROPERTY PinMeansNeverForget
INVARIANT QuietPageIsTrue
PROPERTY LoadingMoreEnds
CHECK_DEADLOCK FALSE
