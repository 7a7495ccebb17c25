SPECIFICATION FairSpec
CONSTANTS
  c1 = c1
  c2 = c2
  c3 = c3
  e1 = e1
  e2 = e2
  e3 = e3
  x1 = x1
  x2 = x2
  Absent = Absent
  Clients <- TwoClients
  Ids <- OneId
  Stored <- OneId
  Project <- NoId
  Weighty <- OneId
  Contents <- TwoBodies
  Ops <- SignalOps
  EntriesCap = 3
  AuditCap = 1
  MaxCalls = 4
  MaxFaults = 1
  MaxCrashes = 0
INVARIANT ContentIsLastEdit
INVARIANT HitsAccountedFor
PROPERTY CallsReturn
CHECK_DEADLOCK FALSE
