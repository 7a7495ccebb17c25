SPECIFICATION Spec
CONSTANTS
  c1 = c1
  c2 = c2
  c3 = c3
  e1 = e1
  e2 = e2
  e3 = e3
  x1 = x1
  x2 = x2
  Absent = Absent
  Clients <- TwoClients
  Ids <- TwoIds
  Stored <- OneId
  Project <- OneId
  Weighty <- NoId
  Contents <- OneBody
  Ops <- StatusOps
  EntriesCap = 3
  AuditCap = 1
  MaxCalls = 3
  MaxFaults = 1
  MaxCrashes = 1
INVARIANT AuditInAppendOrder
PROPERTY GoneForGood
PROPERTY EarlierSignalHonored
PROPERTY AuditKeepsNewest
SYMMETRY ClientSymmetry
CHECK_DEADLOCK FALSE
