SPECIFICATION Spec
CONSTANTS
  c1 = c1
  c2 = c2
  c3 = c3
  e1 = e1
  e2 = e2
  e3 = e3
  x1 = x1
  x2 = x2
  Absent = Absent
  Clients <- TwoClients
  Ids <- ThreeIds
  Stored <- OneId
  Project <- OneId
  Weighty <- NoId
  Contents <- OneBody
  Ops <- CapOps
  EntriesCap = 1
  AuditCap = 3
  MaxCalls = 4
  MaxFaults = 0
  MaxCrashes = 0
INVARIANT CapHoldsAtRest
INVARIANT RemovalAuditedOnce
SYMMETRY ClientSymmetry
CHECK_DEADLOCK FALSE
