SPECIFICATION Spec
CONSTANTS
  w1 = w1
  w2 = w2
  w3 = w3
  t1 = t1
  t2 = t2
  None = None
  Writers <- ThreeWriters
  Service = svc
  Contents <- Texts
  Seed = t1
  HistoryCap = 2
  Existing = TRUE
  MaxCalls = 6
  MaxFaults = 1
  MaxCrashes = 1
PROPERTY VersionsAdvance
PROPERTY PromiseKept
SYMMETRY WriterSymmetry
CHECK_DEADLOCK FALSE
