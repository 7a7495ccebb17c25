SPECIFICATION Spec
CONSTANTS
  w1 = w1
  w2 = w2
  w3 = w3
  t1 = t1
  t2 = t2
  None = None
  Writers <- TwoWriters
  Service = svc
  Contents <- Texts
  Seed = t1
  HistoryCap = 1
  Existing = FALSE
  MaxCalls = 4
  MaxFaults = 1
  MaxCrashes = 1
INVARIANT HistoryFaithful
SYMMETRY WriterSymmetry
CHECK_DEADLOCK FALSE
