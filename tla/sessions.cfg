SPECIFICATION PromptSpec
CONSTANTS
  w1 = w1
  t1 = t1
  t2 = t2
  s1 = s1
  conv = conv
  other = other
  None = None
  Writers <- OneWriter
  Service = svc
  Contents <- Texts
  Seed = t1
  HistoryCap = 1
  Existing = FALSE
  MaxCalls = 1
  MaxFaults = 1
  MaxCrashes = 1
  Sessions <- OneSession
  Ids <- Entries
  Shape <- Shapes
  Here = "here"
  Stored <- Entries
  Blocked <- Nothing
  MaxEntries = 1
  RecallLimit = 1
  Start <- Starts
  MaxEvents = 3
INVARIANT NoDoubleInjection
INVARIANT NothingFallsBetween
INVARIANT HitsPerRound
INVARIANT IdentityAlwaysServed
PROPERTY PrefixStable
CHECK_DEADLOCK FALSE
