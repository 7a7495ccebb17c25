SPECIFICATION Spec
CONSTANTS
  b1 = b1
  p1 = p1
  fact1 = fact1
  fact2 = fact2
  old1 = old1
  old2 = old2
  human = human
  None = None
  Batches <- OneBatch
  Parsed <- TwoFacts
  Passes <- OnePass
  Stored <- TwoEntries
  HumanFacts <- OneEdit
  MergeLimit = 3
  TopN = 2
  MaxEvents = 1
INVARIANT EveryFactWritten
INVARIANT NothingVanishes
INVARIANT SuccessorStored
CHECK_DEADLOCK FALSE
