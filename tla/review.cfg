SPECIFICATION FairSpec
CONSTANTS
  a1 = a1
  a2 = a2
  npm = npm
  git = git
  None = None
  Signals <- OneSignal
  Signatures <- TwoSignatures
  Prior <- FailedOnce
  Agents <- TwoAgents
  PitfallStreakThreshold = 2
  OpenCallsCap = 2
  OpenStreaksCap = 1
  MaxEvents = 5
  Threshold = 2
  Watched <- FirstAndFourth
  Budget = 2
  MaxFaults = 1
INVARIANT PitfallsExact
INVARIANT MarkMeansExtracted
INVARIANT CallsWithinBudget
INVARIANT DisposeLosesNothing
PROPERTY BacklogDrained
CHECK_DEADLOCK FALSE
