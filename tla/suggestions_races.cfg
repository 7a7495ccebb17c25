SPECIFICATION Spec
CONSTANTS
  p1 = p1
  p2 = p2
  r1 = r1
  s1 = s1
  s2 = s2
  s3 = s3
  soul = soul
  topic = topic
  entry = entry
  None = None
  Proposers <- TwoProposers
  Reviewers <- OneReviewer
  Ids <- ThreeRows
  Subjects <- OneSubject
  Documents <- OneDocument
  Targets <- OneTarget
  Cap = 1
  MaxCalls = 6
  MaxFaults = 1
  MaxCrashes = 1
INVARIANT YesNeverLost
INVARIANT YesWrittenOnce
INVARIANT CapSettles
INVARIANT FrequencyIsSignal
INVARIANT TwinsBounded
SYMMETRY RowSymmetry
CHECK_DEADLOCK FALSE
