SPECIFICATION FairSpec
CONSTANTS
  p1 = p1
  p2 = p2
  None = None
  Pids <- TwoProcesses
  MaxBoots = 3
  MaxWrites = 2
  MaxFaults = 1
  MaxKills = 1
  MaxReuses = 1
INVARIANT TurnsLoseNothing
PROPERTY SilentOnRestart
PROPERTY OverlapNoticed
CHECK_DEADLOCK FALSE
