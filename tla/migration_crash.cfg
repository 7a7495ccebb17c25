SPECIFICATION Spec
CONSTANTS
  k1 = k1
  k2 = k2
  Keys <- TwoKeys
  MaxVersion = 2
  MaxBoots = 4
  MaxCrashes = 3
INVARIANT NothingLost
INVARIANT CleanMigrationSticks
PROPERTY BookCarried
SYMMETRY KeySymmetry
CHECK_DEADLOCK FALSE
