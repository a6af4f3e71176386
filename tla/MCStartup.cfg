SPECIFICATION FairSpec
CONSTANTS
  FieldOrder <- LastFirst
  PanId = "mine"
  MaxFails = 1
  MaxLeaves = 1
  MaxCrashes = 2
  MaxBoots = 1
INVARIANT TypeOK
INVARIANT ReadyMeansUp
INVARIANT RegisterIsFresh
INVARIANT StartsConfigured
PROPERTY StartEnds
CHECK_DEADLOCK FALSE
