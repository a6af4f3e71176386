SPECIFICATION Spec
CONSTANTS
  FieldOrder <- FirstLast
  PanId = "mine"
  MaxFails = 0
  MaxLeaves = 0
  MaxCrashes = 0
  MaxBoots = 0
INVARIANT PanIdHonoured
CHECK_DEADLOCK FALSE
