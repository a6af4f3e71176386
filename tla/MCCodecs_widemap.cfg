SPECIFICATION Spec
CONSTANTS
  ByteBits = 3
  LongBytes = 8
  IntBytes = 4
  AttributeName = "OnOff"
  AttributeId = 0
  FF01Id = 57
  DataTypes <- MCDataTypes
  Failed = Failed
  NotYet = NotYet
  Cases <- WideMapCases
INVARIANT RoundTrip
CHECK_DEADLOCK FALSE
