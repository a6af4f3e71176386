SPECIFICATION Spec
CONSTANTS
  Items <- ReportItems
  Qos <- ReportQos
  MaxPublished = 2
  PacketIds = {1, 2}
  Topics = {}
  MaxEnds = 1
INVARIANT FutureMeansReceived
CHECK_DEADLOCK FALSE
