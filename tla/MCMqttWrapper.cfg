SPECIFICATION FairSpec
CONSTANTS
  Items <- MixedItems
  Qos <- MixedQos
  MaxPublished = 2
  PacketIds = {1, 2}
  Topics = {"t1"}
  MaxEnds = 2
INVARIANT TypeOK
INVARIANT HandoverOrder
INVARIANT AckedMeansReceived
INVARIANT ConnectedDrainsQueue
INVARIANT Resubscribed
INVARIANT NeverStranded
INVARIANT OneSession
PROPERTY EveryMessageHandedOver
PROPERTY Reconnects
CHECK_DEADLOCK FALSE
