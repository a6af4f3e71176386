SPECIFICATION FairSpec
CONSTANTS
  bind = bind
  again = again
  Calls <- LiveCalls
  Op <- LiveOp
  Oversized = {}
  MaxCalls = 3
  MaxDrops = 1
  InOrder = FALSE
INVARIANT OwnReply
INVARIANT StillListening
INVARIANT TimeoutIsSilent
PROPERTY ResultIsFinal
PROPERTY EveryCallResolves
PROPERTY TimedWaitEnds
CHECK_DEADLOCK FALSE
