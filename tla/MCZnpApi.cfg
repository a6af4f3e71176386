SPECIFICATION Spec
CONSTANTS
  bind = bind
  again = again
  Calls <- MCCalls
  Op <- MCOp
  Oversized <- MCOversized
  MaxCalls = 3
  MaxDrops = 1
  InOrder = TRUE
SYMMETRY MCSymmetry
INVARIANT TypeOK
INVARIANT OwnConfirm
INVARIANT ConfirmFindsWaiter
INVARIANT CheckedReply
PROPERTY ImplementsRpc
CHECK_DEADLOCK FALSE
