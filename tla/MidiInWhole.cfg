CONSTANTS
  QCap = 3
  NSysBuf = 1
  NBuf = 1
  MaxMsgs = 3
  None = None
SPECIFICATION Spec
CHECK_DEADLOCK FALSE
INVARIANT QueueHoldsWhole
