CONSTANTS
  NLines = 5
  LineCap = 2
  ErrCap = 2
SPECIFICATION FairSpec
INVARIANTS TypeOK LinesInOrder LossReported
PROPERTIES NoSendAfterClose StopReturns ImplementsChannel
CHECK_DEADLOCK FALSE
