SPECIFICATION Spec
CONSTANTS
  NumMsgs = 2
  HasData = {1}
  SndBuf = 2
  BaseDelay = 1
  MaxDelay = 2
  Preempt = FALSE
  Lossy = {FALSE, TRUE}
  MaxConnectSeq = 6
  May <- CallEvents
  MaxEvents = 2
INVARIANTS
  DeliveredInOrder
  ClosedStaysClosed
CHECK_DEADLOCK FALSE
