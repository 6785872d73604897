SPECIFICATION FairSpec
CONSTANTS
  NumMsgs = 2
  HasData = {}
  SndBuf = 2
  BaseDelay = 1
  MaxDelay = 2
  Preempt = FALSE
  Lossy = {FALSE}
  MaxConnectSeq = 6
  May = {"fault", "restart", "inmsg"}
  MaxEvents = 2
PROPERTIES
  EventuallyDelivered
CHECK_DEADLOCK FALSE
