SPECIFICATION Spec
CONSTANTS
  NumMsgs = 2
  HasData = {}
  SndBuf = 2
  BaseDelay = 1
  MaxDelay = 2
  Preempt = TRUE
  Lossy = {FALSE}
  MaxConnectSeq = 6
  May <- SessionEvents
  MaxEvents = 2
INVARIANTS
  SocketMatchesState
  ReceivedInOrder
  ConnectSeqsAgree
PROPERTIES
  ImplementsChannel
  
CHECK_DEADLOCK FALSE
