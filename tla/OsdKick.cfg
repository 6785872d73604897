SPECIFICATION Spec
CONSTANTS
  Osds = {1, 2}
  Addrs = {1, 2, 3}
  Pools = {1, 2}
  Reqs = {1, 2}
  BasePool <- MCBasePool
  NumSess = 3
  MaxInc = 4
  Scenarios <- MCScenarios
INVARIANTS
  AssertionsHold
  NothingForgotten
  CallbackOnce
  WriteOrder
  NothingLeftBehind
CHECK_DEADLOCK FALSE
