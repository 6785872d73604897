SPECIFICATION Spec
CONSTANTS
  Mons = {1, 2, 3}
  InitMons = {1, 2}
  Silent = {2}
  Reqs = {1, 2}
  Scenarios <- MCScenarios
INVARIANTS
  EstablishedIsReal
PROPERTIES
  HuntEnds
  RequestsEnd
  WantedMapArrives
CHECK_DEADLOCK FALSE
