SPECIFICATION Spec
CONSTANTS
  MDS = {0, 1}
  MaxSessions = 4
  Scenarios <- MCScenarios
INVARIANTS
  AssertionsHold
  ReportedSurvives
  SyncMeansSafe
  NobodyForgotten
CHECK_DEADLOCK FALSE
