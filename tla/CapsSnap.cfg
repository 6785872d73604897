SPECIFICATION Spec
CONSTANTS
  MDS = {0, 1}
  Page = {1, 2}
  User = {"u1", "u2"}
  Scenarios <- MCSnapScenarios
  MaxSeq = 4
INVARIANT CapSnapsSettle
CHECK_DEADLOCK FALSE
