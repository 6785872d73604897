SPECIFICATION Spec
CONSTANTS
  MDS = {0, 1}
  Page = {1, 2}
  User = {"u1", "u2"}
  Scenarios <- MCScenarios
  MaxSeq = 4
INVARIANTS AssertionsHold UseIsCovered LastWriteStands SnapshotsFrozen FsyncIsDurable QuietMeansDone
CHECK_DEADLOCK FALSE
