SPECIFICATION Spec
CONSTANTS
  Slot = {1, 2}
  Client = {1, 2}
  User = {1, 2}
  Scenarios <- MCScenarios
INVARIANTS
  RefsMatchHolders
  NothingFreedInUse
  LeavesNothing
  FollowsImage
