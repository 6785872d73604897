CONSTANTS
  Thread = {t1, t2}
  NoThread = NoThread
  X <- MCX
  Size = 3
  Hash <- MCHash
  Perm <- MCPerm
  U32 = 64
  Page = 1
  In = 16
  Map <- MCMap
  Recreated = {}
  FailStages = {0}
  MaxEpoch = 3
  Unit <- MCUnit
  Draw <- MCDraw
  Plans <- MCPlans
  MaxSize = 16
  FileEnd = 26
  Lens = {1, 3, 7}
SPECIFICATION Spec
INVARIANTS ChoiceIsOfInput MapIsTrue ActingIsSound ExtentsTile
