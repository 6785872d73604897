SPECIFICATION Spec
CONSTANTS
  Reqs = {1, 2}
  ObjBytes = 2
  ParentObjBytes = 1
  MaxBytes = 4
  MaxPieces = 2
  Scenarios <- FlattenReads
INVARIANT SuccessIsTrue
