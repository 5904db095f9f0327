SPECIFICATION Spec
CONSTANTS
  u1 = u1
  u2 = u2
  i1 = i1
  i2 = i2
  i3 = i3
  d1 = d1
  d2 = d2
  Op = {"routing", "edit"}
  BuildOp = {"routing", "edit"}
  LocalOp = {"edit"}
  Input = {i1, i3}
  Design <- MCDesign
  Signature = {"error"}
  NoSignature = NoSignature
  Action = {"local_edit"}
  NoAction = NoAction
  Authorization = {u1, u2}
  NoAuthorization = NoAuthorization
  Allowance <- MCWall
  Window = 2
  Outcome <- MCResults
  ContinuationRequest <- MCWallRequests
  Tick = {}
  SetBack = {}
  MaxTime = 0
  MaxAttempts = 4
  MaxScopes = 3
SYMMETRY InputSymmetry
INVARIANTS
  TypeOK
  BudgetsHold
