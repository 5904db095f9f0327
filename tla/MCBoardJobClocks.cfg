SPECIFICATION Spec
CONSTANTS
  u1 = u1
  u2 = u2
  i1 = i1
  i2 = i2
  i3 = i3
  d1 = d1
  d2 = d2
  Op = {"routing"}
  BuildOp = {"routing"}
  LocalOp = {}
  Input = {i1, i3}
  Design <- MCDesign
  Signature = {"error"}
  NoSignature = NoSignature
  Action = {"local_edit"}
  NoAction = NoAction
  Authorization = {u1, u2}
  NoAuthorization = NoAuthorization
  Allowance <- MCClocks
  Window = 1
  Outcome <- MCTimeouts
  ContinuationRequest <- MCClocksRequests
  Tick = {1}
  SetBack = {2}
  MaxTime = 4
  MaxAttempts = 2
  MaxScopes = 2
SYMMETRY InputSymmetry
INVARIANTS
  ReviewHoldsBuilds
PROPERTIES
  HardStopsHold
  LedgerKept
