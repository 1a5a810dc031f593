SPECIFICATION RetrySpec
CONSTANTS
  Roots = {"root"}
  Cells = {p1}
  Root <- OneRoot
  Manifests = {"m1"}
  Writers = {w1, w2}
  Records = {"r1", "r2"}
  Key <- KeyByIndex
  Batches <- OneBatch
  MaxAppends = 2
  MaxCrashes = 0
INVARIANT
  SealedRefusesAppends
CHECK_DEADLOCK FALSE
