SPECIFICATION Spec
CONSTANTS
  Roots = {"root"}
  Cells = {p1, p2}
  Root <- OneRoot
  Manifests = {"m1"}
  Writers = {w1, w2}
  Records = {"r1", "r2"}
  Key <- KeyByIndex
  Batches <- SplitBatches
  MaxAppends = 2
  MaxCrashes = 0
SYMMETRY Interchangeable
INVARIANTS
  DigestCoversAcked
  DigestIgnoresInsertionOrder
CHECK_DEADLOCK FALSE
