SPECIFICATION RetrySpec
CONSTANTS
  Roots = {"root"}
  Cells = {p1}
  Root <- OneRoot
  Manifests = {"m1", "m2"}
  Writers = {w1, w2}
  Records = {"r1", "r2"}
  Key <- KeyByIndex
  Batches <- OneBatch
  MaxAppends = 2
  MaxCrashes = 1
INVARIANTS
  IndexesContiguous
  AckedIsWhole
  OneManifestPerRoot
  LateAppendsWereInFlight
PROPERTIES
  NeverRewritten
  KeepsAppending
CHECK_DEADLOCK FALSE
