SPECIFICATION Spec
CONSTANTS
  Actors = {a1, a2}
  Dates = {1, 2}
  ExplicitIds <- OneId
  Evidence <- RuleOutcomes
  Refs = {"r1", "r2", "r3", "r4", "r5"}
  Horizons = {2}
  Budgets = {2}
  MaxFocusLabels = 8
  BaseSelectedRefs = 0
  SelectedRefsCap = 4
  MaxRecords = 4
SYMMETRY Interchangeable
INVARIANTS
  LedgerMatchesBooks
  ChainPerActor
  StaleCountIsAge
  ObservedBeforeInherited
  SelectionsSpendByPriority
CHECK_DEADLOCK FALSE
