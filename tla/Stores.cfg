SPECIFICATION StoresSpec
CONSTANTS
  Templates = {"rates", "credit"}
  ShiftCount <- Shifts
  Programs = {"twin", "triple"}
  Steps <- TwoPrograms
  Dates = {1, 2}
  ExplicitIds <- SharedId
  MaxRecords = 8
  RecordIds = {"x", "y"}
  Subjects = {"s", "t"}
  Viewers = {"v", "w"}
  Levels = {1, 2}
  LastDate = 2
  MaxBookLog = 3
  OwnerOrder <- Order
  Assets = {"share", "cash"}
  CashAssets = {"cash"}
  Quantities = {1, 3}
  PriceRecords <- FewPrices
  Contracts <- TwoContracts
  NewStatuses = {"settled"}
  Constraints <- FewRules
  Claims <- FewClaims
  Exact = 4
  MaxFacts = 4
  Layers = {"true_state", "perceived_state"}
  Objects = {"firm"}
  Values = {0, 1}
  Perceivers = {"fund"}
  MaxVersion = 3
  MaxSnapshots = 2
  Edges = {"a", "b", "c", "d", "e", "f"}
  Edge <- SixEdges
  EdgeRank <- Ranks
  EventIds = {"e1", "e2", "e3", "e4"}
  Recordings <- FewRecordings
  TraceManifests = {"m1", "m2"}
  EdgeBatches <- SomeBatches
  MaxParts = 3
  Depths = {0, 1, 2, 3}
  MarketDates = {1, 2}
  Regimes = {"constrained", "easing"}
  Direction <- Markets
  Investors = {"fund", "pension"}
  Confidence <- Confidences
  FocusSets <- Focuses
  ReviewAccess = "open"
  OutsideIntents <- EarlyIntents
  Firm = "firm"
  Investor = "fund"
  Bank = "bank"
  ChainDates = {1, 2}
  Observations <- TwoObservations
  Exposures <- FewExposures
  Environments <- TwoMarkets
  FirmStates <- TwoStates
  EarlierSignals <- TwoSignals
  PressureEvidence <- FewEvidence
  SignalLists <- FewLists
  ExplicitLists <- FewFrames
  HaircutPerPressure = 3
  MaxChainCalls = 3
  MaxCalls = 3
INVARIANTS
  CitationsResolve
  LedgerIsCausal
  LedgerTellsTheBook
  LedgerReplaysBooks
  DerivedFromLedger
  HistoryEndsInCurrent
  AnswersIgnoreArrival
  LineageWithinDepth
  RecordsFollowCitations
  ClosedMarketReachesPath
  EvidenceWasThere
  ConclusionsFollowCitations
PROPERTIES
  NewReceiptReadsBack
  TransfersConserve
CHECK_DEADLOCK FALSE
