SPECIFICATION Spec
CONSTANTS
  Firms <- SomeFirms
  Investors <- SomeInvestors
  Banks <- SomeBanks
  Markets <- SomeMarkets
  IndustryOf <- Industry
  Calls <- SomeCalls
  ScenarioPeriod = 2
  FocusSets <- SomeFocus
  MaxCalls = 2
INVARIANT
  PeriodIsOneCalls
PROPERTIES
  CitationsResolve
  FeedbackCitesPreviousPeriod
  NoLookahead
CHECK_DEADLOCK FALSE
