---------------------------- MODULE RecordTypes ----------------------------
(***************************************************************************)
(* The record classes of world/*.py and spaces/*/state.py: what the          *)
(* constructor (__post_init__) of each refuses.  A class is the set of the   *)
(* flaws for which it raises; a value with any other flaw is taken as it is. *)
(*                                                                         *)
(*   blank         an id or a name that must be there is empty              *)
(*   label         a label is not in its vocabulary                         *)
(*   number        a number is none, or out of its range                    *)
(*   date          a date is neither a date nor text, or is empty           *)
(*   list          an entry of a list is not a name                         *)
(*   inconsistent  fields that do not go together                           *)
(*   key           a forbidden key in the metadata                          *)
(*   token         a forbidden word as the value of a label                 *)
(*   flag          a boundary flag that may not be changed, or no boolean   *)
(***************************************************************************)
Flaws == {"blank", "label", "number", "date", "list", "inconsistent", "key", "token", "flag"}

(***************************************************************************)
(* States of the spaces (spaces/*/state.py)                                *)
(***************************************************************************)
BankState == {"blank"}
FirmState == {"blank"}
MarketState == {"blank"}
ListingState == {"blank"}
ExternalFactorState == {"blank"}
ExternalSourceState == {"blank"}
InformationSourceState == {"blank"}
InformationChannelState == {"blank"}
InvestorState == {"blank"}
PolicyAuthorityState == {"blank"}
PolicyInstrumentState == {"blank"}
PropertyMarketState == {"blank"}
PropertyAssetState == {"blank"}

(***************************************************************************)
(* Attention, routines, signals and what they are about                    *)
(***************************************************************************)
AttentionProfile == {"blank", "number", "list", "flag"}
ObservationMenu == {"blank", "date", "list"}
SelectedObservationSet == {"blank", "date", "list"}
ActorAttentionStateRecord == {"blank", "number", "date", "list"}
AttentionFeedbackRecord == {"blank", "number", "date", "list"}
ConstraintRecord == {"blank", "label"}
ExposureRecord == {"blank", "number", "date", "list", "inconsistent"}
ExternalFactorProcess == {"blank"}
ExternalFactorObservation == {"blank", "number", "date"}
ExternalScenarioPath == {"blank", "inconsistent"}
InstitutionProfile == {"blank"}
MandateRecord == {"blank"}
PolicyInstrumentProfile == {"blank"}
InstitutionalActionRecord == {"blank", "date"}
InteractionSpec == {"blank", "list", "flag"}
RelationshipRecord == {"blank", "number", "date"}
RoutineSpec == {"blank", "list", "flag"}
RoutineRunRecord == {"blank", "date", "list"}
InformationSignal == {"blank", "label", "number", "date"}
ValuationRecord == {"blank", "number", "date"}
ReferenceVariableSpec == {"blank", "number", "list"}
VariableObservation == {"blank", "number", "date"}

(***************************************************************************)
(* Firms, markets, banks and their dealings                                *)
(***************************************************************************)
CapitalStructureReviewCandidate == {"blank", "label", "number", "date", "list"}
CentralBankOperationSignalRecord == {"blank", "number", "date", "list"}
CollateralEligibilitySignalRecord == {"blank", "number", "date", "list"}
CorporateFinancingNeedRecord == {"blank", "number", "date", "list"}
PortfolioCompanyDialogueRecord == {"blank", "date", "list"}
InvestorEscalationCandidate == {"blank", "date", "list"}
CorporateFinancingPathRecord == {"blank", "label", "number", "date", "list"}
FirmFinancialStateRecord == {"blank", "number", "date", "list"}
FundingOptionCandidate == {"blank", "label", "number", "date", "list"}
IndustryDemandConditionRecord == {"blank", "number", "date", "list"}
InterbankLiquidityStateRecord == {"blank", "number", "date", "list"}
InvestorIntentRecord == {"blank", "number", "date", "list"}
MarketConditionRecord == {"blank", "number", "date", "list"}
MarketEnvironmentStateRecord == {"blank", "number", "date", "list"}
InvestorMarketIntentRecord == {"blank", "label", "number", "date", "list"}
AggregatedMarketInterestRecord == {"blank", "label", "number", "date", "list"}
IndicativeMarketPressureRecord == {"blank", "label", "number", "date", "list"}
CapitalMarketReadoutRecord == {"blank", "number", "date", "list"}
ListedSecurityRecord == {"blank", "label"}
MarketVenueRecord == {"blank", "label", "list"}
SettlementAccountRecord == {"blank", "date", "inconsistent"}
PaymentInstructionRecord == {"blank", "date", "list"}
SettlementEventRecord == {"blank", "date"}
StewardshipThemeRecord == {"blank", "date", "list", "inconsistent"}
CorporateStrategicResponseCandidate == {"blank", "date", "list", "inconsistent"}

(***************************************************************************)
(* Universe, calendars, scenarios and annotations                          *)
(***************************************************************************)
InformationReleaseCalendar == {"blank", "label", "list", "key"}
ScheduledIndicatorRelease == {"blank", "label", "number", "list", "key"}
InformationArrivalRecord == {"blank", "label", "list", "key", "flag"}
InvestorMandateProfile == {"blank", "label", "list", "key", "token", "flag"}
ManualAnnotationProvenanceRecord == {"blank", "label", "key", "token", "flag"}
ManualAnnotationRecord == {"blank", "label", "list", "key", "token", "flag"}
ReferenceUniverseProfile == {"blank", "label", "number", "key", "flag"}
GenericSectorReference == {"blank", "label", "key"}
SyntheticSectorFirmProfile == {"blank", "label", "key"}
ReportingCalendarProfile == {"blank", "label", "list", "key", "token", "flag"}
ScenarioDriverApplicationRecord ==
  {"blank", "label", "number", "date", "list", "key", "flag"}
ScenarioContextShiftRecord ==
  {"blank", "label", "number", "date", "list", "key", "flag"}
ScenarioDriverTemplate == {"blank", "label", "list", "key"}
ScenarioSchedule == {"blank", "label", "number", "list", "key"}
ScheduledScenarioApplication == {"blank", "label", "number", "list", "key"}
StrategicRelationshipRecord ==
  {"blank", "label", "list", "inconsistent", "key", "token", "flag"}
StressProgramApplicationRecord ==
  {"blank", "label", "number", "date", "list", "key", "flag"}
StressProgramTemplate == {"blank", "label", "number", "inconsistent", "key"}
UniverseEventRecord == {"blank", "label", "list", "key", "token", "flag"}

=============================================================================
