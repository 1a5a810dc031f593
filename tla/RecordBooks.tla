---------------------------- MODULE RecordBooks ----------------------------
(***************************************************************************)
(* The storage books of world/*.py and spaces/*/space.py.  Every book is a   *)
(* dictionary with an adder, and every adder is the same few steps: a       *)
(* record with a known id raises, the record is stored, entered in the      *)
(* indexes of the book, and told to the ledger.  What tells the adders apart *)
(* is which record class they take, whether they keep an index, and where    *)
(* the date on the ledger comes from.                                       *)
(*                                                                         *)
(* The books share no state but the ledger and the clock, so the machine    *)
(* runs one of them, any of them, chosen at the start.  A record is the     *)
(* subject it is indexed under, its own date (as_of_date, effective_date),   *)
(* a level (the strength of a relationship), a visibility label and, in its   *)
(* metadata, the viewers a restricted label lets through; the rest is not     *)
(* looked at by a book.                                                    *)
(***************************************************************************)
EXTENDS RecordTypes, Lists, Naturals, FiniteSets, SequencesExt

CONSTANTS
  RecordIds, Subjects, Viewers,
  Levels,         \* strengths of a relationship
  LastDate,       \* bound: the clock stops there
  MaxBookLog      \* bound: ledger records

ASSUME BooksAssumption == LastDate \in Nat \ {0} /\ MaxBookLog \in Nat

BookDates == 1..LastDate

(* datetime.now(): a moment outside the simulation. *)
WallClock == LastDate + 1
NoDate == 0

(***************************************************************************)
(* Where the ledger's date comes from: the clock's current_date or the       *)
(* record's as_of_date; and some adders take a date as an argument, which    *)
(* comes before that of the record or before what _now() finds.             *)
(***************************************************************************)
DatedByClock(refuses) ==
  [refuses |-> refuses, dated |-> "clock", argued |-> FALSE, indexed |-> FALSE]
DatedByRecord(refuses) == [DatedByClock(refuses) EXCEPT !.dated = "record"]
DatedByArgument(refuses) == [DatedByClock(refuses) EXCEPT !.dated = "now", !.argued = TRUE]
DatedByArgumentOrRecord(refuses) == [DatedByRecord(refuses) EXCEPT !.argued = TRUE]
Indexed(adder) == [adder EXCEPT !.indexed = TRUE]

(***************************************************************************)
(* States of the spaces (spaces/*/space.py)                                *)
(***************************************************************************)
BankStateAdded == DatedByClock(BankState)
FirmStateAdded == DatedByClock(FirmState)
MarketStateAdded == DatedByClock(MarketState)
ListingAdded == DatedByClock(ListingState)
ExternalFactorStateAdded == DatedByClock(ExternalFactorState)
ExternalSourceStateAdded == DatedByClock(ExternalSourceState)
InformationSourceStateAdded == DatedByClock(InformationSourceState)
InformationChannelStateAdded == DatedByClock(InformationChannelState)
InvestorStateAdded == DatedByClock(InvestorState)
PolicyAuthorityStateAdded == DatedByClock(PolicyAuthorityState)
PolicyInstrumentStateAdded == DatedByClock(PolicyInstrumentState)
PropertyMarketStateAdded == DatedByClock(PropertyMarketState)
PropertyAssetStateAdded == DatedByClock(PropertyAssetState)

(***************************************************************************)
(* Attention, routines, signals and what they are about                    *)
(***************************************************************************)
AttentionProfileAdded == DatedByClock(AttentionProfile)
ObservationMenuCreated == DatedByRecord(ObservationMenu)
ObservationSetSelected == DatedByRecord(SelectedObservationSet)
AttentionStateCreated == DatedByClock(ActorAttentionStateRecord)
AttentionFeedbackRecorded == DatedByClock(AttentionFeedbackRecord)
ConstraintAdded == DatedByClock(ConstraintRecord)
ExposureAdded == DatedByClock(ExposureRecord)
ExternalProcessAdded == Indexed(DatedByClock(ExternalFactorProcess))
ExternalObservationAdded == Indexed(DatedByRecord(ExternalFactorObservation))
ExternalScenarioPathAdded == DatedByClock(ExternalScenarioPath)
InstitutionProfileAdded == DatedByClock(InstitutionProfile)
InstitutionMandateAdded == Indexed(DatedByClock(MandateRecord))
InstitutionInstrumentAdded == Indexed(DatedByClock(PolicyInstrumentProfile))
InstitutionActionRecorded == Indexed(DatedByRecord(InstitutionalActionRecord))
InteractionAdded == DatedByClock(InteractionSpec)
RelationshipAdded == Indexed(DatedByClock(RelationshipRecord))
RoutineAdded == DatedByClock(RoutineSpec)
RoutineRunRecorded == DatedByRecord(RoutineRunRecord)
SignalAdded == DatedByClock(InformationSignal)
ValuationAdded == Indexed(DatedByClock(ValuationRecord))
VariableAdded == DatedByClock(ReferenceVariableSpec)
VariableObservationAdded == Indexed(DatedByRecord(VariableObservation))

(***************************************************************************)
(* Firms, markets, banks and their dealings                                *)
(***************************************************************************)
CapitalStructureReviewCandidateRecorded == DatedByClock(CapitalStructureReviewCandidate)
CentralBankOperationSignalRecorded == DatedByClock(CentralBankOperationSignalRecord)
CollateralEligibilitySignalRecorded == DatedByClock(CollateralEligibilitySignalRecord)
CorporateFinancingNeedRecorded == DatedByClock(CorporateFinancingNeedRecord)
PortfolioCompanyDialogueRecorded == DatedByClock(PortfolioCompanyDialogueRecord)
InvestorEscalationCandidateAdded == DatedByClock(InvestorEscalationCandidate)
CorporateFinancingPathRecorded == DatedByClock(CorporateFinancingPathRecord)
FirmLatentStateUpdated == DatedByClock(FirmFinancialStateRecord)
FundingOptionCandidateRecorded == DatedByClock(FundingOptionCandidate)
IndustryDemandConditionAdded == DatedByClock(IndustryDemandConditionRecord)
InterbankLiquidityStateRecorded == DatedByClock(InterbankLiquidityStateRecord)
InvestorIntentSignalAdded == DatedByClock(InvestorIntentRecord)
MarketConditionAdded == DatedByClock(MarketConditionRecord)
MarketEnvironmentStateAdded == DatedByClock(MarketEnvironmentStateRecord)
InvestorMarketIntentRecorded == DatedByClock(InvestorMarketIntentRecord)
AggregatedMarketInterestRecorded == DatedByClock(AggregatedMarketInterestRecord)
IndicativeMarketPressureRecorded == DatedByClock(IndicativeMarketPressureRecord)
CapitalMarketReadoutAdded == DatedByClock(CapitalMarketReadoutRecord)
ListedSecurityRegistered == DatedByClock(ListedSecurityRecord)
MarketVenueRegistered == DatedByClock(MarketVenueRecord)
SettlementAccountRegistered == DatedByClock(SettlementAccountRecord)
PaymentInstructionRegistered == DatedByClock(PaymentInstructionRecord)
SettlementEventRecorded == DatedByClock(SettlementEventRecord)
StewardshipThemeAdded == DatedByClock(StewardshipThemeRecord)
CorporateStrategicResponseCandidateAdded ==
  DatedByClock(CorporateStrategicResponseCandidate)

(***************************************************************************)
(* Universe, calendars, scenarios and annotations                          *)
(***************************************************************************)
InformationReleaseCalendarRecorded == DatedByArgument(InformationReleaseCalendar)
ScheduledIndicatorReleaseRecorded == DatedByArgument(ScheduledIndicatorRelease)
InformationArrivalRecorded == DatedByRecord(InformationArrivalRecord)
InvestorMandateProfileRecorded == DatedByArgument(InvestorMandateProfile)
ManualAnnotationProvenanceRecorded == DatedByArgument(ManualAnnotationProvenanceRecord)
ManualAnnotationRecorded == DatedByArgument(ManualAnnotationRecord)
ReferenceUniverseProfileRecorded == DatedByArgument(ReferenceUniverseProfile)
GenericSectorReferenceRecorded == DatedByArgument(GenericSectorReference)
SyntheticSectorFirmProfileRecorded == DatedByArgument(SyntheticSectorFirmProfile)
ReportingCalendarProfileRecorded == DatedByArgument(ReportingCalendarProfile)
ScenarioDriverApplicationRecorded == DatedByRecord(ScenarioDriverApplicationRecord)
ScenarioContextShiftRecorded == DatedByRecord(ScenarioContextShiftRecord)
ScenarioDriverTemplateRecorded == DatedByArgument(ScenarioDriverTemplate)
ScenarioScheduleRecorded == DatedByArgument(ScenarioSchedule)
ScheduledScenarioApplicationRecorded == DatedByArgument(ScheduledScenarioApplication)
StrategicRelationshipRecorded == DatedByArgument(StrategicRelationshipRecord)
StressProgramApplicationRecorded ==
  DatedByArgumentOrRecord(StressProgramApplicationRecord)
StressProgramTemplateRecorded == DatedByArgument(StressProgramTemplate)
UniverseEventRecorded == DatedByArgument(UniverseEventRecord)

(***************************************************************************)
(* The books                                                               *)
(***************************************************************************)
Books ==
  [bank_state_added |-> BankStateAdded,
   firm_state_added |-> FirmStateAdded,
   market_state_added |-> MarketStateAdded,
   listing_added |-> ListingAdded,
   external_factor_state_added |-> ExternalFactorStateAdded,
   external_source_state_added |-> ExternalSourceStateAdded,
   information_source_state_added |-> InformationSourceStateAdded,
   information_channel_state_added |-> InformationChannelStateAdded,
   investor_state_added |-> InvestorStateAdded,
   policy_authority_state_added |-> PolicyAuthorityStateAdded,
   policy_instrument_state_added |-> PolicyInstrumentStateAdded,
   property_market_state_added |-> PropertyMarketStateAdded,
   property_asset_state_added |-> PropertyAssetStateAdded,
   attention_profile_added |-> AttentionProfileAdded,
   observation_menu_created |-> ObservationMenuCreated,
   observation_set_selected |-> ObservationSetSelected,
   attention_state_created |-> AttentionStateCreated,
   attention_feedback_recorded |-> AttentionFeedbackRecorded,
   capital_structure_review_candidate_recorded |-> CapitalStructureReviewCandidateRecorded,
   central_bank_operation_signal_recorded |-> CentralBankOperationSignalRecorded,
   collateral_eligibility_signal_recorded |-> CollateralEligibilitySignalRecorded,
   constraint_added |-> ConstraintAdded,
   corporate_financing_need_recorded |-> CorporateFinancingNeedRecorded,
   portfolio_company_dialogue_recorded |-> PortfolioCompanyDialogueRecorded,
   investor_escalation_candidate_added |-> InvestorEscalationCandidateAdded,
   exposure_added |-> ExposureAdded,
   external_process_added |-> ExternalProcessAdded,
   external_observation_added |-> ExternalObservationAdded,
   external_scenario_path_added |-> ExternalScenarioPathAdded,
   corporate_financing_path_recorded |-> CorporateFinancingPathRecorded,
   firm_latent_state_updated |-> FirmLatentStateUpdated,
   funding_option_candidate_recorded |-> FundingOptionCandidateRecorded,
   industry_demand_condition_added |-> IndustryDemandConditionAdded,
   information_release_calendar_recorded |-> InformationReleaseCalendarRecorded,
   scheduled_indicator_release_recorded |-> ScheduledIndicatorReleaseRecorded,
   information_arrival_recorded |-> InformationArrivalRecorded,
   institution_profile_added |-> InstitutionProfileAdded,
   institution_mandate_added |-> InstitutionMandateAdded,
   institution_instrument_added |-> InstitutionInstrumentAdded,
   institution_action_recorded |-> InstitutionActionRecorded,
   interaction_added |-> InteractionAdded,
   interbank_liquidity_state_recorded |-> InterbankLiquidityStateRecorded,
   investor_intent_signal_added |-> InvestorIntentSignalAdded,
   investor_mandate_profile_recorded |-> InvestorMandateProfileRecorded,
   manual_annotation_provenance_recorded |-> ManualAnnotationProvenanceRecorded,
   manual_annotation_recorded |-> ManualAnnotationRecorded,
   market_condition_added |-> MarketConditionAdded,
   market_environment_state_added |-> MarketEnvironmentStateAdded,
   investor_market_intent_recorded |-> InvestorMarketIntentRecorded,
   aggregated_market_interest_recorded |-> AggregatedMarketInterestRecorded,
   indicative_market_pressure_recorded |-> IndicativeMarketPressureRecorded,
   capital_market_readout_added |-> CapitalMarketReadoutAdded,
   reference_universe_profile_recorded |-> ReferenceUniverseProfileRecorded,
   generic_sector_reference_recorded |-> GenericSectorReferenceRecorded,
   synthetic_sector_firm_profile_recorded |-> SyntheticSectorFirmProfileRecorded,
   relationship_added |-> RelationshipAdded,
   reporting_calendar_profile_recorded |-> ReportingCalendarProfileRecorded,
   routine_added |-> RoutineAdded,
   routine_run_recorded |-> RoutineRunRecorded,
   scenario_driver_application_recorded |-> ScenarioDriverApplicationRecorded,
   scenario_context_shift_recorded |-> ScenarioContextShiftRecorded,
   scenario_driver_template_recorded |-> ScenarioDriverTemplateRecorded,
   scenario_schedule_recorded |-> ScenarioScheduleRecorded,
   scheduled_scenario_application_recorded |-> ScheduledScenarioApplicationRecorded,
   listed_security_registered |-> ListedSecurityRegistered,
   market_venue_registered |-> MarketVenueRegistered,
   settlement_account_registered |-> SettlementAccountRegistered,
   payment_instruction_registered |-> PaymentInstructionRegistered,
   settlement_event_recorded |-> SettlementEventRecorded,
   signal_added |-> SignalAdded,
   stewardship_theme_added |-> StewardshipThemeAdded,
   strategic_relationship_recorded |-> StrategicRelationshipRecorded,
   corporate_strategic_response_candidate_added |-> CorporateStrategicResponseCandidateAdded,
   stress_program_application_recorded |-> StressProgramApplicationRecorded,
   stress_program_template_recorded |-> StressProgramTemplateRecorded,
   universe_event_recorded |-> UniverseEventRecorded,
   valuation_added |-> ValuationAdded,
   variable_added |-> VariableAdded,
   variable_observation_added |-> VariableObservationAdded]

VARIABLES
  event,      \* the event type of the book's adder
  book,       \* [id -> record]
  order,      \* ids in the order of their insertion
  index,      \* [subject -> ids]
  bookLog,    \* ledger records
  today,      \* clock.current_date
  answer      \* how the last call ended

bookVars == <<event, book, order, index, bookLog, today, answer>>

Adder == Books[event]

(* What a payload tells of a record.  The visibility label is there; the     *)
(* viewers it lets through stay in the record's metadata.                   *)
Logged(record) ==
  [subject |-> record.subject, date |-> record.date, level |-> record.level,
   visibility |-> record.visibility]
Entry(type, id, date, told) == [type |-> type, id |-> id, date |-> date, told |-> told]
Tell(entry) == bookLog' = Append(bookLog, entry)
MayTell == Len(bookLog) < MaxBookLog

BooksInit ==
  /\ event \in DOMAIN Books
  /\ book = <<>> /\ order = <<>>
  /\ index = [s \in Subjects |-> <<>>]
  /\ bookLog = <<>> /\ today = 1 /\ answer = "none"

NextDay ==
  /\ today < LastDate
  /\ today' = today + 1
  /\ UNCHANGED <<event, book, order, index, bookLog, answer>>

(* The constructor raises: there is no record to add. *)
Refuse(flaw) ==
  /\ flaw \in Adder.refuses
  /\ answer' = "refused"
  /\ UNCHANGED <<event, book, order, index, bookLog, today>>

Store(id, record) ==
  /\ book' = [k \in {id} \cup DOMAIN book |-> IF k = id THEN record ELSE book[k]]
  /\ order' = IF id \in DOMAIN book THEN order ELSE Append(order, id)
  /\ index' = IF Adder.indexed THEN [index EXCEPT ![record.subject] = Append(@, id)] ELSE index

(* The helper _now() of the books that take a date asks the clock for      *)
(* current_datetime(), which Clock does not have; the AttributeError is      *)
(* caught and the wall clock answers.                                       *)
DefaultDate == WallClock

LedgerDate(record, argument) ==
  CASE argument # NoDate -> argument
    [] argument = NoDate /\ Adder.dated = "clock" -> today
    [] argument = NoDate /\ Adder.dated = "record" -> record.date
    [] argument = NoDate /\ Adder.dated = "now" -> DefaultDate

Arguments == IF Adder.argued THEN {NoDate} \cup BookDates ELSE {NoDate}

(* Plausible bug: a record of that id is replaced. *)
AddReplacing(id, record, argument) ==
  /\ MayTell
  /\ Store(id, record)
  /\ Tell(Entry(event, id, LedgerDate(record, argument), Logged(record)))
  /\ answer' = "added"
  /\ UNCHANGED <<event, today>>

Add(id, record, argument) ==
  /\ MayTell
  /\ id \notin DOMAIN book
  /\ Store(id, record)
  /\ Tell(Entry(event, id, LedgerDate(record, argument), Logged(record)))
  /\ answer' = "added"
  /\ UNCHANGED <<event, today>>

(* The argument goes to the ledger unchecked, which raises if it is no date: *)
(* the record is stored by then.                                           *)
AddWithBadDate(id, record) ==
  /\ Adder.argued
  /\ id \notin DOMAIN book
  /\ Store(id, record)
  /\ answer' = "raised"
  /\ UNCHANGED <<event, bookLog, today>>

Duplicate(id) ==
  /\ id \in DOMAIN book
  /\ answer' = "duplicate"
  /\ UNCHANGED <<event, book, order, index, bookLog, today>>

(* update_strength(): no date given leaves the record's as_of_date.  The    *)
(* ledger is told the strength before and the record's new one.             *)
Restrengthened(id, level, date) ==
  [book[id] EXCEPT !.level = level, !.date = IF date = NoDate THEN @ ELSE date]
ToldStrength(id, record) ==
  Tell([type |-> "relationship_strength_updated", id |-> id, date |-> today,
        told |-> Logged(record), previous |-> book[id].level])

(* Plausible bug: the new record is entered in the indexes again. *)
UpdateStrengthReindexes(id, level, date) ==
  /\ MayTell /\ event = "relationship_added" /\ id \in DOMAIN book
  /\ Store(id, Restrengthened(id, level, date))
  /\ ToldStrength(id, Restrengthened(id, level, date))
  /\ answer' = "updated"
  /\ UNCHANGED <<event, today>>

UpdateStrength(id, level, date) ==
  /\ MayTell /\ event = "relationship_added" /\ id \in DOMAIN book
  /\ book' = [book EXCEPT ![id] = Restrengthened(id, level, date)]
  /\ ToldStrength(id, Restrengthened(id, level, date))
  /\ answer' = "updated"
  /\ UNCHANGED <<event, order, index, today>>

(* is_visible_to(): an open label asks for no viewer, a restricted one lets  *)
(* through those its metadata names, and nobody if it names none.           *)
VisibleTo(signal, viewer, date) ==
  /\ signal.date <= date
  /\ signal.visibility = "restricted" => viewer \in signal.viewers

(* mark_observed(): as of the date given, or of today; it raises if the     *)
(* signal cannot be seen, and changes only the ledger, which is told who saw *)
(* it, its subject and its label, and not when it took effect.              *)
MarkObserved(id, viewer, date) ==
  /\ MayTell /\ event = "signal_added" /\ id \in DOMAIN book
  /\ LET asOf == IF date = NoDate THEN today ELSE date IN
       /\ VisibleTo(book[id], viewer, asOf)
       /\ Tell(Entry("signal_observed", id, asOf,
                     [subject |-> book[id].subject, visibility |-> book[id].visibility,
                      viewer |-> viewer]))
  /\ answer' = "observed"
  /\ UNCHANGED <<event, book, order, index, today>>

(* The fields a book looks at. *)
Candidates ==
  {[subject |-> s, date |-> d, level |-> l, visibility |-> label, viewers |-> v] :
     s \in IF Adder.indexed THEN Subjects ELSE {CHOOSE x \in Subjects : TRUE},
     d \in IF Adder.dated = "record" \/ event \in {"signal_added", "relationship_added"}
             THEN BookDates ELSE {NoDate},
     l \in IF event = "relationship_added" THEN Levels ELSE {0},
     label \in IF event = "signal_added" THEN {"public", "restricted"} ELSE {"public"},
     v \in IF event = "signal_added" THEN {{}} \cup {{viewer} : viewer \in Viewers} ELSE {{}}}

BooksNext ==
  \/ NextDay
  \/ \E flaw \in Flaws : Refuse(flaw)
  \/ \E id \in RecordIds :
       \/ Duplicate(id)
       \/ \E record \in Candidates :
            \/ AddWithBadDate(id, record)
            \/ \E argument \in Arguments : Add(id, record, argument)
       \/ \E date \in {NoDate} \cup BookDates :
            \/ \E level \in Levels : UpdateStrength(id, level, date)
            \/ \E viewer \in Viewers : MarkObserved(id, viewer, date)

BooksSpec == BooksInit /\ [][BooksNext]_bookVars

(***************************************************************************)
(* Properties                                                              *)
(***************************************************************************)
Told(id) == \E n \in DOMAIN bookLog : bookLog[n].id = id
TellsRecord(e, id) == e.id = id /\ e.type # "signal_observed"
LastTold(id) == bookLog[SelectLastInSeq(bookLog, LAMBDA e : TellsRecord(e, id))].told

Created == {n \in DOMAIN bookLog : bookLog[n].type = event}
ToldPlaces == {n \in DOMAIN order : Told(order[n])}
PlacesOf(s) == {n \in DOMAIN order : book[order[n]].subject = s}

(* The ledger tells the story of the book: the records it was given, each    *)
(* once and in their order; the last that it is told of each, subject, date,  *)
(* strength and visibility label, is what the book holds (the viewers of a    *)
(* restricted signal are not told); the strength that an update names as      *)
(* previous is the one told before, "so the history is reconstructable"      *)
(* (relationships.py); the indexes list what the book holds.  A record may    *)
(* be untold only where the adder takes a date, which the ledger refused.    *)
LedgerTellsTheBook ==
  /\ Picked([n \in DOMAIN bookLog |-> bookLog[n].id], Created) = Picked(order, ToldPlaces)
  /\ \A id \in DOMAIN book :
       IF Told(id) THEN LastTold(id) = Logged(book[id]) ELSE Adder.argued
  /\ \A n \in DOMAIN bookLog : bookLog[n].type = "relationship_strength_updated" =>
       \E m \in 1..(n - 1) :
         /\ TellsRecord(bookLog[m], bookLog[n].id)
         /\ bookLog[m].told.level = bookLog[n].previous
         /\ \A k \in (m + 1)..(n - 1) : ~TellsRecord(bookLog[k], bookLog[n].id)
  /\ ToSet(order) = DOMAIN book
  /\ Adder.indexed => \A s \in Subjects : index[s] = Picked(order, PlacesOf(s))

(* world_model.md: the books share the kernel's clock "so that ledger       *)
(* records carry the correct simulation date automatically".               *)
LedgerDatesAreSimulated == \A n \in DOMAIN bookLog : bookLog[n].date \in BookDates
=============================================================================
