--------------------------- MODULE ReferenceChain ---------------------------
(***************************************************************************)
(* One firm, an investor and a bank: the firm reports, both look at what is  *)
(* on offer and select, both review, and one firm-pressure assessment, the   *)
(* valuations and the credit reviews rest on what was selected or passed     *)
(* (reference_routines.py, reference_attention.py, reference_reviews.py,      *)
(* reference_chain.py, routine_engine.py, observation_menu_builder.py,        *)
(* evidence.py and the reference mechanisms).                               *)
(*                                                                         *)
(* Everything these calls write goes to a book that refuses a known id and   *)
(* tells the ledger, so the books are one sequence of records, in the order   *)
(* of the ledger; the book of a kind is its subsequence.  A call is an        *)
(* operator from the books to the books and whether it raised: what it stored *)
(* before it raised stays stored.                                           *)
(***************************************************************************)
EXTENDS Lists, Integers, FiniteSets, SequencesExt

CONSTANTS
  Firm, Investor, Bank,
  ChainDates,          \* dates of the calls
  Observations,        \* of variables, in the order of their book
  Exposures,           \* in the order of their book
  Environments,        \* of the market, stored beside these books
  FirmStates,
  EarlierSignals,      \* signals of other sources
  PressureEvidence,    \* what an assessment may be given
  SignalLists,         \* what a caller may pass, ids that are there or not
  ExplicitLists,
  HaircutPerPressure,  \* of a valuation, in tenths
  MaxChainCalls        \* bound: calls that store something

ASSUME ChainAssumption ==
  ChainDates \subseteq Nat /\ MaxChainCalls \in Nat /\ Firm \notin {Investor, Bank}

VARIABLES
  stored,      \* Seq of records, in the order of the ledger
  chainCalls

chainVars == <<stored, chainCalls>>

Participants == {Firm, Investor, Bank}
RoleOf == [a \in Participants |->
             IF a = Firm THEN "firm" ELSE IF a = Investor THEN "investor" ELSE "bank"]

(***************************************************************************)
(* Records.  An id begins with the kind of the record.  refs is what the     *)
(* record rests on, in order; missing what it names as unresolved.           *)
(***************************************************************************)
Kind(id) == id[1]
Booked(id, actor, date, refs, missing, data) ==
  [id |-> id, actor |-> actor, date |-> date, refs |-> refs, missing |-> missing, data |-> data]

IdsIn(s) == [n \in DOMAIN s |-> s[n].id]
Beside == ToSet(IdsIn(Observations) \o IdsIn(Exposures) \o IdsIn(Environments) \o IdsIn(FirmStates))
Known(s) == Beside \cup ToSet(IdsIn(s))
OfKind(s, kind) == Picked(s, {n \in DOMAIN s : Kind(s[n].id) = kind})
Lookup(s, id) == s[CHOOSE n \in DOMAIN s : s[n].id = id]

(* A book knows an id once, and the ids of a book are of its kind. *)
Listed(s, kind) ==
  /\ s \in Seq(ToSet(s))
  /\ \A n \in DOMAIN s : Kind(s[n].id) = kind
  /\ \A m, n \in DOMAIN s : s[m].id = s[n].id => m = n

ASSUME BesideAssumption ==
  /\ Listed(Observations, "observation") /\ \A o \in ToSet(Observations) : o.visibleFrom \in Nat
  /\ Listed(Exposures, "exposure") /\ \A x \in ToSet(Exposures) : x.from \in Nat
  /\ Listed(Environments, "environment")
  /\ Listed(FirmStates, "firm state")

(* What other sources told before is no credit review of this system. *)
ASSUME EarlierAssumption ==
  /\ Listed(EarlierSignals, "signal")
  /\ \A x \in ToSet(EarlierSignals) :
        x.refs = <<>> /\ x.missing = {} /\ x.date \in Nat /\ x.data.type # "credit"

(* A caller passes lists, and no valuation twice in one: it would count twice. *)
ASSUME ListsAssumption ==
  /\ \A e \in PressureEvidence : e.signals \in Seq(ToSet(e.signals))
  /\ \A l \in SignalLists \cup ExplicitLists : l \in Seq(ToSet(l))
  /\ \A l \in SignalLists : \A m, n \in DOMAIN l : Kind(l[m]) = "valuation" /\ l[m] = l[n] => m = n

RunId(type, a, d) == <<"run", type, a, d>>
SignalId(type, a, d) == <<"signal", type, a, d>>
MenuId(a, d) == <<"menu", a, d>>
SelectionId(a, d) == <<"selection", a, d>>
ValuationId(d) == <<"valuation", Firm, d>>

Information(type, a, d, refs, missing, payload) ==
  Booked(SignalId(type, a, d), a, d, refs, missing,
        [type |-> type, subject |-> IF type = "credit" THEN Firm ELSE a,
         viewers |-> Participants, payload |-> payload])

(* An adder raises on a known id; the register_ helpers look before they add. *)
Begin(s) == [books |-> s, raised |-> FALSE]
Refused(r) == [books |-> r.books, raised |-> TRUE]
Put(r, record) ==
  IF r.raised \/ record.id \in Known(r.books) THEN Refused(r)
  ELSE Begin(Append(r.books, record))
Ensure(r, record) ==
  IF r.raised \/ record.id \in Known(r.books) THEN r ELSE Put(r, record)
Require(r, ids) == IF r.raised \/ ~(ids \subseteq Known(r.books)) THEN Refused(r) ELSE r

(***************************************************************************)
(* Routines                                                                *)
(***************************************************************************)
Interaction(role) == <<"interaction", role>>
Routine(a) == <<"routine", a>>
RoutineType(a) == IF a = Firm THEN "report" ELSE "review"

Registered(r, a) ==
  Ensure(Ensure(r, Booked(Interaction(RoleOf[a]), a, 0, <<>>, {}, <<>>)),
         Booked(Routine(a), a, 0, <<>>, {}, <<>>))

(* execute_request(): the routine, the channel and the selections must be     *)
(* known; the run names its output before the output exists.                 *)
CollectSelectedRefs(s, selections) ==
  Flattened([n \in DOMAIN selections |-> Lookup(s, selections[n]).refs])

ExecuteRequest(r, a, d, explicit, selections, output) ==
  LET checked == Require(r, {Routine(a), Interaction(RoleOf[a])} \cup ToSet(selections))
      inputs == Distinct(explicit \o CollectSelectedRefs(r.books, selections))
  IN IF checked.raised THEN checked
     ELSE Put(checked, Booked(RunId(RoutineType(a), a, d), a, d, inputs, {},
                [output |-> output, status |-> IF inputs = <<>> THEN "degraded" ELSE "completed"]))

(* run_corporate_quarterly_reporting() *)
RunReporting(r, d) ==
  Put(ExecuteRequest(r, Firm, d, <<<<"actor", Firm>>>>, <<>>, SignalId("report", Firm, d)),
      Information("report", Firm, d, <<RunId("report", Firm, d)>>, {}, <<>>))

(* _classify_input_refs(): the first book that knows the reference.           *)
ClassifyInputRefs(s, refs) ==
  [kind \in {"signal", "observation", "exposure"} |->
     Cardinality({n \in DOMAIN refs : refs[n] \in Known(s) /\ Kind(refs[n]) = kind})]

(* run_investor_review(), run_bank_review() *)
RunReview(r, a, d, selections) ==
  LET done == ExecuteRequest(r, a, d, <<>>, selections, SignalId("review", a, d))
  IN IF done.raised THEN done
     ELSE Put(done, Information("review", a, d, <<RunId("review", a, d)>>, {},
            ClassifyInputRefs(done.books, Lookup(done.books, RunId("review", a, d)).refs)))

(***************************************************************************)
(* Attention                                                               *)
(***************************************************************************)
CollectVisibleSignals(s, a, d) ==
  LET signals == OfKind(s, "signal")
  IN IdsIn(Picked(signals, {n \in DOMAIN signals :
                              signals[n].date <= d /\ a \in signals[n].data.viewers}))

ActiveExposures(a, d) ==
  Picked(Exposures, {n \in DOMAIN Exposures :
    LET x == Exposures[n] IN x.subject = a /\ x.from <= d /\ d <= x.to})

CollectVisibleObservations(a, d) ==
  LET exposed == {x.variable : x \in ToSet(ActiveExposures(a, d))}
  IN IdsIn(Picked(Observations, {n \in DOMAIN Observations :
       Observations[n].visibleFrom <= d /\ Observations[n].variable \in exposed}))

(* Plausible bug: the menu offers every signal of the book. *)
BuildMenuUnfiltered(s, a, d) ==
  Booked(MenuId(a, d), a, d,
        IdsIn(OfKind(s, "signal")) \o CollectVisibleObservations(a, d)
          \o IdsIn(ActiveExposures(a, d)), {}, <<>>)

BuildMenu(s, a, d) ==
  Booked(MenuId(a, d), a, d,
        CollectVisibleSignals(s, a, d) \o CollectVisibleObservations(a, d)
          \o IdsIn(ActiveExposures(a, d)), {}, <<>>)

(* The default profiles of the two helpers. *)
Profile(a) == <<"profile", a>>
WatchedSignals == {"report", "earnings"}
WatchedGroups == [a \in {Investor, Bank} |->
  IF a = Investor THEN {"fx", "rates", "financial_market", "expectations_narratives"}
                  ELSE {"rates", "credit", "real_estate", "energy_power"}]
WatchedExposures == [a \in {Investor, Bank} |->
  IF a = Investor
  THEN {"discount_rate", "translation", "narrative", "portfolio_translation_exposure",
        "valuation_discount_rate", "expected_return_pressure"}
  ELSE {"funding_cost", "collateral", "input_cost", "debt_service_burden", "collateral_value",
        "operating_cost_pressure", "covenant_pressure", "liquidity_pressure"}]

Watches(a, s, id) ==
  CASE Kind(id) = "signal" ->
         LET x == Lookup(s, id) IN x.data.type \in WatchedSignals \/ x.data.subject = Firm
    [] Kind(id) = "observation" -> Lookup(Observations, id).group \in WatchedGroups[a]
    [] Kind(id) = "exposure" ->
         LET x == Lookup(Exposures, id) IN {x.type, x.metric} \cap WatchedExposures[a] # {}

(* select_observations_for_profile(): in the order of the menu. *)
SelectFor(r, a, d) ==
  LET menu == Lookup(r.books, MenuId(a, d)).refs
  IN IF r.raised THEN r
     ELSE Put(r, Booked(SelectionId(a, d), a, d,
                   Picked(menu, {n \in DOMAIN menu : Watches(a, r.books, menu[n])}), {}, <<>>))

(* run_investor_bank_attention_demo() *)
RunAttention(r, d) ==
  LET profiled == Ensure(Ensure(r, Booked(Profile(Investor), Investor, 0, <<>>, {}, <<>>)),
                         Booked(Profile(Bank), Bank, 0, <<>>, {}, <<>>))
      first == Put(profiled, BuildMenu(profiled.books, Investor, d))
      second == Put(first, BuildMenu(first.books, Bank, d))
  IN SelectFor(SelectFor(second, Investor, d), Bank, d)

(* run_reference_endogenous_chain() *)
RunChain(r, d) ==
  LET attended == RunAttention(RunReporting(Registered(r, Firm), d), d)
      invested == RunReview(Registered(attended, Investor), Investor, d, <<SelectionId(Investor, d)>>)
  IN RunReview(Registered(invested, Bank), Bank, d, <<SelectionId(Bank, d)>>)

(***************************************************************************)
(* Evidence: resolve_actor_context()                                        *)
(***************************************************************************)
EvidenceBuckets == {"signal", "observation", "exposure", "environment", "firm state", "valuation"}

Among(refs, kind) == Picked(refs, {n \in DOMAIN refs : Kind(refs[n]) = kind})

ByBucket(refs) ==
  Among(refs, "signal") \o Among(refs, "observation") \o Among(refs, "exposure")
    \o Among(refs, "environment") \o Among(refs, "firm state") \o Among(refs, "valuation")

Present(s, ids) == Picked(ids, {n \in DOMAIN ids : ids[n] \in Known(s)})

ResolveContext(s, selections, explicit) ==
  LET cited == CollectSelectedRefs(s, Present(s, selections)) \o explicit
  IN [refs |-> ByBucket(Distinct(Present(s, cited))),
      missing |-> (ToSet(cited) \cup ToSet(selections)) \ Known(s)]

(***************************************************************************)
(* Mechanisms.  A pressure is in tenths for each of five dimensions, their    *)
(* mean in fiftieths, a confidence in thousandths, an estimate in 1/5 000 000 *)
(* of the baseline; a value that may be none is a set.                       *)
(***************************************************************************)
PressureDimensions ==
  [input_cost |-> [types |-> {"input_cost"}, groups |-> {"material", "input_costs", "raw_materials"}],
   energy_power |-> [types |-> {"input_cost"}, groups |-> {"energy_power", "energy"}],
   debt_service |-> [types |-> {"funding_cost", "discount_rate"}, groups |-> {"rates", "credit"}],
   fx_translation |-> [types |-> {"translation"}, groups |-> {"fx"}],
   logistics |-> [types |-> {"input_cost", "supply_chain"},
                  groups |-> {"logistics", "freight", "shipping"}]]

Least(m, n) == IF m < n THEN m ELSE n
Most(m, n) == IF m < n THEN n ELSE m
Clamp(n, top) == Most(0, Least(top, n))
SumOf(f(_), s) == FoldLeft(LAMBDA sum, x : sum + f(x), 0, s)

ComputePressure(dimension, observations, exposures) ==
  LET relevant == {o.variable : o \in {p \in ToSet(observations) : p.group \in dimension.groups}}
  IN Clamp(SumOf(LAMBDA x : IF x.type \in dimension.types /\ x.variable \in relevant
                            THEN x.magnitude ELSE 0, exposures), 10)

PressuresOf(observations, exposures) ==
  [name \in DOMAIN PressureDimensions |->
     ComputePressure(PressureDimensions[name], observations,
                     Picked(exposures, {n \in DOMAIN exposures : exposures[n].subject = Firm}))]

OverallPressure(p) ==
  p.input_cost + p.energy_power + p.debt_service + p.fx_translation + p.logistics

Chosen(s, ids) == [n \in DOMAIN ids |-> Lookup(s, ids[n])]

(* run_reference_firm_pressure_mechanism(): cites its signals alone. *)
AssessPressure(r, d, evidence) ==
  Put(Require(r, ToSet(evidence.signals)),
      Information("pressure", Firm, d, evidence.signals, {},
        PressuresOf(Chosen(Observations, evidence.observations),
                    Chosen(Exposures, evidence.exposures))))

(* _find_pressure_signal(): the first of the evidence, of whatever date. *)
IsPressure(s, id) ==
  Kind(id) = "signal" /\ Lookup(s, id).data.type = "pressure" /\ Lookup(s, id).data.subject = Firm
Pressures(s, refs) == Picked(refs, {n \in DOMAIN refs : IsPressure(s, refs[n])})

(* Pressure first, then the other signals but for further assessments.        *)
IsOther(s, id) == Kind(id) = "signal" /\ Lookup(s, id).data.type # "pressure"
OtherSignals(s, refs) == Picked(refs, {n \in DOMAIN refs : IsOther(s, refs[n])})
FirstOf(ids) == IF ids = <<>> THEN <<>> ELSE <<ids[1]>>

(* apply() of the valuation adapter *)
ApplyValuation(s, refs, selections, baseline, coefficient) ==
  LET pressures == Pressures(s, refs)
      overall == OverallPressure(Lookup(s, pressures[1]).data.payload)
      haircut == IF pressures = <<>> THEN 0 ELSE Clamp(coefficient * overall, 500)
  IN [estimate |-> {10000 * (500 - haircut) : b \in baseline},
      confidence |-> IF pressures # <<>> THEN Clamp(1000 - 8 * overall, 1000)
                     ELSE IF baseline = {} THEN 0 ELSE 1000,
      related |-> Distinct(FirstOf(pressures) \o OtherSignals(s, refs) \o selections)]

ClaimOf(id, valuer, d, related, missing, baseline, coefficient, conditioned, estimate, confidence) ==
  Booked(id, valuer, d, related, missing,
        [baseline |-> baseline, coefficient |-> coefficient, conditioned |-> conditioned,
         estimate |-> estimate, confidence |-> confidence])

(* run_reference_valuation_refresh_lite(): what it is given must be there.    *)
RefreshValuation(r, valuer, d, signals, selections, baseline, coefficient) ==
  LET checked == Require(r, ToSet(signals) \cup ToSet(selections))
      claim == ApplyValuation(r.books, signals, selections, baseline, coefficient)
  IN IF checked.raised THEN checked
     ELSE Put(checked, ClaimOf(ValuationId(d), valuer, d, claim.related, {}, baseline, coefficient,
                               FALSE, claim.estimate, claim.confidence))

(* The deltas of the attention-conditioned valuation.                       *)
MarketHaircuts(refs) ==
  LET markets == Chosen(Environments, Among(refs, "environment"))
  IN (IF \E n \in DOMAIN markets : markets[n].restrictive THEN 98 ELSE 100)
     * (IF \E n \in DOMAIN markets : markets[n].riskOff THEN 99 ELSE 100)

Attentive(confidence, refs, missing) ==
  LET present == {kind \in EvidenceBuckets : Among(refs, kind) # <<>>}
  IN Clamp(confidence + Least(100, 20 * Cardinality(present)) - Least(200, 50 * Cardinality(missing)),
           1000)

(* Plausible bug: what the frame surfaced is not among the related ids. *)
RefreshForgettingFrame(r, valuer, d, explicit, selections, baseline, coefficient, strict) ==
  LET frame == ResolveContext(r.books, selections, explicit)
      claim == ApplyValuation(r.books, frame.refs, selections, baseline, coefficient)
  IN IF ValuationId(d) \in Known(r.books) THEN r
     ELSE Put(r, ClaimOf(ValuationId(d), valuer, d, claim.related, frame.missing,
                 baseline, coefficient, TRUE,
                 {(e \div 10000) * MarketHaircuts(frame.refs) : e \in claim.estimate},
                 Attentive(claim.confidence, frame.refs, frame.missing)))

(* run_attention_conditioned_valuation_refresh_lite(): the claim of the id is *)
(* returned as it is, whoever made it; a selection that is not there is named *)
(* as missing and stays among the related ids.                              *)
RefreshAttentively(r, valuer, d, explicit, selections, baseline, coefficient, strict) ==
  LET frame == ResolveContext(r.books, selections, explicit)
      present == Present(r.books, selections)
      claim == ApplyValuation(r.books, frame.refs, present, baseline, coefficient)
  IN IF ValuationId(d) \in Known(r.books) THEN r
     ELSE IF strict /\ frame.missing # {} THEN Refused(r)
     ELSE Put(r, ClaimOf(ValuationId(d), valuer, d,
                 Distinct(claim.related \o frame.refs \o selections), frame.missing,
                 baseline, coefficient, TRUE,
                 {(e \div 10000) * MarketHaircuts(frame.refs) : e \in claim.estimate},
                 Attentive(claim.confidence, frame.refs, frame.missing)))

Doubt(claims) == 1000 * Len(claims) - SumOf(LAMBDA v : v.data.confidence, claims)

(* apply() of the credit-review adapter: scores, and which of the four        *)
(* expected channels there were.                                           *)
ApplyCreditReview(s, refs, selections) ==
  LET pressures == Pressures(s, refs)
      p == IF pressures = <<>> THEN [name \in DOMAIN PressureDimensions |-> 0]
           ELSE Lookup(s, pressures[1]).data.payload
      claims == Chosen(s, Among(refs, "valuation"))
      reports == {id \in ToSet(Among(refs, "signal")) : Lookup(s, id).data.type = "report"}
  IN [scores |-> [operating |-> OverallPressure(p), debtService |-> p.debt_service,
                  collateral |-> p.fx_translation, claims |-> Len(claims),
                  doubt |-> Doubt(claims)],
      covered |-> {channel \in {"pressure", "valuation", "report", "selection"} :
                     CASE channel = "pressure" -> pressures # <<>>
                       [] channel = "valuation" -> claims # <<>>
                       [] channel = "report" -> reports # {}
                       [] channel = "selection" -> selections # <<>>},
      related |-> Distinct(FirstOf(pressures) \o Among(refs, "valuation")
                             \o OtherSignals(s, refs) \o selections)]

CreditNote(b, d, review, missing, label) ==
  Information("credit", b, d, review.related, missing,
              [scores |-> review.scores, covered |-> review.covered, label |-> label])

(* run_reference_bank_credit_review_lite() *)
ReviewCredit(r, d, evidence, selections) ==
  LET checked == Require(r, ToSet(evidence) \cup ToSet(selections))
  IN IF checked.raised THEN checked
     ELSE Put(checked, CreditNote(Bank, d, ApplyCreditReview(r.books, evidence, selections), {}, {}))

(* The overall pressure is the mean of the four scores; 0.60 in thousandths of *)
(* four for each claim.                                                    *)
Heightened(x) ==
  LET n == Most(1, x.claims)
  IN n * (20 * x.operating + 100 * x.debtService + 100 * x.collateral) + x.doubt >= 2400 * n

(* _classify_watch_label(): the first that applies. *)
ClassifyWatchLabel(s, refs, scores) ==
  LET states == ToSet(Chosen(FirmStates, Among(refs, "firm state")))
      markets == ToSet(Chosen(Environments, Among(refs, "environment")))
  IN IF states = {} /\ Pressures(s, refs) = <<>> THEN "information_gap_review"
     ELSE IF \E x \in states : x.liquidity THEN "liquidity_watch"
     ELSE IF \E x \in states : x.funding THEN "refinancing_watch"
     ELSE IF \E m \in markets : m.restrictive THEN "market_access_watch"
     ELSE IF \E x \in states : x.access THEN "collateral_watch"
     ELSE IF Heightened(scores) THEN "heightened_review"
     ELSE "routine_monitoring"

(* run_attention_conditioned_bank_credit_review_lite(): a selection that is    *)
(* not there is named as missing and not cited.                             *)
ReviewCreditAttentively(r, d, explicit, selections, strict) ==
  LET frame == ResolveContext(r.books, selections, explicit)
      present == Present(r.books, selections)
      review == ApplyCreditReview(r.books, frame.refs, present)
  IN IF strict /\ frame.missing # {} THEN Refused(r)
     ELSE Put(r, CreditNote(Bank, d, review, frame.missing,
                            {ClassifyWatchLabel(r.books, frame.refs, review.scores)}))

(***************************************************************************)
(* The calls.  One that stores nothing changes nothing.                      *)
(***************************************************************************)
Calls(r) ==
  /\ chainCalls < MaxChainCalls
  /\ r.books # stored
  /\ stored' = r.books
  /\ chainCalls' = chainCalls + 1

Now == Begin(stored)
OwnSelections(a, d) == {<<>>} \cup {<<SelectionId(a, e)>> : e \in {e \in ChainDates : e <= d}}

Register(a) == Calls(Registered(Now, a))
Report(d) == Calls(RunReporting(Now, d))
Attend(d) == Calls(RunAttention(Now, d))
ReviewBy(a, d) == \E selections \in OwnSelections(a, d) : Calls(RunReview(Now, a, d, selections))
Chain(d) == Calls(RunChain(Now, d))
Assess(d) == \E evidence \in PressureEvidence : Calls(AssessPressure(Now, d, evidence))

Value(valuer, d) ==
  \E signals \in SignalLists, selections \in OwnSelections(valuer, d), baseline \in {{}, {1}} :
    Calls(RefreshValuation(Now, valuer, d, signals, selections, baseline, HaircutPerPressure))

ValueAttentively(valuer, d) ==
  \E explicit \in ExplicitLists, selections \in OwnSelections(valuer, d), strict \in BOOLEAN :
    Calls(RefreshAttentively(Now, valuer, d, explicit, selections, {1}, HaircutPerPressure, strict))

Credit(d) ==
  \E evidence \in SignalLists, selections \in OwnSelections(Bank, d) :
    Calls(ReviewCredit(Now, d, evidence, selections))

CreditAttentively(d) ==
  \E explicit \in ExplicitLists, selections \in OwnSelections(Bank, d), strict \in BOOLEAN :
    Calls(ReviewCreditAttentively(Now, d, explicit, selections, strict))

ChainInit == stored = EarlierSignals /\ chainCalls = 0

ChainNext ==
  \/ \E a \in Participants : Register(a)
  \/ \E d \in ChainDates :
       \/ Report(d) \/ Attend(d) \/ Chain(d) \/ Assess(d) \/ Credit(d) \/ CreditAttentively(d)
       \/ \E a \in {Investor, Bank} : ReviewBy(a, d) \/ Value(a, d) \/ ValueAttentively(a, d)

ChainSpec == ChainInit /\ [][ChainNext]_chainVars

(***************************************************************************)
(* Properties                                                              *)
(***************************************************************************)
(* Whatever a record rests on was in a book before it, or is named by the    *)
(* record itself as missing; calls that raised halfway, that were repeated or *)
(* made for earlier dates included (resolve_actor_context(),                 *)
(* execute_request(), the related_ids of the mechanisms).                    *)
CitesWhatWasStored ==
  \A n \in DOMAIN stored :
    ToSet(stored[n].refs) \subseteq
      Known(SubSeq(stored, 1, n - 1)) \cup stored[n].missing \cup {<<"actor", Firm>>}

(* What a review takes in had been visible to its own actor by its own date   *)
(* (collect_visible_signals(), collect_visible_variable_observations(),       *)
(* collect_active_exposures() and the selections between them).              *)
SeenBy(s, a, d, id) ==
  CASE Kind(id) = "signal" ->
         LET x == Lookup(s, id) IN x.date <= d /\ a \in x.data.viewers
    [] Kind(id) = "observation" -> Lookup(Observations, id).visibleFrom <= d
    [] Kind(id) = "exposure" ->
         LET x == Lookup(Exposures, id) IN x.subject = a /\ x.from <= d
    [] OTHER -> FALSE

ReviewsSawTheirEvidence ==
  \A n \in DOMAIN stored :
    LET run == stored[n] IN
      Kind(run.id) = "run" /\ run.actor # Firm =>
        \A id \in ToSet(run.refs) : SeenBy(stored, run.actor, run.date, id)

(* Evidence was there, and had been seen, before anything rested on it.       *)
EvidenceWasThere == CitesWhatWasStored /\ ReviewsSawTheirEvidence

(* A reader who has a valuation or a credit review and the records it cites   *)
(* can redo it: estimate, confidence and scores follow from the cited records *)
(* in their order, whatever the call was given besides, however many          *)
(* assessments of other dates there are by now (_find_pressure_signal(), the  *)
(* deltas of the attention-conditioned valuation, the related_ids).          *)
ClaimFollows(s, v) ==
  LET again == ApplyValuation(s, v.refs, <<>>, v.data.baseline, v.data.coefficient)
  IN IF v.data.conditioned
     THEN /\ v.data.estimate = {(e \div 10000) * MarketHaircuts(v.refs) : e \in again.estimate}
          /\ v.data.confidence = Attentive(again.confidence, v.refs, v.missing)
     ELSE /\ v.data.estimate = again.estimate
          /\ v.data.confidence = again.confidence

NoteFollows(s, x) ==
  LET again == ApplyCreditReview(s, x.refs, Among(x.refs, "selection"))
  IN again.scores = x.data.payload.scores /\ again.covered = x.data.payload.covered

ConclusionsFollowCitations ==
  \A n \in DOMAIN stored :
    LET x == stored[n] IN
      /\ Kind(x.id) = "valuation" => ClaimFollows(stored, x)
      /\ Kind(x.id) = "signal" => (x.data.type = "credit" => NoteFollows(stored, x))
=============================================================================
