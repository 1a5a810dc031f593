--------------------------- MODULE AttentionFeedback ---------------------------
(***************************************************************************)
(* Attention carried from one period to the next:                          *)
(* world/attention_feedback.py (the book, the rule tables, decay, crowding  *)
(* and saturation, the attention budget) and its reader, the memory         *)
(* selection of world/reference_living_world.py.                           *)
(*                                                                         *)
(* Cited records are abstracted to the rules they trigger (signals) and to  *)
(* the ids the record keeps per source tuple (refs).  Weights count half    *)
(* units: 2 is 1.0.                                                        *)
(***************************************************************************)
EXTENDS Integers, FiniteSets, SequencesExt

CONSTANTS
  Actors,
  Dates,              \* as_of_date, in date order
  ExplicitIds,        \* ids a caller may pass instead of the default ones
  Evidence,           \* what a call may cite: [signals, refs]
  Refs,               \* ids of cited records
  Horizons,           \* decay_horizon values callers pass
  Budgets,            \* per_dimension_budget values callers pass
  MaxFocusLabels,     \* _MAX_FOCUS_LABELS
  BaseSelectedRefs,   \* _BASE_MAX_SELECTED_REFS
  SelectedRefsCap,    \* _MAX_SELECTED_REFS_CAP
  MaxRecords          \* bound: no call is made once the ledger is that long

(* The rule tables in the order their triggers take precedence.  A signal   *)
(* stands for any cited record that makes the rule's condition true.       *)
Rules == <<
  [signal |-> "risk_intent", labels |-> {"firm_state", "market_environment", "market_access"},
   trigger |-> "risk_intent_observed"],
  [signal |-> "engagement_intent",
   labels |-> {"engagement", "dialogue", "stewardship", "escalation"},
   trigger |-> "engagement_intent_observed"],
  [signal |-> "low_confidence", labels |-> {"valuation", "firm_state", "market_environment"},
   trigger |-> "valuation_confidence_low"],
  [signal |-> "liquidity_watch", labels |-> {"firm_state", "market_environment", "funding"},
   trigger |-> "liquidity_or_refinancing_credit_review"],
  [signal |-> "access_watch", labels |-> {"market_environment", "market_access", "funding"},
   trigger |-> "liquidity_or_refinancing_credit_review"],
  [signal |-> "restrictive_market", labels |-> {"liquidity", "credit", "refinancing_window"},
   trigger |-> "restrictive_market_observed"],
  [signal |-> "pressure_access", labels |-> {"market_access", "funding", "risk"},
   trigger |-> "market_pressure_observed"],
  [signal |-> "pressure_adverse", labels |-> {"market_access", "financing", "risk"},
   trigger |-> "market_pressure_observed"],
  [signal |-> "pressure_dilution", labels |-> {"valuation", "dilution", "financing"},
   trigger |-> "market_pressure_observed"],
  [signal |-> "pressure_liquidity", labels |-> {"liquidity", "funding"},
   trigger |-> "market_pressure_observed"],
  [signal |-> "pressure_demand", labels |-> {"market_interest", "valuation"},
   trigger |-> "market_pressure_observed"],
  [signal |-> "pressure_gap", labels |-> {"information_gap"},
   trigger |-> "market_pressure_observed"],
  [signal |-> "path_conflict", labels |-> {"information_gap", "financing"},
   trigger |-> "financing_path_observed"],
  [signal |-> "path_access", labels |-> {"market_access", "financing"},
   trigger |-> "financing_path_observed"],
  [signal |-> "path_compare", labels |-> {"financing", "valuation"},
   trigger |-> "financing_path_observed"] >>

(* The focus labels in alphabetic order. *)
LabelOrder ==
  <<"credit", "dialogue", "dilution", "engagement", "escalation", "financing", "firm_state",
    "funding", "information_gap", "liquidity", "market_access", "market_environment",
    "market_interest", "memory", "refinancing_window", "risk", "stewardship", "valuation">>

Labels == ToSet(LabelOrder)
Signals == {Rules[i].signal : i \in DOMAIN Rules}
Alphabetic(l) == CHOOSE i \in DOMAIN LabelOrder : LabelOrder[i] = l

(* _MEMORY_FOCUS_TO_SOURCE_ATTR: which source tuple a label draws on. *)
SourceOf ==
  [firm_state |-> "firm_states", market_environment |-> "environments",
   valuation |-> "valuations", dialogue |-> "dialogues", engagement |-> "dialogues",
   escalation |-> "escalations"]

Sources == {SourceOf[l] : l \in DOMAIN SourceOf}

ASSUME DateAssumption == Dates \subseteq Nat
ASSUME EvidenceAssumption ==
  \A e \in Evidence : /\ e.signals \subseteq Signals
                      /\ DOMAIN e.refs = Sources
                      /\ \A s \in Sources : e.refs[s] \in Seq(Refs)
ASSUME BudgetAssumption ==
  /\ Horizons \subseteq Nat /\ Budgets \subseteq Nat /\ MaxRecords \in Nat
  /\ MaxFocusLabels \in Nat \ {0}
  /\ BaseSelectedRefs \in Nat /\ SelectedRefsCap \in Nat

VARIABLES
  states,      \* _attention_states, in insertion order
  feedbacks,   \* _feedbacks
  selections,  \* the memory selections in the attention book
  ledger       \* ids of the records the books appended

vars == <<states, feedbacks, selections, ledger>>

None == <<>>
ResetWeight == 2
DecayStep == 1

SmallerOf(a, b) == IF a <= b THEN a ELSE b
StatesOf(a) == {i \in DOMAIN states : states[i].actor = a}
KnownState(id) == \E i \in DOMAIN states : states[i].id = id
KnownFeedback(id) == \E f \in feedbacks : f.id = id

(* Plausible bug: the last state in the book, whoever it belongs to. *)
LatestInBook(a) == Len(states)

(* get_latest_for_actor(): the last one inserted, whatever its date; 0: none. *)
Latest(a) == Max(StatesOf(a) \cup {0})

(***************************************************************************)
(* Focus labels                                                            *)
(***************************************************************************)
Fired(signals) == {i \in DOMAIN Rules : Rules[i].signal \in signals}

FreshLabels(signals) ==
  LET found == UNION {Rules[i].labels : i \in Fired(signals)}
      conditions == {"risk_intent", "engagement_intent", "low_confidence", "liquidity_watch",
                     "access_watch", "restrictive_market"}
  IN found \cup (IF signals \cap conditions = {} THEN {"memory"} ELSE {})

Trigger(signals) ==
  IF Fired(signals) = {} THEN "routine_observed"
  ELSE Rules[CHOOSE i \in Fired(signals) : \A j \in Fired(signals) : i <= j].trigger

(* Plausible bug: a label is carried until its weight has run out. *)
CarriedToZero(prior, fresh, horizon) ==
  {l \in DOMAIN prior.stale \ fresh :
     /\ prior.stale[l] + 1 <= horizon
     /\ prior.weight[l] >= DecayStep}

(* Decay, before saturation: what the actor's last state passes on. *)
Carried(prior, fresh, horizon) ==
  {l \in DOMAIN prior.stale \ fresh :
     /\ prior.stale[l] + 1 <= horizon
     /\ prior.weight[l] > DecayStep}

(* Plausible bug: the count starts again with every state. *)
StaleCountRestarted(prior, fresh, horizon) ==
  [l \in fresh \cup Carried(prior, fresh, horizon) |-> 0]

StaleCount(prior, fresh, horizon) ==
  [l \in fresh \cup Carried(prior, fresh, horizon) |->
     IF l \in fresh THEN 0 ELSE prior.stale[l] + 1]

Weight(prior, fresh, horizon) ==
  [l \in fresh \cup Carried(prior, fresh, horizon) |->
     IF l \in fresh THEN ResetWeight ELSE prior.weight[l] - DecayStep]

(* Plausible bug: the alphabet alone decides. *)
DroppedAlphabetically(l, m, stale, weight) == Alphabetic(l) < Alphabetic(m)

(* The order in which saturation drops labels. *)
DroppedBefore(l, m, stale, weight) ==
  \/ stale[l] > stale[m]
  \/ stale[l] = stale[m] /\ weight[l] < weight[m]
  \/ stale[l] = stale[m] /\ weight[l] = weight[m] /\ Alphabetic(l) < Alphabetic(m)

(* saturation_policy "drop_oldest"; the code knows no other. *)
Saturated(stale, weight) ==
  {l \in DOMAIN stale :
     Cardinality({m \in DOMAIN stale : DroppedBefore(l, m, stale, weight)}) < MaxFocusLabels}

NoPrior == [id |-> None, stale |-> <<>>, weight |-> <<>>]
Prior(a) == IF Latest(a) = 0 THEN NoPrior ELSE states[Latest(a)]

NewState(id, a, d, e, horizon, budget) ==
  LET fresh == FreshLabels(e.signals)
      stale == StaleCount(Prior(a), fresh, horizon)
      weight == Weight(Prior(a), fresh, horizon)
      focus == Saturated(stale, weight)
  IN [id |-> id, actor |-> a, date |-> d, signals |-> e.signals, refs |-> e.refs,
      stale |-> [l \in focus |-> stale[l]], weight |-> [l \in focus |-> weight[l]],
      maxRefs |-> SmallerOf(BaseSelectedRefs + Cardinality(focus), SelectedRefsCap),
      budget |-> budget, horizon |-> horizon, previous |-> Prior(a).id]

NewFeedback(id, a, d, e, sid) ==
  [id |-> id, actor |-> a, date |-> d, state |-> sid, previous |-> Prior(a).id,
   trigger |-> Trigger(e.signals)]

(***************************************************************************)
(* build_attention_feedback(): nothing happens when both records exist.     *)
(* The state is stored before the feedback record is validated: with an     *)
(* empty feedback_type the call raises in between.                         *)
(***************************************************************************)
When(condition, s) == IF condition THEN s ELSE <<>>

(* Plausible bug: the book logs the state before it looks for a duplicate. *)
BuildFeedbackLoggingFirst(a, d, sid, fid, e, horizon, budget, typed) ==
  LET addsState == ~KnownState(sid)
      addsFeedback == typed /\ ~KnownFeedback(fid)
  IN /\ Len(ledger) < MaxRecords
     /\ ~(KnownState(sid) /\ KnownFeedback(fid))
     /\ states' = states \o When(addsState, <<NewState(sid, a, d, e, horizon, budget)>>)
     /\ feedbacks' = feedbacks \cup
          {f \in {NewFeedback(fid, a, d, e, sid)} : addsFeedback}
     /\ ledger' = ledger \o <<<<"state", sid>>>>
                         \o When(addsFeedback, <<<<"feedback", fid>>>>)
     /\ UNCHANGED selections

BuildFeedback(a, d, sid, fid, e, horizon, budget, typed) ==
  LET addsState == ~KnownState(sid)
      addsFeedback == typed /\ ~KnownFeedback(fid)
  IN /\ Len(ledger) < MaxRecords
     /\ ~(KnownState(sid) /\ KnownFeedback(fid))
     /\ states' = states \o When(addsState, <<NewState(sid, a, d, e, horizon, budget)>>)
     /\ feedbacks' = feedbacks \cup
          {f \in {NewFeedback(fid, a, d, e, sid)} : addsFeedback}
     /\ ledger' = ledger \o When(addsState, <<<<"state", sid>>>>)
                         \o When(addsFeedback, <<<<"feedback", fid>>>>)
     /\ UNCHANGED selections

(***************************************************************************)
(* The memory selection                                                    *)
(***************************************************************************)
(* Only labels that draw on a source have candidates; those without pick      *)
(* nothing when it is their turn.                                          *)
Drawing(s) == DOMAIN s.weight \cap DOMAIN SourceOf
Candidates(s, l) == s.refs[SourceOf[l]]

(* Weightier first, then alphabetic. *)
WalkedBefore(weight, l, m) ==
  weight[l] > weight[m] \/ (weight[l] = weight[m] /\ Alphabetic(l) < Alphabetic(m))

WalkOrder(s) ==
  LET Before(l) == {m \in Drawing(s) : WalkedBefore(s.weight, m, l)}
  IN [k \in 1..Cardinality(Drawing(s)) |->
        CHOOSE l \in Drawing(s) : Cardinality(Before(l)) = k - 1]

(* The refs taken one by one, each once, while there is room. *)
Take(out, r, room) == IF r \in ToSet(out) \/ Len(out) >= room THEN out ELSE Append(out, r)

TakeFrom(refs, picked, room) ==
  LET taken[n \in 0..Len(refs)] ==
        IF n = 0 THEN picked ELSE Take(taken[n - 1], refs[n], room)
  IN taken[Len(refs)]

(* Plausible bug: a ref already picked for another label uses up the budget. *)
PickCountingSeen(s, picked, l) ==
  LET offered == SubSeq(Candidates(s, l), 1, SmallerOf(s.budget, Len(Candidates(s, l))))
  IN TakeFrom(offered, picked, s.maxRefs)

(* One label's turn: its unseen refs, up to its budget and the total. *)
Pick(s, picked, l) ==
  TakeFrom(Candidates(s, l), picked, SmallerOf(Len(picked) + s.budget, s.maxRefs))

ApplyAttentionBudget(s) ==
  LET order == WalkOrder(s)
      walked[n \in 0..Len(order)] == IF n = 0 THEN <<>> ELSE Pick(s, walked[n - 1], order[n])
  IN walked[Len(order)]

Selected(a, d) == \E m \in selections : m.actor = a /\ m.date = d

(* Drawn from the actor's last state, when that one is strictly earlier. *)
BuildMemorySelection(a, d) ==
  /\ Len(ledger) < MaxRecords
  /\ Latest(a) # 0
  /\ states[Latest(a)].date < d
  /\ ApplyAttentionBudget(states[Latest(a)]) # <<>>
  /\ ~Selected(a, d)
  /\ selections' = selections \cup {[actor |-> a, date |-> d, from |-> Latest(a),
                                     refs |-> ApplyAttentionBudget(states[Latest(a)])]}
  /\ ledger' = Append(ledger, <<"selection", <<a, d>>>>)
  /\ UNCHANGED <<states, feedbacks>>

Init ==
  /\ states = <<>>
  /\ feedbacks = {}
  /\ selections = {}
  /\ ledger = <<>>

(* The default ids are one per actor and date. *)
IdsFor(a, d) == {<<a, d>>} \cup ExplicitIds

Next == \E a \in Actors, d \in Dates :
  \/ BuildMemorySelection(a, d)
  \/ \E sid, fid \in IdsFor(a, d), e \in Evidence, h \in Horizons, b \in Budgets,
        typed \in BOOLEAN : BuildFeedback(a, d, sid, fid, e, h, b, typed)

Spec == Init /\ [][Next]_vars

(***************************************************************************)
(* Properties                                                              *)
(***************************************************************************)
Ids == (Actors \X Dates) \cup ExplicitIds
Focus(s) == DOMAIN s.weight

(* The ledger holds one record per stored record and no other, through      *)
(* repeated calls, calls that fail half way and their retries (add_*: "emits *)
(* exactly one ledger record per call").                                   *)
LedgerMatchesBooks ==
  /\ IsInjective(ledger)
  /\ ToSet(ledger) = {<<"state", states[i].id>> : i \in DOMAIN states}
                       \cup {<<"feedback", f.id>> : f \in feedbacks}
                       \cup {<<"selection", <<m.actor, m.date>>>> : m \in selections}

(* Every state is linked to the state its actor got just before it, so each *)
(* actor's states form one chain, whatever the dates and ids of the calls.  *)
ChainPerActor ==
  \A i \in DOMAIN states :
    LET before == {j \in StatesOf(states[i].actor) : j < i}
    IN states[i].previous = IF before = {} THEN None ELSE states[Max(before)].id

(* A stale count is an age: the label was observed exactly that many of the  *)
(* actor's states ago and not since, and weighs that many steps less.  A     *)
(* label leaves the focus by whichever limit it meets first, the horizon of   *)
(* the call or a weight of zero.                                           *)
StaleCountIsAge ==
  \A i \in DOMAIN states : \A l \in Focus(states[i]) :
    LET age == states[i].stale[l]
        back == {j \in StatesOf(states[i].actor) : j <= i}
        Nth(n) == CHOOSE j \in back : Cardinality({k \in back : k > j}) = n
    IN /\ age < Cardinality(back)
       /\ l \in FreshLabels(states[Nth(age)].signals)
       /\ \A n \in 0..(age - 1) : l \notin FreshLabels(states[Nth(n)].signals)
       /\ states[i].weight[l] = ResetWeight - age * DecayStep
       /\ states[i].weight[l] > 0 /\ (age = 0 \/ age <= states[i].horizon)

(* Saturation keeps the focus within its cap and never gives up what this    *)
(* period's evidence showed for a label carried over from an earlier one.   *)
ObservedBeforeInherited ==
  \A i \in DOMAIN states : LET s == states[i] IN
    /\ Cardinality(Focus(s)) \in 1..MaxFocusLabels
    /\ \/ FreshLabels(s.signals) \subseteq Focus(s)
       \/ Cardinality(Focus(s)) = MaxFocusLabels /\ \A l \in Focus(s) : s.stale[l] = 0

(* A selection shows an actor what it had in view on an earlier date, and    *)
(* spends a finite budget on it by priority.  It splits into one            *)
(* stretch per label, heaviest label first; each holds at most the label's   *)
(* budget of refs not picked before, and less only when the total is        *)
(* reached or the label has nothing else to offer.                         *)
SelectionsSpendByPriority ==
  \A m \in selections :
    LET s == states[m.from]
        order == WalkOrder(s)
        Offered(i) == ToSet(Candidates(s, order[i]))
        Between(j, k) == ToSet(SubSeq(m.refs, j + 1, k))
    IN /\ s.actor = m.actor /\ s.date < m.date
       /\ IsInjective(m.refs)
       /\ Len(m.refs) <= s.maxRefs
       /\ \A i, j \in DOMAIN order : i < j => s.weight[order[i]] >= s.weight[order[j]]
       /\ \E cut \in [0..Len(order) -> 0..Len(m.refs)] :
            /\ cut[0] = 0 /\ cut[Len(order)] = Len(m.refs)
            /\ \A i \in DOMAIN order :
                 /\ cut[i] - cut[i - 1] \in 0..s.budget
                 /\ Between(cut[i - 1], cut[i]) \subseteq Offered(i)
                 /\ \/ cut[i] - cut[i - 1] = s.budget
                    \/ cut[i] = s.maxRefs
                    \/ Offered(i) \subseteq Between(0, cut[i])
=============================================================================
