---------------------------- MODULE LivingWorld ----------------------------
(***************************************************************************)
(* The periods of run_living_reference_world()                              *)
(* (world/reference_living_world.py): which records each period writes, in   *)
(* which order, what each cites, and what happens when one is there already.*)
(*                                                                         *)
(* The call is single-threaded.  Between calls the host chooses the next:   *)
(* other actors, earlier dates, another profile.  A call is abandoned where *)
(* a book refuses a duplicate or a record refuses a value of the caller's,  *)
(* and what it stored before stays.                                        *)
(*                                                                         *)
(* A record is known by its kind, the actors in its id and its date.        *)
(* Actor ids are sequences of the segments that ':' separates.  What the    *)
(* host seeds itself (observations, exposures) and labels are left out.     *)
(***************************************************************************)
EXTENDS Naturals, FiniteSets, SequencesExt

CONSTANTS
  Firms, Investors, Banks,  \* ids of actors
  Markets,                  \* ids of markets
  IndustryOf,               \* firm_to_industry
  Calls,                    \* arguments a host may pass
  ScenarioPeriod,           \* _DEFAULT_SCENARIO_SCHEDULED_PERIOD_INDEX + 1
  FocusSets,                \* kinds of evidence that an actor's focus labels may name
  MaxCalls                  \* bound: number of calls

Profiles == {"quarterly_default", "monthly_reference", "scenario_monthly_reference_universe"}

(* Steps that a caller's own values can make raise. *)
Refusable == {"industry_condition", "market_condition", "valuation"}

CallType ==
  [firms : Seq(Firms) \ {<<>>}, investors : Seq(Investors) \ {<<>>}, banks : Seq(Banks) \ {<<>>},
   dates : Seq(Nat \ {0}) \ {<<>>}, markets : Seq(Markets), profile : Profiles,
   refused : Refusable \cup {"nothing"}]

(* _MEMORY_FOCUS_TO_SOURCE_ATTR *)
Recallable == {"firm_state", "environment", "valuation", "dialogue", "escalation"}

ASSUME CallAssumption == Calls \subseteq CallType
ASSUME IndustryAssumption == DOMAIN IndustryOf = Firms
ASSUME FocusAssumption == FocusSets # {} /\ FocusSets \subseteq SUBSET Recallable
ASSUME BoundAssumption == MaxCalls \in Nat /\ ScenarioPeriod \in Nat \ {0}

(* x stands between two colons of an id that has these segments before its date. *)
Occurs(x, segments) ==
  \E j \in 2..(Len(segments) - Len(x) + 1) : SubSeq(segments, j, j + Len(x) - 1) = x

(* The segments of the ids that the call searches for an actor's id. *)
Segments(id) ==
  (CASE id.kind = "valuation" -> <<"valuation", "reference_lite">>
     [] id.kind = "credit_review" -> <<"signal", "bank_credit_review_note">>
     [] OTHER -> <<id.kind>>)
  \o id.who[1] \o id.who[2]

(* The searches find an actor's own records only if no id hides in another  *)
(* one.  The program does not check this of the ids it is given.           *)
IdsApart ==
  \A kind \in {"valuation", "credit_review", "intent", "dialogue", "escalation"} :
    \A a \in Investors \cup Banks, f \in Firms, x \in Firms \cup Investors \cup Banks :
      Occurs(x, Segments([kind |-> kind, who |-> <<a, f>>])) => x \in {a, f}
ASSUME IdAssumption == IdsApart

(* Nor does it check that an id names one actor or market only. *)
ASSUME ActorsAssumption ==
  /\ Firms \cup Investors \cup Banks \subseteq Seq(STRING)
  /\ Firms \cap (Investors \cup Banks) = {} /\ Investors \cap Banks = {}
  /\ Markets \cap (Investors \cup Banks) = {}

VARIABLES
  records,   \* the books: [id -> [at, by, cites]]
  call,      \* the arguments of the running call
  period,    \* period_idx + 1
  todo,      \* what this period still has to write, in order
  named,     \* ids the period has gathered in its locals
  prev,      \* prev_period_indicative_market_pressure_ids and ..._financing_path_ids
  calls      \* calls so far

vars == <<records, call, period, todo, named, prev, calls>>

Idle == [profile |-> "none"]
Running == call # Idle
Scenario(c) == c.profile = "scenario_monthly_reference_universe"
Today == call.dates[period]

(* Records of the set-up; their ids carry no date. *)
StandingKinds == {"venue", "security", "theme", "calendar", "template"}
Id(kind, who) ==
  [kind |-> kind, who |-> who, date |-> IF kind \in StandingKinds THEN 0 ELSE Today]

(***************************************************************************)
(* What a duplicate id does                                                *)
(***************************************************************************)
(* Plausible bug: a menu of that date is taken as it is. *)
RaisingExceptMenus ==
  {"scenario", "report", "firm_pressure", "credit_review", "investor_review", "bank_review"}

(* Adders whose error the call lets through.  All the others catch it, or   *)
(* look the id up first and return what is there.                          *)
Raising ==
  {"scenario", "report", "firm_pressure", "menu", "selection", "credit_review",
   "investor_review", "bank_review"}

(* Records that belong to a date or to the world, and to no call. *)
Shared ==
  StandingKinds \cup {"arrival", "industry_condition", "market_condition", "readout", "environment"}

(***************************************************************************)
(* The order of the writes                                                 *)
(***************************************************************************)
Once(kind) == <<[kind |-> kind, who |-> <<>>]>>
If(condition, steps) == IF condition THEN steps ELSE <<>>

(* Every kind for the first actor, then every kind for the next. *)
PerActor(kinds, actors) ==
  [k \in 1..(Len(kinds) * Len(actors)) |->
     [kind |-> kinds[((k - 1) % Len(kinds)) + 1], who |-> <<actors[((k - 1) \div Len(kinds)) + 1]>>]]

PerPair(kind, actors, firms) ==
  [k \in 1..(Len(actors) * Len(firms)) |->
     [kind |-> kind,
      who |-> <<actors[((k - 1) \div Len(firms)) + 1], firms[((k - 1) % Len(firms)) + 1]>>]]

SetupPlan(c) ==
  If(~Scenario(c), PerActor(<<"theme">>, c.investors)) \o Once("venue")
    \o PerActor(<<"security">>, c.firms)
    \o If(c.profile # "quarterly_default", Once("calendar")) \o If(Scenario(c), Once("template"))

ContextPlan(c, k) ==
  If(c.profile # "quarterly_default", Once("arrival"))
    \o If(Scenario(c) /\ k = ScenarioPeriod, Once("scenario"))
    \o PerActor(<<"report">>, c.firms) \o PerActor(<<"firm_pressure">>, c.firms)
    \o PerActor(<<"industry_condition">>, SetToSeq({IndustryOf[f] : f \in ToSet(c.firms)}))
    \o PerActor(<<"market_condition">>, c.markets)
    \o If(c.markets # <<>>, Once("readout") \o Once("environment"))
    \o PerActor(<<"firm_state">>, c.firms)

AttentionPlan(c) ==
  PerActor(<<"menu", "selection">>, c.investors \o c.banks)
    \o PerActor(<<"memory">>, c.investors \o c.banks)

AssessmentPlan(c) ==
  If(~Scenario(c), PerPair("valuation", c.investors, c.firms))
    \o PerActor(<<"liquidity">>, c.banks) \o PerPair("credit_review", c.banks, c.firms)

(* Plausible bug: intents before the escalations whose ids they spell out. *)
EngagementPlanIntentFirst(c) ==
  If(~Scenario(c),
     PerPair("dialogue", c.investors, c.firms) \o PerPair("intent", c.investors, c.firms)
       \o PerPair("escalation", c.investors, c.firms) \o PerActor(<<"response">>, c.firms))

EngagementPlan(c) ==
  If(~Scenario(c),
     PerPair("dialogue", c.investors, c.firms) \o PerPair("escalation", c.investors, c.firms)
       \o PerPair("intent", c.investors, c.firms) \o PerActor(<<"response">>, c.firms))

ClosingPlan(c) ==
  PerActor(<<"investor_review">>, c.investors) \o PerActor(<<"bank_review">>, c.banks)
    \o PerActor(<<"attention_state">>, c.investors \o c.banks)
    \o PerPair("market_intent", c.investors, c.firms) \o PerActor(<<"aggregated">>, c.firms)
    \o PerActor(<<"market_pressure">>, c.firms)
    \o PerActor(<<"need", "loan_option", "bond_option", "capital_review", "path">>, c.firms)

Plan(c, k) ==
  ContextPlan(c, k) \o AttentionPlan(c) \o AssessmentPlan(c) \o EngagementPlan(c) \o ClosingPlan(c)

(***************************************************************************)
(* One record                                                              *)
(***************************************************************************)
Turn == Head(todo)
Doing(kind) == Running /\ todo # <<>> /\ Turn.kind = kind
Actor == Turn.who[1]
Firm == Turn.who[Len(Turn.who)]
TurnId == Id(Turn.kind, Turn.who)

Named(kinds) == {id \in named : id.kind \in kinds}
NamedFor(kinds, who) == {id \in Named(kinds) : id.who = who}

(* Plausible bug: only the last segment of x is looked for. *)
MentioningLastSegment(kind, x) ==
  {id \in Named({kind}) : Occurs(<<x[Len(x)]>>, Segments(id))}

(* The ids among those gathered in which x is found as f":{x}:". *)
Mentioning(kind, x) == {id \in Named({kind}) : Occurs(x, Segments(id))}

(* What a book holds last for an actor, in the order of insertion. *)
Latest(kind, x) ==
  LET own == {id \in DOMAIN records : id.kind = kind /\ id.who = <<x>>} IN
  {id \in own : \A other \in own : records[other].at <= records[id].at}

(* A call that fails ends; the host may make another. *)
EndCall ==
  /\ call' = Idle /\ period' = 0
  /\ todo' = <<>> /\ named' = {} /\ prev' = {}
  /\ UNCHANGED <<records, calls>>

Add(cites) ==
  /\ Turn.kind # call.refused
  /\ Turn.kind \in Raising => TurnId \notin DOMAIN records
  /\ IF TurnId \in DOMAIN records
       THEN UNCHANGED records
       ELSE records' = [id \in {TurnId} \cup DOMAIN records |->
                          IF id = TurnId
                            THEN [at |-> Cardinality(DOMAIN records), by |-> calls, cites |-> cites]
                            ELSE records[id]]
  /\ named' = named \cup {TurnId}
  /\ todo' = Tail(todo)
  /\ UNCHANGED <<call, period, prev, calls>>

(* The step raises: a value of the caller's is no good, or the book has the id. *)
Raise ==
  /\ Running /\ todo # <<>>
  /\ \/ Turn.kind = call.refused
     \/ Turn.kind \in Raising /\ TurnId \in DOMAIN records
  /\ EndCall

(***************************************************************************)
(* The call                                                                *)
(***************************************************************************)
Init ==
  /\ records = <<>> /\ call = Idle /\ period = 0
  /\ todo = <<>> /\ named = {} /\ prev = {} /\ calls = 0

StartCall ==
  /\ ~Running /\ calls < MaxCalls
  /\ \E c \in Calls :
       /\ call' = c /\ period' = 1
       /\ todo' = SetupPlan(c) \o Plan(c, 1)
  /\ named' = {} /\ prev' = {}
  /\ calls' = calls + 1
  /\ UNCHANGED records

(* Plausible bug: what earlier periods left is kept. *)
NextPeriodKeepsAll ==
  /\ Running /\ todo = <<>> /\ period < Len(call.dates)
  /\ period' = period + 1
  /\ todo' = Plan(call, period + 1)
  /\ named' = {}
  /\ prev' = prev \cup Named({"market_pressure", "path"})
  /\ UNCHANGED <<records, call, calls>>

NextPeriod ==
  /\ Running /\ todo = <<>> /\ period < Len(call.dates)
  /\ period' = period + 1
  /\ todo' = Plan(call, period + 1)
  /\ named' = {}
  /\ prev' = Named({"market_pressure", "path"})
  /\ UNCHANGED <<records, call, calls>>

ReturnResult ==
  /\ Running /\ todo = <<>> /\ period = Len(call.dates)
  /\ EndCall

(***************************************************************************)
(* Set-up and the state of the world                                       *)
(***************************************************************************)
EnsureTheme == Doing("theme") /\ Add({})
EnsureVenue == Doing("venue") /\ Add({})
EnsureSecurity == Doing("security") /\ Add({Id("venue", <<>>)})
EnsureCalendar == Doing("calendar") /\ Add({})
EnsureTemplate == Doing("template") /\ Add({})

EmitArrivals == Doing("arrival") /\ Add({Id("calendar", <<>>)})
ApplyScenario == Doing("scenario") /\ Add({Id("template", <<>>)} \cup Named({"arrival"}))
Report == Doing("report") /\ Add({})
FirmPressure == Doing("firm_pressure") /\ Add(NamedFor({"report"}, <<Firm>>))
IndustryCondition == Doing("industry_condition") /\ Add({})
MarketCondition == Doing("market_condition") /\ Add({})
Readout == Doing("readout") /\ Add(Named({"market_condition"}))
Environment ==
  Doing("environment") /\ Add(Named({"market_condition", "readout", "industry_condition"}))

FirmState ==
  /\ Doing("firm_state")
  /\ Add(Named({"market_condition", "readout", "environment"})
           \cup NamedFor({"industry_condition"}, <<IndustryOf[Firm]>>)
           \cup NamedFor({"firm_pressure"}, <<Firm>>) \cup Latest("firm_state", Firm))

(***************************************************************************)
(* Attention                                                               *)
(***************************************************************************)
PublicSignals == {"report", "firm_pressure", "credit_review", "investor_review", "bank_review"}

(* Plausible bug: signals are listed whatever their effective date. *)
VisibleSignalsAnyDate == {id \in DOMAIN records : id.kind \in PublicSignals}

(* list_visible_to(as_of_date) *)
VisibleSignals == {id \in DOMAIN records : id.kind \in PublicSignals /\ id.date <= Today}

BuildMenu == Doing("menu") /\ Add(VisibleSignals)

(* The profiles of investors and banks pick corporate reports off the menu. *)
Select ==
  /\ Doing("selection")
  /\ \E menu \in NamedFor({"menu"}, <<Actor>>) :
       Add({menu} \cup {s \in records[menu].cites : s.kind = "report"})

(* Plausible bug: the latest state is remembered whatever its date. *)
PriorAnyDate(actor) == Latest("attention_state", actor)

(* The state an actor remembers: the latest one, if it is older than today. *)
Prior(actor) == {id \in Latest("attention_state", actor) : id.date < Today}

(* The refs the focus labels of the prior state name.  Budgets of 3 refs a  *)
(* label and 8 in all do not bind for two firms.                           *)
Remembered(actor, focus) ==
  UNION {{s \in records[state].cites : s.kind \in focus} : state \in Prior(actor)}

RecallMemory ==
  /\ Doing("memory")
  /\ \E focus \in FocusSets :
       /\ Remembered(Actor, focus) # {}
       /\ Add(Prior(Actor) \cup NamedFor({"menu"}, <<Actor>>) \cup Remembered(Actor, focus))

NothingToRecall ==
  /\ Doing("memory")
  /\ \E focus \in FocusSets : Remembered(Actor, focus) = {}
  /\ todo' = Tail(todo)
  /\ UNCHANGED <<records, call, period, named, prev, calls>>

(* What an actor's selections of this period hold (selected_refs). *)
Selections(actor) == NamedFor({"selection", "memory"}, <<actor>>)
Selected(actor) ==
  UNION {{s \in records[sel].cites : s.kind \in Recallable \cup {"report"}} : sel \in Selections(actor)}

(***************************************************************************)
(* Assessments and engagement                                              *)
(***************************************************************************)
Surroundings == Named({"readout", "environment"})
OwnEvidence(firm) == NamedFor({"report", "firm_pressure"}, <<firm>>)
PairValuations == Mentioning("valuation", Actor \o Firm)
Themes(investors) == {Id("theme", <<i>>) : i \in investors}

Valuation ==
  /\ Doing("valuation")
  /\ Add(Selections(Actor) \cup Selected(Actor) \cup OwnEvidence(Firm)
           \cup NamedFor({"firm_state"}, <<Firm>>) \cup Surroundings)

Liquidity == Doing("liquidity") /\ Add(Named({"environment"}))

CreditReview ==
  /\ Doing("credit_review")
  /\ Add(Selections(Actor) \cup Selected(Actor) \cup OwnEvidence(Firm)
           \cup Mentioning("valuation", Firm) \cup NamedFor({"firm_state"}, <<Firm>>)
           \cup Surroundings \cup NamedFor({"liquidity"}, <<Actor>>))

Dialogue ==
  Doing("dialogue") /\ Add(Themes({Actor}) \cup OwnEvidence(Firm) \cup PairValuations)

Escalation ==
  /\ Doing("escalation")
  /\ Add(Themes({Actor}) \cup NamedFor({"dialogue"}, Turn.who) \cup OwnEvidence(Firm)
           \cup PairValuations)

(* A record of an intent has no slot for signals; the escalation's id is    *)
(* formatted, not taken from what was stored.                              *)
Intent ==
  /\ Doing("intent")
  /\ Add({s \in Selected(Actor) : s.kind # "report"} \cup Selections(Actor) \cup Surroundings
           \cup Named({"market_condition"}) \cup NamedFor({"firm_state"}, <<Firm>>)
           \cup PairValuations \cup NamedFor({"dialogue"}, Turn.who)
           \cup {Id("escalation", Turn.who)} \cup Themes({Actor}))

Response ==
  /\ Doing("response")
  /\ Add(Themes(ToSet(call.investors))
           \cup {id \in Named({"dialogue"}) : id.who[2] = Firm} \cup OwnEvidence(Firm)
           \cup Mentioning("valuation", Firm)
           \cup NamedFor({"industry_condition"}, <<IndustryOf[Firm]>>)
           \cup Named({"market_condition", "environment"}))

Review ==
  /\ Doing("investor_review") \/ Doing("bank_review")
  /\ LET own == NamedFor({"selection"}, <<Actor>>) IN
     Add(own \cup {s \in Selected(Actor) : \E sel \in own : s \in records[sel].cites})

(* The state and the feedback that names the state before it. *)
AttentionState ==
  /\ Doing("attention_state")
  /\ Add(Latest("attention_state", Actor) \cup Named({"environment", "firm_state"}) \cup prev
           \cup (IF Actor \in Banks THEN Mentioning("credit_review", Actor)
                 ELSE UNION {Mentioning(kind, Actor) :
                               kind \in {"intent", "valuation", "dialogue", "escalation"}}))

(***************************************************************************)
(* Market interest and financing                                           *)
(***************************************************************************)
Listing == {Id("venue", <<>>), Id("security", <<Firm>>)}

MarketIntent ==
  /\ Doing("market_intent")
  /\ Add((Mentioning("intent", Actor) \cap Mentioning("intent", Firm))
           \cup (Mentioning("valuation", Actor) \cap Mentioning("valuation", Firm))
           \cup Named({"environment"}) \cup NamedFor({"firm_state"}, <<Firm>>) \cup Listing)

Aggregate ==
  /\ Doing("aggregated")
  /\ Add({id \in Named({"market_intent"}) : id.who[2] = Firm} \cup Named({"environment"}) \cup Listing)

MarketPressure ==
  /\ Doing("market_pressure")
  /\ Add(NamedFor({"aggregated"}, <<Firm>>) \cup Named({"environment"}) \cup Listing)

Funding(firm) ==
  Mentioning("credit_review", firm) \cup Mentioning("intent", firm)
    \cup Named({"environment", "liquidity"})

Need ==
  Doing("need") /\ Add(NamedFor({"firm_state", "report"}, <<Firm>>) \cup Named({"environment"}))

Option ==
  /\ Doing("loan_option") \/ Doing("bond_option")
  /\ Add(NamedFor({"need", "firm_state"}, <<Firm>>) \cup Funding(Firm))

CapitalReview ==
  /\ Doing("capital_review")
  /\ Add(NamedFor({"need", "loan_option", "bond_option", "firm_state", "market_pressure"}, <<Firm>>)
           \cup Funding(Firm))

Path ==
  /\ Doing("path")
  /\ Add(NamedFor({"need", "loan_option", "bond_option", "capital_review", "market_pressure"}, <<Firm>>)
           \cup Funding(Firm))

Next ==
  \/ StartCall \/ NextPeriod \/ ReturnResult \/ Raise
  \/ EnsureTheme \/ EnsureVenue \/ EnsureSecurity \/ EnsureCalendar \/ EnsureTemplate
  \/ EmitArrivals \/ ApplyScenario \/ Report \/ FirmPressure
  \/ IndustryCondition \/ MarketCondition \/ Readout \/ Environment \/ FirmState
  \/ BuildMenu \/ Select \/ RecallMemory \/ NothingToRecall
  \/ Valuation \/ Liquidity \/ CreditReview \/ Dialogue \/ Escalation \/ Intent \/ Response
  \/ Review \/ AttentionState
  \/ MarketIntent \/ Aggregate \/ MarketPressure \/ Need \/ Option \/ CapitalReview \/ Path

Spec == Init /\ [][Next]_vars

(***************************************************************************)
(* Properties                                                              *)
(***************************************************************************)
New == DOMAIN records' \ DOMAIN records

ActorsOf(id) == {id.who[k] : k \in DOMAIN id.who}

(* Kinds whose evidence on one firm is picked by searching ids for it. *)
FirmScoped ==
  {"dialogue", "escalation", "market_intent", "aggregated", "market_pressure", "need",
   "loan_option", "bond_option", "capital_review", "path"}

(* A record cites only ids the books already hold, although many are spelled*)
(* out again from actor and date rather than taken from the record; and the *)
(* substring searches hand an actor nothing of another's: what an investor's *)
(* or a bank's record cites of investors or banks is its own, and the       *)
(* financing chain and engagement of a firm cite that firm.  Menus list what *)
(* is public and are left out.                                             *)
CitationsResolve ==
  [][\A id \in New :
       /\ records'[id].cites \subseteq DOMAIN records
       /\ \A role \in {Investors, Banks, Firms} :
            /\ id.kind # "menu"
            /\ ActorsOf(id) \cap role # {}
            /\ role = Firms => id.kind \in FirmScoped
            => \A c \in records'[id].cites : ActorsOf(c) \cap role \subseteq ActorsOf(id)]_vars

(* Whatever calls came before, and wherever they failed, a period that gets *)
(* this far has itself written every record it names, except those that     *)
(* belong to the date alone: two calls' periods are never mixed.           *)
PeriodIsOneCalls ==
  \A id \in named : id.kind \notin Shared => records[id].by = calls

(* An attention state is fed the market pressures and financing paths of   *)
(* the previous period of the same call, all of them and no others.        *)
FeedbackCitesPreviousPeriod ==
  [][\A id \in New : id.kind = "attention_state" =>
       {c \in records'[id].cites : c.kind \in {"market_pressure", "path"}} =
         IF period = 1 THEN {}
         ELSE [kind : {"market_pressure", "path"}, who : {<<f>> : f \in ToSet(call.firms)},
               date : {call.dates[period - 1]}]]_vars

(* However the caller orders the dates, nothing of a later date is read,    *)
(* except what a record takes over from the state or the period before it. *)
NoLookahead ==
  [][\A id \in New : id.kind \notin StandingKinds =>
       \A c \in records'[id].cites :
         c.date > id.date =>
           \/ c.kind = id.kind /\ c.kind \in {"firm_state", "attention_state"}
           \/ id.kind = "attention_state" /\ c \in prev]_vars
=============================================================================
