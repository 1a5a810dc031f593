----------------------------- MODULE MarketChain -----------------------------
(***************************************************************************)
(* The market and financing chain of one period of the monthly living world  *)
(* (world/reference_living_world.py): market conditions, their readout and   *)
(* environment, the firm's financial state, what investors intend, how the   *)
(* market's interest in the firm's security adds up to a pressure, and the   *)
(* financing path that cites it.                                            *)
(*                                                                         *)
(* Every builder answers a second call for its date with the record it made  *)
(* first, whatever that call cites; and a call that raises between two        *)
(* phases leaves the records of the earlier ones.  So a period may be made   *)
(* of several calls, with other markets each.  There is one firm with one    *)
(* listed security; quantities in [0, 1] are hundredths.                    *)
(***************************************************************************)
EXTENDS Integers, Sequences, FiniteSets, SequencesExt, FiniteSetsExt, TLC

CONSTANTS
  MarketDates,     \* as_of_date
  Regimes,         \* sets of market specifications a call may be given
  Direction,       \* [Regimes -> [market types it names -> direction]]
  Investors,
  Confidence,      \* [Investors -> confidence of the valuation, {} without one]
  FocusSets,       \* attention focus labels an investor may have
  ReviewAccess,    \* market_access_label by the firm's position
  OutsideIntents,  \* [investor, date, label]: market intents of other callers
  MaxCalls         \* bound: calls that start

ASSUME MarketAssumption ==
  /\ MarketDates \subseteq Nat /\ MaxCalls \in Nat /\ IsFiniteSet(Investors)
  /\ \A i \in Investors : Confidence[i] \subseteq 0..100 /\ Cardinality(Confidence[i]) <= 1

(* No firm's position closes the market to it. *)
ASSUME ReviewAccessAssumption == ReviewAccess \notin {"constrained", "closed"}

VARIABLES
  marketCall,     \* [phase, date, regime] of the call that runs
  calls,          \* calls started
  conditions,     \* [date -> [market type -> direction]]
  readouts, environments,           \* [date -> record]
  firmStates,     \* in insertion order
  intents, marketIntents,           \* [<<investor, date>> -> record]
  interests, pressures, reviews, paths  \* [date -> record]

chain == <<conditions, readouts, environments, firmStates, intents, marketIntents,
           interests, pressures, reviews, paths>>
marketVars == <<marketCall, calls, chain>>

Phases == <<"conditions", "readout", "environment", "firm_state", "intents",
            "market_intents", "interest", "pressure", "financing">>
NoCall == [phase |-> 0]

(* Idempotent builders: what is there already stays. *)
Once(book, key, record) ==
  IF key \in DOMAIN book THEN book
  ELSE [k \in DOMAIN book \cup {key} |-> IF k = key THEN record ELSE book[k]]

(* The same for a phase that makes several records. *)
AddMissing(book, records) ==
  [k \in DOMAIN book \cup DOMAIN records |-> IF k \in DOMAIN book THEN book[k] ELSE records[k]]

(***************************************************************************)
(* Readout and environment                                                 *)
(***************************************************************************)
DirectionIn(cited, market) == IF market \in DOMAIN cited THEN cited[market] ELSE "unknown"

Restrictive == {"restrictive", "widening", "tightening"}
FundingSupportive == {"supportive", "easing", "narrowing", "open"}

OverallAccess(cited) ==
  LET credit == DirectionIn(cited, "credit_spreads") IN
    CASE DirectionIn(cited, "funding_market") \in FundingSupportive /\ credit \notin Restrictive
           -> "open_or_constructive"
      [] credit \in Restrictive /\ DirectionIn(cited, "liquidity_market") \in Restrictive
           -> "selective_or_constrained"
      [] OTHER -> "mixed"

LiquidityRegime(direction) ==
  CASE direction \in {"abundant", "easing"} -> "abundant"
    [] direction \in {"supportive", "stable", "mixed"} -> "normal"
    [] direction \in {"tightening", "restrictive", "stressed"} -> "tight"
    [] OTHER -> "unknown"

CreditRegime(direction) ==
  CASE direction \in {"easing", "narrowing", "supportive"} -> "easing"
    [] direction \in {"stable", "mixed"} -> "neutral"
    [] direction \in {"tightening", "widening"} -> "tightening"
    [] direction \in {"restrictive", "stressed"} -> "stressed"
    [] OTHER -> "unknown"

EquityRegime(direction) ==
  CASE direction \in {"supportive", "easing"} -> "supportive"
    [] direction \in {"stable", "mixed"} -> "neutral"
    [] direction \in {"tightening", "restrictive", "stressed"} -> "demanding"
    [] OTHER -> "unknown"

RefinancingWindow(funding) ==
  CASE funding \in {"supportive", "easing", "open", "stable", "mixed"} -> "open"
    [] funding = "tightening" -> "selective"
    [] funding \in {"restrictive", "constrained"} -> "closed"
    [] OTHER -> "unknown"

RiskAppetite(access, cited) ==
  LET liquidity == LiquidityRegime(DirectionIn(cited, "liquidity_market"))
      credit == CreditRegime(DirectionIn(cited, "credit_spreads"))
      equity == EquityRegime(DirectionIn(cited, "equity_market"))
  IN CASE access = "open_or_constructive" /\ equity = "supportive"
            /\ liquidity \in {"abundant", "normal"} -> "risk_on"
       [] access = "selective_or_constrained"
            /\ (liquidity = "tight" \/ credit \in {"tightening", "stressed"}) -> "risk_off"
       [] access = "unknown" -> "unknown"
       [] OTHER -> "neutral"

Environment(markets, access, cited) ==
  [markets |-> markets, access |-> access, risk |-> RiskAppetite(access, cited),
   window |-> RefinancingWindow(DirectionIn(cited, "funding_market"))]

(***************************************************************************)
(* The firm's state: steps on what was inserted last, clamped                *)
(***************************************************************************)
Step(value, by) == Max({0, Min({100, value + by})})
Baseline == [access |-> 50, debt |-> 50, liquidity |-> 50]
Previous(n) == IF n = 0 THEN Baseline ELSE firmStates[n]

NextFirmState(date, previous, readout) ==
  LET byAccess ==
        CASE readout.overall = "open_or_constructive" -> [access |-> -5, debt |-> -3]
          [] readout.overall = "selective_or_constrained" -> [access |-> 10, debt |-> 5]
          [] readout.overall = "mixed" -> [access |-> 2, debt |-> 0]
      byTone == IF readout.credit \in Restrictive THEN 5 ELSE 0
  IN [date |-> date,
      access |-> Step(previous.access, byAccess.access),
      debt |-> Step(Step(previous.debt, byAccess.debt), byTone),
      liquidity |-> Step(previous.liquidity, 2)]

(* funding_need_intensity is a third of this. *)
FundingNeed(state) == state.access + state.debt + state.liquidity
StateOf(d) == firmStates[SelectInSeq(firmStates, LAMBDA s : s.date = d)]

(***************************************************************************)
(* What an investor intends, for the firm and then for its security          *)
(***************************************************************************)
IntentDirection(state, readout, environment, confidence) ==
  LET restrictive == \/ "selective_or_constrained" \in {readout.overall, environment.access}
                     \/ environment.risk = "risk_off"
  IN CASE FundingNeed(state) >= 210 -> "deepen_due_diligence"
       [] state.access >= 65 \/ FundingNeed(state) >= 195 \/ restrictive -> "risk_flag_watch"
       [] \E c \in confidence : c < 40 -> "decrease_confidence"
       [] OTHER -> "engagement_watch"   \* the escalation candidate is always cited

EngagementFocus == {"engagement", "dialogue", "stewardship_theme", "stewardship"}
LiquidityFocus == {"liquidity", "funding"}
FirmFocus == {"firm_state", "valuation", "market_environment", "market_condition"}

(* classify_market_intent_direction(): the first rule that applies; an       *)
(* investor's intent and the firm's state are always cited.                *)
Classification(direction, confidence, access, label, focus) ==
  LET constrained == label \in {"constrained", "closed"}
      selective == label \in {"selective", "constrained", "closed"}
      constructive == label \in {"open", "open_or_constructive", "constructive"}
      diligent == direction = "deepen_due_diligence"
      below(n) == \E c \in confidence : c < n
  IN CASE direction = "engagement_watch" /\ focus \cap EngagementFocus # {}
            -> "engagement_linked_review"
       [] direction = "risk_flag_watch" -> "risk_reduction_review"
       [] diligent /\ (access >= 70 \/ constrained) -> "risk_reduction_review"
       [] focus \cap LiquidityFocus # {} /\ (selective \/ access >= 70) -> "liquidity_watch"
       [] below(40) /\ constrained -> "reduce_interest"
       [] diligent /\ below(50) /\ access >= 50 -> "reduce_interest"
       [] confidence # {} /\ ~below(60) /\ access < 40 /\ constructive
            /\ direction \in {"routine", "engagement_watch"} -> "increase_interest"
       [] focus \cap FirmFocus # {} -> "rebalance_review"
       [] OTHER -> "hold_review"

(***************************************************************************)
(* Interest and pressure: counts by bucket, and labels from counts          *)
(***************************************************************************)
Buckets == {"increased", "reduced", "neutral", "liquidity", "risk", "engagement"}

Bucket(label) ==
  CASE label = "increase_interest" -> "increased"
    [] label = "reduce_interest" -> "reduced"
    [] label = "liquidity_watch" -> "liquidity"
    [] label = "risk_reduction_review" -> "risk"
    [] label = "engagement_linked_review" -> "engagement"
    [] OTHER -> "neutral"

CountsOf(labels) == [b \in Buckets |-> Len(SelectSeq(labels, LAMBDA l : Bucket(l) = b))]
Total(counts) == MapThenSumSet(LAMBDA b : counts[b], Buckets)

NetInterest(counts) ==
  LET increased == counts["increased"] reduced == counts["reduced"] IN
    CASE Total(counts) = 0 -> "insufficient_observations"
      [] increased > reduced /\ increased >= counts["neutral"] -> "increased_interest"
      [] reduced > increased /\ reduced >= counts["neutral"] -> "reduced_interest"
      [] increased > 0 /\ reduced > 0 /\ increased - reduced \in -1..1 -> "mixed"
      [] OTHER -> "balanced"

LiquidityInterest(counts) ==
  CASE Total(counts) = 0 -> "unknown"
    [] counts["liquidity"] = 0 -> "low"
    [] counts["liquidity"] * 2 < Total(counts) -> "moderate"
    [] OTHER -> "high"

InterestConcentration(counts) ==
  LET occupied == Cardinality({b \in Buckets : counts[b] > 0}) IN
    CASE Total(counts) < 2 -> "insufficient_observations"
      [] occupied <= 1 -> "concentrated"
      [] occupied <= 3 -> "moderately_concentrated"
      [] OTHER -> "dispersed"

Interest(labels) ==
  LET counts == CountsOf(labels) IN
    [counts |-> counts, net |-> NetInterest(counts), liquidity |-> LiquidityInterest(counts),
     concentration |-> InterestConcentration(counts)]

(* Derived again from the counts, summed over the interests of the security. *)
Pressure(counts) ==
  LET interest == LiquidityInterest(counts)
      net == NetInterest(counts)
      liquidity == CASE interest = "unknown" -> "unknown"
                     [] interest = "low" -> "normal"
                     [] interest = "moderate" -> "thin"
                     [] OTHER -> IF Total(counts) >= 4 THEN "stressed" ELSE "tight"
      demand == CASE net = "increased_interest" -> "supportive"
                  [] net = "reduced_interest" ->
                       IF liquidity \in {"tight", "stressed"} THEN "adverse" ELSE "cautious"
                  [] OTHER -> net
      access == CASE demand = "insufficient_observations" -> "unknown"
                  [] demand = "adverse" \/ liquidity = "stressed" -> "constrained"
                  [] demand = "supportive" /\ liquidity = "normal" -> "open"
                  [] OTHER -> "selective"
      volatility == CASE liquidity = "stressed" -> "stressed"
                      [] liquidity \in {"tight", "thin"} -> "elevated"
                      [] liquidity = "normal" -> "calm"
                      [] OTHER -> "unknown"
      relevance == CASE access = "open" -> "supportive_for_equity_access"
                     [] access = "selective" ->
                          IF demand = "cautious" THEN "caution_for_dilution"
                          ELSE "neutral_for_financing"
                     [] access = "constrained" -> "adverse_for_market_access"
                     [] OTHER -> "insufficient_observations"
  IN [demand |-> demand, liquidity |-> liquidity, volatility |-> volatility,
      access |-> access, relevance |-> relevance]

(***************************************************************************)
(* Financing: the review heeds the pressure, and the path cites both         *)
(***************************************************************************)
Closing == {"constrained", "closed"}

(* Plausible bug: the review knows nothing of the pressure. *)
ReviewByPosition(pressure) == [access |-> ReviewAccess, dilution |-> "low"]

Review(pressure) ==
  [access |-> IF pressure.access \in Closing THEN pressure.access ELSE ReviewAccess,
   dilution |-> CASE pressure.relevance = "caution_for_dilution" -> "moderate"
                  [] pressure.relevance = "adverse_for_market_access" -> "high"
                  [] OTHER -> "low"]

NextReview(coherence, constraint) ==
  CASE coherence = "conflicting_evidence" -> "compare_options"
    [] constraint # "no_obvious_constraint" -> "escalate_to_capital_structure_review"
    [] OTHER -> "monitor"

(* build_corporate_financing_path() with two options and one review, whose    *)
(* leverage, liquidity, maturity and covenants are unremarkable.           *)
Path(review, pressure) ==
  LET constrains == pressure.access \in Closing
      coherence == IF constrains /\ review.access \in {"open", "selective"}
                   THEN "conflicting_evidence" ELSE "coherent"
      constraint == IF constrains \/ review.access \in Closing THEN "market_access_constraint"
                    ELSE IF review.dilution = "high" THEN "dilution_constraint"
                    ELSE "no_obvious_constraint"
  IN [coherence |-> coherence, constraint |-> constraint,
      next |-> NextReview(coherence, constraint)]

(***************************************************************************)
(* The phases of a period                                                   *)
(***************************************************************************)
MarketInit ==
  /\ marketCall = NoCall
  /\ calls = 0
  /\ conditions = [d \in MarketDates |-> <<>>]
  /\ firmStates = <<>>
  /\ readouts = <<>> /\ environments = <<>>
  /\ intents = <<>> /\ marketIntents = <<>>
  /\ interests = <<>> /\ pressures = <<>>
  /\ reviews = <<>> /\ paths = <<>>

StartPeriod(d, regime) ==
  /\ marketCall = NoCall
  /\ calls < MaxCalls
  /\ calls' = calls + 1
  /\ marketCall' = [phase |-> 1, date |-> d, regime |-> regime]
  /\ UNCHANGED chain

(* A phase in between raises: the call ends and its records stay. *)
Raise ==
  /\ marketCall # NoCall
  /\ marketCall' = NoCall
  /\ UNCHANGED <<calls, chain>>

In(name) == marketCall # NoCall /\ Phases[marketCall.phase] = name

Advance ==
  /\ marketCall' = IF marketCall.phase = Len(Phases) THEN NoCall
                   ELSE [marketCall EXCEPT !.phase = @ + 1]
  /\ UNCHANGED calls

day == marketCall.date
CitedMarkets == DOMAIN Direction[marketCall.regime]
Cited(d, markets) == [t \in markets |-> conditions[d][t]]

(* An id that is there already is not added again. *)
AddConditions ==
  /\ In("conditions")
  /\ conditions' = [conditions EXCEPT ![day] = AddMissing(@, Direction[marketCall.regime])]
  /\ Advance
  /\ UNCHANGED <<readouts, environments, firmStates, intents, marketIntents, interests,
                 pressures, reviews, paths>>

CapitalReadout(cited, markets) ==
  [markets |-> markets, overall |-> OverallAccess(cited),
   credit |-> DirectionIn(cited, "credit_spreads")]

(* Plausible bug: the call's own directions, not the ones that are cited. *)
BuildReadoutFromCall ==
  /\ In("readout")
  /\ readouts' = Once(readouts, day, CapitalReadout(Direction[marketCall.regime], CitedMarkets))
  /\ Advance
  /\ UNCHANGED <<conditions, environments, firmStates, intents, marketIntents, interests,
                 pressures, reviews, paths>>

BuildReadout ==
  /\ In("readout")
  /\ readouts' = Once(readouts, day, CapitalReadout(Cited(day, CitedMarkets), CitedMarkets))
  /\ Advance
  /\ UNCHANGED <<conditions, environments, firmStates, intents, marketIntents, interests,
                 pressures, reviews, paths>>

BuildEnvironment ==
  /\ In("environment")
  /\ environments' = Once(environments, day,
       Environment(CitedMarkets, readouts[day].overall, Cited(day, CitedMarkets)))
  /\ Advance
  /\ UNCHANGED <<conditions, readouts, firmStates, intents, marketIntents, interests,
                 pressures, reviews, paths>>

(* get_latest_for_firm() is the one inserted last, whatever its date. *)
UpdateFirmState ==
  /\ In("firm_state")
  /\ firmStates' =
       IF \E n \in DOMAIN firmStates : firmStates[n].date = day THEN firmStates
       ELSE Append(firmStates,
              NextFirmState(day, Previous(Len(firmStates)), readouts[day]))
  /\ Advance
  /\ UNCHANGED <<conditions, readouts, environments, intents, marketIntents, interests,
                 pressures, reviews, paths>>

NewIntent(i, d) == IntentDirection(StateOf(d), readouts[d], environments[d], Confidence[i])

FormIntents ==
  /\ In("intents")
  /\ intents' = AddMissing(intents, [k \in Investors \X {day} |-> NewIntent(k[1], day)])
  /\ Advance
  /\ UNCHANGED <<conditions, readouts, environments, firmStates, marketIntents, interests,
                 pressures, reviews, paths>>

MarketLabel(i, d, focus) ==
  Classification(intents[<<i, d>>], Confidence[i], StateOf(d).access, environments[d].access, focus)

(* The focus labels come from the attention states of the date. *)
FormMarketIntents(focus) ==
  /\ In("market_intents")
  /\ marketIntents' = AddMissing(marketIntents,
       [k \in Investors \X {day} |->
          [label |-> MarketLabel(k[1], day, focus[k[1]]), focus |-> {focus[k[1]]}]])
  /\ Advance
  /\ UNCHANGED <<conditions, readouts, environments, firmStates, intents, interests,
                 pressures, reviews, paths>>

(* Another caller gives an intent the id that a later period will look for. *)
AddOutsideIntent(o) ==
  /\ marketCall = NoCall
  /\ <<o.investor, o.date>> \notin DOMAIN marketIntents
  /\ marketIntents' =
       Once(marketIntents, <<o.investor, o.date>>, [label |-> o.label, focus |-> {}])
  /\ UNCHANGED <<marketCall, calls, conditions, readouts, environments, firmStates, intents,
                 interests, pressures, reviews, paths>>

LabelsOf(d) ==
  LET order == SetToSeq(Investors) IN [n \in DOMAIN order |-> marketIntents[<<order[n], d>>].label]

AggregateInterest ==
  /\ In("interest")
  /\ interests' = Once(interests, day, Interest(LabelsOf(day)))
  /\ Advance
  /\ UNCHANGED <<conditions, readouts, environments, firmStates, intents, marketIntents,
                 pressures, reviews, paths>>

BuildPressure ==
  /\ In("pressure")
  /\ pressures' = Once(pressures, day, Pressure(interests[day].counts))
  /\ Advance
  /\ UNCHANGED <<conditions, readouts, environments, firmStates, intents, marketIntents,
                 interests, reviews, paths>>

(* Need, two options, review and path, in this order; nothing in between      *)
(* raises.                                                                 *)
Finance ==
  /\ In("financing")
  /\ reviews' = Once(reviews, day, Review(pressures[day]))
  /\ paths' = Once(paths, day, Path(reviews'[day], pressures[day]))
  /\ Advance
  /\ UNCHANGED <<conditions, readouts, environments, firmStates, intents, marketIntents,
                 interests, pressures>>

MarketNext ==
  \/ \E d \in MarketDates, regime \in Regimes : StartPeriod(d, regime)
  \/ Raise
  \/ AddConditions \/ BuildReadout \/ BuildEnvironment \/ UpdateFirmState
  \/ FormIntents
  \/ \E focus \in [Investors -> FocusSets] : FormMarketIntents(focus)
  \/ \E o \in OutsideIntents : AddOutsideIntent(o)
  \/ AggregateInterest \/ BuildPressure \/ Finance

MarketSpec == MarketInit /\ [][MarketNext]_marketVars

(***************************************************************************)
(* Properties                                                              *)
(***************************************************************************)

(* However many calls a period took and whatever other markets they named,   *)
(* each label can be computed again from the records that its record cites,  *)
(* as they are in the books now: the records of the first call win together  *)
(* or not at all.                                                          *)
RecordsFollowCitations ==
  /\ \A d \in DOMAIN readouts :
       LET markets == readouts[d].markets IN
         /\ markets \subseteq DOMAIN conditions[d]
         /\ readouts[d] = CapitalReadout(Cited(d, markets), markets)
  /\ \A d \in DOMAIN environments :
       LET markets == environments[d].markets IN
         environments[d] = Environment(markets, readouts[d].overall, Cited(d, markets))
  /\ \A n \in DOMAIN firmStates :
       firmStates[n] = NextFirmState(firmStates[n].date, Previous(n - 1),
                                     readouts[firmStates[n].date])
  /\ \A k \in DOMAIN intents : intents[k] = NewIntent(k[1], k[2])
  /\ \A k \in DOMAIN marketIntents :
       \A focus \in marketIntents[k].focus : marketIntents[k].label = MarketLabel(k[1], k[2], focus)
  /\ \A d \in DOMAIN interests : interests[d] = Interest(LabelsOf(d))
  /\ \A d \in DOMAIN pressures : pressures[d] = Pressure(interests[d].counts)
  /\ \A d \in DOMAIN paths : paths[d] = Path(reviews[d], pressures[d])

(* A market that is closed to the firm is heard to the end of the chain, and  *)
(* only then: the review and the path of a date agree with the pressure they  *)
(* cite, so the firm is sent to its capital structure review and never to    *)
(* compare options on evidence that contradicts itself.                    *)
ClosedMarketReachesPath ==
  \A d \in DOMAIN paths :
    /\ paths[d].coherence = "coherent"
    /\ pressures[d].access \in Closing <=> paths[d].constraint = "market_access_constraint"
    /\ paths[d].next = "escalate_to_capital_structure_review" <=>
         paths[d].constraint = "market_access_constraint"
    /\ pressures[d].access \in Closing => reviews[d] = [access |-> pressures[d].access, dilution |-> "high"]

(* The design of the classifier gives the environment's overall access label  *)
(* this closed set; its rules test for members of it.                      *)
AccessLabelIsKnown ==
  \A d \in DOMAIN environments :
    environments[d].access \in {"open_or_constructive", "selective", "constrained", "closed", "unknown"}
=============================================================================
