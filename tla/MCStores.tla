------------------------------ MODULE MCStores ------------------------------
(***************************************************************************)
(* The stores that a kernel holds beside each other and that no step of      *)
(* another one touches.  A behaviour exercises one of them; together they    *)
(* make one run.                                                           *)
(***************************************************************************)
EXTENDS StressPrograms, RecordBooks, WorldBooks, StateStore, TraceGraph, MarketChain,
        ReferenceChain

VARIABLE store   \* the one that this behaviour exercises

Stores == {"stress", "books", "world", "state", "trace", "market", "chain"}

StoresInit ==
  /\ store \in Stores
  /\ Init /\ BooksInit /\ WorldInit /\ StateInit /\ TraceInit /\ MarketInit
  /\ ChainInit
  /\ store # "books" => event = CHOOSE e \in DOMAIN Books : TRUE
  /\ store # "trace" => recorded = CHOOSE r \in Recordings : TRUE

StoresNext ==
  \/ store = "stress" /\ Next
     /\ UNCHANGED <<store, bookVars, worldVars, stateVars, traceVars, marketVars, chainVars>>
  \/ store = "books" /\ BooksNext
     /\ UNCHANGED <<store, vars, worldVars, stateVars, traceVars, marketVars, chainVars>>
  \/ store = "world" /\ WorldNext
     /\ UNCHANGED <<store, vars, bookVars, stateVars, traceVars, marketVars, chainVars>>
  \/ store = "state" /\ StateNext
     /\ UNCHANGED <<store, vars, bookVars, worldVars, traceVars, marketVars, chainVars>>
  \/ store = "trace" /\ TraceNext
     /\ UNCHANGED <<store, vars, bookVars, worldVars, stateVars, marketVars, chainVars>>
  \/ store = "market" /\ MarketNext
     /\ UNCHANGED <<store, vars, bookVars, worldVars, stateVars, traceVars, chainVars>>
  \/ store = "chain" /\ ChainNext
     /\ UNCHANGED <<store, vars, bookVars, worldVars, stateVars, traceVars, marketVars>>

StoresSpec ==
  StoresInit /\ [][StoresNext]_<<store, vars, bookVars, worldVars, stateVars, traceVars, marketVars,
                          chainVars>>

(* Stress: two driver templates (one family with one shift, one with two) and *)
(* two programs, one of them with a step repeated; one id that several calls  *)
(* may give.                                                               *)
Shifts == [t \in Templates |-> IF t = "rates" THEN 1 ELSE 2]
TwoPrograms == [p \in Programs |-> IF p = "twin" THEN <<"rates", "credit">>
                                                 ELSE <<"credit", "credit", "rates">>]
SharedId == {<<"mine">>}

(* World: a loan between two owners, one whose lender is no party to it, a   *)
(* rule of each comparison, a claim without an estimate, prices in another    *)
(* currency and of zero, and quantities that round.                         *)
Order == <<"bank", "firm", "fund">>
Loan == [parties |-> {"bank", "firm"}, borrower |-> "firm", lender |-> "bank", principal |-> {4},
         collateral |-> {"share"}, status |-> "active"]
TwoContracts ==
  [loan |-> Loan,
   side |-> [Loan EXCEPT !.parties = {"firm"}, !.collateral = {}, !.principal = {1}]]
Rule(o, kind, threshold, warning, comparison, targets) ==
  [owner |-> o, kind |-> kind, threshold |-> threshold, warning |-> warning,
   comparison |-> comparison, targets |-> targets]
FewRules ==
  [leverage |-> Rule("firm", "max_leverage", <<1, 1>>, {<<1, 2>>}, "<=", {}),
   cover |-> Rule("firm", "min_collateral_coverage", <<1, 1>>, {}, ">=", {}),
   spread |-> Rule("bank", "max_single_asset_concentration", <<1, 2>>, {}, "<", {"share", "loan"})]
FewClaims == [old |-> [subject |-> "share", date |-> 1, estimate |-> {3}, currency |-> "yen"],
              new |-> [subject |-> "share", date |-> 2, estimate |-> {}, currency |-> "yen"]]
FewPrices == {[value |-> 0, currency |-> ""], [value |-> 3, currency |-> "dollar"]}

(* Trace: a diamond with a cycle, an edge that is no lineage and one without  *)
(* a period; batches that are not in the order of the sort key.             *)
TraceEdge(s, t, l, p, ev, ci, a) ==
  [source |-> s, target |-> t, label |-> l, period |-> p, category |-> "lineage",
   evidence |-> ev, citations |-> ci, actor |-> a]
SixEdges ==
  [a |-> TraceEdge("e2", "e1", "derived_from", "p1", <<"e1">>, <<>>, "bank"),
   b |-> TraceEdge("e1", "e3", "cited_as_evidence", "p1", <<"e1", "e2">>, <<"e2">>, ""),
   c |-> TraceEdge("e3", "e4", "derived_from", "", <<>>, <<"e3", "e3">>, "firm"),
   d |-> TraceEdge("e1", "e4", "reviewed_under", "p1", <<"e1">>, <<>>, "bank"),
   e |-> TraceEdge("e3", "e2", "constrained_by", "p1", <<>>, <<>>, "firm"),
   f |-> TraceEdge("e2", "e4", "contradicted_by", "p1", <<>>, <<>>, "bank")]
Ranks == [a |-> 3, b |-> 6, c |-> 1, d |-> 5, e |-> 2, f |-> 4]
SomeBatches == {<<"d", "b">>, <<"a", "e">>, <<"c">>, <<"f", "b">>}
FewRecordings == {{"e1", "e2", "e3"}, {"e4"}}

(* Market: a call that names four markets and one that names two of them and  *)
(* contradicts it; investors on both sides of the confidence thresholds;     *)
(* intents of another caller that close the market.                         *)
Markets ==
  [constrained |-> [credit_spreads |-> "restrictive", funding_market |-> "mixed",
                    liquidity_market |-> "tightening", equity_market |-> "restrictive"],
   easing      |-> [credit_spreads |-> "narrowing", funding_market |-> "easing"]]
Confidences == [fund |-> {30}, pension |-> {70}]
Focuses == {{"liquidity"}, {"engagement", "valuation"}}
Outside(i, l) == [investor |-> i, date |-> 1, label |-> l]
EarlyIntents == {Outside("fund", "reduce_interest"), Outside("pension", "liquidity_watch")}

(* Chain: rates and the yen move late; the firm owes at the one and sells in  *)
(* the other, the investor holds a position that ends, the bank one that      *)
(* begins late.  A leak that only the bank may see, earnings that come late.  *)
(* Evidence that may not be there yet, in an order that is not of dates.      *)
TwoObservations ==
  <<[id |-> <<"observation", "rate">>, variable |-> "rate", group |-> "rates", visibleFrom |-> 1],
    [id |-> <<"observation", "yen">>, variable |-> "yen", group |-> "fx", visibleFrom |-> 2]>>
Exposed(name, subject, variable, type, metric, magnitude, from, to) ==
  [id |-> <<"exposure", name>>, subject |-> subject, variable |-> variable, type |-> type,
   metric |-> metric, magnitude |-> magnitude, from |-> from, to |-> to]
FewExposures ==
  <<Exposed("debt", "firm", "rate", "funding_cost", "debt_service_burden", 7, 1, 2),
    Exposed("more", "firm", "rate", "discount_rate", "debt_service_burden", 6, 1, 2),
    Exposed("sales", "firm", "yen", "translation", "revenue", 5, 1, 2),
    Exposed("shares", "fund", "yen", "translation", "portfolio_translation_exposure", 3, 1, 1),
    Exposed("bonds", "fund", "rate", "discount_rate", "valuation_discount_rate", 3, 1, 2),
    Exposed("loan", "bank", "rate", "funding_cost", "collateral_value", 3, 2, 2)>>
TwoMarkets == <<[id |-> <<"environment", "tight">>, restrictive |-> TRUE, riskOff |-> FALSE],
                [id |-> <<"environment", "shy">>, restrictive |-> FALSE, riskOff |-> TRUE]>>
TwoStates == <<[id |-> <<"firm state", "short">>, liquidity |-> TRUE, funding |-> TRUE, access |-> FALSE],
               [id |-> <<"firm state", "shut">>, liquidity |-> FALSE, funding |-> FALSE, access |-> TRUE]>>
News(type, d, viewers) ==
  [Information(type, "firm", d, <<>>, {}, <<>>) EXCEPT !.data.viewers = viewers]
TwoSignals == <<News("leak", 1, {"bank"}), News("earnings", 2, {"firm", "fund", "bank"})>>
Evidence(observations, exposures, signals) ==
  [observations |-> observations, exposures |-> exposures, signals |-> signals]
FewEvidence ==
  {Evidence(IdsIn(TwoObservations), IdsIn(FewExposures), <<SignalId("report", "firm", 1)>>),
   Evidence(<<<<"observation", "rate">>>>, IdsIn(FewExposures), <<>>)}
BackToFront == <<SignalId("pressure", "firm", 2), SignalId("pressure", "firm", 1)>>
FewLists == {<<>>, BackToFront, <<SignalId("report", "firm", 1), ValuationId(1)>>}
FewFrames == {BackToFront,
              <<SignalId("pressure", "firm", 1), SignalId("report", "firm", 2), ValuationId(1)>>,
              IdsIn(TwoMarkets) \o IdsIn(TwoStates)}
=============================================================================
