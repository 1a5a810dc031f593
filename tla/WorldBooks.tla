----------------------------- MODULE WorldBooks -----------------------------
(***************************************************************************)
(* Who owns what, who owes what, what it costs: world/ownership.py,         *)
(* world/contracts.py and world/prices.py, and what is derived from them,    *)
(* world/balance_sheet.py, world/constraints.py, world/valuations.py and    *)
(* the exposures that spaces/banking and spaces/investors read.             *)
(*                                                                         *)
(* The books hold the present; each call also appends to the ledger.  The    *)
(* derived records are computed from the books when they are asked for and  *)
(* stand on the ledger only.  A call that raises changes nothing and is no   *)
(* step here.                                                              *)
(*                                                                         *)
(* Quantities are floats: integers, with gaps from Exact on.  Sums of values  *)
(* inside a view are exact here.  A value that may be None is a set of at    *)
(* most one element.                                                       *)
(***************************************************************************)
EXTENDS Integers, Sequences, FiniteSets, SequencesExt, FiniteSetsExt, TLC

CONSTANTS
  OwnerOrder,       \* agent ids, sorted
  Assets, CashAssets, \* asset ids; those of type cash in the registry
  Quantities,       \* quantities that a call may name
  PriceRecords,     \* [value, currency]
  Contracts,        \* [id -> [parties, borrower, lender, principal, collateral, status]]
  NewStatuses,      \* statuses that update_status() may be given
  Constraints,      \* [id -> [owner, kind, threshold, warning, comparison, targets]]
  Claims,           \* [id -> [subject, date, estimate, currency]]
  Exact,            \* below this power of two every integer is a float
  MaxFacts          \* bound: ledger records

ASSUME WorldBooksAssumption ==
  /\ OwnerOrder \in Seq(ToSet(OwnerOrder)) /\ IsInjective(OwnerOrder)
  /\ Exact \in Nat \ {0, 1} /\ MaxFacts \in Nat /\ Quantities \subseteq Nat \ {0}
  /\ \A v \in DOMAIN Claims : Claims[v].subject \in Assets

VARIABLES
  positions,     \* [<<owner, asset>> -> quantity]
  statuses,      \* [contract -> status]: the contracts there are
  prices,        \* [asset -> sequence of price records], each with its metadata's currency
  rules,         \* constraints, in insertion order
  valuations,    \* claims, in insertion order
  facts          \* the ledger

worldVars == <<positions, statuses, prices, rules, valuations, facts>>

Owners == ToSet(OwnerOrder)

(***************************************************************************)
(* Floats: to nearest, ties to even                                        *)
(***************************************************************************)
Ulp(n) ==
  LET ulp[m \in 0..n] == IF m < Exact THEN 1 ELSE 2 * ulp[m \div 2]
  IN ulp[n]

Float(n) ==
  LET u == Ulp(n) IN
    IF 2 * (n % u) < u \/ (2 * (n % u) = u /\ (n \div u) % 2 = 0)
      THEN n - (n % u) ELSE n - (n % u) + u

(***************************************************************************)
(* What the projections read: the three books at a moment, each price       *)
(* without its currency                                                    *)
(***************************************************************************)
ValuesOf(history) == [h \in DOMAIN history |-> history[h].value]
Books3 == [positions |-> positions, statuses |-> statuses,
           prices |-> [a \in Assets |-> ValuesOf(prices[a])]]

(* get_latest_price(): the one set last, whatever its date. *)
Latest(b, a) == IF b.prices[a] = <<>> THEN {} ELSE {Last(b.prices[a])}
Price(b, a) == IF b.prices[a] = <<>> THEN 0 ELSE Last(b.prices[a])
Held(b, o) == {a \in Assets : <<o, a>> \in DOMAIN b.positions}
Priced(b, S) == {a \in S : Latest(b, a) # {}}
ListByParty(b, o) == {c \in DOMAIN b.statuses : o \in Contracts[c].parties}
Principal(c) == CHOOSE p \in Contracts[c].principal : TRUE

(* list_portfolio_exposures(): the market value of each priced position. *)
PortfolioExposures(b, o) ==
  [a \in Priced(b, Held(b, o)) |-> b.positions[<<o, a>>] * Price(b, a)]

(* list_lending_exposures(): the role comes from the metadata alone, after   *)
(* the party check; a settled contract counts.                             *)
LendingExposures(b, o) == {c \in ListByParty(b, o) : Contracts[c].lender = o}

(* build_view().  Contract status is not looked at. *)
View(b, o) ==
  LET owed == {c \in ListByParty(b, o) : Contracts[c].principal # {} /\ Contracts[c].borrower = o}
      lent == {c \in LendingExposures(b, o) : Contracts[c].principal # {}}
      breakdown == PortfolioExposures(b, o) @@ [c \in lent |-> Principal(c)]
      pledged == UNION {Contracts[c].collateral : c \in owed}
      cash == CashAssets \cap DOMAIN breakdown
  IN [breakdown   |-> breakdown,
      assets      |-> MapThenSumSet(LAMBDA i : breakdown[i], DOMAIN breakdown),
      owed        |-> owed,
      liabilities |-> MapThenSumSet(Principal, owed),
      cash        |-> IF cash = {} THEN {} ELSE {MapThenSumSet(LAMBDA i : breakdown[i], cash)},
      collateral  |-> IF pledged = {} THEN {}
                      ELSE {MapThenSumSet(LAMBDA c :
                              MapThenSumSet(LAMBDA a : Price(b, a), Contracts[c].collateral), owed)},
      missing     |-> (Held(b, o) \cup pledged) \ Priced(b, Assets)]

(***************************************************************************)
(* The derivers and the classification of constraints.py.  A measure is a    *)
(* ratio with a positive denominator, or nothing.                          *)
(***************************************************************************)
Ratio(n, d) == IF d > 0 THEN {<<n, d>>} ELSE IF d < 0 THEN {<<-n, -d>>} ELSE {}
Less(r, q) == r[1] * q[2] < q[1] * r[2]

Concentration(view, targets) ==
  LET relevant == IF targets = {} THEN DOMAIN view.breakdown
                  ELSE targets \cap DOMAIN view.breakdown
  IN IF relevant = {} THEN {}
     ELSE Ratio(Max({view.breakdown[i] : i \in relevant}), view.assets)

Measure(view, rule) ==
  CASE rule.kind = "max_leverage" -> Ratio(view.liabilities, view.assets)
    [] rule.kind = "min_net_asset_value" -> Ratio(view.assets - view.liabilities, 1)
    [] rule.kind = "min_cash_like_assets" -> UNION {Ratio(c, 1) : c \in view.cash}
    [] rule.kind = "min_collateral_coverage" ->
         UNION {Ratio(c, view.liabilities) : c \in view.collateral}
    [] rule.kind = "max_single_asset_concentration" -> Concentration(view, rule.targets)
    [] OTHER -> {}

IsViolation(current, ref, comparison) ==
  CASE comparison = "<=" -> Less(ref, current)
    [] comparison = "<"  -> ~Less(current, ref)
    [] comparison = ">=" -> Less(current, ref)
    [] comparison = ">"  -> ~Less(ref, current)
    [] comparison = "==" -> Less(current, ref) \/ Less(ref, current)

Classify(view, rule) ==
  LET measure == Measure(view, rule)
      violates(ref) == \E m \in measure : IsViolation(m, ref, rule.comparison)
  IN CASE measure = {} -> "unknown"
       [] violates(rule.threshold) -> "breached"
       [] ~violates(rule.threshold) /\ (\E w \in rule.warning : violates(w)) -> "warning"
       [] OTHER -> "ok"

(***************************************************************************)
(* Operations                                                              *)
(***************************************************************************)
WorldInit ==
  /\ positions = <<>>
  /\ statuses = <<>>
  /\ prices = [a \in Assets |-> <<>>]
  /\ rules = <<>>
  /\ valuations = <<>>
  /\ facts = <<>>

Tells(told) ==
  /\ Len(facts) < MaxFacts
  /\ facts' = facts \o told

Entered(f, k, v) == [x \in DOMAIN f \cup {k} |-> IF x = k THEN v ELSE f[x]]
Without(f, k) == [x \in DOMAIN f \ {k} |-> f[x]]
Amount(held, o, a) == IF <<o, a>> \in DOMAIN held THEN held[<<o, a>>] ELSE 0
Quantity(o, a) == Amount(positions, o, a)

(* Plausible bug: the position there is already is not looked up. *)
AddPositionAnew(o, a, q) ==
  /\ positions' = Entered(positions, <<o, a>>, q)
  /\ Tells(<<[type |-> "ownership_position_added", owner |-> o, asset |-> a,
              delta |-> q, new |-> Float(Quantity(o, a) + q)]>>)
  /\ UNCHANGED <<statuses, prices, rules, valuations>>

(* add_position(): an existing position grows. *)
AddPosition(o, a, q) ==
  LET new == Float(Quantity(o, a) + q) IN
    /\ positions' = Entered(positions, <<o, a>>, new)
    /\ Tells(<<[type |-> "ownership_position_added", owner |-> o, asset |-> a,
                delta |-> q, new |-> new]>>)
    /\ UNCHANGED <<statuses, prices, rules, valuations>>

(* Plausible bug: what is left is computed from the sum of both positions. *)
TransferLosingRemainder(a, from, to, q) ==
  /\ from # to /\ <<from, a>> \in DOMAIN positions /\ q <= positions[<<from, a>>]
  /\ LET total == Float(Quantity(to, a) + q)
         left == Float(positions[<<from, a>>] + Quantity(to, a)) - total
         rest == IF left <= 0 THEN Without(positions, <<from, a>>)
                 ELSE [positions EXCEPT ![<<from, a>>] = left]
     IN /\ positions' = Entered(rest, <<to, a>>, total)
        /\ Tells(<<[type |-> "ownership_transferred", asset |-> a, from |-> from, to |-> to,
                    quantity |-> q, left |-> left, total |-> total]>>)
  /\ UNCHANGED <<statuses, prices, rules, valuations>>

(* transfer(): every check comes before the first change.  The position goes *)
(* when exactly nothing is left.                                           *)
Transfer(a, from, to, q) ==
  /\ from # to /\ <<from, a>> \in DOMAIN positions /\ q <= positions[<<from, a>>]
  /\ LET left == Float(positions[<<from, a>>] - q)
         total == Float(Quantity(to, a) + q)
         rest == IF left = 0 THEN Without(positions, <<from, a>>)
                 ELSE [positions EXCEPT ![<<from, a>>] = left]
     IN /\ positions' = Entered(rest, <<to, a>>, total)
        /\ Tells(<<[type |-> "ownership_transferred", asset |-> a, from |-> from, to |-> to,
                    quantity |-> q, left |-> left, total |-> total]>>)
  /\ UNCHANGED <<statuses, prices, rules, valuations>>

AddContract(c) ==
  /\ c \notin DOMAIN statuses
  /\ statuses' = Entered(statuses, c, Contracts[c].status)
  /\ Tells(<<[type |-> "contract_created", contract |-> c, status |-> Contracts[c].status]>>)
  /\ UNCHANGED <<positions, prices, rules, valuations>>

UpdateStatus(c, status) ==
  /\ c \in DOMAIN statuses
  /\ statuses' = [statuses EXCEPT ![c] = status]
  /\ Tells(<<[type |-> "contract_status_updated", contract |-> c,
              previous |-> statuses[c], status |-> status]>>)
  /\ UNCHANGED <<positions, prices, rules, valuations>>

(* set_price(): appended; neither sign nor date is checked.  The metadata of *)
(* the record, the currency with it, stays in the book.                    *)
SetPrice(a, price) ==
  /\ prices' = [prices EXCEPT ![a] = Append(@, price)]
  /\ Tells(<<[type |-> "price_updated", asset |-> a, price |-> price.value,
              historyLength |-> Len(prices[a]) + 1]>>)
  /\ UNCHANGED <<positions, statuses, rules, valuations>>

(* sorted(S, key): one element per key. *)
InKeyOrder(S, key) ==
  [n \in 1..Cardinality(S) |-> CHOOSE x \in S : Cardinality({y \in S : key[y] <= key[x]}) = n]

(* snapshot() of the projector: one record per agent found in the books, in  *)
(* the order of the ids.                                                   *)
Discovered ==
  {n \in DOMAIN OwnerOrder : \/ Held(Books3, OwnerOrder[n]) # {}
                             \/ ListByParty(Books3, OwnerOrder[n]) # {}}

SnapshotViews ==
  LET found == InKeyOrder(Discovered, [n \in Discovered |-> n]) IN
  /\ Discovered # {}
  /\ Tells([n \in DOMAIN found |->
       LET view == View(Books3, OwnerOrder[found[n]]) IN
         [type |-> "balance_sheet_view_created", agent |-> OwnerOrder[found[n]],
          assets |-> view.assets, liabilities |-> view.liabilities]])
  /\ UNCHANGED <<positions, statuses, prices, rules, valuations>>

AddConstraint(k) ==
  /\ k \notin ToSet(rules)
  /\ rules' = Append(rules, k)
  /\ Tells(<<[type |-> "constraint_added", constraint |-> k]>>)
  /\ UNCHANGED <<positions, statuses, prices, valuations>>

Evaluation(b, k) ==
  [type |-> "constraint_evaluated", constraint |-> k,
   status |-> Classify(View(b, Constraints[k].owner), Constraints[k])]

(* Positions in the list of constraints; the list itself is in insertion order. *)
RulesOf(o) == {n \in DOMAIN rules : Constraints[rules[n]].owner = o}

(* Plausible bug: one view, of the agent that was evaluated first. *)
EvaluationsOfFirst(S, key) ==
  LET order == InKeyOrder(S, key)
  IN [n \in DOMAIN order |->
        [type |-> "constraint_evaluated", constraint |-> rules[order[n]],
         status |-> Classify(View(Books3, OwnerOrder[1]), Constraints[rules[order[n]]])]]

Evaluations(S, key) ==
  LET order == InKeyOrder(S, key)
  IN [n \in DOMAIN order |-> Evaluation(Books3, rules[order[n]])]

EvaluateOwner(o) ==
  /\ RulesOf(o) # {}
  /\ Tells(Evaluations(RulesOf(o), [n \in RulesOf(o) |-> n]))
  /\ UNCHANGED <<positions, statuses, prices, rules, valuations>>

(* Owner by owner, in the order of their ids. *)
EvaluateAll ==
  LET owned == UNION {RulesOf(o) : o \in Owners}
      place(n) == CHOOSE i \in DOMAIN OwnerOrder : OwnerOrder[i] = Constraints[rules[n]].owner
  IN /\ rules # <<>>
     /\ Tells(Evaluations(owned, [n \in owned |-> place(n) * Len(rules) + n]))
     /\ UNCHANGED <<positions, statuses, prices, rules, valuations>>

AddClaim(v) ==
  /\ v \notin ToSet(valuations)
  /\ valuations' = Append(valuations, v)
  /\ Tells(<<[type |-> "valuation_added", claim |-> v]>>)
  /\ UNCHANGED <<positions, statuses, prices, rules>>

(* The currency of the latest price of a moment.  The ledger leaves it out,   *)
(* so it is read from the price book, whose histories only grow.            *)
PriceCurrency(b, a) == {prices[a][h].currency : h \in {Len(b.prices[a])} \ {0}}

(* _build_gap(): the first reason that applies; a gap only without one, or   *)
(* with a price of zero.                                                   *)
Gap(b, v, currency) ==
  LET claim == Claims[v]
      observed == Latest(b, claim.subject)
      foreign == claim.currency # "unspecified" /\ currency \ {"", claim.currency} # {}
      reason == IF claim.estimate = {} THEN "estimated_value_unavailable"
                ELSE IF observed = {} THEN "missing_price"
                ELSE IF foreign THEN "currency_mismatch"
                ELSE IF observed = {0} THEN "observed_price_zero"
                ELSE ""
  IN [reason   |-> reason,
      observed |-> observed,
      absolute |-> IF reason \in {"", "observed_price_zero"}
                   THEN {e - p : e \in claim.estimate, p \in observed} ELSE {}]

(* compare_to_latest_price(); the record cites the one of the claim. *)
Compare(v) ==
  /\ v \in ToSet(valuations)
  /\ Tells(<<[type |-> "valuation_compared", claim |-> v,
              gap |-> Gap(Books3, v, PriceCurrency(Books3, Claims[v].subject)),
              parent |-> SelectInSeq(facts, LAMBDA f : f.type = "valuation_added" /\ f.claim = v)]>>)
  /\ UNCHANGED <<positions, statuses, prices, rules, valuations>>

(* get_latest_by_subject(): the highest date, the last added among equals. *)
LatestClaim(a) ==
  LET about == SelectSeq(valuations, LAMBDA v : Claims[v].subject = a)
      newest == SelectSeq(about, LAMBDA v : \A w \in ToSet(about) : Claims[w].date <= Claims[v].date)
  IN {newest[Len(newest)] : n \in DOMAIN newest}

CompareSubjectLatest(a) == \E v \in LatestClaim(a) : Compare(v)

WorldNext ==
  \/ \E a \in Assets :
       \/ \E o \in Owners, q \in Quantities : AddPosition(o, a, q)
       \/ \E from, to \in Owners, q \in Quantities : Transfer(a, from, to, q)
       \/ \E price \in PriceRecords : SetPrice(a, price)
       \/ CompareSubjectLatest(a)
  \/ \E c \in DOMAIN Contracts :
       \/ AddContract(c)
       \/ \E status \in NewStatuses : UpdateStatus(c, status)
  \/ \E k \in DOMAIN Constraints : AddConstraint(k)
  \/ \E o \in Owners : EvaluateOwner(o)
  \/ EvaluateAll
  \/ SnapshotViews
  \/ \E v \in DOMAIN Claims : AddClaim(v) \/ Compare(v)

WorldSpec == WorldInit /\ [][WorldNext]_worldVars

(***************************************************************************)
(* Properties                                                              *)
(***************************************************************************)

(* The books as the first n ledger records tell them. *)
PositionFacts(n, o, a) ==
  {m \in 1..n : \/ /\ facts[m].type = "ownership_position_added"
                   /\ facts[m].owner = o /\ facts[m].asset = a
                \/ /\ facts[m].type = "ownership_transferred"
                   /\ facts[m].asset = a /\ o \in {facts[m].from, facts[m].to}}

ToldPosition(n, o, a) ==
  LET f == facts[Max(PositionFacts(n, o, a))]
  IN IF PositionFacts(n, o, a) = {} THEN {}
     ELSE CASE f.type = "ownership_position_added" -> {f.new}
            [] f.type = "ownership_transferred" /\ o = f.to -> {f.total}
            [] OTHER -> {f.left} \ {0}

ToldContracts(n) ==
  {facts[m].contract : m \in {i \in 1..n : facts[i].type = "contract_created"}}

StatusFacts(n, c) ==
  {m \in 1..n : /\ facts[m].type \in {"contract_created", "contract_status_updated"}
                /\ facts[m].contract = c}

PriceFacts(n, a) == {m \in 1..n : facts[m].type = "price_updated" /\ facts[m].asset = a}

ToldPrices(n, a) ==
  LET order == InKeyOrder(PriceFacts(n, a), [m \in PriceFacts(n, a) |-> m])
  IN [h \in DOMAIN order |-> facts[order[h]].price]

Told3(n) ==
  [positions |-> [k \in {k \in Owners \X Assets : ToldPosition(n, k[1], k[2]) # {}} |->
                    CHOOSE q \in ToldPosition(n, k[1], k[2]) : TRUE],
   statuses |-> [c \in ToldContracts(n) |-> facts[Max(StatusFacts(n, c))].status],
   prices |-> [a \in Assets |-> ToldPrices(n, a)]]

(* The ledger can replace the books for whoever projects them: the positions *)
(* there are, statuses and the values of the price histories, after any run  *)
(* of additions, transfers, removals and updates, are what its records say.  *)
(* set_price() does not log a price's currency, which stays with the book.   *)
LedgerReplaysBooks == Told3(Len(facts)) = Books3

(* A derived record on the ledger is what the books of that moment say, not  *)
(* an earlier or a later state of them.  Evaluations and views can be        *)
(* recomputed from the records before them, given the roles of the contracts, *)
(* which the ledger leaves out.  A gap can be recomputed from them only      *)
(* together with the price book, for the currency of the latest price they    *)
(* tell of: whether the reason is currency_mismatch the ledger alone cannot  *)
(* tell.  A comparison cites the claim it is about.                         *)
DerivedFromLedger ==
  \A n \in DOMAIN facts :
    LET b == Told3(n - 1) f == facts[n] IN
      /\ f.type = "constraint_evaluated" => f = Evaluation(b, f.constraint)
      /\ f.type = "balance_sheet_view_created" =>
           /\ f.assets = View(b, f.agent).assets
           /\ f.liabilities = View(b, f.agent).liabilities
      /\ f.type = "valuation_compared" =>
           /\ f.gap = Gap(b, f.claim, PriceCurrency(b, Claims[f.claim].subject))
           /\ f.parent \in 1..(n - 1)
           /\ facts[f.parent] = [type |-> "valuation_added", claim |-> f.claim]

(* A transfer neither makes nor loses quantity beyond the rounding of the    *)
(* two positions it writes, and touches no other position; a position goes    *)
(* exactly when all of it was transferred.                                  *)
TotalOf(held, a) ==
  LET upTo[n \in 0..Len(OwnerOrder)] ==
        IF n = 0 THEN 0 ELSE upTo[n - 1] + Amount(held, OwnerOrder[n], a)
  IN upTo[Len(OwnerOrder)]
Abs(n) == IF n < 0 THEN -n ELSE n

TransfersConserve ==
  [][\A n \in Len(facts) + 1..Len(facts') : facts'[n].type = "ownership_transferred" =>
       LET f == facts'[n]
           giver == <<f.from, f.asset>>
           taker == <<f.to, f.asset>>
       IN /\ 2 * Abs(TotalOf(positions', f.asset) - TotalOf(positions, f.asset))
               <= Ulp(positions[giver] - f.quantity) + Ulp(Quantity(f.to, f.asset) + f.quantity)
          /\ giver \notin DOMAIN positions' <=> f.quantity = positions[giver]
          /\ \A k \in (DOMAIN positions \cup DOMAIN positions') \ {giver, taker} :
               k \in DOMAIN positions \cap DOMAIN positions' /\ positions'[k] = positions[k]
    ]_worldVars
=============================================================================
