-------------------------- MODULE ChainProofs --------------------------
(***************************************************************************)
(* The two chains of records.  Every record of the market chain follows from  *)
(* the records it cites, and a market that is closed to the firm is heard at  *)
(* its end; what a record of the reference chain rests on was stored before    *)
(* it and visible to its actor, and its conclusions can be computed again:     *)
(* for all dates, markets, lists of evidence, coefficients and labels, and     *)
(* however many calls a period took and wherever they raised.                *)
(***************************************************************************)
EXTENDS MarketChain, ReferenceChain, RankLemmas

(* What the review and the path take from a pressure. *)
Agrees(pressure) ==
  /\ pressure.access \in {"unknown", "constrained", "open", "selective"}
  /\ pressure.access = "constrained" <=> pressure.relevance = "adverse_for_market_access"

(* A path is made with its review, of the pressure there was by then, and     *)
(* neither is made again.                                                  *)
Made ==
  /\ DOMAIN paths = DOMAIN reviews
  /\ \A d \in DOMAIN paths :
       /\ d \in DOMAIN pressures
       /\ reviews[d] = Review(pressures[d])
       /\ paths[d] = Path(reviews[d], pressures[d])

(* A running call is past the phase that made the pressure of its date.       *)
Ready ==
  marketCall = NoCall \/ (/\ marketCall.phase \in 1..9
                          /\ marketCall.phase = 9 => marketCall.date \in DOMAIN pressures)

MarketInv == Made /\ Ready /\ \A d \in DOMAIN pressures : Agrees(pressures[d])

(* The two labels of a pressure that the review reads are made together. *)
LEMMA PressureAgrees == \A counts : Agrees(Pressure(counts))
<1> SUFFICES ASSUME NEW counts PROVE Agrees(Pressure(counts))
  OBVIOUS
<1> QED  BY DEF Pressure, Agrees

(* The review and the path heed what the pressure says. *)
LEMMA PathHeeds ==
  ASSUME NEW pressure, Agrees(pressure)
  PROVE  LET review == Review(pressure) path == Path(review, pressure) IN
           /\ path.coherence = "coherent"
           /\ pressure.access \in Closing <=> path.constraint = "market_access_constraint"
           /\ path.next = "escalate_to_capital_structure_review" <=>
                path.constraint = "market_access_constraint"
           /\ pressure.access \in Closing => review = [access |-> pressure.access, dilution |-> "high"]
<1>1. CASE pressure.access = "constrained"
  <2>1. Review(pressure) = [access |-> "constrained", dilution |-> "high"]
    <3>1. pressure.relevance = "adverse_for_market_access"  BY <1>1 DEF Agrees
    <3>. QED  BY <1>1, <3>1 DEF Review, Closing
  <2>2. ASSUME NEW review, review.access = "constrained", review.dilution = "high"
        PROVE  /\ Path(review, pressure).coherence = "coherent"
               /\ Path(review, pressure).constraint = "market_access_constraint"
               /\ Path(review, pressure).next = "escalate_to_capital_structure_review"
    <3>1. pressure.access \in Closing /\ review.access \notin {"open", "selective"}
      BY <1>1, <2>2 DEF Closing
    <3>2. Path(review, pressure).coherence = "coherent"  BY <3>1 DEF Path
    <3>3. Path(review, pressure).constraint = "market_access_constraint"  BY <3>1 DEF Path
    <3>4. Path(review, pressure).next =
            NextReview(Path(review, pressure).coherence, Path(review, pressure).constraint)
      BY DEF Path
    <3>. QED  BY <3>2, <3>3, <3>4 DEF NextReview
  <2>. QED  BY <1>1, <2>1, <2>2 DEF Closing
<1>2. CASE pressure.access # "constrained"
  BY <1>2, ReviewAccessAssumption DEF Agrees, Review, Path, NextReview, Closing
<1>. QED  BY <1>1, <1>2

LEMMA InitMarket == MarketInit => MarketInv
<1> SUFFICES ASSUME MarketInit PROVE MarketInv
  OBVIOUS
<1>1. DOMAIN paths = {} /\ DOMAIN reviews = {} /\ DOMAIN pressures = {}
  BY DEF MarketInit
<1>2. marketCall = NoCall
  BY DEF MarketInit
<1>. QED  BY <1>1, <1>2 DEF MarketInv, Made, Ready

(* A phase before the pressure, which ends by going to the next one.          *)
LEMMA EarlierPhase ==
  ASSUME MarketInv, NEW name \in {Phases[n] : n \in 1..7}, In(name), Advance,
         UNCHANGED <<pressures, reviews, paths>>
  PROVE  MarketInv'
<1>1. marketCall # NoCall /\ marketCall.phase \in 1..7
  BY DEF In, MarketInv, Ready, Phases
<1>2. marketCall' = [marketCall EXCEPT !.phase = marketCall.phase + 1]
  BY <1>1 DEF Advance, Phases
<1>3. Ready'
  BY <1>1, <1>2 DEF Ready
<1>. QED  BY <1>3 DEF MarketInv, Made

LEMMA MarketStep == MarketInv /\ [MarketNext]_marketVars => MarketInv'
<1> SUFFICES ASSUME MarketInv, [MarketNext]_marketVars PROVE MarketInv'
  OBVIOUS
<1>1. ASSUME NEW d \in MarketDates, NEW regime \in Regimes, StartPeriod(d, regime)
      PROVE  MarketInv'
  <2>1. marketCall' = [phase |-> 1, date |-> d, regime |-> regime] /\ UNCHANGED chain
    BY <1>1 DEF StartPeriod
  <2>2. Ready'
    BY <2>1 DEF Ready
  <2>. QED  BY <2>1, <2>2 DEF MarketInv, Made, chain
<1>2. CASE Raise
  BY <1>2 DEF Raise, MarketInv, Made, Ready, chain
<1>3. CASE AddConditions
  BY <1>3, EarlierPhase DEF AddConditions, Phases
<1>4. CASE BuildReadout
  BY <1>4, EarlierPhase DEF BuildReadout, Phases
<1>5. CASE BuildEnvironment
  BY <1>5, EarlierPhase DEF BuildEnvironment, Phases
<1>6. CASE UpdateFirmState
  BY <1>6, EarlierPhase DEF UpdateFirmState, Phases
<1>7. CASE FormIntents
  BY <1>7, EarlierPhase DEF FormIntents, Phases
<1>8. ASSUME NEW focus \in [Investors -> FocusSets], FormMarketIntents(focus)
      PROVE  MarketInv'
  BY <1>8, EarlierPhase DEF FormMarketIntents, Phases
<1>9. ASSUME NEW o \in OutsideIntents, AddOutsideIntent(o)
      PROVE  MarketInv'
  BY <1>9 DEF AddOutsideIntent, MarketInv, Made, Ready
<1>10. CASE AggregateInterest
  BY <1>10, EarlierPhase DEF AggregateInterest, Phases
<1>11. CASE BuildPressure
  <2>1. /\ marketCall.phase = 8 /\ marketCall # NoCall
        /\ pressures' = Once(pressures, day, Pressure(interests[day].counts))
        /\ reviews' = reviews /\ paths' = paths
    BY <1>11 DEF BuildPressure, In, Phases, MarketInv, Ready
  <2>2. marketCall' = [marketCall EXCEPT !.phase = marketCall.phase + 1]
    BY <1>11, <2>1 DEF BuildPressure, Advance, Phases
  <2>3. /\ DOMAIN pressures' = DOMAIN pressures \cup {day}
        /\ \A d \in DOMAIN pressures : pressures'[d] = pressures[d]
        /\ day \notin DOMAIN pressures => pressures'[day] = Pressure(interests[day].counts)
    BY <2>1 DEF Once
  <2>4. Ready'
    BY <2>1, <2>2, <2>3 DEF Ready, day, MarketInv
  <2>5. Made'
    BY <2>1, <2>3 DEF Made, MarketInv
  <2>6. \A d \in DOMAIN pressures' : Agrees(pressures'[d])
    BY <2>3, PressureAgrees DEF MarketInv
  <2>. QED  BY <2>4, <2>5, <2>6 DEF MarketInv
<1>12. CASE Finance
  <2>1. /\ marketCall.phase = 9 /\ day \in DOMAIN pressures
        /\ marketCall' = NoCall /\ pressures' = pressures
        /\ reviews' = Once(reviews, day, Review(pressures[day]))
        /\ paths' = Once(paths, day, Path(reviews'[day], pressures[day]))
    BY <1>12 DEF Finance, In, Advance, Phases, MarketInv, Ready, day
  <2>2. /\ DOMAIN reviews' = DOMAIN reviews \cup {day}
        /\ \A d \in DOMAIN reviews : reviews'[d] = reviews[d]
        /\ day \notin DOMAIN reviews => reviews'[day] = Review(pressures[day])
    BY <2>1 DEF Once
  <2>3. /\ DOMAIN paths' = DOMAIN paths \cup {day}
        /\ \A d \in DOMAIN paths : paths'[d] = paths[d]
        /\ day \notin DOMAIN paths => paths'[day] = Path(reviews'[day], pressures[day])
    BY <2>1 DEF Once
  <2>4. Made'
    BY <2>1, <2>2, <2>3 DEF Made, MarketInv
  <2>. QED  BY <2>1, <2>4 DEF MarketInv, Ready
<1>13. CASE UNCHANGED marketVars
  BY <1>13 DEF marketVars, chain, MarketInv, Made, Ready
<1>. QED  BY <1>1, <1>2, <1>3, <1>4, <1>5, <1>6, <1>7, <1>8, <1>9, <1>10, <1>11, <1>12, <1>13
          DEF MarketNext

(* Whatever markets the calls name and wherever they raise, a path of a date  *)
(* says "no access" and escalates exactly when the pressure it cites does    *)
(* (reference_living_world.py, the financing phase).                        *)
THEOREM ClosedMarketReachesPathTheorem == MarketSpec => []ClosedMarketReachesPath
<1>1. MarketInit => MarketInv
  BY InitMarket
<1>2. MarketInv /\ [MarketNext]_marketVars => MarketInv'
  BY MarketStep
<1>3. MarketInv => ClosedMarketReachesPath
  <2> SUFFICES ASSUME MarketInv, NEW d \in DOMAIN paths
               PROVE  LET review == reviews[d] path == paths[d] IN
                        /\ path.coherence = "coherent"
                        /\ pressures[d].access \in Closing <=> path.constraint = "market_access_constraint"
                        /\ path.next = "escalate_to_capital_structure_review" <=>
                             path.constraint = "market_access_constraint"
                        /\ pressures[d].access \in Closing =>
                             review = [access |-> pressures[d].access, dilution |-> "high"]
    BY DEF ClosedMarketReachesPath
  <2>1. /\ d \in DOMAIN pressures /\ reviews[d] = Review(pressures[d])
        /\ paths[d] = Path(reviews[d], pressures[d]) /\ Agrees(pressures[d])
    BY DEF MarketInv, Made
  <2>. QED  BY <2>1, PathHeeds
<1>. QED  BY <1>1, <1>2, <1>3, PTL DEF MarketSpec

(***************************************************************************)
(* Every record follows from what it cites                                 *)
(***************************************************************************)
FirmRecords == [date : MarketDates, access : 0..100, debt : 0..100, liquidity : 0..100]
AccessLabels == {"open_or_constructive", "selective_or_constrained", "mixed"}
HasState(d) == \E n \in DOMAIN firmStates : firmStates[n].date = d

(* What the books say of each other: a record's date and keys lead to the     *)
(* records that it cites, and a date has one firm state.                     *)
BooksLinked ==
  /\ DOMAIN conditions = MarketDates
  /\ \A d \in DOMAIN readouts : d \in MarketDates /\ readouts[d].overall \in AccessLabels
  /\ \A d \in DOMAIN environments :
       d \in DOMAIN readouts /\ environments[d].markets \subseteq DOMAIN conditions[d]
  /\ firmStates \in Seq(FirmRecords)
  /\ \A n \in DOMAIN firmStates : firmStates[n].date \in DOMAIN readouts
  /\ \A m, n \in DOMAIN firmStates : firmStates[m].date = firmStates[n].date => m = n
  /\ \A k \in DOMAIN intents :
       k[2] \in DOMAIN environments /\ HasState(k[2])
  /\ \A k \in DOMAIN marketIntents :
       marketIntents[k].focus # {} => k \in DOMAIN intents /\ k = <<k[1], k[2]>>
  /\ \A d \in DOMAIN interests : Investors \X {d} \subseteq DOMAIN marketIntents
  /\ DOMAIN pressures \subseteq DOMAIN interests

(* What a running call has made by now. *)
Reached(n) == marketCall # NoCall /\ marketCall.phase >= n

CallMade ==
  /\ marketCall = NoCall \/ marketCall \in [phase : 1..9, date : MarketDates, regime : Regimes]
  /\ Reached(2) => CitedMarkets \subseteq DOMAIN conditions[day]
  /\ Reached(3) => day \in DOMAIN readouts
  /\ Reached(4) => day \in DOMAIN environments
  /\ Reached(5) => HasState(day)
  /\ Reached(6) => Investors \X {day} \subseteq DOMAIN intents
  /\ Reached(7) => Investors \X {day} \subseteq DOMAIN marketIntents
  /\ Reached(8) => day \in DOMAIN interests


(* A step is clamped. *)
LEMMA StepInRange ==
  ASSUME NEW value \in Int, NEW by \in Int
  PROVE  Step(value, by) \in 0..100
<1> DEFINE x == value + by
           low == Min({100, x})
<1>1. low \in {100, x} /\ low <= 100
  <2>1. \E m \in {100, x} : \A y \in {100, x} : m <= y
    OBVIOUS
  <2>2. low \in {100, x} /\ \A y \in {100, x} : low <= y
    BY <2>1 DEF Min
  <2>. QED  BY <2>2
<1>2. low \in Int
  BY <1>1
<1>3. Max({0, low}) \in {0, low} /\ Max({0, low}) >= 0
  <2> HIDE DEF low
  <2>1. \E m \in {0, low} : \A y \in {0, low} : m >= y
    BY <1>2
  <2>2. Max({0, low}) \in {0, low} /\ \A y \in {0, low} : Max({0, low}) >= y
    BY <2>1 DEF Max
  <2>. QED  BY <2>2, <1>2
<1>. QED
  <2> HIDE DEF low
  <2>1. Max({0, low}) \in 0..100
    BY <1>1, <1>2, <1>3
  <2>. QED  BY <2>1 DEF low, Step

(* A firm's state is three numbers in [0, 1], whatever stepped them. *)
LEMMA NextFirmStateTyped ==
  ASSUME NEW d \in MarketDates, NEW previous, NEW readout,
         previous.access \in Int, previous.debt \in Int, previous.liquidity \in Int,
         readout.overall \in AccessLabels
  PROVE  /\ NextFirmState(d, previous, readout) \in FirmRecords
         /\ NextFirmState(d, previous, readout).date = d
<1> DEFINE byAccess ==
        CASE readout.overall = "open_or_constructive" -> [access |-> -5, debt |-> -3]
          [] readout.overall = "selective_or_constrained" -> [access |-> 10, debt |-> 5]
          [] readout.overall = "mixed" -> [access |-> 2, debt |-> 0]
      byTone == IF readout.credit \in Restrictive THEN 5 ELSE 0
<1>1. byAccess.access \in Int /\ byAccess.debt \in Int
  BY DEF AccessLabels
<1>2. byTone \in Int
  OBVIOUS
<1>3. NextFirmState(d, previous, readout) =
        [date |-> d, access |-> Step(previous.access, byAccess.access),
         debt |-> Step(Step(previous.debt, byAccess.debt), byTone),
         liquidity |-> Step(previous.liquidity, 2)]
  BY DEF NextFirmState
<1> HIDE DEF byAccess, byTone
<1>4. Step(previous.access, byAccess.access) \in 0..100
  BY <1>1, StepInRange
<1>5. Step(previous.debt, byAccess.debt) \in 0..100
  BY <1>1, StepInRange
<1>6. Step(Step(previous.debt, byAccess.debt), byTone) \in 0..100
  <2>1. Step(previous.debt, byAccess.debt) \in Int
    BY <1>5
  <2>. QED  BY <2>1, <1>2, StepInRange
<1>7. Step(previous.liquidity, 2) \in 0..100
  BY StepInRange
<1>. QED  BY <1>3, <1>4, <1>6, <1>7 DEF FirmRecords

(* A readout has one of three labels of overall access. *)
LEMMA OverallAccessTyped == \A cited : OverallAccess(cited) \in AccessLabels
BY DEF OverallAccess, AccessLabels

(* The order in which investors are asked holds investors only. *)
LEMMA OrderOfInvestors ==
  \A n \in DOMAIN SetToSeq(Investors) : SetToSeq(Investors)[n] \in Investors
<1>1. IsFiniteSet(Investors)
  BY MarketAssumption
<1>2. \E f \in [1..Cardinality(Investors) -> Investors] : IsInjective(f)
  <2>1. ExistsBijection(1..Cardinality(Investors), Investors)
    BY <1>1, FS_CardinalityType
  <2>2. PICK f : f \in Bijection(1..Cardinality(Investors), Investors)
    BY <2>1 DEF ExistsBijection
  <2>. QED  BY <2>2 DEF Bijection, Injection, IsInjective
<1>3. SetToSeq(Investors) \in [1..Cardinality(Investors) -> Investors]
  BY <1>2 DEF SetToSeq
<1>. QED  BY <1>3

(* The index of a date's firm state, as SelectInSeq() finds it. *)
FoundAt(states, d) ==
  LET I == {i \in 1..Len(states) : states[i].date = d} IN IF I # {} THEN Min(I) ELSE 0

(* A date's one firm state is the one that is found. *)
LEMMA StateFound ==
  ASSUME NEW states \in Seq(FirmRecords), NEW d, NEW n \in DOMAIN states,
         \A m \in DOMAIN states : states[m].date = d <=> m = n
  PROVE  FoundAt(states, d) = n
<1>1. {i \in 1..Len(states) : states[i].date = d} = {n}
  OBVIOUS
<1>2. Min({n}) = n
  BY DEF Min
<1>. QED  BY <1>1, <1>2 DEF FoundAt

(* The state of a date, now and after a step, as an indexed record. *)
LEMMA StateOfFound ==
  ASSUME NEW d
  PROVE  /\ StateOf(d) = firmStates[FoundAt(firmStates, d)]
         /\ StateOf(d)' = firmStates'[FoundAt(firmStates', d)]
<1>1. StateOf(d) = firmStates[FoundAt(firmStates, d)]
  BY DEF StateOf, FoundAt, SelectInSeq
<1>2. StateOf(d)' = firmStates'[FoundAt(firmStates', d)]
  BY DEF StateOf, FoundAt, SelectInSeq
<1>. QED  BY <1>1, <1>2

(* Without a new firm state, no date's changes. *)
LEMMA SameStates ==
  ASSUME UNCHANGED firmStates
  PROVE  \A d : HasState(d)' = HasState(d) /\ StateOf(d)' = StateOf(d)
BY StateOfFound DEF HasState

(* A state of another date changes nothing of it. *)
LEMMA StateKept ==
  ASSUME BooksLinked, NEW d, HasState(d), NEW state \in FirmRecords, state.date # d,
         firmStates' = Append(firmStates, state)
  PROVE  HasState(d)' /\ StateOf(d)' = StateOf(d)
<1>1. PICK n \in DOMAIN firmStates : firmStates[n].date = d
  BY DEF HasState
<1>2. firmStates \in Seq(FirmRecords) /\ \A m \in DOMAIN firmStates : firmStates[m].date = d <=> m = n
  BY <1>1 DEF BooksLinked
<1>3. /\ firmStates' \in Seq(FirmRecords) /\ n \in DOMAIN firmStates' /\ firmStates'[n] = firmStates[n]
      /\ \A m \in DOMAIN firmStates' : firmStates'[m].date = d <=> m = n
  BY <1>1, <1>2
<1>4. FoundAt(firmStates, d) = n
  BY <1>2, StateFound
<1>5. FoundAt(firmStates', d) = n
  BY <1>3, StateFound
<1>6. HasState(d)'
  BY <1>1, <1>3 DEF HasState
<1>. QED  BY <1>3, <1>4, <1>5, <1>6, StateOfFound

(* The parts of RecordsFollowCitations, record by record. *)
ReadoutFollows(d) ==
  /\ readouts[d].markets \subseteq DOMAIN conditions[d]
  /\ readouts[d] = CapitalReadout(Cited(d, readouts[d].markets), readouts[d].markets)
EnvironmentFollows(d) ==
  environments[d] = Environment(environments[d].markets, readouts[d].overall,
                                Cited(d, environments[d].markets))
StateFollows(n) ==
  firmStates[n] = NextFirmState(firmStates[n].date, Previous(n - 1), readouts[firmStates[n].date])
IntentFollows(k) == intents[k] = NewIntent(k[1], k[2])
MarketIntentFollows(k) ==
  \A focus \in marketIntents[k].focus : marketIntents[k].label = MarketLabel(k[1], k[2], focus)
InterestFollows(d) == interests[d] = Interest(LabelsOf(d))
PressureFollows(d) == pressures[d] = Pressure(interests[d].counts)

AllFollow ==
  /\ \A d \in DOMAIN readouts : ReadoutFollows(d)
  /\ \A d \in DOMAIN environments : EnvironmentFollows(d)
  /\ \A n \in DOMAIN firmStates : StateFollows(n)
  /\ \A k \in DOMAIN intents : IntentFollows(k)
  /\ \A k \in DOMAIN marketIntents : MarketIntentFollows(k)
  /\ \A d \in DOMAIN interests : InterestFollows(d)
  /\ \A d \in DOMAIN pressures : PressureFollows(d)

(* Together with the paths, which are made with their reviews, they are it. *)
LEMMA AllFollowIsProperty == Made /\ AllFollow => RecordsFollowCitations
BY DEF Made, AllFollow, RecordsFollowCitations, ReadoutFollows, EnvironmentFollows, StateFollows,
       IntentFollows, MarketIntentFollows, InterestFollows, PressureFollows

ChainInv == MarketInv /\ BooksLinked /\ CallMade /\ AllFollow

(* No book loses or changes a record. *)
Keeps(book, after) ==
  DOMAIN book \subseteq DOMAIN after /\ \A k \in DOMAIN book : after[k] = book[k]

Grows ==
  /\ \A d \in MarketDates : Keeps(conditions[d], conditions'[d])
  /\ Keeps(readouts, readouts') /\ Keeps(environments, environments')
  /\ Keeps(firmStates, firmStates')
  /\ \A d \in MarketDates : HasState(d) => HasState(d)' /\ StateOf(d)' = StateOf(d)
  /\ Keeps(intents, intents') /\ Keeps(marketIntents, marketIntents')
  /\ Keeps(interests, interests') /\ Keeps(pressures, pressures')

(* So what followed from its citations still does. *)
LEMMA StillFollow ==
  ASSUME BooksLinked, AllFollow, Grows
  PROVE  /\ \A d \in DOMAIN readouts : ReadoutFollows(d)'
         /\ \A d \in DOMAIN environments : EnvironmentFollows(d)'
         /\ \A n \in DOMAIN firmStates : StateFollows(n)'
         /\ \A k \in DOMAIN intents : IntentFollows(k)'
         /\ \A k \in DOMAIN marketIntents : MarketIntentFollows(k)'
         /\ \A d \in DOMAIN interests : InterestFollows(d)'
         /\ \A d \in DOMAIN pressures : PressureFollows(d)'
<1>1. ASSUME NEW d \in MarketDates, NEW markets \in SUBSET DOMAIN conditions[d]
      PROVE  Cited(d, markets)' = Cited(d, markets) /\ markets \subseteq DOMAIN conditions'[d]
  BY <1>1 DEF Grows, Keeps, Cited
<1>2. ASSUME NEW d \in DOMAIN readouts PROVE ReadoutFollows(d)'
  <2>1. d \in MarketDates /\ readouts'[d] = readouts[d] /\ ReadoutFollows(d)
    BY <1>2 DEF BooksLinked, AllFollow, Grows, Keeps
  <2>. QED  BY <1>1, <2>1 DEF ReadoutFollows
<1>3. ASSUME NEW d \in DOMAIN environments PROVE EnvironmentFollows(d)'
  <2>1. /\ d \in MarketDates /\ readouts'[d] = readouts[d] /\ environments'[d] = environments[d]
        /\ EnvironmentFollows(d) /\ environments[d].markets \subseteq DOMAIN conditions[d]
    BY <1>3 DEF BooksLinked, AllFollow, Grows, Keeps
  <2>. QED  BY <1>1, <2>1 DEF EnvironmentFollows
<1>4. ASSUME NEW n \in DOMAIN firmStates PROVE StateFollows(n)'
  <2>1. /\ firmStates'[n] = firmStates[n] /\ StateFollows(n)
        /\ readouts'[firmStates[n].date] = readouts[firmStates[n].date]
    BY <1>4 DEF BooksLinked, AllFollow, Grows, Keeps
  <2>2. Previous(n - 1)' = Previous(n - 1)
    <3>1. n - 1 = 0 \/ n - 1 \in DOMAIN firmStates
      BY DEF BooksLinked
    <3>. QED  BY <3>1 DEF Grows, Keeps, Previous
  <2>. QED  BY <2>1, <2>2 DEF StateFollows
<1>5. ASSUME NEW k \in DOMAIN intents PROVE IntentFollows(k)'
  <2>1. /\ intents'[k] = intents[k] /\ IntentFollows(k)
        /\ k[2] \in DOMAIN environments /\ k[2] \in DOMAIN readouts /\ k[2] \in MarketDates /\ HasState(k[2])
    BY <1>5 DEF BooksLinked, AllFollow, Grows, Keeps
  <2>2. /\ environments'[k[2]] = environments[k[2]] /\ readouts'[k[2]] = readouts[k[2]]
        /\ StateOf(k[2])' = StateOf(k[2])
    BY <2>1 DEF Grows, Keeps
  <2>. QED  BY <2>1, <2>2 DEF IntentFollows, NewIntent
<1>6. ASSUME NEW k \in DOMAIN marketIntents PROVE MarketIntentFollows(k)'
  <2>1. marketIntents'[k] = marketIntents[k] /\ MarketIntentFollows(k)
    BY <1>6 DEF AllFollow, Grows, Keeps
  <2>2. CASE marketIntents[k].focus = {}
    BY <2>1, <2>2 DEF MarketIntentFollows
  <2>3. CASE marketIntents[k].focus # {}
    <3>1. /\ k \in DOMAIN intents /\ k = <<k[1], k[2]>>
          /\ k[2] \in DOMAIN environments /\ k[2] \in MarketDates /\ HasState(k[2])
      BY <1>6, <2>3 DEF BooksLinked
    <3>2. /\ environments'[k[2]] = environments[k[2]] /\ intents'[<<k[1], k[2]>>] = intents[<<k[1], k[2]>>]
          /\ StateOf(k[2])' = StateOf(k[2])
      BY <3>1 DEF Grows, Keeps
    <3>. QED  BY <2>1, <3>2 DEF MarketIntentFollows, MarketLabel
  <2>. QED  BY <2>2, <2>3
<1>7. ASSUME NEW d \in DOMAIN interests PROVE InterestFollows(d)'
  <2>1. interests'[d] = interests[d] /\ InterestFollows(d) /\ Investors \X {d} \subseteq DOMAIN marketIntents
    BY <1>7 DEF BooksLinked, AllFollow, Grows, Keeps
  <2>2. \A n \in DOMAIN SetToSeq(Investors) :
          marketIntents'[<<SetToSeq(Investors)[n], d>>] = marketIntents[<<SetToSeq(Investors)[n], d>>]
    BY <2>1, OrderOfInvestors DEF Grows, Keeps
  <2>3. LabelsOf(d)' = LabelsOf(d)
    BY <2>2 DEF LabelsOf
  <2>. QED  BY <2>1, <2>3 DEF InterestFollows
<1>8. ASSUME NEW d \in DOMAIN pressures PROVE PressureFollows(d)'
  BY <1>8 DEF BooksLinked, AllFollow, Grows, Keeps, PressureFollows
<1>. QED  BY <1>2, <1>3, <1>4, <1>5, <1>6, <1>7, <1>8

(* A call that is in a phase is a record with that phase and a date of the run. *)
LEMMA InPhase ==
  ASSUME CallMade, NEW n \in 1..9, In(Phases[n])
  PROVE  /\ marketCall \in [phase : 1..9, date : MarketDates, regime : Regimes]
         /\ marketCall # NoCall /\ marketCall.phase = n /\ day \in MarketDates
<1>1. marketCall # NoCall /\ Phases[marketCall.phase] = Phases[n]
  BY DEF In
<1>2. marketCall \in [phase : 1..9, date : MarketDates, regime : Regimes]
  BY <1>1 DEF CallMade
<1>3. \A m, p \in 1..9 : Phases[m] = Phases[p] => m = p
  BY DEF Phases
<1>. QED  BY <1>1, <1>2, <1>3 DEF day

(* A call that goes on has made what it had, and what its phase makes. *)
LEMMA CallGoesOn ==
  ASSUME CallMade, BooksLinked, Grows, NEW n \in 1..8, In(Phases[n]), Advance,
         n = 1 => CitedMarkets \subseteq DOMAIN conditions'[day],
         n = 2 => day \in DOMAIN readouts',
         n = 3 => day \in DOMAIN environments',
         n = 4 => \E k \in DOMAIN firmStates' : firmStates'[k].date = day,
         n = 5 => Investors \X {day} \subseteq DOMAIN intents',
         n = 6 => Investors \X {day} \subseteq DOMAIN marketIntents',
         n = 7 => day \in DOMAIN interests'
  PROVE  CallMade'
<1>1. /\ marketCall \in [phase : 1..9, date : MarketDates, regime : Regimes]
      /\ marketCall # NoCall /\ marketCall.phase = n /\ day \in MarketDates
  BY InPhase
<1>2. marketCall' = [marketCall EXCEPT !.phase = n + 1]
  BY <1>1 DEF Advance, Phases
<1>3. /\ marketCall' \in [phase : 1..9, date : MarketDates, regime : Regimes]
      /\ marketCall'.phase = n + 1 /\ marketCall'.date = marketCall.date
      /\ marketCall'.regime = marketCall.regime
  BY <1>1, <1>2
<1>4. day' = day /\ CitedMarkets' = CitedMarkets
  BY <1>3 DEF day, CitedMarkets
<1>5. \A m \in 1..9 : (Reached(m)' <=> m <= n + 1) /\ (Reached(m) <=> m <= n)
  <2>1. marketCall' # NoCall
    BY <1>3 DEF NoCall
  <2>. QED  BY <1>1, <1>3, <2>1 DEF Reached
<1>6. (Reached(2) => CitedMarkets \subseteq DOMAIN conditions[day])'
  BY <1>1, <1>4, <1>5 DEF CallMade, Grows, Keeps
<1>7. (Reached(3) => day \in DOMAIN readouts)'
  BY <1>1, <1>4, <1>5 DEF CallMade, Grows, Keeps
<1>8. (Reached(4) => day \in DOMAIN environments)'
  BY <1>1, <1>4, <1>5 DEF CallMade, Grows, Keeps
<1>9. (Reached(5) => HasState(day))'
  <2>1. HasState(day) => \E k \in DOMAIN firmStates' : firmStates'[k].date = day
    BY <1>1 DEF Grows, HasState
  <2>. QED  BY <1>1, <1>4, <1>5, <2>1 DEF CallMade, Grows, HasState
<1>10. (Reached(6) => Investors \X {day} \subseteq DOMAIN intents)'
  BY <1>1, <1>4, <1>5 DEF CallMade, Grows, Keeps
<1>11. (Reached(7) => Investors \X {day} \subseteq DOMAIN marketIntents)'
  BY <1>1, <1>4, <1>5 DEF CallMade, Grows, Keeps
<1>12. (Reached(8) => day \in DOMAIN interests)'
  BY <1>1, <1>4, <1>5 DEF CallMade, Grows, Keeps
<1>. QED  BY <1>3, <1>6, <1>7, <1>8, <1>9, <1>10, <1>11, <1>12 DEF CallMade

(* A phase adds at most one record to its book, from the records cited. *)
LEMMA ChainStep == ChainInv /\ [MarketNext]_marketVars => ChainInv'
<1> SUFFICES ASSUME ChainInv, [MarketNext]_marketVars PROVE ChainInv'
  OBVIOUS
<1> USE DEF ChainInv
<1>0. MarketInv'
  BY MarketStep
<1>1. ASSUME UNCHANGED chain, CallMade' PROVE ChainInv'
  <2>1. BooksLinked'
    BY <1>1 DEF chain, BooksLinked, HasState
  <2>2. Grows
    BY <1>1, SameStates DEF chain, Grows, Keeps
  <2>3. AllFollow'
    BY <1>1, <2>2, StillFollow DEF chain, AllFollow
  <2>. QED  BY <1>1, <1>0, <2>1, <2>3
<1>2. ASSUME NEW d \in MarketDates, NEW regime \in Regimes, StartPeriod(d, regime)
      PROVE  ChainInv'
  <2>1. marketCall' = [phase |-> 1, date |-> d, regime |-> regime] /\ UNCHANGED chain
    BY <1>2 DEF StartPeriod
  <2>2. \A n \in 2..9 : ~Reached(n)'
    BY <2>1 DEF Reached
  <2>3. CallMade'
    BY <2>1, <2>2 DEF CallMade
  <2>. QED  BY <2>1, <2>3, <1>1
<1>3. CASE Raise
  <2>1. marketCall' = NoCall /\ UNCHANGED chain
    BY <1>3 DEF Raise
  <2>2. CallMade'
    BY <2>1 DEF CallMade, Reached
  <2>. QED  BY <2>1, <2>2, <1>1
<1>4. CASE UNCHANGED marketVars
  <2>1. UNCHANGED chain /\ marketCall' = marketCall
    BY <1>4 DEF marketVars
  <2>2. CallMade'
    BY <2>1 DEF chain, CallMade, Reached, HasState, CitedMarkets, day
  <2>. QED  BY <2>1, <2>2, <1>1
<1>5. CASE AddConditions
  <2>1. /\ In(Phases[1]) /\ Advance
        /\ UNCHANGED <<readouts, environments, firmStates, intents, marketIntents, interests, pressures>>
        /\ conditions' = [conditions EXCEPT ![day] =
                            AddMissing(conditions[day], Direction[marketCall.regime])]
    BY <1>5 DEF AddConditions, Phases
  <2>2. day \in MarketDates /\ DOMAIN conditions = MarketDates
    BY <2>1, InPhase DEF BooksLinked
  <2>3. /\ DOMAIN conditions' = MarketDates
        /\ Keeps(conditions[day], conditions'[day]) /\ CitedMarkets \subseteq DOMAIN conditions'[day]
        /\ \A d \in MarketDates \ {day} : conditions'[d] = conditions[d]
    BY <2>1, <2>2 DEF AddMissing, Keeps, CitedMarkets
  <2>4. Grows
    BY <2>1, <2>3, SameStates DEF Grows, Keeps
  <2>5. BooksLinked'
    BY <2>1, <2>3, <2>4 DEF BooksLinked, HasState, Grows, Keeps
  <2>6. CallMade'
    BY <2>1, <2>3, <2>4, CallGoesOn
  <2>7. AllFollow'
    BY <2>1, <2>4, StillFollow DEF AllFollow
  <2>. QED  BY <1>0, <2>5, <2>6, <2>7
<1>6. CASE BuildReadout
  <2> DEFINE new == CapitalReadout(Cited(day, CitedMarkets), CitedMarkets)
  <2>1. /\ In(Phases[2]) /\ Advance
        /\ UNCHANGED <<conditions, environments, firmStates, intents, marketIntents, interests, pressures>>
        /\ readouts' = Once(readouts, day, new)
    BY <1>6 DEF BuildReadout, Phases
  <2> HIDE DEF new
  <2>2. day \in MarketDates /\ CitedMarkets \subseteq DOMAIN conditions[day]
    BY <2>1, InPhase DEF CallMade, Reached
  <2>3. /\ DOMAIN readouts' = DOMAIN readouts \cup {day} /\ Keeps(readouts, readouts')
        /\ day \notin DOMAIN readouts => readouts'[day] = new
    BY <2>1 DEF Once, Keeps
  <2>4. Grows
    BY <2>1, <2>3, SameStates DEF Grows, Keeps
  <2>5. new.markets = CitedMarkets /\ new.overall \in AccessLabels
    BY OverallAccessTyped DEF CapitalReadout, new
  <2>6. BooksLinked'
    BY <2>1, <2>2, <2>3, <2>5 DEF BooksLinked, HasState, Keeps
  <2>7. CallMade'
    BY <2>1, <2>3, <2>4, CallGoesOn
  <2>8. ASSUME day \notin DOMAIN readouts, NEW d \in {day} PROVE ReadoutFollows(d)'
    <3>1. readouts'[d] = new /\ conditions' = conditions /\ d = day
      BY <2>1, <2>3, <2>8
    <3>2. ASSUME NEW markets PROVE Cited(d, markets)' = Cited(d, markets)
      BY <3>1 DEF Cited
    <3>. QED  BY <2>2, <2>5, <3>1, <3>2 DEF ReadoutFollows, new
  <2>9. AllFollow'
    BY <2>1, <2>3, <2>4, <2>8, StillFollow DEF AllFollow
  <2>. QED  BY <1>0, <2>6, <2>7, <2>9
<1>7. CASE BuildEnvironment
  <2> DEFINE new == Environment(CitedMarkets, readouts[day].overall, Cited(day, CitedMarkets))
  <2>1. /\ In(Phases[3]) /\ Advance
        /\ UNCHANGED <<conditions, readouts, firmStates, intents, marketIntents, interests, pressures>>
        /\ environments' = Once(environments, day, new)
    BY <1>7 DEF BuildEnvironment, Phases
  <2> HIDE DEF new
  <2>2. day \in DOMAIN readouts /\ CitedMarkets \subseteq DOMAIN conditions[day]
    BY <2>1, InPhase DEF CallMade, Reached
  <2>3. /\ DOMAIN environments' = DOMAIN environments \cup {day} /\ Keeps(environments, environments')
        /\ day \notin DOMAIN environments => environments'[day] = new
    BY <2>1 DEF Once, Keeps
  <2>4. Grows
    BY <2>1, <2>3, SameStates DEF Grows, Keeps
  <2>5. new.markets = CitedMarkets
    BY DEF Environment, new
  <2>6. BooksLinked'
    BY <2>1, <2>2, <2>3, <2>5 DEF BooksLinked, HasState, Keeps
  <2>7. CallMade'
    BY <2>1, <2>3, <2>4, CallGoesOn
  <2>8. ASSUME day \notin DOMAIN environments, NEW d \in {day} PROVE EnvironmentFollows(d)'
    <3>1. environments'[d] = new /\ conditions' = conditions /\ readouts' = readouts /\ d = day
      BY <2>1, <2>3, <2>8
    <3>2. ASSUME NEW markets PROVE Cited(d, markets)' = Cited(d, markets)
      BY <3>1 DEF Cited
    <3>. QED  BY <2>5, <3>1, <3>2 DEF EnvironmentFollows, new
  <2>9. AllFollow'
    BY <2>1, <2>3, <2>4, <2>8, StillFollow DEF AllFollow
  <2>. QED  BY <1>0, <2>6, <2>7, <2>9
<1>8. CASE UpdateFirmState
  <2> DEFINE new == NextFirmState(day, Previous(Len(firmStates)), readouts[day])
  <2>1. /\ In(Phases[4]) /\ Advance
        /\ UNCHANGED <<conditions, readouts, environments, intents, marketIntents, interests, pressures>>
        /\ IF HasState(day) THEN firmStates' = firmStates ELSE firmStates' = Append(firmStates, new)
    BY <1>8 DEF UpdateFirmState, Phases, HasState
  <2> HIDE DEF new
  <2>2. day \in DOMAIN readouts /\ day \in MarketDates
    BY <2>1, InPhase DEF CallMade, Reached
  <2>3. CASE HasState(day)
    <3>1. UNCHANGED <<conditions, readouts, environments, firmStates, intents, marketIntents,
                      interests, pressures>>
      BY <2>1, <2>3
    <3>2. Grows
      BY <3>1, SameStates DEF Grows, Keeps
    <3>3. BooksLinked'
      BY <3>1 DEF BooksLinked, HasState
    <3>4. \E n \in DOMAIN firmStates' : firmStates'[n].date = day
      BY <3>1, <2>3 DEF HasState
    <3>5. CallMade'
      BY <2>1, <3>2, <3>4, CallGoesOn
    <3>6. AllFollow'
      BY <3>1, <3>2, StillFollow DEF AllFollow
    <3>. QED  BY <1>0, <3>3, <3>5, <3>6
  <2>4. CASE ~HasState(day)
    <3>1. firmStates' = Append(firmStates, new)
      BY <2>1, <2>4
    <3>2. new \in FirmRecords /\ new.date = day
      <4>1. Previous(Len(firmStates)).access \in Int /\ Previous(Len(firmStates)).debt \in Int
              /\ Previous(Len(firmStates)).liquidity \in Int
        <5>1. CASE Len(firmStates) = 0
          BY <5>1 DEF Previous, Baseline
        <5>2. CASE Len(firmStates) # 0
          <6>1. firmStates[Len(firmStates)] \in FirmRecords
            <7>1. firmStates \in Seq(FirmRecords)
              BY DEF BooksLinked
            <7>2. Len(firmStates) \in 1..Len(firmStates)
              BY <5>2, <7>1
            <7>. QED  BY <7>1, <7>2
          <6>2. Previous(Len(firmStates)) \in FirmRecords
            BY <5>2, <6>1 DEF Previous
          <6>3. \A r \in FirmRecords : r.access \in Int /\ r.debt \in Int /\ r.liquidity \in Int
            BY DEF FirmRecords
          <6>. QED  BY <6>2, <6>3
        <5>. QED  BY <5>1, <5>2
      <4>2. readouts[day].overall \in AccessLabels
        BY <2>2 DEF BooksLinked
      <4>. QED  BY <2>2, <4>1, <4>2, NextFirmStateTyped DEF new
    <3>3. /\ firmStates' \in Seq(FirmRecords) /\ Len(firmStates') = Len(firmStates) + 1
          /\ \A n \in DOMAIN firmStates : n \in DOMAIN firmStates' /\ firmStates'[n] = firmStates[n]
          /\ firmStates'[Len(firmStates) + 1] = new
          /\ DOMAIN firmStates' = DOMAIN firmStates \cup {Len(firmStates) + 1}
      BY <3>1, <3>2 DEF BooksLinked
    <3>4. Grows
      <4>1. \A d \in MarketDates : HasState(d) => HasState(d)' /\ StateOf(d)' = StateOf(d)
        BY <2>4, <3>1, <3>2, StateKept
      <4>. QED  BY <2>1, <3>3, <4>1 DEF Grows, Keeps
    <3>5. BooksLinked'
      <4>1. \A n \in DOMAIN firmStates' : firmStates'[n].date \in DOMAIN readouts'
        BY <2>1, <2>2, <3>2, <3>3 DEF BooksLinked
      <4>2. \A m, n \in DOMAIN firmStates' : firmStates'[m].date = firmStates'[n].date => m = n
        BY <2>4, <3>2, <3>3 DEF BooksLinked, HasState
      <4>3. \A k \in DOMAIN intents : k[2] \in DOMAIN environments /\ HasState(k[2])'
        BY <3>4 DEF BooksLinked, Grows
      <4>. QED  BY <2>1, <3>3, <4>1, <4>2, <4>3 DEF BooksLinked
    <3>6. \E n \in DOMAIN firmStates' : firmStates'[n].date = day
      BY <3>2, <3>3
    <3>7. CallMade'
      BY <2>1, <3>4, <3>6, CallGoesOn
    <3>8. ASSUME NEW n \in {Len(firmStates) + 1} PROVE StateFollows(n)'
      <4>1. firmStates'[n] = new /\ firmStates'[n].date = day /\ readouts' = readouts
        BY <2>1, <3>2, <3>3
      <4>2. Previous(n - 1)' = Previous(Len(firmStates))
        <5>1. n - 1 = Len(firmStates) /\ (n - 1 = 0 \/ n - 1 \in DOMAIN firmStates)
          BY DEF BooksLinked
        <5>. QED  BY <5>1, <3>3 DEF Previous
      <4>. QED  BY <4>1, <4>2 DEF StateFollows, new
    <3>9. AllFollow'
      BY <2>1, <3>3, <3>4, <3>8, StillFollow DEF AllFollow
    <3>. QED  BY <1>0, <3>5, <3>7, <3>9
  <2>. QED  BY <2>3, <2>4
<1>9. CASE FormIntents
  <2> DEFINE new == [k \in Investors \X {day} |-> NewIntent(k[1], day)]
  <2>1. /\ In(Phases[5]) /\ Advance
        /\ UNCHANGED <<conditions, readouts, environments, firmStates, marketIntents, interests, pressures>>
        /\ intents' = AddMissing(intents, new)
    BY <1>9 DEF FormIntents, Phases
  <2> HIDE DEF new
  <2>2. day \in DOMAIN environments /\ HasState(day)
    BY <2>1, InPhase DEF CallMade, Reached
  <2>3. /\ DOMAIN intents' = DOMAIN intents \cup (Investors \X {day}) /\ Keeps(intents, intents')
        /\ \A k \in (Investors \X {day}) \ DOMAIN intents : intents'[k] = new[k]
    BY <2>1 DEF AddMissing, Keeps, new
  <2>4. Grows
    BY <2>1, <2>3, SameStates DEF Grows, Keeps
  <2>5. BooksLinked'
    <3>1. \A k \in DOMAIN intents' : k[2] \in DOMAIN environments /\ HasState(k[2])
      BY <2>2, <2>3 DEF BooksLinked
    <3>2. \A k \in DOMAIN intents' : k[2] \in DOMAIN environments' /\ HasState(k[2])'
      BY <2>1, <3>1 DEF HasState
    <3>. QED  BY <2>1, <2>3, <3>2 DEF BooksLinked
  <2>6. CallMade'
    BY <2>1, <2>3, <2>4, CallGoesOn
  <2>7. \A k \in (Investors \X {day}) \ DOMAIN intents : IntentFollows(k)'
    <3> SUFFICES ASSUME NEW k \in (Investors \X {day}) \ DOMAIN intents PROVE IntentFollows(k)'
      OBVIOUS
    <3>1. intents'[k] = NewIntent(k[1], k[2])
      BY <2>3 DEF new
    <3>2. StateOf(k[2])' = StateOf(k[2])
      BY <2>1, SameStates
    <3>. QED  BY <2>1, <3>1, <3>2 DEF IntentFollows, NewIntent
  <2>8. AllFollow'
    BY <2>1, <2>3, <2>4, <2>7, StillFollow DEF AllFollow
  <2>. QED  BY <1>0, <2>5, <2>6, <2>8
<1>10. ASSUME NEW focus \in [Investors -> FocusSets], FormMarketIntents(focus)
       PROVE  ChainInv'
  <2> DEFINE new == [k \in Investors \X {day} |->
                       [label |-> MarketLabel(k[1], day, focus[k[1]]), focus |-> {focus[k[1]]}]]
  <2>1. /\ In(Phases[6]) /\ Advance
        /\ UNCHANGED <<conditions, readouts, environments, firmStates, intents, interests, pressures>>
        /\ marketIntents' = AddMissing(marketIntents, new)
    BY <1>10 DEF FormMarketIntents, Phases
  <2> HIDE DEF new
  <2>2. Investors \X {day} \subseteq DOMAIN intents
    BY <2>1, InPhase DEF CallMade, Reached
  <2>3. /\ DOMAIN marketIntents' = DOMAIN marketIntents \cup (Investors \X {day})
        /\ Keeps(marketIntents, marketIntents')
        /\ \A k \in (Investors \X {day}) \ DOMAIN marketIntents : marketIntents'[k] = new[k]
    BY <2>1 DEF AddMissing, Keeps, new
  <2>4. Grows
    BY <2>1, <2>3, SameStates DEF Grows, Keeps
  <2>5. BooksLinked'
    <3>1. \A k \in DOMAIN marketIntents' :
            marketIntents'[k].focus # {} => k \in DOMAIN intents /\ k = <<k[1], k[2]>>
      BY <2>2, <2>3 DEF BooksLinked, Keeps
    <3>. QED  BY <2>1, <2>3, <3>1 DEF BooksLinked, HasState
  <2>6. CallMade'
    BY <2>1, <2>3, <2>4, CallGoesOn
  <2>7. \A k \in (Investors \X {day}) \ DOMAIN marketIntents : MarketIntentFollows(k)'
    <3> SUFFICES ASSUME NEW k \in (Investors \X {day}) \ DOMAIN marketIntents
                 PROVE  MarketIntentFollows(k)'
      OBVIOUS
    <3>1. /\ marketIntents'[k].label = MarketLabel(k[1], k[2], focus[k[1]])
          /\ marketIntents'[k].focus = {focus[k[1]]}
      <4>1. k[2] = day /\ marketIntents'[k] = new[k]
        BY <2>3
      <4>2. new[k] = [label |-> MarketLabel(k[1], day, focus[k[1]]), focus |-> {focus[k[1]]}]
        BY DEF new
      <4>. QED  BY <4>1, <4>2
    <3>2. StateOf(k[2])' = StateOf(k[2])
      BY <2>1, SameStates
    <3>. QED  BY <2>1, <3>1, <3>2 DEF MarketIntentFollows, MarketLabel
  <2>8. AllFollow'
    BY <2>1, <2>3, <2>4, <2>7, StillFollow DEF AllFollow
  <2>. QED  BY <1>0, <2>5, <2>6, <2>8
<1>11. ASSUME NEW o \in OutsideIntents, AddOutsideIntent(o)
       PROVE  ChainInv'
  <2> DEFINE key == <<o.investor, o.date>>
             new == [label |-> o.label, focus |-> {}]
  <2>1. /\ marketCall = NoCall /\ marketCall' = marketCall
        /\ UNCHANGED <<conditions, readouts, environments, firmStates, intents, interests, pressures>>
        /\ marketIntents' = Once(marketIntents, key, new) /\ key \notin DOMAIN marketIntents
    BY <1>11 DEF AddOutsideIntent
  <2> HIDE DEF new
  <2>3. /\ DOMAIN marketIntents' = DOMAIN marketIntents \cup {key}
        /\ Keeps(marketIntents, marketIntents') /\ marketIntents'[key] = new
    BY <2>1 DEF Once, Keeps
  <2>4. Grows
    BY <2>1, <2>3, SameStates DEF Grows, Keeps
  <2>5. BooksLinked'
    <3>1. \A k \in DOMAIN marketIntents' :
            marketIntents'[k].focus # {} => k \in DOMAIN intents /\ k = <<k[1], k[2]>>
      BY <2>3 DEF BooksLinked, Keeps, new
    <3>. QED  BY <2>1, <2>3, <3>1 DEF BooksLinked, HasState
  <2>6. CallMade'
    BY <2>1 DEF CallMade, Reached
  <2>7. MarketIntentFollows(key)'
    BY <2>3 DEF MarketIntentFollows, new
  <2>8. AllFollow'
    BY <2>1, <2>3, <2>4, <2>7, StillFollow DEF AllFollow
  <2>. QED  BY <1>0, <2>5, <2>6, <2>8
<1>12. CASE AggregateInterest
  <2> DEFINE new == Interest(LabelsOf(day))
  <2>1. /\ In(Phases[7]) /\ Advance
        /\ UNCHANGED <<conditions, readouts, environments, firmStates, intents, marketIntents, pressures>>
        /\ interests' = Once(interests, day, new)
    BY <1>12 DEF AggregateInterest, Phases
  <2> HIDE DEF new
  <2>2. Investors \X {day} \subseteq DOMAIN marketIntents
    BY <2>1, InPhase DEF CallMade, Reached
  <2>3. /\ DOMAIN interests' = DOMAIN interests \cup {day} /\ Keeps(interests, interests')
        /\ day \notin DOMAIN interests => interests'[day] = new
    BY <2>1 DEF Once, Keeps
  <2>4. Grows
    BY <2>1, <2>3, SameStates DEF Grows, Keeps
  <2>5. BooksLinked'
    BY <2>1, <2>2, <2>3 DEF BooksLinked, HasState, Keeps
  <2>6. CallMade'
    BY <2>1, <2>3, <2>4, CallGoesOn
  <2>7. ASSUME day \notin DOMAIN interests, NEW d \in {day} PROVE InterestFollows(d)'
    BY <2>1, <2>3, <2>7 DEF InterestFollows, LabelsOf, new
  <2>8. AllFollow'
    BY <2>1, <2>3, <2>4, <2>7, StillFollow DEF AllFollow
  <2>. QED  BY <1>0, <2>5, <2>6, <2>8
<1>13. CASE BuildPressure
  <2> DEFINE new == Pressure(interests[day].counts)
  <2>1. /\ In(Phases[8]) /\ Advance
        /\ UNCHANGED <<conditions, readouts, environments, firmStates, intents, marketIntents, interests>>
        /\ pressures' = Once(pressures, day, new)
    BY <1>13 DEF BuildPressure, Phases
  <2> HIDE DEF new
  <2>2. day \in DOMAIN interests
    BY <2>1, InPhase DEF CallMade, Reached
  <2>3. /\ DOMAIN pressures' = DOMAIN pressures \cup {day} /\ Keeps(pressures, pressures')
        /\ day \notin DOMAIN pressures => pressures'[day] = new
    BY <2>1 DEF Once, Keeps
  <2>4. Grows
    BY <2>1, <2>3, SameStates DEF Grows, Keeps
  <2>5. BooksLinked'
    BY <2>1, <2>2, <2>3 DEF BooksLinked, HasState, Keeps
  <2>6. CallMade'
    BY <2>1, <2>4, CallGoesOn
  <2>7. ASSUME day \notin DOMAIN pressures, NEW d \in {day} PROVE PressureFollows(d)'
    BY <2>1, <2>3, <2>7 DEF PressureFollows, new
  <2>8. AllFollow'
    BY <2>1, <2>3, <2>4, <2>7, StillFollow DEF AllFollow
  <2>. QED  BY <1>0, <2>5, <2>6, <2>8
<1>14. CASE Finance
  <2>1. /\ In(Phases[9]) /\ Advance
        /\ UNCHANGED <<conditions, readouts, environments, firmStates, intents, marketIntents,
                       interests, pressures>>
    BY <1>14 DEF Finance, Phases
  <2>2. marketCall' = NoCall
    BY <2>1, InPhase DEF Advance, Phases
  <2>3. Grows
    BY <2>1, SameStates DEF Grows, Keeps
  <2>4. BooksLinked'
    BY <2>1 DEF BooksLinked, HasState
  <2>5. CallMade'
    BY <2>2 DEF CallMade, Reached
  <2>6. AllFollow'
    BY <2>1, <2>3, StillFollow DEF AllFollow
  <2>. QED  BY <1>0, <2>4, <2>5, <2>6
<1>. QED  BY <1>2, <1>3, <1>4, <1>5, <1>6, <1>7, <1>8, <1>9, <1>10, <1>11, <1>12, <1>13, <1>14
          DEF MarketNext

(* However many calls a period took and whatever markets they named, a label  *)
(* can be computed again from the records that its record cites.             *)
THEOREM RecordsFollowCitationsTheorem == MarketSpec => []RecordsFollowCitations
<1>1. MarketInit => ChainInv
  BY InitMarket DEF MarketInit, ChainInv, BooksLinked, CallMade, AllFollow, NoCall, Reached
<1>2. ChainInv /\ [MarketNext]_marketVars => ChainInv'
  BY ChainStep
<1>3. ChainInv => RecordsFollowCitations
  BY AllFollowIsProperty DEF ChainInv, MarketInv
<1>. QED  BY <1>1, <1>2, <1>3, PTL DEF MarketSpec

(***************************************************************************)
(* What the books of the chain keep.  A record cites what was stored before   *)
(* it, or what it names as missing; a menu and a selection hold only what     *)
(* their actor could see at their date, and so do the reviews made of them;   *)
(* a claim and a credit review follow from the signals and valuations they    *)
(* cite, which are stored.                                                  *)
(***************************************************************************)
Has(s, id) == \E n \in DOMAIN s : s[n].id = id

Founded(s, n) ==
  \A id \in EntriesOf(s[n].refs) :
    \/ id \in Beside \/ id \in s[n].missing \/ id = <<"actor", Firm>>
    \/ \E m \in 1..(n - 1) : s[m].id = id

Offerable == {"signal", "observation", "exposure"}
Seen(s, x) ==
  \A id \in EntriesOf(x.refs) :
    /\ Kind(id) \in Offerable
    /\ Kind(id) = "signal" => Has(s, id)
    /\ Kind(id) = "observation" => Has(Observations, id)
    /\ Kind(id) = "exposure" => Has(Exposures, id)
    /\ SeenBy(s, x.actor, x.date, id)

Told(s, x) ==
  \A id \in EntriesOf(x.refs) : Kind(id) \in {"signal", "valuation"} => Has(s, id)

IsCredit(x) == Kind(x.id) = "signal" /\ x.data.type = "credit"

Honest(s, x) ==
  /\ IsLog(x.refs) /\ x.date \in Nat
  /\ Kind(x.id) \in {"menu", "selection"} =>
       x.id = <<Kind(x.id), x.actor, x.date>> /\ x.missing = {} /\ Seen(s, x)
  /\ Kind(x.id) = "run" /\ x.actor # Firm => Seen(s, x)
  /\ Kind(x.id) = "valuation" => Told(s, x) /\ ClaimFollows(s, x)
  /\ IsCredit(x) => Told(s, x) /\ NoteFollows(s, x)

Unique(s) == \A m, n \in DOMAIN s : s[m].id = s[n].id => m = n

Good(s) ==
  /\ IsLog(s) /\ Unique(s)
  /\ \A n \in DOMAIN s : s[n].id \notin Beside /\ Founded(s, n) /\ Honest(s, s[n])

(* What a record must be for the books to stay so when it is added. *)
Fits(s, x) ==
  /\ \A id \in EntriesOf(x.refs) :
       id \in Beside \/ id \in x.missing \/ id = <<"actor", Firm>> \/ Has(s, id)
  /\ Honest(s, x)

EvidenceInv == Good(stored)

(***************************************************************************)
(* Looking up                                                              *)
(***************************************************************************)
LEMMA LookupIs ==
  ASSUME NEW s, Unique(s), NEW n \in DOMAIN s
  PROVE  Lookup(s, s[n].id) = s[n]
<1>1. n = CHOOSE m \in DOMAIN s : s[m].id = s[n].id
  BY DEF Unique
<1>. QED  BY <1>1 DEF Lookup

Lengthened(s, x, t) ==
  /\ IsLog(t) /\ DOMAIN t = 1..(Len(s) + 1) /\ DOMAIN s = 1..Len(s) /\ Len(s) \in Nat
  /\ \A n \in DOMAIN s : t[n] = s[n]
  /\ t[Len(s) + 1] = x
  /\ Unique(t)
  /\ \A id : Has(t, id) <=> Has(s, id) \/ id = x.id
  /\ \A id : Has(s, id) => Lookup(t, id) = Lookup(s, id)

LEMMA OneMore ==
  ASSUME NEW s, Good(s), NEW x, ~Has(s, x.id)
  PROVE  Lengthened(s, x, Append(s, x))
<1>. DEFINE t == Append(s, x)
<1>1. /\ IsLog(t) /\ Len(t) = Len(s) + 1 /\ DOMAIN s = 1..Len(s) /\ Len(s) \in Nat
      /\ \A n \in 1..Len(s) : t[n] = s[n]
      /\ t[Len(s) + 1] = x
  BY LogOfAppend DEF Good, IsLog
<1>. HIDE DEF t
<1>2. DOMAIN t = 1..(Len(s) + 1)
  BY <1>1 DEF IsLog
<1>3. \A n : n \in DOMAIN t <=> n \in DOMAIN s \/ n = Len(s) + 1
  BY <1>1, <1>2
<1>4. \A n \in DOMAIN s : t[n] = s[n] /\ t[n].id # x.id
  BY <1>1 DEF Has
<1>5. Unique(t)
  BY <1>1, <1>3, <1>4 DEF Unique, Good
<1>6. \A id : Has(t, id) <=> Has(s, id) \/ id = x.id
  BY <1>1, <1>3, <1>4 DEF Has
<1>7. ASSUME NEW id, Has(s, id) PROVE Lookup(t, id) = Lookup(s, id)
  <2>1. PICK n \in DOMAIN s : s[n].id = id
    BY <1>7 DEF Has
  <2>2. Lookup(s, id) = s[n]
    BY <2>1, LookupIs DEF Good
  <2>3. n \in DOMAIN t /\ t[n] = s[n]
    BY <1>3, <1>4
  <2>4. Lookup(t, id) = t[n]
    BY <1>5, <2>1, <2>3, LookupIs
  <2>. QED  BY <2>2, <2>3, <2>4
<1>. QED  BY <1>1, <1>2, <1>4, <1>5, <1>6, <1>7 DEF t, Lengthened

(***************************************************************************)
(* What an evaluation takes from the books                                  *)
(***************************************************************************)
SamePressure(s, refs, t, others) ==
  /\ Pressures(s, refs) = <<>> <=> Pressures(t, others) = <<>>
  /\ Pressures(s, refs) # <<>> => Lookup(s, Pressures(s, refs)[1]) = Lookup(t, Pressures(t, others)[1])

LEMMA ValuationSame ==
  ASSUME NEW s, NEW refs, NEW t, NEW others, SamePressure(s, refs, t, others),
         NEW x, NEW y, NEW baseline, NEW coefficient
  PROVE  /\ ApplyValuation(s, refs, x, baseline, coefficient).estimate
              = ApplyValuation(t, others, y, baseline, coefficient).estimate
         /\ ApplyValuation(s, refs, x, baseline, coefficient).confidence
              = ApplyValuation(t, others, y, baseline, coefficient).confidence
<1>1. CASE Pressures(s, refs) = <<>>
  <2>1. Pressures(t, others) = <<>>
    BY <1>1 DEF SamePressure
  <2>. QED  BY <1>1, <2>1 DEF ApplyValuation
<1>2. CASE Pressures(s, refs) # <<>>
  <2>1. Pressures(t, others) # <<>>
        /\ Lookup(s, Pressures(s, refs)[1]) = Lookup(t, Pressures(t, others)[1])
    BY <1>2 DEF SamePressure
  <2>. QED  BY <1>2, <2>1 DEF ApplyValuation
<1>. QED  BY <1>1, <1>2

Reports(s, refs) == {id \in ToSet(Among(refs, "signal")) : Lookup(s, id).data.type = "report"}

LEMMA CreditSame ==
  ASSUME NEW s, NEW refs, NEW t, NEW others, SamePressure(s, refs, t, others), NEW x, NEW y,
         x = <<>> <=> y = <<>>,
         Reports(s, refs) = {} <=> Reports(t, others) = {},
         Chosen(s, Among(refs, "valuation")) = Chosen(t, Among(others, "valuation"))
  PROVE  /\ ApplyCreditReview(s, refs, x).scores = ApplyCreditReview(t, others, y).scores
         /\ ApplyCreditReview(s, refs, x).covered = ApplyCreditReview(t, others, y).covered
<1>1. CASE Pressures(s, refs) = <<>>
  <2>1. Pressures(t, others) = <<>>
    BY <1>1 DEF SamePressure
  <2>. QED  BY <1>1, <2>1 DEF ApplyCreditReview, Reports
<1>2. CASE Pressures(s, refs) # <<>>
  <2>1. Pressures(t, others) # <<>>
        /\ Lookup(s, Pressures(s, refs)[1]) = Lookup(t, Pressures(t, others)[1])
    BY <1>2 DEF SamePressure
  <2>. QED  BY <1>2, <2>1 DEF ApplyCreditReview, Reports
<1>. QED  BY <1>1, <1>2

PressurePlaces(s, refs) == {n \in DOMAIN refs : IsPressure(s, refs[n])}

LEMMA PressuresAre ==
  ASSUME NEW s, NEW refs, IsLog(refs)
  PROVE  PickedFrom(refs, PressurePlaces(s, refs), Pressures(s, refs))
<1>1. PressurePlaces(s, refs) \subseteq DOMAIN refs
  BY DEF PressurePlaces
<1>. QED  BY <1>1, PickedIs DEF Pressures, PressurePlaces

LEMMA FirstPressure ==
  ASSUME NEW s, NEW refs, IsLog(refs)
  PROVE  /\ Pressures(s, refs) # <<>> => \E n \in DOMAIN refs :
               /\ Pressures(s, refs)[1] = refs[n] /\ IsPressure(s, refs[n])
               /\ \A m \in DOMAIN refs : IsPressure(s, refs[m]) => n <= m
         /\ Pressures(s, refs) = <<>> <=> \A n \in DOMAIN refs : ~IsPressure(s, refs[n])
<1>. DEFINE P == PressurePlaces(s, refs)
            t == Pressures(s, refs)
<1>1. PickedFrom(refs, P, t)
  BY PressuresAre
<1>2. (P = {} <=> t = <<>>) /\ (P # {} => \E n \in P : t[1] = refs[n] /\ \A m \in P : n <= m)
  <2>. HIDE DEF P, t
  <2>. QED  BY <1>1 DEF PickedFrom
<1>. HIDE DEF t
<1>3. \A n : n \in P <=> n \in DOMAIN refs /\ IsPressure(s, refs[n])
  BY DEF PressurePlaces
<1>. HIDE DEF P
<1>. QED  BY <1>2, <1>3 DEF t

(* The books grow, and what is cited is looked up as before. *)
SameSignals(s, t, refs) ==
  \A id \in EntriesOf(refs) : Kind(id) \in {"signal", "valuation"} => Lookup(s, id) = Lookup(t, id)

LEMMA PressureStays ==
  ASSUME NEW s, NEW t, NEW refs, IsLog(refs), SameSignals(s, t, refs)
  PROVE  SamePressure(s, refs, t, refs)
<1>1. \A n \in DOMAIN refs : refs[n] \in EntriesOf(refs)
  BY DEF EntriesOf
<1>2. \A n \in DOMAIN refs : IsPressure(s, refs[n]) <=> IsPressure(t, refs[n])
  BY <1>1 DEF IsPressure, SameSignals
<1>3. {n \in DOMAIN refs : IsPressure(s, refs[n])} = {n \in DOMAIN refs : IsPressure(t, refs[n])}
  BY <1>2
<1>4. Pressures(s, refs) = Pressures(t, refs)
  BY <1>3 DEF Pressures
<1>5. ASSUME Pressures(s, refs) # <<>>
      PROVE  Lookup(s, Pressures(s, refs)[1]) = Lookup(t, Pressures(s, refs)[1])
  <2>1. PICK n \in DOMAIN refs : Pressures(s, refs)[1] = refs[n] /\ IsPressure(s, refs[n])
    BY <1>5, FirstPressure
  <2>2. Lookup(s, refs[n]) = Lookup(t, refs[n])
    BY <1>1, <2>1 DEF IsPressure, SameSignals
  <2>. QED  BY <2>1, <2>2
<1>. QED  BY <1>4, <1>5 DEF SamePressure

KindPlaces(refs, kind) == {n \in DOMAIN refs : Kind(refs[n]) = kind}

LEMMA AmongIs ==
  ASSUME NEW refs, IsLog(refs), NEW kind
  PROVE  PickedFrom(refs, KindPlaces(refs, kind), Among(refs, kind))
<1>1. KindPlaces(refs, kind) \subseteq DOMAIN refs
  BY DEF KindPlaces
<1>. QED  BY <1>1, PickedIs DEF Among, KindPlaces

LEMMA AmongEntries ==
  ASSUME NEW refs, IsLog(refs), NEW kind
  PROVE  /\ IsLog(Among(refs, kind)) /\ DOMAIN Among(refs, kind) = 1..Len(Among(refs, kind))
         /\ \A id : id \in EntriesOf(Among(refs, kind)) <=> id \in EntriesOf(refs) /\ Kind(id) = kind
<1>. DEFINE P == KindPlaces(refs, kind)
            t == Among(refs, kind)
<1>1. PickedFrom(refs, P, t)
  BY AmongIs
<1>2. IsLog(t) /\ DOMAIN t = 1..Len(t) /\ EntriesOf(t) = {refs[n] : n \in P}
  <2>. HIDE DEF P, t
  <2>. QED  BY <1>1 DEF PickedFrom
<1>. HIDE DEF t
<1>3. \A n : n \in P <=> n \in DOMAIN refs /\ Kind(refs[n]) = kind
  BY DEF KindPlaces
<1>. HIDE DEF P
<1>4. \A id : id \in EntriesOf(t) <=> id \in EntriesOf(refs) /\ Kind(id) = kind
  BY <1>2, <1>3 DEF EntriesOf
<1>. QED  BY <1>2, <1>4 DEF t

LEMMA NoteStays ==
  ASSUME NEW s, NEW t, NEW refs, IsLog(refs), SameSignals(s, t, refs)
  PROVE  /\ Reports(s, refs) = Reports(t, refs)
         /\ Chosen(s, Among(refs, "valuation")) = Chosen(t, Among(refs, "valuation"))
<1>1. \A kind : ToSet(Among(refs, kind)) = EntriesOf(Among(refs, kind))
  BY DEF ToSet, EntriesOf
<1>2. \A id \in ToSet(Among(refs, "signal")) : Lookup(s, id) = Lookup(t, id)
  BY <1>1, AmongEntries DEF SameSignals
<1>3. Reports(s, refs) = Reports(t, refs)
  BY <1>2 DEF Reports
<1>. DEFINE claims == Among(refs, "valuation")
<1>4. \A n \in DOMAIN claims : claims[n] \in EntriesOf(claims)
  BY DEF EntriesOf
<1>5. \A n \in DOMAIN claims : Lookup(s, claims[n]) = Lookup(t, claims[n])
  BY <1>4, AmongEntries DEF SameSignals
<1>6. Chosen(s, claims) = Chosen(t, claims)
  BY <1>5 DEF Chosen
<1>. QED  BY <1>3, <1>6

LEMMA HonestStays ==
  ASSUME NEW s, Good(s), NEW y, ~Has(s, y.id), NEW x, Honest(s, x)
  PROVE  Honest(Append(s, y), x)
<1>. DEFINE t == Append(s, y)
<1>1. Lengthened(s, y, t)
  BY OneMore
<1>. HIDE DEF t
<1>2. \A id : Has(s, id) => Has(t, id) /\ Lookup(t, id) = Lookup(s, id)
  BY <1>1 DEF Lengthened
<1>3. Seen(s, x) => Seen(t, x)
  <2>1. SUFFICES ASSUME Seen(s, x), NEW id \in EntriesOf(x.refs)
                 PROVE  /\ Kind(id) \in Offerable
                        /\ Kind(id) = "signal" => Has(t, id)
                        /\ Kind(id) = "observation" => Has(Observations, id)
                        /\ Kind(id) = "exposure" => Has(Exposures, id)
                        /\ SeenBy(t, x.actor, x.date, id)
    BY DEF Seen
  <2>2. /\ Kind(id) \in Offerable
        /\ Kind(id) = "signal" => Has(s, id)
        /\ Kind(id) = "observation" => Has(Observations, id)
        /\ Kind(id) = "exposure" => Has(Exposures, id)
        /\ SeenBy(s, x.actor, x.date, id)
    BY <2>1 DEF Seen
  <2>3. SeenBy(t, x.actor, x.date, id)
    BY <1>2, <2>2 DEF SeenBy, Offerable
  <2>. QED  BY <1>2, <2>2, <2>3
<1>4. Told(s, x) => Told(t, x) /\ SameSignals(s, t, x.refs)
  BY <1>2 DEF Told, SameSignals
<1>5. Told(s, x) /\ IsLog(x.refs) /\ ClaimFollows(s, x) => ClaimFollows(t, x)
  <2>. SUFFICES ASSUME Told(s, x), IsLog(x.refs), ClaimFollows(s, x) PROVE ClaimFollows(t, x)
    OBVIOUS
  <2>. DEFINE was == ApplyValuation(s, x.refs, <<>>, x.data.baseline, x.data.coefficient)
              is == ApplyValuation(t, x.refs, <<>>, x.data.baseline, x.data.coefficient)
  <2>1. SamePressure(s, x.refs, t, x.refs)
    BY <1>4, PressureStays
  <2>2. was.estimate = is.estimate /\ was.confidence = is.confidence
    BY <2>1, ValuationSame
  <2>. QED  BY <2>2 DEF ClaimFollows
<1>6. Told(s, x) /\ IsLog(x.refs) /\ NoteFollows(s, x) => NoteFollows(t, x)
  <2>. SUFFICES ASSUME Told(s, x), IsLog(x.refs), NoteFollows(s, x) PROVE NoteFollows(t, x)
    OBVIOUS
  <2>. DEFINE sel == Among(x.refs, "selection")
              was == ApplyCreditReview(s, x.refs, sel)
              is == ApplyCreditReview(t, x.refs, sel)
  <2>1. SamePressure(s, x.refs, t, x.refs)
    BY <1>4, PressureStays
  <2>2. Reports(s, x.refs) = Reports(t, x.refs)
        /\ Chosen(s, Among(x.refs, "valuation")) = Chosen(t, Among(x.refs, "valuation"))
    BY <1>4, NoteStays
  <2>3. was.scores = is.scores /\ was.covered = is.covered
    BY <2>1, <2>2, CreditSame
  <2>. QED  BY <2>3 DEF NoteFollows
<1>7. Honest(t, x)
  BY <1>3, <1>4, <1>5, <1>6 DEF Honest
<1>. QED  BY <1>7 DEF t

LEMMA GoodAdded ==
  ASSUME NEW s, Good(s), NEW x, x.id \notin Known(s), Fits(s, x)
  PROVE  Good(Append(s, x)) /\ Lengthened(s, x, Append(s, x))
<1>. DEFINE t == Append(s, x)
<1>1. ~Has(s, x.id) /\ x.id \notin Beside
  BY DEF Known, Has, IdsIn, ToSet
<1>2. Lengthened(s, x, t)
  BY <1>1, OneMore
<1>3. \A y : Honest(s, y) => Honest(t, y)
  BY <1>1, HonestStays
<1>. HIDE DEF t
<1>4. ASSUME NEW n \in DOMAIN s
      PROVE  t[n].id \notin Beside /\ Founded(t, n) /\ Honest(t, t[n])
  <2>1. t[n] = s[n] /\ \A m \in 1..(n - 1) : t[m] = s[m]
    BY <1>2 DEF Lengthened
  <2>2. s[n].id \notin Beside /\ Founded(s, n) /\ Honest(s, s[n])
    BY DEF Good
  <2>3. Founded(t, n)
    BY <2>1, <2>2 DEF Founded
  <2>. QED  BY <1>3, <2>1, <2>2, <2>3
<1>5. ASSUME NEW n, n = Len(s) + 1
      PROVE  t[n].id \notin Beside /\ Founded(t, n) /\ Honest(t, t[n])
  <2>1. t[n] = x /\ \A m \in 1..(n - 1) : t[m] = s[m]
    BY <1>2, <1>5 DEF Lengthened
  <2>2. \A id : Has(s, id) => \E m \in 1..(n - 1) : t[m].id = id
    <3>1. DOMAIN s = 1..(n - 1)
      BY <1>2, <1>5 DEF Lengthened
    <3>. QED  BY <2>1, <3>1 DEF Has
  <2>3. Founded(t, n)
    BY <2>1, <2>2 DEF Founded, Fits
  <2>. QED  BY <1>1, <1>3, <2>1, <2>3 DEF Fits
<1>6. \A n \in DOMAIN t : n \in DOMAIN s \/ n = Len(s) + 1
  BY <1>2 DEF Lengthened
<1>7. Good(t)
  BY <1>2, <1>4, <1>5, <1>6 DEF Good, Lengthened
<1>. QED  BY <1>2, <1>7 DEF t

(***************************************************************************)
(* What is known                                                           *)
(***************************************************************************)
LEMMA JoinedEntries ==
  ASSUME NEW s, NEW t, IsLog(s), IsLog(t)
  PROVE  IsLog(s \o t) /\ EntriesOf(s \o t) = EntriesOf(s) \cup EntriesOf(t)
<1>. DEFINE u == s \o t
<1>1. /\ IsLog(u) /\ Len(u) = Len(s) + Len(t)
      /\ \A i \in 1..Len(s) : u[i] = s[i]
      /\ \A i \in 1..Len(t) : u[Len(s) + i] = t[i]
  BY LogExtended
<1>. HIDE DEF u
<1>2. /\ DOMAIN u = 1..Len(u) /\ DOMAIN s = 1..Len(s) /\ DOMAIN t = 1..Len(t)
      /\ Len(s) \in Nat /\ Len(t) \in Nat
  BY <1>1 DEF IsLog
<1>3. \A n \in DOMAIN u : n \in 1..Len(s) \/ (n - Len(s) \in 1..Len(t) /\ n = Len(s) + (n - Len(s)))
  BY <1>1, <1>2
<1>4. \A n \in DOMAIN u : u[n] \in EntriesOf(s) \cup EntriesOf(t)
  BY <1>1, <1>2, <1>3 DEF EntriesOf
<1>5. /\ \A i \in 1..Len(s) : i \in DOMAIN u
      /\ \A i \in 1..Len(t) : Len(s) + i \in DOMAIN u
  BY <1>1, <1>2
<1>6. EntriesOf(s) \cup EntriesOf(t) \subseteq EntriesOf(u)
  BY <1>1, <1>2, <1>5 DEF EntriesOf
<1>. QED  BY <1>1, <1>4, <1>6 DEF EntriesOf, u

LEMMA IdsAre ==
  ASSUME NEW s, IsLog(s)
  PROVE  /\ IsLog(IdsIn(s)) /\ DOMAIN IdsIn(s) = DOMAIN s
         /\ \A id : id \in EntriesOf(IdsIn(s)) <=> Has(s, id)
<1>1. Len(s) \in Nat /\ DOMAIN s = 1..Len(s)
  BY DEF IsLog
<1>2. DOMAIN IdsIn(s) = DOMAIN s /\ \A n \in DOMAIN s : IdsIn(s)[n] = s[n].id
  BY DEF IdsIn
<1>3. IdsIn(s) = [n \in 1..Len(s) |-> IdsIn(s)[n]]
  BY <1>1 DEF IdsIn
<1>4. IsLog(IdsIn(s))
  BY <1>1, <1>3, LogOf
<1>. QED  BY <1>2, <1>4 DEF EntriesOf, Has

Elsewhere == {"observation", "exposure", "environment", "firm state"}

LEMMA ListedIs ==
  ASSUME NEW s, NEW kind, Listed(s, kind)
  PROVE  IsLog(s) /\ Unique(s) /\ \A id : Has(s, id) => Kind(id) = kind
<1>1. IsLog(s)
  BY ListsAreLogs DEF Listed
<1>. QED  BY <1>1 DEF Listed, Unique, Has

LEMMA BesideKinds ==
  /\ \A id \in Beside : Kind(id) \in Elsewhere
  /\ \A id : Has(Observations, id) \/ Has(Exposures, id) => id \in Beside
<1>1. /\ IsLog(Observations) /\ IsLog(Exposures) /\ IsLog(Environments) /\ IsLog(FirmStates)
      /\ \A id : Has(Observations, id) => Kind(id) = "observation"
      /\ \A id : Has(Exposures, id) => Kind(id) = "exposure"
      /\ \A id : Has(Environments, id) => Kind(id) = "environment"
      /\ \A id : Has(FirmStates, id) => Kind(id) = "firm state"
  BY BesideAssumption, ListedIs
<1>. DEFINE a == IdsIn(Observations)
            b == IdsIn(Exposures)
            c == IdsIn(Environments)
            d == IdsIn(FirmStates)
<1>2. /\ IsLog(a) /\ IsLog(b) /\ IsLog(c) /\ IsLog(d)
      /\ \A id : id \in EntriesOf(a) <=> Has(Observations, id)
      /\ \A id : id \in EntriesOf(b) <=> Has(Exposures, id)
      /\ \A id : id \in EntriesOf(c) <=> Has(Environments, id)
      /\ \A id : id \in EntriesOf(d) <=> Has(FirmStates, id)
  BY <1>1, IdsAre
<1>3. Beside = EntriesOf(a \o b \o c \o d)
  BY DEF Beside, ToSet, EntriesOf
<1>. HIDE DEF a, b, c, d
<1>4. IsLog(a \o b) /\ EntriesOf(a \o b) = EntriesOf(a) \cup EntriesOf(b)
  BY <1>2, JoinedEntries
<1>5. IsLog(a \o b \o c) /\ EntriesOf(a \o b \o c) = EntriesOf(a) \cup EntriesOf(b) \cup EntriesOf(c)
  BY <1>2, <1>4, JoinedEntries
<1>6. EntriesOf(a \o b \o c \o d) = EntriesOf(a) \cup EntriesOf(b) \cup EntriesOf(c) \cup EntriesOf(d)
  BY <1>2, <1>5, JoinedEntries
<1>. QED  BY <1>1, <1>2, <1>3, <1>6 DEF Elsewhere

LEMMA KnownIs == \A s, id : id \in Known(s) <=> id \in Beside \/ Has(s, id)
BY DEF Known, ToSet, IdsIn, Has

(***************************************************************************)
(* Calls                                                                   *)
(***************************************************************************)
Outcome(r) == Good(r.books) /\ r.raised \in BOOLEAN
Later(r, q) ==
  /\ r.raised => q.raised
  /\ \A id : Has(r.books, id) => Has(q.books, id)
Stores(r, q, id) ==
  Outcome(q) /\ Later(r, q) /\ (~q.raised => ~r.raised /\ id \in Known(q.books))

LEMMA PutIs ==
  ASSUME NEW r, Outcome(r), NEW x, r.raised \/ x.id \in Known(r.books) \/ Fits(r.books, x)
  PROVE  Stores(r, Put(r, x), x.id)
<1>1. CASE r.raised \/ x.id \in Known(r.books)
  <2>1. Put(r, x) = [books |-> r.books, raised |-> TRUE]
    BY <1>1 DEF Put, Refused
  <2>. QED  BY <2>1 DEF Stores, Outcome, Later
<1>2. CASE ~(r.raised \/ x.id \in Known(r.books))
  <2>1. Put(r, x) = [books |-> Append(r.books, x), raised |-> FALSE]
    BY <1>2 DEF Put, Begin
  <2>2. Good(Append(r.books, x)) /\ Lengthened(r.books, x, Append(r.books, x))
    BY <1>2, GoodAdded DEF Outcome
  <2>. DEFINE t == Append(r.books, x)
  <2>. HIDE DEF t
  <2>3. \A id : Has(t, id) <=> Has(r.books, id) \/ id = x.id
    BY <2>2 DEF Lengthened, t
  <2>4. x.id \in Known(t)
    BY <2>3, KnownIs
  <2>. QED  BY <1>2, <2>1, <2>2, <2>3, <2>4 DEF Stores, Outcome, Later, t
<1>. QED  BY <1>1, <1>2

LEMMA EnsureIs ==
  ASSUME NEW r, Outcome(r), NEW x, Fits(r.books, x)
  PROVE  Outcome(Ensure(r, x)) /\ Later(r, Ensure(r, x))
<1>1. CASE r.raised \/ x.id \in Known(r.books)
  BY <1>1 DEF Ensure, Later
<1>2. CASE ~(r.raised \/ x.id \in Known(r.books))
  BY <1>2, PutIs DEF Ensure, Stores
<1>. QED  BY <1>1, <1>2

LEMMA RequireIs ==
  ASSUME NEW r, Outcome(r), NEW ids
  PROVE  /\ Outcome(Require(r, ids)) /\ Later(r, Require(r, ids))
         /\ ~Require(r, ids).raised => Require(r, ids) = r /\ ids \subseteq Known(r.books)
<1>1. CASE r.raised \/ ~(ids \subseteq Known(r.books))
  BY <1>1 DEF Require, Refused, Outcome, Later
<1>2. CASE ~(r.raised \/ ~(ids \subseteq Known(r.books)))
  BY <1>2 DEF Require, Outcome, Later
<1>. QED  BY <1>1, <1>2

LEMMA RaisedIs ==
  ASSUME NEW r, Outcome(r)
  PROVE  Outcome(Refused(r))
BY DEF Refused, Outcome

LEMMA LaterOn ==
  ASSUME NEW r, NEW q, NEW p, Later(r, q), Later(q, p)
  PROVE  Later(r, p)
BY DEF Later

NoEntries == EntriesOf(<<>>) = {} /\ IsLog(<<>>)
LEMMA NothingListed == NoEntries
BY DEF EntriesOf, IsLog, NoEntries

Special == {"menu", "selection", "run", "valuation", "signal"}

LEMMA PlainFits ==
  ASSUME NEW s, NEW id, Kind(id) \notin Special, NEW a
  PROVE  Fits(s, Booked(id, a, 0, <<>>, {}, <<>>))
<1>. DEFINE x == Booked(id, a, 0, <<>>, {}, <<>>)
<1>1. x.id = id /\ x.date = 0 /\ x.refs = <<>>
  BY DEF Booked
<1>. HIDE DEF x
<1>2. EntriesOf(x.refs) = {} /\ IsLog(x.refs)
  BY <1>1, NothingListed DEF NoEntries
<1>3. Honest(s, x)
  BY <1>1, <1>2 DEF Honest, Special, IsCredit
<1>. QED  BY <1>2, <1>3 DEF Fits, x

LEMMA InformationFits ==
  ASSUME NEW s, NEW type, type # "credit", NEW a, NEW d \in Nat, NEW refs, IsLog(refs), NEW payload,
         \A id \in EntriesOf(refs) : id \in Known(s)
  PROVE  Fits(s, Information(type, a, d, refs, {}, payload))
<1>. DEFINE x == Information(type, a, d, refs, {}, payload)
<1>1. x.id = <<"signal", type, a, d>> /\ x.date = d /\ x.refs = refs /\ x.data.type = type
  BY DEF Information, Booked, SignalId
<1>2. Kind(x.id) = "signal"
  BY <1>1 DEF Kind
<1>. HIDE DEF x
<1>3. Honest(s, x)
  BY <1>1, <1>2 DEF Honest, IsCredit
<1>. QED  BY <1>1, <1>3, KnownIs DEF Fits, x

LEMMA RegisteredIs ==
  ASSUME NEW r, Outcome(r), NEW a
  PROVE  Outcome(Registered(r, a)) /\ Later(r, Registered(r, a))
<1>. DEFINE x == Booked(Interaction(RoleOf[a]), a, 0, <<>>, {}, <<>>)
            y == Booked(Routine(a), a, 0, <<>>, {}, <<>>)
            q == Ensure(r, x)
<1>1. Kind(Interaction(RoleOf[a])) \notin Special /\ Kind(Routine(a)) \notin Special
  BY DEF Kind, Interaction, Routine, Special
<1>2. \A s : Fits(s, x) /\ Fits(s, y)
  BY <1>1, PlainFits
<1>3. Registered(r, a) = Ensure(q, y)
  BY DEF Registered
<1>. HIDE DEF x, y
<1>4. Outcome(q) /\ Later(r, q)
  BY <1>2, EnsureIs
<1>. HIDE DEF q
<1>. QED  BY <1>2, <1>3, <1>4, EnsureIs, LaterOn

(***************************************************************************)
(* Menus and selections                                                    *)
(***************************************************************************)

(* What an actor could see at its date. *)
InView(s, a, d, id) ==
  /\ Kind(id) \in Offerable
  /\ Kind(id) = "signal" => Has(s, id)
  /\ Kind(id) = "observation" => Has(Observations, id)
  /\ Kind(id) = "exposure" => Has(Exposures, id)
  /\ SeenBy(s, a, d, id)

LEMMA InViewLater ==
  ASSUME NEW s, Good(s), NEW a, NEW e \in Nat, NEW d \in Nat, e <= d, NEW id, InView(s, a, e, id)
  PROVE  InView(s, a, d, id) /\ id \in Known(s)
<1>1. id \in Known(s)
  BY BesideKinds, KnownIs DEF InView, Offerable
<1>2. CASE Kind(id) = "signal"
  <2>1. PICK n \in DOMAIN s : s[n].id = id
    BY <1>2 DEF InView, Has
  <2>2. Lookup(s, id) = s[n] /\ s[n].date \in Nat
    BY <2>1, LookupIs DEF Good, Honest
  <2>3. s[n].date <= e /\ a \in s[n].data.viewers
    BY <1>2, <2>2 DEF InView, SeenBy
  <2>4. s[n].date <= d
    BY <2>2, <2>3
  <2>5. SeenBy(s, a, d, id)
    BY <1>2, <2>2, <2>3, <2>4 DEF SeenBy
  <2>. QED  BY <1>1, <2>5 DEF InView
<1>3. CASE Kind(id) = "observation"
  <2>1. PICK n \in DOMAIN Observations : Observations[n].id = id
    BY <1>3 DEF InView, Has
  <2>2. Lookup(Observations, id) = Observations[n]
    BY <2>1, LookupIs, ListedIs, BesideAssumption
  <2>3. Observations[n].visibleFrom \in Nat
    BY BesideAssumption DEF ToSet
  <2>4. Observations[n].visibleFrom <= e
    BY <1>3, <2>2 DEF InView, SeenBy
  <2>5. Observations[n].visibleFrom <= d
    BY <2>3, <2>4
  <2>6. SeenBy(s, a, d, id)
    BY <1>3, <2>2, <2>5 DEF SeenBy
  <2>. QED  BY <1>1, <2>6 DEF InView
<1>4. CASE Kind(id) = "exposure"
  <2>1. PICK n \in DOMAIN Exposures : Exposures[n].id = id
    BY <1>4 DEF InView, Has
  <2>2. Lookup(Exposures, id) = Exposures[n]
    BY <2>1, LookupIs, ListedIs, BesideAssumption
  <2>3. Exposures[n].from \in Nat
    BY BesideAssumption DEF ToSet
  <2>4. Exposures[n].subject = a /\ Exposures[n].from <= e
    BY <1>4, <2>2 DEF InView, SeenBy
  <2>5. Exposures[n].from <= d
    BY <2>3, <2>4
  <2>6. SeenBy(s, a, d, id)
    BY <1>4, <2>2, <2>4, <2>5 DEF SeenBy
  <2>. QED  BY <1>1, <2>6 DEF InView
<1>. QED  BY <1>2, <1>3, <1>4 DEF InView, Offerable

LEMMA PickedIds ==
  ASSUME NEW s, IsLog(s), NEW P, P \subseteq DOMAIN s
  PROVE  /\ IsLog(IdsIn(Picked(s, P)))
         /\ \A id : id \in EntriesOf(IdsIn(Picked(s, P))) <=> \E n \in P : s[n].id = id
<1>. DEFINE t == Picked(s, P)
<1>1. PickedFrom(s, P, t)
  BY PickedIs
<1>. HIDE DEF t
<1>2. IsLog(t) /\ EntriesOf(t) = {s[n] : n \in P}
  BY <1>1 DEF PickedFrom
<1>3. \A id : Has(t, id) <=> \E x \in EntriesOf(t) : x.id = id
  BY DEF Has, EntriesOf
<1>4. \A id : Has(t, id) <=> \E n \in P : s[n].id = id
  BY <1>2, <1>3
<1>. QED  BY <1>2, <1>4, IdsAre DEF t

LEMMA SignalsOnOffer ==
  ASSUME NEW s, Good(s), NEW a, NEW d \in Nat
  PROVE  /\ IsLog(CollectVisibleSignals(s, a, d))
         /\ \A id \in EntriesOf(CollectVisibleSignals(s, a, d)) : InView(s, a, d, id)
<1>. DEFINE P == {n \in DOMAIN s : Kind(s[n].id) = "signal"}
            t == OfKind(s, "signal")
            Q == {n \in DOMAIN t : t[n].date <= d /\ a \in t[n].data.viewers}
<1>1. IsLog(t) /\ EntriesOf(t) = {s[n] : n \in P}
  <2>1. P \subseteq DOMAIN s /\ IsLog(s) /\ t = Picked(s, P)
    BY DEF Good, OfKind
  <2>. HIDE DEF P, t
  <2>2. PickedFrom(s, P, t)
    BY <2>1, PickedIs
  <2>. QED  BY <2>2 DEF PickedFrom
<1>2. \A n \in DOMAIN t : \E m \in DOMAIN s : t[n] = s[m] /\ Kind(s[m].id) = "signal"
  <2>1. \A n \in DOMAIN t : t[n] \in EntriesOf(t)
    BY DEF EntriesOf
  <2>. HIDE DEF t
  <2>. QED  BY <1>1, <2>1
<1>3. CollectVisibleSignals(s, a, d) = IdsIn(Picked(t, Q))
  BY DEF CollectVisibleSignals
<1>4. Q \subseteq DOMAIN t
  OBVIOUS
<1>5. ASSUME NEW n \in Q PROVE InView(s, a, d, t[n].id)
  <2>1. PICK m \in DOMAIN s : t[n] = s[m] /\ Kind(s[m].id) = "signal"
    BY <1>2
  <2>2. Lookup(s, s[m].id) = s[m]
    BY LookupIs DEF Good
  <2>3. s[m].date <= d /\ a \in s[m].data.viewers
    BY <2>1
  <2>4. SeenBy(s, a, d, s[m].id)
    BY <2>1, <2>2, <2>3 DEF SeenBy
  <2>. QED  BY <2>1, <2>4 DEF InView, Offerable, Has
<1>. HIDE DEF t, Q
<1>. QED  BY <1>1, <1>3, <1>4, <1>5, PickedIds

LEMMA ExposuresOnOffer ==
  ASSUME NEW s, NEW a, NEW d \in Nat
  PROVE  /\ IsLog(IdsIn(ActiveExposures(a, d)))
         /\ \A id \in EntriesOf(IdsIn(ActiveExposures(a, d))) : InView(s, a, d, id)
<1>. DEFINE Q == {n \in DOMAIN Exposures :
                    LET x == Exposures[n] IN x.subject = a /\ x.from <= d /\ d <= x.to}
<1>1. ActiveExposures(a, d) = Picked(Exposures, Q) /\ Q \subseteq DOMAIN Exposures
  BY DEF ActiveExposures
<1>2. IsLog(Exposures) /\ Unique(Exposures) /\ \A n \in DOMAIN Exposures : Kind(Exposures[n].id) = "exposure"
  BY BesideAssumption, ListedIs DEF Listed
<1>3. ASSUME NEW n \in Q PROVE InView(s, a, d, Exposures[n].id)
  <2>1. Lookup(Exposures, Exposures[n].id) = Exposures[n]
    BY <1>2, LookupIs
  <2>2. Exposures[n].subject = a /\ Exposures[n].from <= d
    OBVIOUS
  <2>3. Kind(Exposures[n].id) = "exposure"
    BY <1>2
  <2>4. SeenBy(s, a, d, Exposures[n].id)
    BY <2>1, <2>2, <2>3 DEF SeenBy
  <2>. QED  BY <2>3, <2>4 DEF InView, Offerable, Has
<1>. HIDE DEF Q
<1>. QED  BY <1>1, <1>2, <1>3, PickedIds

LEMMA ObservationsOnOffer ==
  ASSUME NEW s, NEW a, NEW d \in Nat
  PROVE  /\ IsLog(CollectVisibleObservations(a, d))
         /\ \A id \in EntriesOf(CollectVisibleObservations(a, d)) : InView(s, a, d, id)
<1>. DEFINE exposed == {x.variable : x \in ToSet(ActiveExposures(a, d))}
            Q == {n \in DOMAIN Observations :
                    Observations[n].visibleFrom <= d /\ Observations[n].variable \in exposed}
<1>1. CollectVisibleObservations(a, d) = IdsIn(Picked(Observations, Q))
  BY DEF CollectVisibleObservations
<1>. HIDE DEF exposed
<1>2. Q \subseteq DOMAIN Observations
  OBVIOUS
<1>3. /\ IsLog(Observations) /\ Unique(Observations)
      /\ \A n \in DOMAIN Observations : Kind(Observations[n].id) = "observation"
  BY BesideAssumption, ListedIs DEF Listed
<1>4. ASSUME NEW n \in Q PROVE InView(s, a, d, Observations[n].id)
  <2>1. Lookup(Observations, Observations[n].id) = Observations[n]
    BY <1>3, LookupIs
  <2>2. Observations[n].visibleFrom <= d
    OBVIOUS
  <2>3. Kind(Observations[n].id) = "observation"
    BY <1>3
  <2>4. SeenBy(s, a, d, Observations[n].id)
    BY <2>1, <2>2, <2>3 DEF SeenBy
  <2>. QED  BY <2>3, <2>4 DEF InView, Offerable, Has
<1>. HIDE DEF Q
<1>. QED  BY <1>1, <1>2, <1>3, <1>4, PickedIds

(* A record that holds what its actor could see at its date. *)
LEMMA OfferFits ==
  ASSUME NEW s, Good(s), NEW kind \in {"menu", "selection"}, NEW a, NEW d \in Nat,
         NEW refs, IsLog(refs), \A id \in EntriesOf(refs) : InView(s, a, d, id)
  PROVE  Fits(s, Booked(<<kind, a, d>>, a, d, refs, {}, <<>>))
<1>. DEFINE x == Booked(<<kind, a, d>>, a, d, refs, {}, <<>>)
<1>1. x.id = <<kind, a, d>> /\ x.actor = a /\ x.date = d /\ x.refs = refs /\ x.missing = {}
  BY DEF Booked
<1>2. Kind(x.id) = kind
  BY <1>1 DEF Kind
<1>. HIDE DEF x
<1>3. Seen(s, x)
  BY <1>1 DEF Seen, InView
<1>4. Honest(s, x)
  BY <1>1, <1>2, <1>3 DEF Honest, IsCredit
<1>5. \A id \in EntriesOf(refs) : id \in Known(s)
  BY InViewLater
<1>. QED  BY <1>1, <1>4, <1>5, KnownIs DEF Fits, x

LEMMA MenuFits ==
  ASSUME NEW s, Good(s), NEW a, NEW d \in Nat
  PROVE  Fits(s, BuildMenu(s, a, d)) /\ BuildMenu(s, a, d).id = MenuId(a, d)
<1>. DEFINE u == CollectVisibleSignals(s, a, d)
            v == CollectVisibleObservations(a, d)
            w == IdsIn(ActiveExposures(a, d))
<1>1. /\ IsLog(u) /\ \A id \in EntriesOf(u) : InView(s, a, d, id)
      /\ IsLog(v) /\ \A id \in EntriesOf(v) : InView(s, a, d, id)
      /\ IsLog(w) /\ \A id \in EntriesOf(w) : InView(s, a, d, id)
  BY SignalsOnOffer, ObservationsOnOffer, ExposuresOnOffer
<1>2. BuildMenu(s, a, d) = Booked(<<"menu", a, d>>, a, d, u \o v \o w, {}, <<>>)
  BY DEF BuildMenu, MenuId
<1>. HIDE DEF u, v, w
<1>3. IsLog(u \o v) /\ EntriesOf(u \o v) = EntriesOf(u) \cup EntriesOf(v)
  BY <1>1, JoinedEntries
<1>4. IsLog(u \o v \o w) /\ EntriesOf(u \o v \o w) = EntriesOf(u \o v) \cup EntriesOf(w)
  BY <1>1, <1>3, JoinedEntries
<1>. DEFINE refs == u \o v \o w
<1>. HIDE DEF refs
<1>5. IsLog(refs) /\ \A id \in EntriesOf(refs) : InView(s, a, d, id)
  BY <1>1, <1>3, <1>4 DEF refs
<1>6. Fits(s, Booked(<<"menu", a, d>>, a, d, refs, {}, <<>>))
  BY <1>5, OfferFits
<1>7. Booked(<<"menu", a, d>>, a, d, refs, {}, <<>>).id = <<"menu", a, d>>
  BY DEF Booked
<1>. QED  BY <1>2, <1>6, <1>7 DEF refs, MenuId

(* What a menu or a selection of an actor and date holds. *)
LEMMA OfferRead ==
  ASSUME NEW s, Good(s), NEW kind \in {"menu", "selection"}, NEW a, NEW d,
         <<kind, a, d>> \in Known(s)
  PROVE  LET refs == Lookup(s, <<kind, a, d>>).refs
         IN d \in Nat /\ IsLog(refs) /\ \A id \in EntriesOf(refs) : InView(s, a, d, id)
<1>. DEFINE key == <<kind, a, d>>
<1>1. Kind(key) = kind /\ key[2] = a /\ key[3] = d
  BY DEF Kind
<1>. HIDE DEF key
<1>2. key \notin Beside
  BY <1>1, BesideKinds DEF Elsewhere
<1>3. PICK n \in DOMAIN s : s[n].id = key
  BY <1>2, KnownIs DEF key, Has
<1>4. Lookup(s, key) = s[n] /\ Honest(s, s[n])
  BY <1>3, LookupIs DEF Good
<1>5. s[n].id = <<Kind(s[n].id), s[n].actor, s[n].date>> /\ Seen(s, s[n])
  BY <1>1, <1>3, <1>4 DEF Honest
<1>6. s[n].actor = a /\ s[n].date = d
  BY <1>1, <1>3, <1>5
<1>7. \A id \in EntriesOf(s[n].refs) : InView(s, a, d, id)
  BY <1>5, <1>6 DEF Seen, InView
<1>. QED  BY <1>4, <1>6, <1>7 DEF Honest, key

LEMMA SelectIs ==
  ASSUME NEW r, Outcome(r), NEW a, NEW d \in Nat, ~r.raised => MenuId(a, d) \in Known(r.books)
  PROVE  Outcome(SelectFor(r, a, d)) /\ Later(r, SelectFor(r, a, d))
<1>1. CASE r.raised
  BY <1>1 DEF SelectFor, Later
<1>2. CASE ~r.raised
  <2>. DEFINE menu == Lookup(r.books, <<"menu", a, d>>).refs
              P == {n \in DOMAIN menu : Watches(a, r.books, menu[n])}
              x == Booked(<<"selection", a, d>>, a, d, Picked(menu, P), {}, <<>>)
  <2>1. SelectFor(r, a, d) = Put(r, x)
    BY <1>2 DEF SelectFor, MenuId, SelectionId
  <2>2. IsLog(menu) /\ \A id \in EntriesOf(menu) : InView(r.books, a, d, id)
    BY <1>2, OfferRead DEF Outcome, MenuId
  <2>3. P \subseteq DOMAIN menu
    OBVIOUS
  <2>. HIDE DEF menu, P
  <2>4. PickedFrom(menu, P, Picked(menu, P))
    BY <2>2, <2>3, PickedIs
  <2>5. IsLog(Picked(menu, P)) /\ EntriesOf(Picked(menu, P)) \subseteq EntriesOf(menu)
    BY <2>3, <2>4 DEF PickedFrom, EntriesOf
  <2>6. Fits(r.books, x)
    BY <2>2, <2>5, OfferFits DEF Outcome
  <2>. HIDE DEF x
  <2>7. Stores(r, Put(r, x), x.id)
    BY <2>6, PutIs
  <2>. QED  BY <2>1, <2>7 DEF Stores
<1>. QED  BY <1>1, <1>2

LEMMA KnownLater ==
  ASSUME NEW r, NEW q, Later(r, q), NEW id, id \in Known(r.books)
  PROVE  id \in Known(q.books)
BY KnownIs DEF Later

LEMMA AttentionIs ==
  ASSUME NEW r, Outcome(r), NEW d \in Nat
  PROVE  Outcome(RunAttention(r, d)) /\ Later(r, RunAttention(r, d))
<1>. DEFINE x == Booked(Profile(Investor), Investor, 0, <<>>, {}, <<>>)
            y == Booked(Profile(Bank), Bank, 0, <<>>, {}, <<>>)
            begun == Ensure(r, x)
            profiled == Ensure(begun, y)
            first == Put(profiled, BuildMenu(profiled.books, Investor, d))
            second == Put(first, BuildMenu(first.books, Bank, d))
            third == SelectFor(second, Investor, d)
<1>1. RunAttention(r, d) = SelectFor(third, Bank, d)
  BY DEF RunAttention
<1>2. \A s : Fits(s, x) /\ Fits(s, y)
  <2>1. Kind(Profile(Investor)) \notin Special /\ Kind(Profile(Bank)) \notin Special
    BY DEF Kind, Profile, Special
  <2>. QED  BY <2>1, PlainFits
<1>. HIDE DEF x, y
<1>3. Outcome(begun) /\ Later(r, begun)
  BY <1>2, EnsureIs
<1>. HIDE DEF begun
<1>4. Outcome(profiled) /\ Later(begun, profiled)
  BY <1>2, <1>3, EnsureIs
<1>. HIDE DEF profiled
<1>5. Stores(profiled, first, MenuId(Investor, d))
  <2>1. Fits(profiled.books, BuildMenu(profiled.books, Investor, d))
        /\ BuildMenu(profiled.books, Investor, d).id = MenuId(Investor, d)
    BY <1>4, MenuFits DEF Outcome
  <2>. QED  BY <1>4, <2>1, PutIs
<1>. HIDE DEF first
<1>6. Outcome(first) /\ Later(profiled, first) /\ (~first.raised => MenuId(Investor, d) \in Known(first.books))
  BY <1>5 DEF Stores
<1>7. Stores(first, second, MenuId(Bank, d))
  <2>1. Fits(first.books, BuildMenu(first.books, Bank, d))
        /\ BuildMenu(first.books, Bank, d).id = MenuId(Bank, d)
    BY <1>6, MenuFits DEF Outcome
  <2>. QED  BY <1>6, <2>1, PutIs
<1>. HIDE DEF second
<1>8. Outcome(second) /\ Later(first, second) /\ (~second.raised => ~first.raised /\ MenuId(Bank, d) \in Known(second.books))
  BY <1>7 DEF Stores
<1>9. ~second.raised => MenuId(Investor, d) \in Known(second.books)
  BY <1>6, <1>8, KnownLater
<1>10. Outcome(third) /\ Later(second, third)
  BY <1>8, <1>9, SelectIs
<1>. HIDE DEF third
<1>11. ~third.raised => ~second.raised
  BY <1>8, <1>10 DEF Later, Outcome
<1>12. ~third.raised => MenuId(Bank, d) \in Known(third.books)
  BY <1>8, <1>10, <1>11, KnownLater
<1>13. Outcome(SelectFor(third, Bank, d)) /\ Later(third, SelectFor(third, Bank, d))
  BY <1>10, <1>12, SelectIs
<1>14. Later(r, third)
  BY <1>3, <1>4, <1>6, <1>8, <1>10, LaterOn
<1>. QED  BY <1>1, <1>13, <1>14, LaterOn

(***************************************************************************)
(* Routines                                                                *)
(***************************************************************************)
OwnList(a, d, selections) ==
  IsLog(selections) /\ \A id \in EntriesOf(selections) : \E e \in Nat : e <= d /\ id = SelectionId(a, e)

LEMMA SelectedIs ==
  ASSUME NEW s, Good(s), NEW a, NEW d \in Nat, NEW selections, OwnList(a, d, selections),
         EntriesOf(selections) \subseteq Known(s)
  PROVE  /\ IsLog(CollectSelectedRefs(s, selections))
         /\ \A id \in EntriesOf(CollectSelectedRefs(s, selections)) : InView(s, a, d, id)
<1>. DEFINE ss == [n \in DOMAIN selections |-> Lookup(s, selections[n]).refs]
<1>1. Len(selections) \in Nat /\ DOMAIN selections = 1..Len(selections)
  BY DEF OwnList, IsLog
<1>2. ss = [n \in 1..Len(selections) |-> ss[n]] /\ DOMAIN ss = DOMAIN selections
  BY <1>1
<1>3. ASSUME NEW n \in DOMAIN selections
      PROVE  IsLog(ss[n]) /\ \A id \in EntriesOf(ss[n]) : InView(s, a, d, id)
  <2>1. selections[n] \in EntriesOf(selections)
    BY DEF EntriesOf
  <2>2. PICK e \in Nat : e <= d /\ selections[n] = <<"selection", a, e>>
    BY <2>1 DEF OwnList, SelectionId
  <2>3. <<"selection", a, e>> \in Known(s)
    BY <2>1, <2>2
  <2>. DEFINE refs == Lookup(s, <<"selection", a, e>>).refs
  <2>4. IsLog(refs) /\ \A id \in EntriesOf(refs) : InView(s, a, e, id)
    BY <2>3, OfferRead
  <2>5. ss[n] = refs
    BY <2>2
  <2>. HIDE DEF refs, ss
  <2>. QED  BY <2>2, <2>4, <2>5, InViewLater
<1>4. CollectSelectedRefs(s, selections) = Flattened(ss)
  BY DEF CollectSelectedRefs
<1>. HIDE DEF ss
<1>5. IsLog(ss)
  BY <1>1, <1>2, LogOf
<1>6. AllLogs(ss)
  BY <1>2, <1>3, <1>5 DEF AllLogs
<1>7. IsLog(Flattened(ss)) /\ EntriesOf(Flattened(ss)) = UNION {EntriesOf(ss[n]) : n \in DOMAIN ss}
  BY <1>6, FlattenedIs
<1>8. ASSUME NEW id \in EntriesOf(Flattened(ss)) PROVE InView(s, a, d, id)
  <2>1. PICK n \in DOMAIN ss : id \in EntriesOf(ss[n])
    BY <1>7
  <2>. QED  BY <1>2, <1>3, <2>1
<1>. QED  BY <1>4, <1>7, <1>8

LEMMA RunFits ==
  ASSUME NEW s, Good(s), NEW type, NEW a, NEW d \in Nat, NEW refs, IsLog(refs), NEW data,
         a # Firm => \A id \in EntriesOf(refs) : InView(s, a, d, id),
         \A id \in EntriesOf(refs) : id = <<"actor", Firm>> \/ id \in Known(s)
  PROVE  Fits(s, Booked(RunId(type, a, d), a, d, refs, {}, data))
<1>. DEFINE x == Booked(RunId(type, a, d), a, d, refs, {}, data)
<1>1. x.id = <<"run", type, a, d>> /\ x.actor = a /\ x.date = d /\ x.refs = refs
  BY DEF Booked, RunId
<1>2. Kind(x.id) = "run"
  BY <1>1 DEF Kind
<1>. HIDE DEF x
<1>3. a # Firm => Seen(s, x)
  BY <1>1 DEF Seen, InView
<1>4. Honest(s, x)
  BY <1>1, <1>2, <1>3 DEF Honest, IsCredit
<1>. QED  BY <1>1, <1>4, KnownIs DEF Fits, x

LEMMA ExecuteIs ==
  ASSUME NEW r, Outcome(r), NEW a, NEW d \in Nat, NEW explicit, IsLog(explicit),
         \A id \in EntriesOf(explicit) : id = <<"actor", Firm>> /\ a = Firm,
         NEW selections, OwnList(a, d, selections), NEW output
  PROVE  Stores(r, ExecuteRequest(r, a, d, explicit, selections, output), RunId(RoutineType(a), a, d))
<1>. DEFINE ids == {Routine(a), Interaction(RoleOf[a])} \cup ToSet(selections)
            checked == Require(r, ids)
            got == CollectSelectedRefs(r.books, selections)
            inputs == Distinct(explicit \o got)
            x == Booked(RunId(RoutineType(a), a, d), a, d, inputs, {},
                   [output |-> output, status |-> IF inputs = <<>> THEN "degraded" ELSE "completed"])
<1>1. ExecuteRequest(r, a, d, explicit, selections, output)
        = IF checked.raised THEN checked ELSE Put(checked, x)
  BY DEF ExecuteRequest
<1>. HIDE DEF checked
<1>2. /\ Outcome(checked) /\ Later(r, checked)
      /\ ~checked.raised => checked = r /\ ids \subseteq Known(r.books)
  BY RequireIs DEF checked
<1>3. CASE checked.raised
  <2>1. ExecuteRequest(r, a, d, explicit, selections, output) = checked
    BY <1>1, <1>3
  <2>. HIDE DEF x
  <2>. QED  BY <1>2, <1>3, <2>1 DEF Stores
<1>4. CASE ~checked.raised
  <2>1. EntriesOf(selections) \subseteq Known(r.books)
    BY <1>2, <1>4 DEF EntriesOf, ToSet
  <2>2. IsLog(got) /\ \A id \in EntriesOf(got) : InView(r.books, a, d, id) /\ id \in Known(r.books)
    BY <2>1, SelectedIs, InViewLater DEF Outcome
  <2>. HIDE DEF got
  <2>3. IsLog(explicit \o got) /\ EntriesOf(explicit \o got) = EntriesOf(explicit) \cup EntriesOf(got)
    BY <2>2, JoinedEntries
  <2>4. DistinctOf(explicit \o got, inputs)
    BY <2>3, DistinctIs
  <2>. HIDE DEF inputs
  <2>5. IsLog(inputs) /\ EntriesOf(inputs) = EntriesOf(explicit) \cup EntriesOf(got)
    BY <2>3, <2>4 DEF DistinctOf
  <2>6. Fits(r.books, x)
    <3>1. a # Firm => \A id \in EntriesOf(inputs) : InView(r.books, a, d, id)
      BY <2>2, <2>5
    <3>2. \A id \in EntriesOf(inputs) : id = <<"actor", Firm>> \/ id \in Known(r.books)
      BY <2>2, <2>5
    <3>. QED  BY <2>5, <3>1, <3>2, RunFits DEF Outcome
  <2>7. x.id = RunId(RoutineType(a), a, d)
    BY DEF Booked
  <2>. HIDE DEF x
  <2>8. Stores(r, Put(r, x), x.id)
    BY <2>6, PutIs
  <2>. QED  BY <1>1, <1>2, <1>4, <2>7, <2>8
<1>. QED  BY <1>3, <1>4

(* What a routine tells names its run. *)
LEMMA ToldOfRun ==
  ASSUME NEW r, Outcome(r), NEW type, type # "credit", NEW a, NEW d \in Nat, NEW id, NEW payload,
         ~r.raised => id \in Known(r.books)
  PROVE  /\ Outcome(Put(r, Information(type, a, d, <<id>>, {}, payload)))
         /\ Later(r, Put(r, Information(type, a, d, <<id>>, {}, payload)))
<1>. DEFINE refs == <<id>>
            x == Information(type, a, d, refs, {}, payload)
<1>1. IsLog(refs) /\ EntriesOf(refs) = {id}
  BY LogOfOne DEF EntriesOf
<1>. HIDE DEF refs
<1>2. ~r.raised => Fits(r.books, x)
  BY <1>1, InformationFits
<1>3. Stores(r, Put(r, x), x.id)
  <2>. HIDE DEF x
  <2>. QED  BY <1>2, PutIs DEF Outcome
<1>. QED  BY <1>3 DEF Stores, refs

LEMMA ReportingIs ==
  ASSUME NEW r, Outcome(r), NEW d \in Nat
  PROVE  Outcome(RunReporting(r, d)) /\ Later(r, RunReporting(r, d))
<1>. DEFINE explicit == <<<<"actor", Firm>>>>
            selections == <<>>
            q == ExecuteRequest(r, Firm, d, explicit, selections, SignalId("report", Firm, d))
<1>1. IsLog(explicit) /\ EntriesOf(explicit) = {<<"actor", Firm>>}
  BY LogOfOne DEF EntriesOf
<1>2. OwnList(Firm, d, selections)
  BY NothingListed DEF OwnList, NoEntries
<1>. HIDE DEF explicit, selections
<1>3. Stores(r, q, RunId("report", Firm, d))
  BY <1>1, <1>2, ExecuteIs DEF RoutineType
<1>. HIDE DEF q
<1>4. Outcome(q) /\ Later(r, q) /\ (~q.raised => RunId("report", Firm, d) \in Known(q.books))
  BY <1>3 DEF Stores
<1>. DEFINE p == Put(q, Information("report", Firm, d, <<RunId("report", Firm, d)>>, {}, <<>>))
<1>5. Outcome(p) /\ Later(q, p)
  BY <1>4, ToldOfRun
<1>6. RunReporting(r, d) = p
  BY DEF RunReporting, q, explicit, selections
<1>. HIDE DEF p
<1>. QED  BY <1>4, <1>5, <1>6, LaterOn

LEMMA ReviewIs ==
  ASSUME NEW r, Outcome(r), NEW a \in {Investor, Bank}, NEW d \in Nat,
         NEW selections, OwnList(a, d, selections)
  PROVE  Outcome(RunReview(r, a, d, selections)) /\ Later(r, RunReview(r, a, d, selections))
<1>. DEFINE explicit == <<>>
            q == ExecuteRequest(r, a, d, explicit, selections, SignalId("review", a, d))
            payload == ClassifyInputRefs(q.books, Lookup(q.books, RunId("review", a, d)).refs)
            p == Put(q, Information("review", a, d, <<RunId("review", a, d)>>, {}, payload))
<1>1. IsLog(explicit) /\ EntriesOf(explicit) = {}
  BY NothingListed DEF NoEntries
<1>2. RunReview(r, a, d, selections) = IF q.raised THEN q ELSE p
  BY DEF RunReview
<1>. HIDE DEF explicit
<1>3. Stores(r, q, RunId("review", a, d))
  <2>1. RoutineType(a) = "review"
    BY ChainAssumption DEF RoutineType
  <2>. QED  BY <1>1, <2>1, ExecuteIs
<1>. HIDE DEF q, payload
<1>4. Outcome(q) /\ Later(r, q) /\ (~q.raised => RunId("review", a, d) \in Known(q.books))
  BY <1>3 DEF Stores
<1>5. Outcome(p) /\ Later(q, p)
  BY <1>4, ToldOfRun
<1>. HIDE DEF p
<1>. QED  BY <1>2, <1>4, <1>5, LaterOn

LEMMA OwnOne ==
  ASSUME NEW a, NEW d \in Nat
  PROVE  OwnList(a, d, <<SelectionId(a, d)>>)
<1>. DEFINE l == <<SelectionId(a, d)>>
<1>1. IsLog(l) /\ EntriesOf(l) = {SelectionId(a, d)}
  BY LogOfOne DEF EntriesOf
<1>. HIDE DEF l
<1>. QED  BY <1>1 DEF OwnList, l

LEMMA ChainIs ==
  ASSUME NEW r, Outcome(r), NEW d \in Nat
  PROVE  Outcome(RunChain(r, d))
<1>. DEFINE begun == Registered(r, Firm)
            reported == RunReporting(begun, d)
            attended == RunAttention(reported, d)
            admitted == Registered(attended, Investor)
            invested == RunReview(admitted, Investor, d, <<SelectionId(Investor, d)>>)
            banking == Registered(invested, Bank)
<1>1. RunChain(r, d) = RunReview(banking, Bank, d, <<SelectionId(Bank, d)>>)
  BY DEF RunChain
<1>2. Outcome(begun)
  BY RegisteredIs
<1>. HIDE DEF begun
<1>3. Outcome(reported)
  BY <1>2, ReportingIs
<1>. HIDE DEF reported
<1>4. Outcome(attended)
  BY <1>3, AttentionIs
<1>. HIDE DEF attended
<1>5. Outcome(admitted)
  BY <1>4, RegisteredIs
<1>. HIDE DEF admitted
<1>6. Outcome(invested)
  BY <1>5, ReviewIs, OwnOne
<1>. HIDE DEF invested
<1>7. Outcome(banking)
  BY <1>6, RegisteredIs
<1>. HIDE DEF banking
<1>. QED  BY <1>1, <1>7, ReviewIs, OwnOne

LEMMA AssessIs ==
  ASSUME NEW r, Outcome(r), NEW d \in Nat, NEW evidence \in PressureEvidence
  PROVE  Outcome(AssessPressure(r, d, evidence))
<1>. DEFINE q == Require(r, ToSet(evidence.signals))
            payload == PressuresOf(Chosen(Observations, evidence.observations),
                                   Chosen(Exposures, evidence.exposures))
            x == Information("pressure", Firm, d, evidence.signals, {}, payload)
<1>1. AssessPressure(r, d, evidence) = Put(q, x)
  BY DEF AssessPressure
<1>2. Outcome(q) /\ (~q.raised => q = r /\ ToSet(evidence.signals) \subseteq Known(r.books))
  BY RequireIs
<1>3. IsLog(evidence.signals)
  BY ListsAssumption, ListsAreLogs
<1>. HIDE DEF q, payload
<1>4. ~q.raised => Fits(q.books, x)
  <2>1. ~q.raised => \A id \in EntriesOf(evidence.signals) : id \in Known(q.books)
    BY <1>2 DEF EntriesOf, ToSet
  <2>. QED  BY <1>3, <2>1, InformationFits
<1>. HIDE DEF x
<1>. QED  BY <1>1, <1>2, <1>4, PutIs DEF Outcome, Stores

(***************************************************************************)
(* What follows from what is cited                                         *)
(***************************************************************************)
LEMMA ShiftedNumbers ==
  ASSUME NEW f \in Nat, NEW j \in Nat
  PROVE  IsFiniteSet((f + 1)..(f + j)) /\ Cardinality((f + 1)..(f + j)) = j
<1>. DEFINE S == 1..j
            T == (f + 1)..(f + j)
            g == [n \in S |-> f + n]
<1>1. g \in [S -> T] /\ (\A m, n \in S : g[m] = g[n] => m = n) /\ \A t \in T : \E n \in S : g[n] = t
  <2>1. \A n \in S : g[n] \in T /\ g[n] = f + n
    OBVIOUS
  <2>2. \A t \in T : t - f \in S /\ f + (t - f) = t
    OBVIOUS
  <2>3. \A m, n \in S : f + m = f + n => m = n
    OBVIOUS
  <2>4. g \in [S -> T]
    BY <2>1
  <2>. HIDE DEF g, S, T
  <2>. QED  BY <2>1, <2>2, <2>3, <2>4
<1>2. IsFiniteSet(S) /\ Cardinality(S) = j
  BY FirstNumbers
<1>. HIDE DEF g, S, T
<1>3. g \in Bijection(S, T)
  BY <1>1, Fun_IsInj, Fun_IsSurj DEF Bijection
<1>4. ExistsBijection(S, T)
  BY <1>3 DEF ExistsBijection
<1>. QED  BY <1>2, <1>4, FS_Bijection DEF T

LEMMA AmongAtFront ==
  ASSUME NEW l, IsLog(l), NEW f \in {0, 1}, NEW V, IsLog(V), f + Len(V) <= Len(l),
         \A n \in 1..f : Kind(l[n]) # "valuation",
         \A n \in 1..Len(V) : l[f + n] = V[n] /\ Kind(V[n]) = "valuation",
         \A n \in DOMAIN l : n > f + Len(V) => Kind(l[n]) # "valuation",
         \A m, n \in 1..Len(V) : V[m] = V[n] => m = n
  PROVE  Among(Distinct(l), "valuation") = V
<1>. DEFINE k == f + Len(V)
            D == Firsts(l)
            t == Distinct(l)
            Q == KindPlaces(t, "valuation")
<1>1. Len(l) \in Nat /\ DOMAIN l = 1..Len(l) /\ Len(V) \in Nat /\ f \in Nat /\ k \in Nat /\ k <= Len(l)
  BY DEF IsLog
<1>3. \A n \in 1..k : Kind(l[n]) = "valuation" <=> n > f
  <2>1. ASSUME NEW n \in 1..k, n > f PROVE Kind(l[n]) = "valuation"
    <3>1. n - f \in 1..Len(V) /\ n = f + (n - f)
      BY <1>1, <2>1
    <3>. QED  BY <3>1
  <2>2. ASSUME NEW n \in 1..k, ~(n > f) PROVE Kind(l[n]) # "valuation"
    <3>1. n \in 1..f
      BY <1>1, <2>2
    <3>. QED  BY <3>1
  <2>. QED  BY <2>1, <2>2
<1>4. 1..k \subseteq D
  <2>1. ASSUME NEW n \in 1..k, NEW m \in 1..(n - 1) PROVE l[m] # l[n]
    <3>1. m \in 1..k /\ m # n
      BY <1>1
    <3>2. CASE m > f
      <4>1. m - f \in 1..Len(V) /\ n - f \in 1..Len(V) /\ m = f + (m - f) /\ n = f + (n - f)
            /\ m - f # n - f
        BY <1>1, <3>1, <3>2
      <4>. QED  BY <4>1
    <3>3. CASE ~(m > f)
      <4>1. m = 1 /\ f = 1 /\ n > f
        BY <1>1, <3>1, <3>3
      <4>. QED  BY <1>3, <3>1, <3>3, <4>1
    <3>. QED  BY <3>2, <3>3
  <2>2. 1..k \subseteq DOMAIN l
    BY <1>1
  <2>. QED  BY <2>1, <2>2 DEF Firsts
<1>5. D \subseteq DOMAIN l /\ D \in SUBSET Nat /\ IsFiniteSet(D)
  <2>1. D \subseteq DOMAIN l
    BY DEF Firsts
  <2>2. IsFiniteSet(DOMAIN l)
    BY <1>1, FirstNumbers
  <2>. HIDE DEF D
  <2>3. DOMAIN l \subseteq Nat
    BY <1>1
  <2>. QED  BY <2>1, <2>2, <2>3, FS_Subset
<1>6. \A h \in 1..k : Place(D, h) = h
  <2>1. ASSUME NEW h \in 1..k PROVE {y \in D : y <= h} = 1..h
    BY <1>1, <1>4, <1>5
  <2>2. \A h \in 1..k : h \in Nat
    BY <1>1
  <2>. QED  BY <2>1, <2>2, FirstNumbers DEF Place
<1>7. PickedFrom(l, D, t)
  BY DistinctIs
<1>. HIDE DEF D, t
<1>8. /\ IsLog(t) /\ Cardinality(D) \in Nat /\ Len(t) = Cardinality(D) /\ DOMAIN t = 1..Cardinality(D)
      /\ \A h \in 1..Cardinality(D) : InOrder(D)[h] \in D /\ t[h] = l[InOrder(D)[h]]
  BY <1>7 DEF PickedFrom
<1>9. /\ \A h \in 1..Cardinality(D) : Place(D, InOrder(D)[h]) = h
      /\ \A h \in 1..Cardinality(D), x \in D : Place(D, x) = h => x = InOrder(D)[h]
  BY <1>5, InOrderIs
<1>10. \A x \in D : Place(D, x) \in 1..Cardinality(D)
  BY <1>5, PlacesNumber DEF Place
<1>11. \A h \in 1..k : h \in 1..Cardinality(D) /\ InOrder(D)[h] = h
  BY <1>4, <1>6, <1>9, <1>10
<1>12. \A h \in 1..k : h \in DOMAIN t /\ t[h] = l[h]
  BY <1>8, <1>11
<1>13. ASSUME NEW h \in DOMAIN t, h > k PROVE Kind(t[h]) # "valuation"
  <2>1. InOrder(D)[h] \in D /\ t[h] = l[InOrder(D)[h]] /\ Place(D, InOrder(D)[h]) = h
    BY <1>8, <1>9
  <2>2. InOrder(D)[h] \in Nat /\ InOrder(D)[h] \in DOMAIN l /\ InOrder(D)[h] >= 1
    BY <1>1, <1>5, <2>1
  <2>3. InOrder(D)[h] > k
    <3>1. SUFFICES ASSUME ~(InOrder(D)[h] > k) PROVE FALSE
      OBVIOUS
    <3>2. InOrder(D)[h] \in 1..k
      BY <1>1, <2>2, <3>1
    <3>3. Place(D, InOrder(D)[h]) = InOrder(D)[h]
      BY <1>6, <3>2
    <3>. QED  BY <1>1, <1>13, <2>1, <3>2, <3>3
  <2>. QED  BY <2>1, <2>2, <2>3
<1>14. Q = (f + 1)..(f + Len(V))
  <2>1. \A h \in DOMAIN t : h \in Nat /\ h >= 1
    BY <1>8
  <2>2. \A h : h \in Q <=> h \in DOMAIN t /\ Kind(t[h]) = "valuation"
    BY DEF KindPlaces
  <2>. HIDE DEF Q
  <2>3. ASSUME NEW h \in Q PROVE h \in (f + 1)..(f + Len(V))
    <3>1. h \in DOMAIN t /\ h \in Nat /\ h >= 1 /\ Kind(t[h]) = "valuation"
      BY <2>1, <2>2
    <3>2. h <= k
      BY <1>1, <1>13, <3>1
    <3>3. h \in 1..k
      BY <1>1, <3>1, <3>2
    <3>4. h > f
      BY <1>3, <1>12, <3>1, <3>3
    <3>. QED  BY <1>1, <3>1, <3>2, <3>4
  <2>4. ASSUME NEW h \in (f + 1)..(f + Len(V)) PROVE h \in Q
    <3>1. h \in 1..k /\ h > f
      BY <1>1
    <3>. QED  BY <1>3, <1>12, <2>2, <3>1
  <2>. QED  BY <2>3, <2>4
<1>15. Q \in SUBSET Nat /\ IsFiniteSet(Q) /\ Cardinality(Q) = Len(V)
  <2>1. (f + 1)..(f + Len(V)) \subseteq Nat
    BY <1>1
  <2>. QED  BY <1>1, <1>14, <2>1, ShiftedNumbers
<1>16. \A j \in 1..Len(V) : f + j \in Q /\ Place(Q, f + j) = j
  <2>1. ASSUME NEW j \in 1..Len(V) PROVE {y \in Q : y <= f + j} = (f + 1)..(f + j)
    BY <1>1, <1>14
  <2>2. \A j \in 1..Len(V) : j \in Nat /\ f + j \in Q
    BY <1>1, <1>14
  <2>. QED  BY <1>1, <2>1, <2>2, ShiftedNumbers DEF Place
<1>. HIDE DEF Q
<1>17. \A j \in 1..Len(V) : InOrder(Q)[j] = f + j
  BY <1>15, <1>16, InOrderIs
<1>18. \A j \in 1..Len(V) : t[InOrder(Q)[j]] = V[j]
  <2>1. ASSUME NEW j \in 1..Len(V) PROVE f + j \in 1..k
    BY <1>1
  <2>. QED  BY <1>12, <1>17, <2>1
<1>19. Among(t, "valuation") = [j \in 1..Len(V) |-> t[InOrder(Q)[j]]]
  BY <1>15, PickedEntries DEF Among, EntriesAt, Q, KindPlaces
<1>20. V = [j \in 1..Len(V) |-> V[j]]
  BY DEF IsLog
<1>21. [j \in 1..Len(V) |-> t[InOrder(Q)[j]]] = [j \in 1..Len(V) |-> V[j]]
  BY <1>18
<1>. QED  BY <1>19, <1>20, <1>21 DEF t

OnceEach(l) == \A m, n \in DOMAIN l : Kind(l[m]) = "valuation" /\ l[m] = l[n] => m = n

LEMMA AmongOnce ==
  ASSUME NEW refs, IsLog(refs), OnceEach(refs)
  PROVE  \A m, n \in 1..Len(Among(refs, "valuation")) :
            Among(refs, "valuation")[m] = Among(refs, "valuation")[n] => m = n
<1>. DEFINE P == KindPlaces(refs, "valuation")
            V == Among(refs, "valuation")
<1>1. PickedFrom(refs, P, V)
  BY AmongIs
<1>2. \A n : n \in P <=> n \in DOMAIN refs /\ Kind(refs[n]) = "valuation"
  BY DEF KindPlaces
<1>3. P \in SUBSET Nat /\ IsFiniteSet(P)
  <2>1. DOMAIN refs = 1..Len(refs) /\ Len(refs) \in Nat
    BY DEF IsLog
  <2>2. IsFiniteSet(DOMAIN refs) /\ DOMAIN refs \subseteq Nat
    BY <2>1, FirstNumbers
  <2>3. P \subseteq DOMAIN refs
    BY <1>2
  <2>. HIDE DEF P
  <2>. QED  BY <2>2, <2>3, FS_Subset
<1>. HIDE DEF P, V
<1>4. /\ Len(V) = Cardinality(P)
      /\ \A h \in 1..Cardinality(P) : InOrder(P)[h] \in P /\ V[h] = refs[InOrder(P)[h]]
  BY <1>1 DEF PickedFrom
<1>5. \A h \in 1..Cardinality(P) : Place(P, InOrder(P)[h]) = h
  BY <1>3, InOrderIs
<1>6. ASSUME NEW m \in 1..Len(V), NEW n \in 1..Len(V), V[m] = V[n] PROVE m = n
  <2>1. InOrder(P)[m] \in P /\ InOrder(P)[n] \in P /\ refs[InOrder(P)[m]] = refs[InOrder(P)[n]]
    BY <1>4, <1>6
  <2>2. InOrder(P)[m] = InOrder(P)[n]
    BY <1>2, <2>1 DEF OnceEach
  <2>. QED  BY <1>4, <1>5, <2>2
<1>. QED  BY <1>6 DEF V

LEMMA NoneListed ==
  ASSUME NEW t, IsLog(t)
  PROVE  t = <<>> <=> EntriesOf(t) = {}
<1>1. t = <<>> => EntriesOf(t) = {}
  BY DEF EntriesOf
<1>2. ASSUME EntriesOf(t) = {} PROVE t = <<>>
  <2>1. Len(t) \in Nat /\ t = [i \in 1..Len(t) |-> t[i]] /\ DOMAIN t = 1..Len(t)
    BY DEF IsLog
  <2>2. Len(t) = 0
    <3>1. Len(t) >= 1 => 1 \in DOMAIN t
      BY <2>1
    <3>2. Len(t) >= 1 => t[1] \in EntriesOf(t)
      BY <3>1 DEF EntriesOf
    <3>. QED  BY <1>2, <2>1, <3>2
  <2>3. 1..Len(t) = {}
    BY <2>2
  <2>4. t = [i \in {} |-> t[i]]
    BY <2>1, <2>3
  <2>5. <<>> = [i \in {} |-> t[i]]
    OBVIOUS
  <2>. QED  BY <2>4, <2>5
<1>. QED  BY <1>1, <1>2

LEMMA OthersAre ==
  ASSUME NEW s, NEW refs, IsLog(refs)
  PROVE  /\ IsLog(OtherSignals(s, refs))
         /\ \A id : id \in EntriesOf(OtherSignals(s, refs)) <=> id \in EntriesOf(refs) /\ IsOther(s, id)
<1>. DEFINE P == {n \in DOMAIN refs : IsOther(s, refs[n])}
            t == OtherSignals(s, refs)
<1>1. t = Picked(refs, P) /\ P \subseteq DOMAIN refs
  BY DEF OtherSignals
<1>2. \A n : n \in P <=> n \in DOMAIN refs /\ IsOther(s, refs[n])
  OBVIOUS
<1>. HIDE DEF P, t
<1>3. PickedFrom(refs, P, t)
  BY <1>1, PickedIs
<1>4. IsLog(t) /\ EntriesOf(t) = {refs[n] : n \in P}
  BY <1>3 DEF PickedFrom
<1>5. \A id : id \in EntriesOf(t) <=> id \in EntriesOf(refs) /\ IsOther(s, id)
  BY <1>2, <1>4 DEF EntriesOf
<1>. QED  BY <1>4, <1>5 DEF t

(* The first of some ids. *)
LEMMA FirstIs ==
  ASSUME NEW t, IsLog(t)
  PROVE  /\ IsLog(FirstOf(t)) /\ Len(FirstOf(t)) \in {0, 1}
         /\ t = <<>> => FirstOf(t) = <<>> /\ Len(FirstOf(t)) = 0
         /\ t # <<>> => /\ Len(FirstOf(t)) = 1 /\ FirstOf(t)[1] = t[1]
                        /\ EntriesOf(FirstOf(t)) = {t[1]}
<1>1. CASE t = <<>>
  <2>1. FirstOf(t) = <<>>
    BY <1>1 DEF FirstOf
  <2>. QED  BY <1>1, <2>1, NothingListed DEF NoEntries
<1>2. CASE t # <<>>
  <2>. DEFINE u == <<t[1]>>
  <2>1. FirstOf(t) = u
    BY <1>2 DEF FirstOf
  <2>2. IsLog(u) /\ Len(u) = 1 /\ u[1] = t[1] /\ EntriesOf(u) = {t[1]}
    BY LogOfOne DEF EntriesOf
  <2>. HIDE DEF u
  <2>. QED  BY <1>2, <2>1, <2>2
<1>. QED  BY <1>1, <1>2

(* The pressure that counts stays first. *)
Leads(s, refs, l) ==
  /\ IsLog(l)
  /\ Pressures(s, refs) # <<>> => 1 \in DOMAIN l /\ l[1] = Pressures(s, refs)[1]
  /\ \A id \in EntriesOf(l) : IsPressure(s, id) => Pressures(s, refs) # <<>>

LEMMA PressureLeads ==
  ASSUME NEW s, NEW refs, IsLog(refs), NEW l, Leads(s, refs, l)
  PROVE  SamePressure(s, refs, s, l)
<1>. DEFINE P == Pressures(s, refs)
            Q == Pressures(s, l)
<1>1. IsLog(l)
  BY DEF Leads
<1>2. CASE P = <<>>
  <2>1. \A n \in DOMAIN l : ~IsPressure(s, l[n])
    BY <1>2 DEF Leads, EntriesOf
  <2>2. Q = <<>>
    BY <1>1, <2>1, FirstPressure
  <2>. QED  BY <1>2, <2>2 DEF SamePressure
<1>3. CASE P # <<>>
  <2>1. IsPressure(s, P[1])
    BY <1>3, FirstPressure
  <2>2. 1 \in DOMAIN l /\ l[1] = P[1]
    BY <1>3 DEF Leads
  <2>3. Q # <<>>
    BY <1>1, <2>1, <2>2, FirstPressure
  <2>4. PICK n \in DOMAIN l : Q[1] = l[n] /\ \A m \in DOMAIN l : IsPressure(s, l[m]) => n <= m
    BY <1>1, <2>3, FirstPressure
  <2>5. n = 1
    <3>1. n <= 1
      BY <2>1, <2>2, <2>4
    <3>2. DOMAIN l = 1..Len(l)
      BY <1>1 DEF IsLog
    <3>. QED  BY <2>4, <3>1, <3>2
  <2>. QED  BY <1>3, <2>2, <2>3, <2>4, <2>5 DEF SamePressure
<1>. QED  BY <1>2, <1>3

LEMMA LeadsJoined ==
  ASSUME NEW s, NEW refs, NEW l, Leads(s, refs, l), NEW u, IsLog(u),
         \A id \in EntriesOf(u) : IsPressure(s, id) => Pressures(s, refs) # <<>>
  PROVE  Leads(s, refs, l \o u)
<1>. DEFINE t == l \o u
<1>1. IsLog(t) /\ EntriesOf(t) = EntriesOf(l) \cup EntriesOf(u)
  BY JoinedEntries DEF Leads
<1>2. Len(t) = Len(l) + Len(u) /\ \A i \in 1..Len(l) : t[i] = l[i]
  BY LogExtended DEF Leads
<1>3. Len(l) \in Nat /\ Len(u) \in Nat /\ DOMAIN l = 1..Len(l)
  BY DEF Leads, IsLog
<1>. HIDE DEF t
<1>4. DOMAIN t = 1..Len(t)
  BY <1>1 DEF IsLog
<1>5. 1 \in DOMAIN l => 1 \in DOMAIN t /\ t[1] = l[1]
  BY <1>2, <1>3, <1>4
<1>. QED  BY <1>1, <1>5 DEF Leads, t

LEMMA LeadsDistinct ==
  ASSUME NEW s, NEW refs, NEW l, Leads(s, refs, l)
  PROVE  Leads(s, refs, Distinct(l)) /\ EntriesOf(Distinct(l)) = EntriesOf(l)
<1>. DEFINE t == Distinct(l)
<1>1. DistinctOf(l, t)
  BY DistinctIs DEF Leads
<1>. HIDE DEF t
<1>2. IsLog(t) /\ EntriesOf(t) = EntriesOf(l) /\ (1 \in DOMAIN l => 1 \in DOMAIN t /\ t[1] = l[1])
  BY <1>1 DEF DistinctOf
<1>. QED  BY <1>2 DEF Leads, t

LEMMA LeadsFirst ==
  ASSUME NEW s, NEW refs, IsLog(refs)
  PROVE  /\ Leads(s, refs, FirstOf(Pressures(s, refs)))
         /\ \A id \in EntriesOf(FirstOf(Pressures(s, refs))) : id \in EntriesOf(refs) /\ IsPressure(s, id)
         /\ \A id \in EntriesOf(refs) : IsPressure(s, id) => Pressures(s, refs) # <<>>
<1>. DEFINE P == Pressures(s, refs)
            F == FirstOf(P)
<1>1. IsLog(P)
  BY PressuresAre DEF PickedFrom
<1>2. \A id \in EntriesOf(refs) : IsPressure(s, id) => P # <<>>
  BY FirstPressure DEF EntriesOf
<1>3. P # <<>> => P[1] \in EntriesOf(refs) /\ IsPressure(s, P[1])
  BY FirstPressure DEF EntriesOf
<1>. HIDE DEF P
<1>4. IsLog(F) /\ (P = <<>> => F = <<>>) /\ (P # <<>> => Len(F) = 1 /\ F[1] = P[1] /\ EntriesOf(F) = {P[1]})
  BY <1>1, FirstIs
<1>. HIDE DEF F
<1>5. P # <<>> => 1 \in DOMAIN F
  BY <1>4 DEF IsLog
<1>6. \A id \in EntriesOf(F) : P # <<>> /\ id = P[1]
  BY <1>4 DEF EntriesOf
<1>. QED  BY <1>2, <1>3, <1>4, <1>5, <1>6 DEF Leads, P, F

NotKinds(l, kinds) == \A id \in EntriesOf(l) : Kind(id) \notin kinds

(* The related ids of a claim. *)
LEMMA ClaimRelated ==
  ASSUME NEW s, NEW refs, IsLog(refs), NEW selections, IsLog(selections),
         NotKinds(selections, {"signal"}), NEW baseline, NEW coefficient
  PROVE  LET l == ApplyValuation(s, refs, selections, baseline, coefficient).related
         IN Leads(s, refs, l) /\ \A id \in EntriesOf(l) :
              (id \in EntriesOf(refs) /\ Kind(id) = "signal") \/ id \in EntriesOf(selections)
<1>. DEFINE F == FirstOf(Pressures(s, refs))
            O == OtherSignals(s, refs)
            l == F \o O \o selections
<1>1. ApplyValuation(s, refs, selections, baseline, coefficient).related = Distinct(l)
  BY DEF ApplyValuation
<1>2. /\ Leads(s, refs, F) /\ \A id \in EntriesOf(F) : id \in EntriesOf(refs) /\ IsPressure(s, id)
      /\ \A id \in EntriesOf(refs) : IsPressure(s, id) => Pressures(s, refs) # <<>>
  BY LeadsFirst
<1>3. IsLog(O) /\ \A id \in EntriesOf(O) : id \in EntriesOf(refs) /\ IsOther(s, id)
  BY OthersAre
<1>4. \A id \in EntriesOf(selections) : ~IsPressure(s, id)
  BY DEF NotKinds, IsPressure
<1>. HIDE DEF F, O
<1>5. Leads(s, refs, F \o O)
  BY <1>2, <1>3, LeadsJoined
<1>6. Leads(s, refs, l)
  BY <1>4, <1>5, LeadsJoined
<1>7. IsLog(F) /\ EntriesOf(F \o O) = EntriesOf(F) \cup EntriesOf(O)
  BY <1>2, <1>3, JoinedEntries DEF Leads
<1>8. EntriesOf(l) = EntriesOf(F \o O) \cup EntriesOf(selections)
  BY <1>5, JoinedEntries DEF Leads
<1>. HIDE DEF l
<1>9. Leads(s, refs, Distinct(l)) /\ EntriesOf(Distinct(l)) = EntriesOf(l)
  BY <1>6, LeadsDistinct
<1>10. \A id : IsPressure(s, id) \/ IsOther(s, id) => Kind(id) = "signal"
  BY DEF IsPressure, IsOther
<1>11. \A id \in EntriesOf(Distinct(l)) :
          (id \in EntriesOf(refs) /\ Kind(id) = "signal") \/ id \in EntriesOf(selections)
  BY <1>2, <1>3, <1>7, <1>8, <1>9, <1>10
<1>. QED  BY <1>1, <1>9, <1>11

(* The related ids of a credit review. *)
LEMMA NoteRelated ==
  ASSUME NEW s, NEW refs, IsLog(refs), OnceEach(refs), NEW selections, IsLog(selections),
         \A id \in EntriesOf(selections) : Kind(id) = "selection"
  PROVE  LET l == ApplyCreditReview(s, refs, selections).related
         IN /\ Leads(s, refs, l)
            /\ Among(l, "valuation") = Among(refs, "valuation")
            /\ \A id \in EntriesOf(l) : id \in EntriesOf(refs) \/ id \in EntriesOf(selections)
            /\ \A id : IsOther(s, id) => (id \in EntriesOf(l) <=> id \in EntriesOf(refs))
            /\ \A id : Kind(id) = "selection" => (id \in EntriesOf(l) <=> id \in EntriesOf(selections))
<1>. DEFINE F == FirstOf(Pressures(s, refs))
            V == Among(refs, "valuation")
            O == OtherSignals(s, refs)
            front == F \o V
            l == front \o O \o selections
<1>1. ApplyCreditReview(s, refs, selections).related = Distinct(l)
  BY DEF ApplyCreditReview
<1>2. /\ Leads(s, refs, F) /\ \A id \in EntriesOf(F) : id \in EntriesOf(refs) /\ IsPressure(s, id)
      /\ \A id \in EntriesOf(refs) : IsPressure(s, id) => Pressures(s, refs) # <<>>
  BY LeadsFirst
<1>3. IsLog(O) /\ \A id : id \in EntriesOf(O) <=> id \in EntriesOf(refs) /\ IsOther(s, id)
  BY OthersAre
<1>4. /\ IsLog(V) /\ DOMAIN V = 1..Len(V)
      /\ \A id : id \in EntriesOf(V) <=> id \in EntriesOf(refs) /\ Kind(id) = "valuation"
  BY AmongEntries
<1>5. \A m, n \in 1..Len(V) : V[m] = V[n] => m = n
  BY AmongOnce
<1>6. Len(F) \in {0, 1}
  BY PressuresAre, FirstIs DEF PickedFrom
<1>7. \A id : (IsPressure(s, id) \/ IsOther(s, id) => Kind(id) = "signal")
               /\ ~(IsPressure(s, id) /\ IsOther(s, id))
  BY DEF IsPressure, IsOther
<1>. HIDE DEF F, O, V
<1>8. IsLog(F) /\ IsLog(front) /\ EntriesOf(front) = EntriesOf(F) \cup EntriesOf(V)
  BY <1>2, <1>4, JoinedEntries DEF Leads
<1>9. Leads(s, refs, front)
  BY <1>2, <1>4, LeadsJoined
<1>10. /\ Len(front) = Len(F) + Len(V)
       /\ \A i \in 1..Len(F) : front[i] = F[i]
       /\ \A i \in 1..Len(V) : front[Len(F) + i] = V[i]
  BY <1>4, <1>8, LogExtended
<1>. HIDE DEF front
<1>. DEFINE back == front \o O
<1>11. Leads(s, refs, back) /\ IsLog(back) /\ EntriesOf(back) = EntriesOf(front) \cup EntriesOf(O)
  BY <1>2, <1>3, <1>8, <1>9, LeadsJoined, JoinedEntries
<1>12. /\ Len(back) = Len(front) + Len(O)
       /\ \A i \in 1..Len(front) : back[i] = front[i]
       /\ \A i \in 1..Len(O) : back[Len(front) + i] = O[i]
  BY <1>3, <1>8, LogExtended
<1>. HIDE DEF back
<1>13. Leads(s, refs, l) /\ IsLog(l) /\ EntriesOf(l) = EntriesOf(back) \cup EntriesOf(selections)
  <2>1. \A id \in EntriesOf(selections) : ~IsPressure(s, id)
    BY <1>7
  <2>2. l = back \o selections
    BY DEF back
  <2>. HIDE DEF l
  <2>. QED  BY <1>11, <2>1, <2>2, LeadsJoined, JoinedEntries
<1>14. /\ Len(l) = Len(back) + Len(selections)
       /\ \A i \in 1..Len(back) : l[i] = back[i]
       /\ \A i \in 1..Len(selections) : l[Len(back) + i] = selections[i]
  <2>1. l = back \o selections
    BY DEF back
  <2>. HIDE DEF l
  <2>. QED  BY <1>11, <2>1, LogExtended
<1>. HIDE DEF l
<1>15. Leads(s, refs, Distinct(l)) /\ EntriesOf(Distinct(l)) = EntriesOf(l)
  BY <1>13, LeadsDistinct
<1>16. Among(Distinct(l), "valuation") = V
  <2>1. /\ Len(F) \in Nat /\ Len(V) \in Nat /\ Len(O) \in Nat /\ Len(selections) \in Nat
        /\ DOMAIN F = 1..Len(F) /\ DOMAIN O = 1..Len(O) /\ DOMAIN selections = 1..Len(selections)
        /\ DOMAIN l = 1..Len(l)
    BY <1>3, <1>4, <1>8, <1>13 DEF IsLog
  <2>2. /\ \A i \in 1..Len(F) : Kind(F[i]) = "signal"
        /\ \A i \in 1..Len(V) : Kind(V[i]) = "valuation"
        /\ \A i \in 1..Len(O) : Kind(O[i]) = "signal"
        /\ \A i \in 1..Len(selections) : Kind(selections[i]) = "selection"
    BY <1>2, <1>3, <1>4, <1>7, <2>1 DEF EntriesOf
  <2>3. Len(F) + Len(V) <= Len(l)
    BY <1>10, <1>12, <1>14, <2>1
  <2>4. ASSUME NEW i \in 1..Len(F) PROVE l[i] = F[i]
    <3>1. i \in 1..Len(front) /\ i \in 1..Len(back)
      BY <1>10, <1>12, <2>1
    <3>. QED  BY <1>10, <1>12, <1>14, <3>1
  <2>5. ASSUME NEW i \in 1..Len(V) PROVE l[Len(F) + i] = V[i]
    <3>1. Len(F) + i \in 1..Len(front) /\ Len(F) + i \in 1..Len(back)
      BY <1>10, <1>12, <2>1
    <3>. QED  BY <1>10, <1>12, <1>14, <3>1
  <2>6. ASSUME NEW n \in DOMAIN l, n > Len(F) + Len(V) PROVE Kind(l[n]) # "valuation"
    <3>1. CASE n <= Len(back)
      <4>1. n - Len(front) \in 1..Len(O) /\ n = Len(front) + (n - Len(front)) /\ n \in 1..Len(back)
        BY <1>10, <1>12, <2>1, <2>6, <3>1
      <4>2. l[n] = O[n - Len(front)]
        BY <1>12, <1>14, <4>1
      <4>. QED  BY <2>2, <4>1, <4>2
    <3>2. CASE ~(n <= Len(back))
      <4>1. n - Len(back) \in 1..Len(selections) /\ n = Len(back) + (n - Len(back))
        BY <1>10, <1>12, <1>14, <2>1, <2>6, <3>2
      <4>2. l[n] = selections[n - Len(back)]
        BY <1>14, <4>1
      <4>. QED  BY <2>2, <4>1, <4>2
    <3>. QED  BY <3>1, <3>2
  <2>7. \A n \in 1..Len(F) : Kind(l[n]) # "valuation"
    BY <2>2, <2>4
  <2>. DEFINE f == Len(F)
  <2>8. \A n \in 1..Len(V) : l[f + n] = V[n] /\ Kind(V[n]) = "valuation"
    BY <2>2, <2>5
  <2>9. \A n \in DOMAIN l : n > f + Len(V) => Kind(l[n]) # "valuation"
    BY <2>6
  <2>10. f \in {0, 1} /\ f + Len(V) <= Len(l) /\ \A n \in 1..f : Kind(l[n]) # "valuation"
    BY <1>6, <2>3, <2>7
  <2>11. IsLog(l) /\ IsLog(V)
    BY <1>4, <1>13
  <2>. HIDE DEF f
  <2>. QED  BY <1>5, <2>8, <2>9, <2>10, <2>11, AmongAtFront
<1>17. EntriesOf(l) = EntriesOf(F) \cup EntriesOf(V) \cup EntriesOf(O) \cup EntriesOf(selections)
  BY <1>8, <1>11, <1>13
<1>18. \A id \in EntriesOf(l) : id \in EntriesOf(refs) \/ id \in EntriesOf(selections)
  BY <1>2, <1>3, <1>4, <1>17
<1>19. \A id : IsOther(s, id) => (id \in EntriesOf(l) <=> id \in EntriesOf(refs))
  BY <1>2, <1>3, <1>4, <1>7, <1>17
<1>20. \A id : Kind(id) = "selection" => (id \in EntriesOf(l) <=> id \in EntriesOf(selections))
  BY <1>2, <1>3, <1>4, <1>7, <1>17
<1>. DEFINE r == Distinct(l)
<1>21. /\ Leads(s, refs, r) /\ Among(r, "valuation") = V
       /\ \A id \in EntriesOf(r) : id \in EntriesOf(refs) \/ id \in EntriesOf(selections)
       /\ \A id : IsOther(s, id) => (id \in EntriesOf(r) <=> id \in EntriesOf(refs))
       /\ \A id : Kind(id) = "selection" => (id \in EntriesOf(r) <=> id \in EntriesOf(selections))
  BY <1>15, <1>16, <1>18, <1>19, <1>20
<1>. HIDE DEF r
<1>. QED  BY <1>1, <1>21 DEF r, V

(***************************************************************************)
(* Claims and credit reviews                                               *)
(***************************************************************************)
LEMMA ReportsAre ==
  ASSUME NEW s, NEW refs, IsLog(refs)
  PROVE  \A id : id \in Reports(s, refs) <=>
           id \in EntriesOf(refs) /\ Kind(id) = "signal" /\ Lookup(s, id).data.type = "report"
<1>1. ToSet(Among(refs, "signal")) = EntriesOf(Among(refs, "signal"))
  BY DEF ToSet, EntriesOf
<1>. QED  BY <1>1, AmongEntries DEF Reports

LEMMA NoteFits ==
  ASSUME NEW s, Good(s), NEW d \in Nat, NEW refs, IsLog(refs), OnceEach(refs), NEW selections, IsLog(selections),
         \A id \in EntriesOf(refs) : id \in Known(s),
         \A id \in EntriesOf(selections) : Kind(id) = "selection" /\ id \in Known(s),
         NEW missing, NEW label
  PROVE  Fits(s, CreditNote(Bank, d, ApplyCreditReview(s, refs, selections), missing, label))
<1>. DEFINE review == ApplyCreditReview(s, refs, selections)
            l == review.related
            x == CreditNote(Bank, d, review, missing, label)
<1>1. /\ Leads(s, refs, l)
      /\ Among(l, "valuation") = Among(refs, "valuation")
      /\ \A id \in EntriesOf(l) : id \in EntriesOf(refs) \/ id \in EntriesOf(selections)
      /\ \A id : IsOther(s, id) => (id \in EntriesOf(l) <=> id \in EntriesOf(refs))
      /\ \A id : Kind(id) = "selection" => (id \in EntriesOf(l) <=> id \in EntriesOf(selections))
  BY NoteRelated
<1>. HIDE DEF review
<1>2. /\ x.id = <<"signal", "credit", Bank, d>> /\ x.date = d /\ x.refs = l
      /\ x.data.type = "credit" /\ x.data.payload.scores = review.scores
      /\ x.data.payload.covered = review.covered
  BY DEF CreditNote, Information, Booked, SignalId
<1>3. Kind(x.id) = "signal"
  BY <1>2 DEF Kind
<1>. HIDE DEF x, l
<1>4. IsLog(l) /\ \A id \in EntriesOf(l) : id \in Known(s)
  BY <1>1 DEF Leads
<1>5. Told(s, x)
  <2>1. ASSUME NEW id \in EntriesOf(l), Kind(id) \in {"signal", "valuation"} PROVE Has(s, id)
    <3>1. id \notin Beside
      BY <2>1, BesideKinds DEF Elsewhere
    <3>. QED  BY <1>4, <3>1, KnownIs
  <2>. QED  BY <1>2, <2>1 DEF Told
<1>6. NoteFollows(s, x)
  <2>. DEFINE sel == Among(l, "selection")
              again == ApplyCreditReview(s, l, sel)
  <2>1. SamePressure(s, refs, s, l)
    BY <1>1, PressureLeads
  <2>2. selections = <<>> <=> sel = <<>>
    <3>1. IsLog(sel) /\ \A id : id \in EntriesOf(sel) <=> id \in EntriesOf(l) /\ Kind(id) = "selection"
      BY <1>4, AmongEntries
    <3>. HIDE DEF sel
    <3>2. EntriesOf(sel) = EntriesOf(selections)
      BY <1>1, <3>1
    <3>. QED  BY <3>1, <3>2, NoneListed
  <2>3. Reports(s, refs) = {} <=> Reports(s, l) = {}
    <3>1. \A id : Kind(id) = "signal" /\ Lookup(s, id).data.type = "report" => IsOther(s, id)
      BY DEF IsOther
    <3>. QED  BY <1>1, <1>4, <3>1, ReportsAre
  <2>4. Chosen(s, Among(refs, "valuation")) = Chosen(s, Among(l, "valuation"))
    BY <1>1
  <2>5. review.scores = again.scores /\ review.covered = again.covered
    <3>. HIDE DEF sel
    <3>. QED  BY <2>1, <2>2, <2>3, <2>4, CreditSame DEF review
  <2>. HIDE DEF again
  <2>. QED  BY <1>2, <2>5 DEF NoteFollows, again
<1>7. Honest(s, x)
  BY <1>2, <1>3, <1>4, <1>5, <1>6 DEF Honest, IsCredit
<1>. QED  BY <1>2, <1>4, <1>7, KnownIs DEF Fits, x, review

(* A claim that cites at least what its related ids do. *)
LEMMA ClaimFits ==
  ASSUME NEW s, NEW valuer, NEW d \in Nat, NEW refs, IsLog(refs),
         NEW l, Leads(s, refs, l), NEW missing, NEW selections,
         \A id \in EntriesOf(l) : id \in Known(s) \/ (id \in missing /\ Kind(id) = "selection"),
         NEW baseline, NEW coefficient
  PROVE  LET claim == ApplyValuation(s, refs, selections, baseline, coefficient)
         IN /\ Fits(s, ClaimOf(ValuationId(d), valuer, d, l, missing, baseline, coefficient, FALSE,
                               claim.estimate, claim.confidence))
            /\ MarketHaircuts(l) = MarketHaircuts(refs) /\
               Attentive(claim.confidence, l, missing) = Attentive(claim.confidence, refs, missing) =>
                 Fits(s, ClaimOf(ValuationId(d), valuer, d, l, missing, baseline, coefficient, TRUE,
                                 {(e \div 10000) * MarketHaircuts(refs) : e \in claim.estimate},
                                 Attentive(claim.confidence, refs, missing)))
<1>. DEFINE claim == ApplyValuation(s, refs, selections, baseline, coefficient)
            again == ApplyValuation(s, l, <<>>, baseline, coefficient)
            Adjusted(e) == {(y \div 10000) * MarketHaircuts(refs) : y \in e}
            x == ClaimOf(ValuationId(d), valuer, d, l, missing, baseline, coefficient, FALSE,
                         claim.estimate, claim.confidence)
            z == ClaimOf(ValuationId(d), valuer, d, l, missing, baseline, coefficient, TRUE,
                         Adjusted(claim.estimate), Attentive(claim.confidence, refs, missing))
<1>1. SamePressure(s, refs, s, l)
  BY PressureLeads
<1>2. claim.estimate = again.estimate /\ claim.confidence = again.confidence
  BY <1>1, ValuationSame
<1>. HIDE DEF claim
<1>3. /\ x.id = <<"valuation", Firm, d>> /\ x.date = d /\ x.refs = l /\ x.missing = missing
      /\ x.data.baseline = baseline /\ x.data.coefficient = coefficient /\ x.data.conditioned = FALSE
      /\ x.data.estimate = claim.estimate /\ x.data.confidence = claim.confidence
  BY DEF ClaimOf, Booked, ValuationId
<1>4. /\ z.id = <<"valuation", Firm, d>> /\ z.date = d /\ z.refs = l /\ z.missing = missing
      /\ z.data.baseline = baseline /\ z.data.coefficient = coefficient /\ z.data.conditioned = TRUE
      /\ z.data.estimate = Adjusted(claim.estimate)
      /\ z.data.confidence = Attentive(claim.confidence, refs, missing)
  <2>. HIDE DEF Adjusted
  <2>. QED  BY DEF ClaimOf, Booked, ValuationId
<1>. HIDE DEF x, z
<1>5. Kind(x.id) = "valuation" /\ Kind(z.id) = "valuation"
  BY <1>3, <1>4 DEF Kind
<1>6. \A id \in EntriesOf(l) : Kind(id) \in {"signal", "valuation"} => Has(s, id)
  BY BesideKinds, KnownIs DEF Elsewhere
<1>7. Told(s, x) /\ Told(s, z)
  BY <1>3, <1>4, <1>6 DEF Told
<1>8. ClaimFollows(s, x)
  BY <1>2, <1>3 DEF ClaimFollows
<1>9. /\ MarketHaircuts(l) = MarketHaircuts(refs)
      /\ Attentive(claim.confidence, l, missing) = Attentive(claim.confidence, refs, missing)
      => ClaimFollows(s, z)
  BY <1>2, <1>4 DEF ClaimFollows
<1>10. IsLog(l)
  BY DEF Leads
<1>11. Fits(s, x)
  <2>1. Honest(s, x)
    BY <1>3, <1>5, <1>7, <1>8, <1>10 DEF Honest, IsCredit
  <2>. QED  BY <1>3, <2>1, KnownIs DEF Fits
<1>12. ASSUME MarketHaircuts(l) = MarketHaircuts(refs),
              Attentive(claim.confidence, l, missing) = Attentive(claim.confidence, refs, missing)
       PROVE  Fits(s, z)
  <2>1. Honest(s, z)
    BY <1>4, <1>5, <1>7, <1>9, <1>10, <1>12 DEF Honest, IsCredit
  <2>. QED  BY <1>4, <2>1, KnownIs DEF Fits
<1>. QED  BY <1>11, <1>12 DEF x, z, claim

SameEvidence(l, refs) ==
  \A id : Kind(id) \in EvidenceBuckets => (id \in EntriesOf(l) <=> id \in EntriesOf(refs))

LEMMA EvidenceSame ==
  ASSUME NEW l, IsLog(l), NEW refs, IsLog(refs), SameEvidence(l, refs), NEW confidence, NEW missing
  PROVE  /\ MarketHaircuts(l) = MarketHaircuts(refs)
         /\ Attentive(confidence, l, missing) = Attentive(confidence, refs, missing)
<1>1. ASSUME NEW kind \in EvidenceBuckets
      PROVE  /\ EntriesOf(Among(l, kind)) = EntriesOf(Among(refs, kind))
             /\ Among(l, kind) = <<>> <=> Among(refs, kind) = <<>>
  <2>1. /\ IsLog(Among(l, kind)) /\ \A id : id \in EntriesOf(Among(l, kind)) <=> id \in EntriesOf(l) /\ Kind(id) = kind
        /\ IsLog(Among(refs, kind)) /\ \A id : id \in EntriesOf(Among(refs, kind)) <=> id \in EntriesOf(refs) /\ Kind(id) = kind
    BY AmongEntries
  <2>2. EntriesOf(Among(l, kind)) = EntriesOf(Among(refs, kind))
    BY <2>1 DEF SameEvidence
  <2>. QED  BY <2>1, <2>2, NoneListed
<1>2. Attentive(confidence, l, missing) = Attentive(confidence, refs, missing)
  <2>1. {kind \in EvidenceBuckets : Among(l, kind) # <<>>} = {kind \in EvidenceBuckets : Among(refs, kind) # <<>>}
    BY <1>1
  <2>. QED  BY <2>1 DEF Attentive
<1>3. MarketHaircuts(l) = MarketHaircuts(refs)
  <2>. DEFINE u == Among(l, "environment")
              v == Among(refs, "environment")
              a == Chosen(Environments, u)
              b == Chosen(Environments, v)
  <2>1. EntriesOf(u) = EntriesOf(v)
    BY <1>1 DEF EvidenceBuckets
  <2>. HIDE DEF u, v
  <2>2. /\ DOMAIN a = DOMAIN u /\ \A n \in DOMAIN u : a[n] = Lookup(Environments, u[n])
        /\ DOMAIN b = DOMAIN v /\ \A n \in DOMAIN v : b[n] = Lookup(Environments, v[n])
    BY DEF Chosen
  <2>. HIDE DEF a, b
  <2>3. /\ \A n \in DOMAIN u : \E m \in DOMAIN v : v[m] = u[n]
        /\ \A m \in DOMAIN v : \E n \in DOMAIN u : u[n] = v[m]
    BY <2>1 DEF EntriesOf
  <2>4. (\E n \in DOMAIN a : a[n].restrictive) <=> (\E n \in DOMAIN b : b[n].restrictive)
    BY <2>2, <2>3
  <2>5. (\E n \in DOMAIN a : a[n].riskOff) <=> (\E n \in DOMAIN b : b[n].riskOff)
    BY <2>2, <2>3
  <2>. DEFINE Cut(p, q) == (IF p THEN 98 ELSE 100) * (IF q THEN 99 ELSE 100)
  <2>6. /\ MarketHaircuts(l) = (IF \E n \in DOMAIN a : a[n].restrictive THEN 98 ELSE 100)
                                * (IF \E n \in DOMAIN a : a[n].riskOff THEN 99 ELSE 100)
        /\ MarketHaircuts(refs) = (IF \E n \in DOMAIN b : b[n].restrictive THEN 98 ELSE 100)
                                * (IF \E n \in DOMAIN b : b[n].riskOff THEN 99 ELSE 100)
    BY DEF MarketHaircuts, a, b, u, v
  <2>. QED  BY <2>4, <2>5, <2>6
<1>. QED  BY <1>2, <1>3

LEMMA PresentIs ==
  ASSUME NEW s, NEW ids, IsLog(ids)
  PROVE  /\ IsLog(Present(s, ids))
         /\ \A id : id \in EntriesOf(Present(s, ids)) <=> id \in EntriesOf(ids) /\ id \in Known(s)
<1>. DEFINE P == {n \in DOMAIN ids : ids[n] \in Known(s)}
            t == Present(s, ids)
<1>1. t = Picked(ids, P) /\ P \subseteq DOMAIN ids
  BY DEF Present
<1>2. \A n : n \in P <=> n \in DOMAIN ids /\ ids[n] \in Known(s)
  OBVIOUS
<1>. HIDE DEF P, t
<1>3. PickedFrom(ids, P, t)
  BY <1>1, PickedIs
<1>4. IsLog(t) /\ EntriesOf(t) = {ids[n] : n \in P}
  BY <1>3 DEF PickedFrom
<1>5. \A id : id \in EntriesOf(t) <=> id \in EntriesOf(ids) /\ id \in Known(s)
  BY <1>2, <1>4 DEF EntriesOf
<1>. QED  BY <1>4, <1>5 DEF t

LEMMA OnceJoined ==
  ASSUME NEW u, IsLog(u), NotKinds(u, {"valuation"}), NEW v, IsLog(v), OnceEach(v)
  PROVE  OnceEach(u \o v)
<1>. DEFINE t == u \o v
<1>1. /\ IsLog(t) /\ Len(t) = Len(u) + Len(v)
      /\ \A i \in 1..Len(u) : t[i] = u[i]
      /\ \A i \in 1..Len(v) : t[Len(u) + i] = v[i]
  BY LogExtended
<1>. HIDE DEF t
<1>2. /\ DOMAIN t = 1..Len(t) /\ DOMAIN u = 1..Len(u) /\ DOMAIN v = 1..Len(v)
      /\ Len(u) \in Nat /\ Len(v) \in Nat
  BY <1>1 DEF IsLog
<1>3. \A i \in 1..Len(u) : Kind(u[i]) # "valuation"
  BY <1>2 DEF NotKinds, EntriesOf
<1>4. ASSUME NEW n \in DOMAIN t, Kind(t[n]) = "valuation"
      PROVE  n - Len(u) \in DOMAIN v /\ t[n] = v[n - Len(u)] /\ n \in Nat
  <2>1. ~(n <= Len(u))
    BY <1>1, <1>2, <1>3, <1>4
  <2>2. n - Len(u) \in 1..Len(v) /\ n = Len(u) + (n - Len(u)) /\ n \in Nat
    BY <1>1, <1>2, <2>1
  <2>. QED  BY <1>1, <1>2, <2>2
<1>5. ASSUME NEW m \in DOMAIN t, NEW n \in DOMAIN t, Kind(t[m]) = "valuation", t[m] = t[n]
      PROVE  m = n
  <2>1. /\ m - Len(u) \in DOMAIN v /\ t[m] = v[m - Len(u)] /\ m \in Nat
        /\ n - Len(u) \in DOMAIN v /\ t[n] = v[n - Len(u)] /\ n \in Nat
    BY <1>4, <1>5
  <2>2. m - Len(u) = n - Len(u)
    BY <1>5, <2>1 DEF OnceEach
  <2>. QED  BY <1>2, <2>1, <2>2
<1>. QED  BY <1>5 DEF OnceEach, t

LEMMA BucketsAre ==
  ASSUME NEW refs, IsLog(refs), \A m, n \in DOMAIN refs : refs[m] = refs[n] => m = n
  PROVE  /\ IsLog(ByBucket(refs)) /\ OnceEach(ByBucket(refs))
         /\ EntriesOf(ByBucket(refs)) \subseteq EntriesOf(refs)
<1>. DEFINE a == Among(refs, "signal")
            b == Among(refs, "observation")
            c == Among(refs, "exposure")
            d == Among(refs, "environment")
            e == Among(refs, "firm state")
            f == Among(refs, "valuation")
            NoClaims(l) == IsLog(l) /\ NotKinds(l, {"valuation"}) /\ EntriesOf(l) \subseteq EntriesOf(refs)
<1>1. ByBucket(refs) = a \o b \o c \o d \o e \o f
  BY DEF ByBucket
<1>2. \A kind : IsLog(Among(refs, kind)) /\ \A id \in EntriesOf(Among(refs, kind)) : id \in EntriesOf(refs) /\ Kind(id) = kind
  BY AmongEntries
<1>3. NoClaims(a) /\ NoClaims(b) /\ NoClaims(c) /\ NoClaims(d) /\ NoClaims(e)
  <2>1. ASSUME NEW kind, kind # "valuation" PROVE NoClaims(Among(refs, kind))
    <3>. DEFINE l == Among(refs, kind)
    <3>1. IsLog(l) /\ \A id \in EntriesOf(l) : id \in EntriesOf(refs) /\ Kind(id) = kind
      BY <1>2
    <3>. HIDE DEF l
    <3>2. NotKinds(l, {"valuation"})
      BY <2>1, <3>1 DEF NotKinds
    <3>3. NoClaims(l)
      BY <3>1, <3>2
    <3>. QED  BY <3>3 DEF l
  <2>. HIDE DEF NoClaims
  <2>. QED  BY <2>1
<1>4. IsLog(f) /\ EntriesOf(f) \subseteq EntriesOf(refs)
  BY <1>2
<1>5. OnceEach(f)
  <2>1. OnceEach(refs)
    BY DEF OnceEach
  <2>2. \A m, n \in 1..Len(f) : f[m] = f[n] => m = n
    BY <2>1, AmongOnce
  <2>3. DOMAIN f = 1..Len(f)
    BY AmongEntries
  <2>. QED  BY <2>2, <2>3 DEF OnceEach
<1>. HIDE DEF a, b, c, d, e, f
<1>6. \A u, v : NoClaims(u) /\ NoClaims(v) => NoClaims(u \o v)
  <2>1. SUFFICES ASSUME NEW u, NEW v, NoClaims(u), NoClaims(v) PROVE NoClaims(u \o v)
    OBVIOUS
  <2>2. IsLog(u \o v) /\ EntriesOf(u \o v) = EntriesOf(u) \cup EntriesOf(v)
    BY <2>1, JoinedEntries
  <2>. QED  BY <2>1, <2>2 DEF NotKinds
<1>. DEFINE g == a \o b \o c \o d \o e
<1>7. NoClaims(g)
  <2>. HIDE DEF NoClaims
  <2>. QED  BY <1>3, <1>6
<1>. HIDE DEF g
<1>8. IsLog(g \o f) /\ EntriesOf(g \o f) = EntriesOf(g) \cup EntriesOf(f) /\ OnceEach(g \o f)
  BY <1>4, <1>5, <1>7, JoinedEntries, OnceJoined
<1>9. ByBucket(refs) = g \o f
  BY <1>1 DEF g
<1>. QED  BY <1>4, <1>7, <1>8, <1>9

(* What the evidence frame holds. *)
Framed(s, selections, frame) ==
  /\ IsLog(frame.refs) /\ OnceEach(frame.refs) /\ \A id \in EntriesOf(frame.refs) : id \in Known(s)
  /\ \A id \in EntriesOf(selections) : id \in Known(s) \/ id \in frame.missing

LEMMA FrameIs ==
  ASSUME NEW s, Good(s), NEW a, NEW d \in Nat, NEW selections, OwnList(a, d, selections),
         NEW explicit, IsLog(explicit)
  PROVE  Framed(s, selections, ResolveContext(s, selections, explicit))
<1>. DEFINE present == Present(s, selections)
            got == CollectSelectedRefs(s, present)
            cited == got \o explicit
            kept == Present(s, cited)
            D == Distinct(kept)
            frame == ResolveContext(s, selections, explicit)
<1>1. frame.refs = ByBucket(D) /\ frame.missing = (ToSet(cited) \cup ToSet(selections)) \ Known(s)
  BY DEF ResolveContext
<1>2. IsLog(present) /\ \A id : id \in EntriesOf(present) <=> id \in EntriesOf(selections) /\ id \in Known(s)
  BY PresentIs DEF OwnList
<1>. HIDE DEF present
<1>3. OwnList(a, d, present)
  BY <1>2 DEF OwnList
<1>4. IsLog(got)
  BY <1>2, <1>3, SelectedIs
<1>. HIDE DEF got
<1>5. IsLog(cited)
  BY <1>4, JoinedEntries
<1>. HIDE DEF cited
<1>6. IsLog(kept) /\ \A id \in EntriesOf(kept) : id \in Known(s)
  BY <1>5, PresentIs
<1>. HIDE DEF kept
<1>7. DistinctOf(kept, D)
  BY <1>6, DistinctIs
<1>. HIDE DEF D
<1>8. IsLog(D) /\ EntriesOf(D) = EntriesOf(kept) /\ \A h, i \in DOMAIN D : D[h] = D[i] => h = i
  BY <1>7 DEF DistinctOf
<1>9. /\ IsLog(ByBucket(D)) /\ OnceEach(ByBucket(D)) /\ EntriesOf(ByBucket(D)) \subseteq EntriesOf(D)
  BY <1>8, BucketsAre
<1>10. \A id \in EntriesOf(ByBucket(D)) : id \in Known(s)
  BY <1>6, <1>8, <1>9
<1>11. \A id \in EntriesOf(selections) : id \in Known(s) \/ id \in frame.missing
  <2>1. EntriesOf(selections) = ToSet(selections)
    BY DEF EntriesOf, ToSet
  <2>. HIDE DEF frame
  <2>. QED  BY <1>1, <2>1
<1>. HIDE DEF frame
<1>12. Framed(s, selections, frame)
  BY <1>1, <1>9, <1>10, <1>11 DEF Framed
<1>. QED  BY <1>12 DEF frame

LEMMA OwnKinds ==
  ASSUME NEW a, NEW d, NEW selections, OwnList(a, d, selections)
  PROVE  IsLog(selections) /\ \A id \in EntriesOf(selections) : Kind(id) = "selection"
BY DEF OwnList, SelectionId, Kind

LEMMA CreditIs ==
  ASSUME NEW r, Outcome(r), NEW d \in Nat, NEW evidence \in SignalLists,
         NEW selections, OwnList(Bank, d, selections)
  PROVE  Outcome(ReviewCredit(r, d, evidence, selections))
<1>. DEFINE ids == ToSet(evidence) \cup ToSet(selections)
            checked == Require(r, ids)
            x == CreditNote(Bank, d, ApplyCreditReview(r.books, evidence, selections), {}, {})
<1>1. ReviewCredit(r, d, evidence, selections) = IF checked.raised THEN checked ELSE Put(checked, x)
  BY DEF ReviewCredit
<1>2. Outcome(checked) /\ (~checked.raised => checked = r /\ ids \subseteq Known(r.books))
  BY RequireIs
<1>3. IsLog(evidence) /\ OnceEach(evidence)
  BY ListsAssumption, ListsAreLogs DEF OnceEach
<1>4. IsLog(selections) /\ \A id \in EntriesOf(selections) : Kind(id) = "selection"
  BY OwnKinds
<1>5. ToSet(evidence) = EntriesOf(evidence) /\ ToSet(selections) = EntriesOf(selections)
  BY DEF ToSet, EntriesOf
<1>. HIDE DEF checked
<1>6. ~checked.raised => Fits(r.books, x)
  <2>1. ~checked.raised => /\ \A id \in EntriesOf(evidence) : id \in Known(r.books)
                           /\ \A id \in EntriesOf(selections) : Kind(id) = "selection" /\ id \in Known(r.books)
    BY <1>2, <1>4, <1>5
  <2>. QED  BY <1>3, <1>4, <2>1, NoteFits DEF Outcome
<1>. HIDE DEF x
<1>7. ~checked.raised => Stores(r, Put(r, x), x.id)
  BY <1>6, PutIs
<1>. QED  BY <1>1, <1>2, <1>7 DEF Stores

LEMMA CreditAttentivelyIs ==
  ASSUME NEW r, Outcome(r), NEW d \in Nat, NEW explicit \in ExplicitLists,
         NEW selections, OwnList(Bank, d, selections), NEW strict
  PROVE  Outcome(ReviewCreditAttentively(r, d, explicit, selections, strict))
<1>. DEFINE frame == ResolveContext(r.books, selections, explicit)
            present == Present(r.books, selections)
            review == ApplyCreditReview(r.books, frame.refs, present)
            label == {ClassifyWatchLabel(r.books, frame.refs, review.scores)}
            x == CreditNote(Bank, d, review, frame.missing, label)
<1>1. ReviewCreditAttentively(r, d, explicit, selections, strict)
        = IF strict /\ frame.missing # {} THEN Refused(r) ELSE Put(r, x)
  BY DEF ReviewCreditAttentively
<1>2. Framed(r.books, selections, frame)
  BY ListsAssumption, ListsAreLogs, FrameIs DEF Outcome
<1>3. IsLog(selections) /\ \A id \in EntriesOf(selections) : Kind(id) = "selection"
  BY OwnKinds
<1>4. IsLog(present) /\ \A id : id \in EntriesOf(present) <=> id \in EntriesOf(selections) /\ id \in Known(r.books)
  BY <1>3, PresentIs
<1>. HIDE DEF frame, present, label
<1>5. Fits(r.books, x)
  <2>1. IsLog(frame.refs) /\ OnceEach(frame.refs) /\ \A id \in EntriesOf(frame.refs) : id \in Known(r.books)
    BY <1>2 DEF Framed
  <2>2. \A id \in EntriesOf(present) : Kind(id) = "selection" /\ id \in Known(r.books)
    BY <1>3, <1>4
  <2>. QED  BY <1>4, <2>1, <2>2, NoteFits DEF Outcome
<1>. HIDE DEF x
<1>6. Stores(r, Put(r, x), x.id)
  BY <1>5, PutIs
<1>7. Outcome(Put(r, x)) /\ Outcome(Refused(r))
  BY <1>6, RaisedIs DEF Stores
<1>. QED  BY <1>1, <1>7

LEMMA RefreshIs ==
  ASSUME NEW r, Outcome(r), NEW valuer, NEW d \in Nat, NEW signals \in SignalLists,
         NEW selections, OwnList(valuer, d, selections), NEW baseline, NEW coefficient
  PROVE  Outcome(RefreshValuation(r, valuer, d, signals, selections, baseline, coefficient))
<1>. DEFINE ids == ToSet(signals) \cup ToSet(selections)
            checked == Require(r, ids)
            claim == ApplyValuation(r.books, signals, selections, baseline, coefficient)
            missing == {}
            l == claim.related
            x == ClaimOf(ValuationId(d), valuer, d, l, missing, baseline, coefficient, FALSE,
                         claim.estimate, claim.confidence)
<1>1. RefreshValuation(r, valuer, d, signals, selections, baseline, coefficient)
        = IF checked.raised THEN checked ELSE Put(checked, x)
  BY DEF RefreshValuation
<1>2. Outcome(checked) /\ (~checked.raised => checked = r /\ ids \subseteq Known(r.books))
  BY RequireIs
<1>3. IsLog(signals)
  BY ListsAssumption, ListsAreLogs
<1>4. IsLog(selections) /\ \A id \in EntriesOf(selections) : Kind(id) = "selection"
  BY OwnKinds
<1>5. ToSet(signals) = EntriesOf(signals) /\ ToSet(selections) = EntriesOf(selections)
  BY DEF ToSet, EntriesOf
<1>6. Leads(r.books, signals, l) /\ \A id \in EntriesOf(l) : id \in EntriesOf(signals) \/ id \in EntriesOf(selections)
  <2>1. NotKinds(selections, {"signal"})
    BY <1>4 DEF NotKinds
  <2>. QED  BY <1>3, <1>4, <2>1, ClaimRelated
<1>. HIDE DEF checked, l, missing
<1>7. ~checked.raised => Fits(r.books, x)
  <2>1. ~checked.raised => \A id \in EntriesOf(l) : id \in Known(r.books) \/ (id \in missing /\ Kind(id) = "selection")
    BY <1>2, <1>5, <1>6
  <2>. QED  BY <1>3, <1>6, <2>1, ClaimFits
<1>. HIDE DEF x
<1>8. ~checked.raised => Stores(r, Put(r, x), x.id)
  BY <1>7, PutIs
<1>. QED  BY <1>1, <1>2, <1>8 DEF Stores

LEMMA RefreshAttentivelyIs ==
  ASSUME NEW r, Outcome(r), NEW valuer, NEW d \in Nat, NEW explicit \in ExplicitLists,
         NEW selections, OwnList(valuer, d, selections), NEW baseline, NEW coefficient, NEW strict
  PROVE  Outcome(RefreshAttentively(r, valuer, d, explicit, selections, baseline, coefficient, strict))
<1>. DEFINE frame == ResolveContext(r.books, selections, explicit)
            refs == frame.refs
            missing == frame.missing
            present == Present(r.books, selections)
            claim == ApplyValuation(r.books, refs, present, baseline, coefficient)
            related == claim.related
            l == Distinct(related \o refs \o selections)
            x == ClaimOf(ValuationId(d), valuer, d, l, missing, baseline, coefficient, TRUE,
                         {(e \div 10000) * MarketHaircuts(refs) : e \in claim.estimate},
                         Attentive(claim.confidence, refs, missing))
<1>1. RefreshAttentively(r, valuer, d, explicit, selections, baseline, coefficient, strict)
        = IF ValuationId(d) \in Known(r.books) THEN r
          ELSE IF strict /\ missing # {} THEN Refused(r) ELSE Put(r, x)
  BY DEF RefreshAttentively
<1>2. Framed(r.books, selections, frame)
  BY ListsAssumption, ListsAreLogs, FrameIs DEF Outcome
<1>3. IsLog(selections) /\ \A id \in EntriesOf(selections) : Kind(id) = "selection"
  BY OwnKinds
<1>4. IsLog(present) /\ \A id : id \in EntriesOf(present) <=> id \in EntriesOf(selections) /\ id \in Known(r.books)
  BY <1>3, PresentIs
<1>5. /\ IsLog(refs) /\ \A id \in EntriesOf(refs) : id \in Known(r.books)
      /\ \A id \in EntriesOf(selections) : id \in Known(r.books) \/ id \in missing
  BY <1>2 DEF Framed
<1>. HIDE DEF frame, refs, missing, present
<1>6. Leads(r.books, refs, related) /\ \A id \in EntriesOf(related) : id \in EntriesOf(refs) \/ id \in EntriesOf(present)
  <2>1. NotKinds(present, {"signal"})
    BY <1>3, <1>4 DEF NotKinds
  <2>. QED  BY <1>4, <1>5, <2>1, ClaimRelated
<1>. HIDE DEF related
<1>. DEFINE u == related \o refs
            v == u \o selections
<1>7. Leads(r.books, refs, u) /\ EntriesOf(u) = EntriesOf(related) \cup EntriesOf(refs)
  <2>1. \A id \in EntriesOf(refs) : IsPressure(r.books, id) => Pressures(r.books, refs) # <<>>
    BY <1>5, LeadsFirst
  <2>. QED  BY <1>5, <1>6, <2>1, LeadsJoined, JoinedEntries DEF Leads
<1>. HIDE DEF u
<1>8. Leads(r.books, refs, v) /\ EntriesOf(v) = EntriesOf(u) \cup EntriesOf(selections)
  <2>1. \A id \in EntriesOf(selections) : ~IsPressure(r.books, id)
    BY <1>3 DEF IsPressure
  <2>. QED  BY <1>3, <1>7, <2>1, LeadsJoined, JoinedEntries DEF Leads
<1>9. l = Distinct(v)
  BY DEF u
<1>. HIDE DEF v
<1>10. Leads(r.books, refs, l) /\ EntriesOf(l) = EntriesOf(v)
  BY <1>8, <1>9, LeadsDistinct
<1>. HIDE DEF l
<1>11. \A id \in EntriesOf(l) : id \in Known(r.books) \/ (id \in missing /\ Kind(id) = "selection")
  BY <1>3, <1>4, <1>5, <1>6, <1>7, <1>8, <1>10
<1>12. SameEvidence(l, refs)
  <2>1. \A id : id \in EntriesOf(l) <=> id \in EntriesOf(refs) \/ id \in EntriesOf(selections)
    BY <1>4, <1>6, <1>7, <1>8, <1>10
  <2>2. "selection" \notin EvidenceBuckets
    BY DEF EvidenceBuckets
  <2>. QED  BY <1>3, <2>1, <2>2 DEF SameEvidence
<1>13. /\ MarketHaircuts(l) = MarketHaircuts(refs)
       /\ Attentive(claim.confidence, l, missing) = Attentive(claim.confidence, refs, missing)
  <2>1. IsLog(l)
    BY <1>10 DEF Leads
  <2>. QED  BY <1>5, <1>12, <2>1, EvidenceSame
<1>14. Fits(r.books, x)
  BY <1>5, <1>10, <1>11, <1>13, ClaimFits
<1>. HIDE DEF x
<1>15. Stores(r, Put(r, x), x.id)
  BY <1>14, PutIs
<1>16. Outcome(Put(r, x)) /\ Outcome(Refused(r))
  BY <1>15, RaisedIs DEF Stores
<1>. QED  BY <1>1, <1>16

(***************************************************************************)
(* The invariant                                                           *)
(***************************************************************************)
LEMMA EarlierGood == Good(EarlierSignals)
<1>. DEFINE s == EarlierSignals
<1>1. IsLog(s) /\ Unique(s) /\ \A id : Has(s, id) => Kind(id) = "signal"
  BY EarlierAssumption, ListedIs
<1>2. ASSUME NEW n \in DOMAIN s
      PROVE  s[n].id \notin Beside /\ Founded(s, n) /\ Honest(s, s[n])
  <2>1. s[n].refs = <<>> /\ s[n].date \in Nat /\ s[n].data.type # "credit"
    BY EarlierAssumption DEF ToSet
  <2>2. Kind(s[n].id) = "signal"
    BY <1>1 DEF Has
  <2>3. s[n].id \notin Beside
    BY <2>2, BesideKinds DEF Elsewhere
  <2>4. IsLog(s[n].refs) /\ EntriesOf(s[n].refs) = {}
    BY <2>1, NothingListed DEF NoEntries
  <2>. HIDE DEF s
  <2>. QED  BY <2>1, <2>2, <2>3, <2>4 DEF Founded, Honest, IsCredit
<1>. QED  BY <1>1, <1>2 DEF Good

LEMMA OwnAre ==
  ASSUME NEW a, NEW d \in Nat, NEW selections \in OwnSelections(a, d)
  PROVE  OwnList(a, d, selections)
<1>1. CASE selections = <<>>
  BY <1>1, NothingListed DEF OwnList, NoEntries
<1>2. ASSUME NEW e \in ChainDates, e <= d, selections = <<SelectionId(a, e)>> PROVE OwnList(a, d, selections)
  <2>1. e \in Nat
    BY ChainAssumption
  <2>. DEFINE l == <<SelectionId(a, e)>>
  <2>2. IsLog(l) /\ EntriesOf(l) = {SelectionId(a, e)}
    BY LogOfOne DEF EntriesOf
  <2>. HIDE DEF l
  <2>. QED  BY <1>2, <2>1, <2>2 DEF OwnList, l
<1>. QED  BY <1>1, <1>2 DEF OwnSelections

LEMMA CallKeeps ==
  ASSUME NEW r, Outcome(r), Calls(r)
  PROVE  EvidenceInv'
BY DEF Calls, Outcome, EvidenceInv

(* In every behaviour the books stay sound. *)
LEMMA EvidenceInvariant == ChainSpec => []EvidenceInv
<1>1. ChainInit => EvidenceInv
  BY EarlierGood DEF ChainInit, EvidenceInv
<1>2. EvidenceInv /\ [ChainNext]_chainVars => EvidenceInv'
  <2>. SUFFICES ASSUME EvidenceInv, [ChainNext]_chainVars PROVE EvidenceInv'
    OBVIOUS
  <2>1. Outcome(Now)
    BY DEF EvidenceInv, Now, Begin, Outcome
  <2>2. ASSUME NEW a \in Participants, Register(a) PROVE EvidenceInv'
    BY <2>1, <2>2, RegisteredIs, CallKeeps DEF Register
  <2>3. ASSUME NEW d \in ChainDates PROVE d \in Nat
    BY ChainAssumption
  <2>4. ASSUME NEW d \in ChainDates, Report(d) PROVE EvidenceInv'
    BY <2>1, <2>3, <2>4, ReportingIs, CallKeeps DEF Report
  <2>5. ASSUME NEW d \in ChainDates, Attend(d) PROVE EvidenceInv'
    BY <2>1, <2>3, <2>5, AttentionIs, CallKeeps DEF Attend
  <2>6. ASSUME NEW d \in ChainDates, Chain(d) PROVE EvidenceInv'
    BY <2>1, <2>3, <2>6, ChainIs, CallKeeps DEF Chain
  <2>7. ASSUME NEW d \in ChainDates, Assess(d) PROVE EvidenceInv'
    BY <2>1, <2>3, <2>7, AssessIs, CallKeeps DEF Assess
  <2>8. ASSUME NEW d \in ChainDates, NEW a, NEW s \in OwnSelections(a, d) PROVE OwnList(a, d, s)
    BY <2>3, OwnAre
  <2>9. ASSUME NEW d \in ChainDates, Credit(d) PROVE EvidenceInv'
    <3>1. PICK evidence \in SignalLists, selections \in OwnSelections(Bank, d) :
             Calls(ReviewCredit(Now, d, evidence, selections))
      BY <2>9 DEF Credit
    <3>. QED  BY <2>1, <2>3, <2>8, <3>1, CreditIs, CallKeeps
  <2>10. ASSUME NEW d \in ChainDates, CreditAttentively(d) PROVE EvidenceInv'
    <3>1. PICK explicit \in ExplicitLists, selections \in OwnSelections(Bank, d), strict \in BOOLEAN :
             Calls(ReviewCreditAttentively(Now, d, explicit, selections, strict))
      BY <2>10 DEF CreditAttentively
    <3>. QED  BY <2>1, <2>3, <2>8, <3>1, CreditAttentivelyIs, CallKeeps
  <2>11. ASSUME NEW d \in ChainDates, NEW a \in {Investor, Bank}, ReviewBy(a, d) PROVE EvidenceInv'
    <3>1. PICK selections \in OwnSelections(a, d) : Calls(RunReview(Now, a, d, selections))
      BY <2>11 DEF ReviewBy
    <3>. QED  BY <2>1, <2>3, <2>8, <3>1, ReviewIs, CallKeeps
  <2>12. ASSUME NEW d \in ChainDates, NEW a \in {Investor, Bank}, Value(a, d) PROVE EvidenceInv'
    <3>1. PICK signals \in SignalLists, selections \in OwnSelections(a, d), baseline \in {{}, {1}} :
             Calls(RefreshValuation(Now, a, d, signals, selections, baseline, HaircutPerPressure))
      BY <2>12 DEF Value
    <3>. QED  BY <2>1, <2>3, <2>8, <3>1, RefreshIs, CallKeeps
  <2>13. ASSUME NEW d \in ChainDates, NEW a \in {Investor, Bank}, ValueAttentively(a, d) PROVE EvidenceInv'
    <3>1. PICK explicit \in ExplicitLists, selections \in OwnSelections(a, d), strict \in BOOLEAN :
             Calls(RefreshAttentively(Now, a, d, explicit, selections, {1}, HaircutPerPressure, strict))
      BY <2>13 DEF ValueAttentively
    <3>. DEFINE baseline == {1}
    <3>. HIDE DEF baseline
    <3>2. OwnList(a, d, selections) /\ d \in Nat
      BY <2>3, <2>8
    <3>3. Outcome(RefreshAttentively(Now, a, d, explicit, selections, baseline, HaircutPerPressure, strict))
      BY <2>1, <3>2, RefreshAttentivelyIs
    <3>. QED  BY <3>1, <3>3, CallKeeps DEF baseline
  <2>14. CASE UNCHANGED chainVars
    BY <2>14 DEF chainVars, EvidenceInv
  <2>. QED  BY <2>2, <2>4, <2>5, <2>6, <2>7, <2>9, <2>10, <2>11, <2>12, <2>13, <2>14 DEF ChainNext
<1>. QED  BY <1>1, <1>2, PTL DEF ChainSpec

(* Whatever a record rests on was stored before it or is named by it as      *)
(* missing, and what a review takes in had been visible to its own actor by   *)
(* its own date: routines, attention and the reviews on top of them, after    *)
(* any sequence of calls, halfway raised ones included.                     *)
THEOREM EvidenceComesFirst == ChainSpec => []EvidenceWasThere
<1>1. ASSUME EvidenceInv PROVE EvidenceWasThere
  <2>1. IsLog(stored) /\ DOMAIN stored = 1..Len(stored) /\ Len(stored) \in Nat
    BY <1>1 DEF EvidenceInv, Good, IsLog
  <2>2. \A l : ToSet(l) = EntriesOf(l)
    BY DEF ToSet, EntriesOf
  <2>3. ASSUME NEW n \in DOMAIN stored
        PROVE  ToSet(stored[n].refs) \subseteq
                 Known(SubSeq(stored, 1, n - 1)) \cup stored[n].missing \cup {<<"actor", Firm>>}
    <3>1. SUFFICES ASSUME NEW id \in EntriesOf(stored[n].refs)
                   PROVE  id \in Known(SubSeq(stored, 1, n - 1)) \cup stored[n].missing \cup {<<"actor", Firm>>}
      BY <2>2
    <3>2. \/ id \in Beside \/ id \in stored[n].missing \/ id = <<"actor", Firm>>
          \/ \E m \in 1..(n - 1) : stored[m].id = id
      BY <1>1 DEF EvidenceInv, Good, Founded
    <3>3. ASSUME NEW m \in 1..(n - 1), stored[m].id = id PROVE id \in Known(SubSeq(stored, 1, n - 1))
      <4>. DEFINE before == SubSeq(stored, 1, n - 1)
      <4>1. before = [i \in 1..(n - 1) |-> stored[i]]
        <5>1. n \in 1..Len(stored) /\ stored \in Seq(EntriesOf(stored))
          BY <2>1, LogsAreLists
        <5>. QED  BY <5>1
      <4>. HIDE DEF before
      <4>2. m \in DOMAIN before /\ before[m].id = id
        BY <3>3, <4>1
      <4>3. Has(before, id)
        BY <4>2 DEF Has
      <4>. QED  BY <4>3, KnownIs DEF before
    <3>. QED  BY <3>2, <3>3, KnownIs
  <2>4. ASSUME NEW n \in DOMAIN stored, Kind(stored[n].id) = "run", stored[n].actor # Firm,
               NEW id \in ToSet(stored[n].refs)
        PROVE  SeenBy(stored, stored[n].actor, stored[n].date, id)
    BY <1>1, <2>2, <2>4 DEF EvidenceInv, Good, Honest, Seen
  <2>5. CitesWhatWasStored
    BY <2>3 DEF CitesWhatWasStored
  <2>6. ReviewsSawTheirEvidence
    BY <2>4 DEF ReviewsSawTheirEvidence
  <2>. QED  BY <2>5, <2>6 DEF EvidenceWasThere
<1>. QED  BY <1>1, EvidenceInvariant, PTL

(* Who has a claim or a credit review and the records it cites can redo it,   *)
(* for any coefficients, lists and dates: the first pressure cited is the one  *)
(* that was used, and the valuations are cited in the order of the average.   *)
THEOREM ClaimsCanBeRedone == ChainSpec => []ConclusionsFollowCitations
<1>1. ASSUME EvidenceInv PROVE ConclusionsFollowCitations
  BY <1>1 DEF EvidenceInv, Good, Honest, IsCredit, ConclusionsFollowCitations
<1>. QED  BY <1>1, EvidenceInvariant, PTL
=============================================================================
