------------------------ MODULE AttentionFeedbackProofs ------------------------
(***************************************************************************)
(* Proofs about AttentionFeedback, for every set of actors, dates, ids and *)
(* evidence, every cap and every budget.                                   *)
(***************************************************************************)
EXTENDS AttentionFeedback, RankLemmas, SequenceTheorems

-----------------------------------------------------------------------------
(***************************************************************************)
(* Types.                                                                  *)
(***************************************************************************)
Ages == UNION {[F -> Nat] : F \in SUBSET Labels}
Weights == UNION {[F -> Int] : F \in SUBSET Labels}

StateRecord ==
  [id : Ids, actor : Actors, date : Dates,
   signals : {e.signals : e \in Evidence}, refs : {e.refs : e \in Evidence},
   stale : Ages, weight : Weights, maxRefs : Nat, budget : Budgets, horizon : Horizons,
   previous : Ids \cup {None}]

Entries == {"state", "feedback", "selection"} \X Ids

TypeInv ==
  /\ states \in Seq(StateRecord)
  /\ \A i \in DOMAIN states : DOMAIN states[i].weight = DOMAIN states[i].stale
  /\ ledger \in Seq(Entries)

(* The labels a rule finds are labels of the code. *)
LEMMA RuleLabels ==
  \A i \in DOMAIN Rules : Rules[i].labels \subseteq Labels /\ Rules[i].labels # {}
<1>1. Labels = {"credit", "dialogue", "dilution", "engagement", "escalation", "financing",
                "firm_state", "funding", "information_gap", "liquidity", "market_access",
                "market_environment", "market_interest", "memory", "refinancing_window", "risk",
                "stewardship", "valuation"}
  BY DEF Labels, LabelOrder, ToSet
<1>2. DOMAIN Rules = 1..15
  BY DEF Rules
<1>3. \A i \in 1..15 : Rules[i].labels \subseteq Labels /\ Rules[i].labels # {}
  BY <1>1 DEF Rules
<1>. QED  BY <1>2, <1>3

(* Evidence always shows something, and only labels of the code.            *)
LEMMA FreshLabelsType ==
  ASSUME NEW signals \in SUBSET Signals
  PROVE  FreshLabels(signals) \subseteq Labels /\ FreshLabels(signals) # {}
<1>1. "memory" \in Labels
  BY DEF Labels, LabelOrder, ToSet
<1>2. \A i \in Fired(signals) : i \in DOMAIN Rules
  BY DEF Fired
<1>3. FreshLabels(signals) \subseteq Labels
  BY <1>1, <1>2, RuleLabels DEF FreshLabels
<1>4. ASSUME signals = {} PROVE FreshLabels(signals) # {}
  <2>1. "memory" \in FreshLabels(signals)
    BY <1>4 DEF FreshLabels
  <2>. QED  BY <2>1
<1>5. ASSUME signals # {} PROVE FreshLabels(signals) # {}
  <2>1. PICK i \in DOMAIN Rules : Rules[i].signal \in signals
    BY <1>5 DEF Signals
  <2>2. i \in Fired(signals)
    BY <2>1 DEF Fired
  <2>3. PICK l \in Rules[i].labels : TRUE
    BY <2>1, RuleLabels
  <2>4. l \in FreshLabels(signals)
    BY <2>2, <2>3 DEF FreshLabels
  <2>. QED  BY <2>4
<1>. QED  BY <1>3, <1>4, <1>5

(* The labels are finitely many and the alphabet tells them apart.          *)
LEMMA LabelsAlphabetic ==
  /\ IsFiniteSet(Labels)
  /\ \A l \in Labels : Alphabetic(l) \in Int
  /\ \A l, m \in Labels : Alphabetic(l) = Alphabetic(m) => l = m
<1>1. DOMAIN LabelOrder = 1..18 /\ Labels = {LabelOrder[i] : i \in 1..18}
  BY DEF Labels, LabelOrder, ToSet
<1>2. IsFiniteSet(Labels)
  <2>1. IsFiniteSet(1..18)
    <3>1. \A n \in Nat : IsFiniteSet(1..n)
      BY FS_Interval
    <3>2. 18 \in Nat
      OBVIOUS
    <3>. QED  BY <3>1, <3>2
  <2>. DEFINE f == [i \in 1..18 |-> LabelOrder[i]]
  <2>2. f \in Surjection(1..18, Labels)
    <3>1. f \in [1..18 -> Labels] /\ \A l \in Labels : \E i \in 1..18 : f[i] = l
      BY <1>1
    <3>. QED  BY <3>1, Fun_IsSurj
  <2>. QED  BY <2>1, <2>2, FS_Surjection
<1>3. \A l \in Labels : Alphabetic(l) \in 1..18 /\ LabelOrder[Alphabetic(l)] = l
  BY <1>1 DEF Alphabetic
<1>. QED  BY <1>2, <1>3

(* A state's ages and weights are over the same labels.                     *)
LEMMA StateParts ==
  ASSUME TypeInv, NEW i \in DOMAIN states
  PROVE  /\ states[i] \in StateRecord
         /\ DOMAIN states[i].stale \subseteq Labels
         /\ DOMAIN states[i].weight = DOMAIN states[i].stale
         /\ \A l \in DOMAIN states[i].stale : states[i].stale[l] \in Nat /\ states[i].weight[l] \in Int
<1>1. states[i] \in StateRecord
  BY DEF TypeInv
<1>2. states[i].stale \in Ages /\ states[i].weight \in Weights
  BY <1>1 DEF StateRecord
<1>3. PICK F \in SUBSET Labels : states[i].stale \in [F -> Nat]
  BY <1>2 DEF Ages
<1>4. PICK G \in SUBSET Labels : states[i].weight \in [G -> Int]
  BY <1>2 DEF Weights
<1>5. DOMAIN states[i].weight = DOMAIN states[i].stale
  BY DEF TypeInv
<1>6. \A l \in DOMAIN states[i].stale : states[i].stale[l] \in Nat
  BY <1>3
<1>7. \A l \in DOMAIN states[i].weight : states[i].weight[l] \in Int
  BY <1>4
<1>. QED  BY <1>1, <1>3, <1>5, <1>6, <1>7

(* get_latest_for_actor(): the actor's last state, or none.                 *)
LEMMA LatestIsLast ==
  ASSUME TypeInv, NEW a
  PROVE  /\ StatesOf(a) \in SUBSET Nat /\ IsFiniteSet(StatesOf(a))
         /\ Latest(a) \in StatesOf(a) \cup {0}
         /\ \A i \in StatesOf(a) : i <= Latest(a) /\ i # 0
<1>1. Len(states) \in Nat /\ DOMAIN states = 1..Len(states)
  BY DEF TypeInv
<1>2. StatesOf(a) \subseteq 1..Len(states)
  BY <1>1 DEF StatesOf
<1>3. IsFiniteSet(1..Len(states))
  BY <1>1, FS_Interval
<1>4. IsFiniteSet(StatesOf(a))
  BY <1>2, <1>3, FS_Subset
<1>5. /\ StatesOf(a) \cup {0} \in SUBSET Nat
      /\ StatesOf(a) \cup {0} # {}
  BY <1>1, <1>2
<1>6. IsFiniteSet(StatesOf(a) \cup {0})
  BY <1>4, FS_AddElement
<1>7. /\ Latest(a) \in StatesOf(a) \cup {0}
      /\ \A i \in StatesOf(a) \cup {0} : i <= Latest(a)
  BY <1>5, <1>6, MaxIsGreatest DEF Latest
<1>. QED  BY <1>1, <1>2, <1>4, <1>7

(* What the last state of an actor passes on is typed as a state's.         *)
LEMMA PriorParts ==
  ASSUME TypeInv, NEW a
  PROVE  /\ Prior(a).id \in Ids \cup {None}
         /\ DOMAIN Prior(a).stale \subseteq Labels
         /\ DOMAIN Prior(a).weight = DOMAIN Prior(a).stale
         /\ \A l \in DOMAIN Prior(a).stale : Prior(a).stale[l] \in Nat /\ Prior(a).weight[l] \in Int
<1>1. CASE Latest(a) = 0
  <2>1. Prior(a) = NoPrior
    BY <1>1 DEF Prior
  <2>2. NoPrior.id = None /\ DOMAIN NoPrior.stale = {} /\ DOMAIN NoPrior.weight = {}
    BY DEF NoPrior
  <2>. QED  BY <2>1, <2>2
<1>2. CASE Latest(a) # 0
  <2>1. Latest(a) \in DOMAIN states
    BY <1>2, LatestIsLast DEF StatesOf
  <2>2. Prior(a) = states[Latest(a)]
    BY <1>2 DEF Prior
  <2>3. states[Latest(a)].id \in Ids
    BY <2>1, StateParts DEF StateRecord
  <2>. QED  BY <2>1, <2>2, <2>3, StateParts
<1>. QED  BY <1>1, <1>2

(* What a new state knows of its labels, before and after saturation.       *)
NewAges(a, e, h) == StaleCount(Prior(a), FreshLabels(e.signals), h)
NewWeights(a, e, h) == Weight(Prior(a), FreshLabels(e.signals), h)
NewFocus(a, e, h) == Saturated(NewAges(a, e, h), NewWeights(a, e, h))

(* What of a new state its arguments and the actor's last state give.       *)
LEMMA NewStateFields ==
  ASSUME NEW id, NEW a, NEW d, NEW e, NEW h, NEW b
  PROVE  /\ NewState(id, a, d, e, h, b).id = id
         /\ NewState(id, a, d, e, h, b).actor = a
         /\ NewState(id, a, d, e, h, b).signals = e.signals
         /\ NewState(id, a, d, e, h, b).previous = Prior(a).id
         /\ NewState(id, a, d, e, h, b).horizon = h
  BY DEF NewState

(* Its focus: what saturation keeps of the labels.                          *)
LEMMA NewStateFocus ==
  ASSUME NEW id, NEW a, NEW d, NEW e, NEW h, NEW b
  PROVE  /\ NewState(id, a, d, e, h, b).stale = [l \in NewFocus(a, e, h) |-> NewAges(a, e, h)[l]]
         /\ NewState(id, a, d, e, h, b).weight = [l \in NewFocus(a, e, h) |-> NewWeights(a, e, h)[l]]
  BY DEF NewState, NewFocus, NewAges, NewWeights

(* What is known of the labels before saturation.                           *)
LEMMA NewAgesType ==
  ASSUME TypeInv, NEW a, NEW e \in Evidence, NEW h
  PROVE  /\ DOMAIN NewAges(a, e, h) \subseteq Labels
         /\ DOMAIN NewWeights(a, e, h) = DOMAIN NewAges(a, e, h)
         /\ FreshLabels(e.signals) \subseteq DOMAIN NewAges(a, e, h)
         /\ \A l \in DOMAIN NewAges(a, e, h) :
              NewAges(a, e, h)[l] \in Nat /\ NewWeights(a, e, h)[l] \in Int
         /\ NewFocus(a, e, h) \subseteq DOMAIN NewAges(a, e, h)
<1>. DEFINE fresh == FreshLabels(e.signals)
<1>1. fresh \subseteq Labels
  BY EvidenceAssumption, FreshLabelsType
<1>2. Carried(Prior(a), fresh, h) \subseteq DOMAIN Prior(a).stale
  BY DEF Carried
<1>3. /\ DOMAIN NewAges(a, e, h) = fresh \cup Carried(Prior(a), fresh, h)
      /\ DOMAIN NewWeights(a, e, h) = fresh \cup Carried(Prior(a), fresh, h)
  BY DEF NewAges, NewWeights, StaleCount, Weight
<1>4. ASSUME NEW l \in fresh \cup Carried(Prior(a), fresh, h)
      PROVE  NewAges(a, e, h)[l] \in Nat /\ NewWeights(a, e, h)[l] \in Int
  <2>1. CASE l \in fresh
    BY <2>1 DEF NewAges, NewWeights, StaleCount, Weight, ResetWeight
  <2>2. CASE l \notin fresh
    <3>1. Prior(a).stale[l] \in Nat /\ Prior(a).weight[l] \in Int
      BY <1>2, <1>4, <2>2, PriorParts
    <3>2. /\ NewAges(a, e, h)[l] = Prior(a).stale[l] + 1
          /\ NewWeights(a, e, h)[l] = Prior(a).weight[l] - DecayStep
      BY <1>4, <2>2 DEF NewAges, NewWeights, StaleCount, Weight
    <3>. QED  BY <3>1, <3>2 DEF DecayStep
  <2>. QED  BY <2>1, <2>2
<1>5. NewFocus(a, e, h) \subseteq DOMAIN NewAges(a, e, h)
  BY DEF NewFocus, Saturated
<1>. QED  BY <1>1, <1>2, <1>3, <1>4, <1>5, PriorParts

(* A new state is a record of the book.                                     *)
LEMMA NewStateType ==
  ASSUME TypeInv, NEW id \in Ids, NEW a \in Actors, NEW d \in Dates, NEW e \in Evidence,
         NEW h \in Horizons, NEW b \in Budgets
  PROVE  /\ NewState(id, a, d, e, h, b) \in StateRecord
         /\ DOMAIN NewState(id, a, d, e, h, b).weight = DOMAIN NewState(id, a, d, e, h, b).stale
<1>. DEFINE F == NewFocus(a, e, h)
            s == NewState(id, a, d, e, h, b)
<1>1. F \in SUBSET Labels
  BY NewAgesType
<1>2. [l \in F |-> NewAges(a, e, h)[l]] \in [F -> Nat]
  BY NewAgesType
<1>3. [l \in F |-> NewWeights(a, e, h)[l]] \in [F -> Int]
  BY NewAgesType
<1>4. [l \in F |-> NewAges(a, e, h)[l]] \in Ages /\ [l \in F |-> NewWeights(a, e, h)[l]] \in Weights
  BY <1>1, <1>2, <1>3 DEF Ages, Weights
<1>5. SmallerOf(BaseSelectedRefs + Cardinality(F), SelectedRefsCap) \in Nat
  <2>1. IsFiniteSet(F)
    BY <1>1, LabelsAlphabetic, FS_Subset
  <2>2. Cardinality(F) \in Nat
    BY <2>1, FS_CardinalityType
  <2>. QED  BY <2>2, BudgetAssumption DEF SmallerOf
<1>6. s = [id |-> id, actor |-> a, date |-> d, signals |-> e.signals, refs |-> e.refs,
           stale |-> [l \in F |-> NewAges(a, e, h)[l]], weight |-> [l \in F |-> NewWeights(a, e, h)[l]],
           maxRefs |-> SmallerOf(BaseSelectedRefs + Cardinality(F), SelectedRefsCap),
           budget |-> b, horizon |-> h, previous |-> Prior(a).id]
  BY DEF NewState, NewFocus, NewAges, NewWeights
<1>7. Prior(a).id \in Ids \cup {None}
  BY PriorParts
<1>8. DOMAIN s.weight = DOMAIN s.stale
  BY <1>6
<1>. HIDE DEF F
<1>9. s \in StateRecord
  BY <1>4, <1>5, <1>6, <1>7 DEF StateRecord
<1>. QED  BY <1>8, <1>9

(* An optional record at the end of a sequence.                             *)
LEMMA WhenAppends ==
  ASSUME NEW S, NEW s \in Seq(S), NEW x \in S, NEW c \in BOOLEAN
  PROVE  s \o When(c, <<x>>) = IF c THEN Append(s, x) ELSE s
<1>1. CASE c
  <2>1. When(c, <<x>>) = <<x>>
    BY <1>1 DEF When
  <2>2. Append(s, x) = s \o <<x>>
    BY AppendIsConcat
  <2>. QED  BY <1>1, <2>1, <2>2
<1>2. CASE ~c
  <2>1. When(c, <<x>>) = <<>>
    BY <1>2 DEF When
  <2>2. s \o <<>> = s
    BY ConcatEmptySeq
  <2>. QED  BY <1>2, <2>1, <2>2
<1>. QED  BY <1>1, <1>2

(* The ids a call may use are ids.                                          *)
LEMMA IdsForType ==
  ASSUME NEW a \in Actors, NEW d \in Dates
  PROVE  IdsFor(a, d) \subseteq Ids /\ <<a, d>> \in Ids
  BY DEF IdsFor, Ids

(* What a call of build_attention_feedback() writes.                        *)
LEMMA BuildWrites ==
  ASSUME TypeInv,
         NEW a \in Actors, NEW d \in Dates, NEW sid \in Ids, NEW fid \in Ids, NEW e \in Evidence,
         NEW h \in Horizons, NEW b \in Budgets, NEW typed \in BOOLEAN,
         BuildFeedback(a, d, sid, fid, e, h, b, typed)
  PROVE  /\ states' = IF KnownState(sid) THEN states
                      ELSE Append(states, NewState(sid, a, d, e, h, b))
         /\ \/ /\ typed /\ ~KnownFeedback(fid)
               /\ feedbacks' = feedbacks \cup {NewFeedback(fid, a, d, e, sid)}
               /\ ledger' = Append(IF KnownState(sid) THEN ledger ELSE Append(ledger, <<"state", sid>>),
                                   <<"feedback", fid>>)
            \/ /\ feedbacks' = feedbacks
               /\ ledger' = IF KnownState(sid) THEN ledger ELSE Append(ledger, <<"state", sid>>)
         /\ UNCHANGED selections
<1>. DEFINE n == NewState(sid, a, d, e, h, b)
            f == NewFeedback(fid, a, d, e, sid)
            addsState == ~KnownState(sid)
            addsFeedback == typed /\ ~KnownFeedback(fid)
<1>1. /\ states' = states \o When(addsState, <<n>>)
      /\ feedbacks' = feedbacks \cup {g \in {f} : addsFeedback}
      /\ ledger' = (ledger \o When(addsState, <<<<"state", sid>>>>))
                     \o When(addsFeedback, <<<<"feedback", fid>>>>)
      /\ UNCHANGED selections
  BY DEF BuildFeedback
<1>2. n \in StateRecord
  BY NewStateType
<1>3. <<"state", sid>> \in Entries /\ <<"feedback", fid>> \in Entries
  BY DEF Entries
<1>4. addsState \in BOOLEAN /\ addsFeedback \in BOOLEAN
  BY DEF KnownState, KnownFeedback
<1>. HIDE DEF n, f
<1>5. states' = IF addsState THEN Append(states, n) ELSE states
  BY <1>1, <1>2, <1>4, WhenAppends DEF TypeInv
<1>. DEFINE rs == <<"state", sid>>
            rf == <<"feedback", fid>>
            mid == ledger \o When(addsState, <<rs>>)
<1>6. rs \in Entries /\ rf \in Entries /\ ledger \in Seq(Entries) /\ ledger' = mid \o When(addsFeedback, <<rf>>)
  BY <1>1, <1>3 DEF TypeInv
<1>. HIDE DEF rs, rf, addsState, addsFeedback
<1>7. mid = (IF addsState THEN Append(ledger, rs) ELSE ledger) /\ mid \in Seq(Entries)
  <2>1. mid = IF addsState THEN Append(ledger, rs) ELSE ledger
    BY <1>4, <1>6, WhenAppends
  <2>2. Append(ledger, rs) \in Seq(Entries)
    BY <1>6, AppendProperties
  <2>3. mid = Append(ledger, rs) \/ mid = ledger
    BY <2>1
  <2>. HIDE DEF mid
  <2>. QED  BY <1>6, <2>1, <2>2, <2>3
<1>. HIDE DEF mid
<1>8. ledger' = IF addsFeedback THEN Append(mid, rf) ELSE mid
  BY <1>4, <1>6, <1>7, WhenAppends
<1>. USE DEF addsState, addsFeedback
<1>9. feedbacks' = IF addsFeedback THEN feedbacks \cup {f} ELSE feedbacks
  BY <1>1
<1>10. CASE addsFeedback
  BY <1>1, <1>5, <1>7, <1>8, <1>9, <1>10 DEF n, f, rs, rf
<1>11. CASE ~addsFeedback
  BY <1>1, <1>5, <1>7, <1>8, <1>9, <1>11 DEF n, f, rs, rf
<1>. QED  BY <1>10, <1>11

(* What a call does to the states: nothing, or one more at the end.         *)
OneMoreState ==
  \E id \in Ids, a \in Actors, d \in Dates, e \in Evidence, h \in Horizons, b \in Budgets :
    ~KnownState(id) /\ states' = Append(states, NewState(id, a, d, e, h, b))

(* No other action touches the states.                                      *)
LEMMA StatesStep ==
  ASSUME TypeInv, [Next]_vars
  PROVE  UNCHANGED states \/ OneMoreState
<1>1. ASSUME NEW a \in Actors, NEW d \in Dates, BuildMemorySelection(a, d)
      PROVE  UNCHANGED states
  BY <1>1 DEF BuildMemorySelection
<1>2. ASSUME NEW a \in Actors, NEW d \in Dates, NEW sid \in IdsFor(a, d), NEW fid \in IdsFor(a, d),
             NEW e \in Evidence, NEW h \in Horizons, NEW b \in Budgets, NEW typed \in BOOLEAN,
             BuildFeedback(a, d, sid, fid, e, h, b, typed)
      PROVE  UNCHANGED states \/ OneMoreState
  <2>1. sid \in Ids /\ fid \in Ids
    BY IdsForType
  <2>2. states' = IF KnownState(sid) THEN states ELSE Append(states, NewState(sid, a, d, e, h, b))
    BY <1>2, <2>1, BuildWrites
  <2>. QED  BY <2>1, <2>2 DEF OneMoreState
<1>3. CASE UNCHANGED vars
  BY <1>3 DEF vars
<1>. QED  BY <1>1, <1>2, <1>3 DEF Next

(* The books and the ledger keep their types.                               *)
THEOREM AttentionTyping == Spec => []TypeInv
<1>1. Init => TypeInv
  BY DEF Init, TypeInv
<1>2. ASSUME TypeInv, [Next]_vars PROVE TypeInv'
  <2>1. states' \in Seq(StateRecord)
        /\ \A i \in DOMAIN states' : DOMAIN states'[i].weight = DOMAIN states'[i].stale
    <3>1. CASE UNCHANGED states
      BY <1>2, <3>1 DEF TypeInv
    <3>2. CASE OneMoreState
      <4>1. PICK s \in StateRecord : /\ states' = Append(states, s)
                                     /\ DOMAIN s.weight = DOMAIN s.stale
        BY <1>2, <3>2, NewStateType DEF OneMoreState
      <4>2. \A i \in DOMAIN states' : (i \in DOMAIN states /\ states'[i] = states[i]) \/ states'[i] = s
        BY <1>2, <4>1 DEF TypeInv
      <4>. QED  BY <1>2, <4>1, <4>2 DEF TypeInv
    <3>. QED  BY <1>2, <3>1, <3>2, StatesStep
  <2>2. ledger' \in Seq(Entries)
    <3>1. ASSUME NEW a \in Actors, NEW d \in Dates, BuildMemorySelection(a, d)
          PROVE  ledger' \in Seq(Entries)
      <4>1. <<"selection", <<a, d>>>> \in Entries
        BY IdsForType DEF Entries
      <4>. QED  BY <1>2, <3>1, <4>1 DEF BuildMemorySelection, TypeInv
    <3>2. ASSUME NEW a \in Actors, NEW d \in Dates, NEW sid \in IdsFor(a, d), NEW fid \in IdsFor(a, d),
                 NEW e \in Evidence, NEW h \in Horizons, NEW b \in Budgets, NEW typed \in BOOLEAN,
                 BuildFeedback(a, d, sid, fid, e, h, b, typed)
          PROVE  ledger' \in Seq(Entries)
      <4>1. sid \in Ids /\ fid \in Ids
        BY IdsForType
      <4>2. <<"state", sid>> \in Entries /\ <<"feedback", fid>> \in Entries /\ ledger \in Seq(Entries)
        BY <1>2, <4>1 DEF Entries, TypeInv
      <4>3. \/ ledger' = Append(IF KnownState(sid) THEN ledger ELSE Append(ledger, <<"state", sid>>),
                                <<"feedback", fid>>)
            \/ ledger' = IF KnownState(sid) THEN ledger ELSE Append(ledger, <<"state", sid>>)
        BY <1>2, <3>2, <4>1, BuildWrites
      <4>4. Append(ledger, <<"state", sid>>) \in Seq(Entries)
        BY <4>2, AppendProperties
      <4>5. \A s \in Seq(Entries) : Append(s, <<"feedback", fid>>) \in Seq(Entries)
        BY <4>2, AppendProperties
      <4>. QED  BY <4>2, <4>3, <4>4, <4>5
    <3>3. CASE UNCHANGED vars
      BY <1>2, <3>3 DEF vars, TypeInv
    <3>. QED  BY <1>2, <3>1, <3>2, <3>3 DEF Next
  <2>. QED  BY <2>1, <2>2 DEF TypeInv
<1>. QED  BY <1>1, <1>2, PTL DEF Spec

-----------------------------------------------------------------------------
(***************************************************************************)
(* The ledger and the books.                                               *)
(***************************************************************************)
StateEntries == {<<"state", states[i].id>> : i \in DOMAIN states}
FeedbackEntries == {<<"feedback", f.id>> : f \in feedbacks}
SelectionEntries == {<<"selection", <<m.actor, m.date>>>> : m \in selections}

(* A record a ledger does not hold yet is one more record in it.            *)
LEMMA OneMoreEntry ==
  ASSUME NEW S, NEW s \in Seq(S), NEW x \in S, IsInjective(s), x \notin ToSet(s)
  PROVE  /\ Append(s, x) \in Seq(S)
         /\ IsInjective(Append(s, x))
         /\ ToSet(Append(s, x)) = ToSet(s) \cup {x}
<1>. DEFINE t == Append(s, x)
<1>1. /\ t \in Seq(S) /\ Len(s) \in Nat /\ DOMAIN s = 1..Len(s)
      /\ DOMAIN t = 1..(Len(s) + 1)
      /\ \A i \in 1..Len(s) : t[i] = s[i]
      /\ t[Len(s) + 1] = x
  BY AppendProperties
<1>. HIDE DEF t
<1>2. DOMAIN t = DOMAIN s \cup {Len(s) + 1} /\ Len(s) + 1 \notin DOMAIN s
  BY <1>1
<1>. HIDE DEF t
<1>3. \A i \in DOMAIN s : t[i] = s[i] /\ s[i] # x
  BY <1>1 DEF ToSet
<1>4. IsInjective(t)
  BY <1>1, <1>2, <1>3 DEF IsInjective
<1>5. ToSet(t) = ToSet(s) \cup {x}
  BY <1>1, <1>2, <1>3 DEF ToSet
<1>. QED  BY <1>1, <1>4, <1>5 DEF t

(* A stored state is one more state of the book.                            *)
LEMMA StateEntriesGrow ==
  ASSUME TypeInv,
         NEW id \in Ids, NEW a \in Actors, NEW d \in Dates, NEW e \in Evidence,
         NEW h \in Horizons, NEW b \in Budgets,
         states' = Append(states, NewState(id, a, d, e, h, b))
  PROVE  StateEntries' = StateEntries \cup {<<"state", id>>}
<1>. DEFINE n == NewState(id, a, d, e, h, b)
<1>1. n \in StateRecord /\ n.id = id
  <2>1. n \in StateRecord
    BY NewStateType
  <2>2. n.id = id
    BY NewStateFields
  <2>. QED  BY <2>1, <2>2
<1>. HIDE DEF n
<1>2. states \in Seq(StateRecord) /\ states' = Append(states, n)
  BY DEF TypeInv, n
<1>3. /\ Len(states) \in Nat /\ DOMAIN states = 1..Len(states)
      /\ DOMAIN states' = 1..(Len(states) + 1)
      /\ \A i \in 1..Len(states) : states'[i] = states[i]
      /\ states'[Len(states) + 1] = n
  BY <1>1, <1>2, AppendProperties
<1>4. DOMAIN states' = DOMAIN states \cup {Len(states) + 1}
  BY <1>3
<1>5. \A i \in DOMAIN states : states'[i].id = states[i].id
  BY <1>3
<1>. QED  BY <1>1, <1>3, <1>4, <1>5 DEF StateEntries

(* add_state(), add_feedback() and the selection book: every one looks for  *)
(* the id first and appends one ledger record when it stores.              *)
THEOREM LedgerMatchesBooksTheorem == Spec => []LedgerMatchesBooks
<1>. DEFINE Books == StateEntries \cup FeedbackEntries \cup SelectionEntries
<1>0. LedgerMatchesBooks <=> IsInjective(ledger) /\ ToSet(ledger) = Books
  BY DEF LedgerMatchesBooks, StateEntries, FeedbackEntries, SelectionEntries
<1>0p. LedgerMatchesBooks' <=> IsInjective(ledger') /\ ToSet(ledger') = Books'
  BY DEF LedgerMatchesBooks, StateEntries, FeedbackEntries, SelectionEntries
<1>1. Init => LedgerMatchesBooks
  BY DEF Init, LedgerMatchesBooks, IsInjective, ToSet
<1>2. ASSUME TypeInv, LedgerMatchesBooks, [Next]_vars PROVE LedgerMatchesBooks'
  <2>0. ledger \in Seq(Entries) /\ IsInjective(ledger) /\ ToSet(ledger) = Books
    BY <1>0, <1>2 DEF TypeInv
  <2>1. ASSUME NEW a \in Actors, NEW d \in Dates, BuildMemorySelection(a, d)
        PROVE  LedgerMatchesBooks'
    <3>. DEFINE x == <<"selection", <<a, d>>>>
    <3>1. x \in Entries
      BY IdsForType DEF Entries
    <3>2. /\ ledger' = Append(ledger, x)
          /\ ~Selected(a, d)
          /\ UNCHANGED <<states, feedbacks>>
      BY <2>1 DEF BuildMemorySelection
    <3>3. x \notin Books
      BY <3>2 DEF Selected, StateEntries, FeedbackEntries, SelectionEntries
    <3>4. SelectionEntries' = SelectionEntries \cup {x}
      <4>. DEFINE m == [actor |-> a, date |-> d, from |-> Latest(a),
                        refs |-> ApplyAttentionBudget(states[Latest(a)])]
      <4>1. selections' = selections \cup {m}
        BY <2>1 DEF BuildMemorySelection
      <4>2. m.actor = a /\ m.date = d
        OBVIOUS
      <4>. HIDE DEF m
      <4>. QED  BY <4>1, <4>2 DEF SelectionEntries
    <3>5. StateEntries' = StateEntries /\ FeedbackEntries' = FeedbackEntries
      BY <3>2 DEF StateEntries, FeedbackEntries
    <3>. HIDE DEF x
    <3>6. IsInjective(ledger') /\ ToSet(ledger') = Books \cup {x}
      BY <2>0, <3>1, <3>2, <3>3, OneMoreEntry
    <3>. QED  BY <1>0p, <3>4, <3>5, <3>6
  <2>2. ASSUME NEW a \in Actors, NEW d \in Dates, NEW sid \in IdsFor(a, d), NEW fid \in IdsFor(a, d),
               NEW e \in Evidence, NEW h \in Horizons, NEW b \in Budgets, NEW typed \in BOOLEAN,
               BuildFeedback(a, d, sid, fid, e, h, b, typed)
        PROVE  LedgerMatchesBooks'
    <3>. DEFINE x == <<"state", sid>>
                y == <<"feedback", fid>>
                mid == IF KnownState(sid) THEN ledger ELSE Append(ledger, x)
    <3>1. sid \in Ids /\ fid \in Ids
      BY IdsForType
    <3>2. x \in Entries /\ y \in Entries
      BY <3>1 DEF Entries
    <3>3. /\ states' = IF KnownState(sid) THEN states
                       ELSE Append(states, NewState(sid, a, d, e, h, b))
          /\ \/ /\ ~KnownFeedback(fid)
                /\ feedbacks' = feedbacks \cup {NewFeedback(fid, a, d, e, sid)}
                /\ ledger' = Append(mid, y)
             \/ /\ feedbacks' = feedbacks
                /\ ledger' = mid
          /\ UNCHANGED selections
      BY <1>2, <2>2, <3>1, BuildWrites
    <3>4. StateEntries' = StateEntries \cup {x}
      <4>1. CASE KnownState(sid)
        BY <3>3, <4>1 DEF StateEntries, KnownState
      <4>2. CASE ~KnownState(sid)
        BY <1>2, <3>1, <3>3, <4>2, StateEntriesGrow
      <4>. QED  BY <4>1, <4>2
    <3>5. SelectionEntries' = SelectionEntries
      BY <3>3 DEF SelectionEntries
    <3>6. mid \in Seq(Entries) /\ IsInjective(mid) /\ ToSet(mid) = Books \cup {x}
      <4>1. CASE KnownState(sid)
        <5>1. x \in StateEntries
          BY <4>1 DEF StateEntries, KnownState
        <5>. QED  BY <2>0, <4>1, <5>1
      <4>2. CASE ~KnownState(sid)
        <5>1. x \notin Books
          BY <4>2 DEF StateEntries, FeedbackEntries, SelectionEntries, KnownState
        <5>. HIDE DEF x, Books
        <5>2. mid = Append(ledger, x)
          BY <4>2
        <5>. QED  BY <2>0, <3>2, <5>1, <5>2, OneMoreEntry
      <4>. QED  BY <4>1, <4>2
    <3>7. CASE ~KnownFeedback(fid) /\ feedbacks' = feedbacks \cup {NewFeedback(fid, a, d, e, sid)}
               /\ ledger' = Append(mid, y)
      <4>1. FeedbackEntries' = FeedbackEntries \cup {y}
        <5>1. NewFeedback(fid, a, d, e, sid).id = fid
          BY DEF NewFeedback
        <5>. QED  BY <3>7, <5>1 DEF FeedbackEntries
      <4>2. y \notin Books \cup {x}
        BY <3>7 DEF StateEntries, FeedbackEntries, SelectionEntries, KnownFeedback
      <4>. HIDE DEF x, y, mid
      <4>3. IsInjective(ledger') /\ ToSet(ledger') = ToSet(mid) \cup {y}
        BY <3>2, <3>6, <3>7, <4>2, OneMoreEntry
      <4>. QED  BY <1>0p, <3>4, <3>5, <3>6, <4>1, <4>3
    <3>8. CASE feedbacks' = feedbacks /\ ledger' = mid
      <4>1. FeedbackEntries' = FeedbackEntries
        BY <3>8 DEF FeedbackEntries
      <4>. HIDE DEF mid, x
      <4>. QED  BY <1>0p, <3>4, <3>5, <3>6, <3>8, <4>1
    <3>. QED  BY <3>3, <3>7, <3>8
  <2>3. CASE UNCHANGED vars
    <3>1. Books' = Books /\ ledger' = ledger
      BY <2>3 DEF vars, StateEntries, FeedbackEntries, SelectionEntries
    <3>. QED  BY <1>0p, <2>0, <3>1
  <2>. QED  BY <1>2, <2>1, <2>2, <2>3 DEF Next
<1>. QED  BY <1>1, <1>2, AttentionTyping, PTL DEF Spec

-----------------------------------------------------------------------------
(***************************************************************************)
(* The chain of an actor's states.                                         *)
(***************************************************************************)
Before(i) == {j \in StatesOf(states[i].actor) : j < i}
LinkOf(S) == IF S = {} THEN None ELSE states[Max(S)].id
Linked(i) == states[i].previous = LinkOf(Before(i))

(* One more state at the end of the book, seen from every position.         *)
LEMMA StateAdded ==
  ASSUME TypeInv,
         NEW id \in Ids, NEW a \in Actors, NEW d \in Dates, NEW e \in Evidence,
         NEW h \in Horizons, NEW b \in Budgets,
         states' = Append(states, NewState(id, a, d, e, h, b))
  PROVE  /\ Len(states) \in Nat /\ DOMAIN states = 1..Len(states)
         /\ DOMAIN states' = DOMAIN states \cup {Len(states) + 1}
         /\ \A i \in DOMAIN states : states'[i] = states[i] /\ i < Len(states) + 1
         /\ states'[Len(states) + 1] = NewState(id, a, d, e, h, b)
         /\ \A c : StatesOf(c)' = IF c = a THEN StatesOf(c) \cup {Len(states) + 1} ELSE StatesOf(c)
<1>. DEFINE n == NewState(id, a, d, e, h, b)
<1>1. n \in StateRecord
  BY NewStateType
<1>2. n.actor = a
  BY NewStateFields
<1>. HIDE DEF n
<1>3. states \in Seq(StateRecord) /\ states' = Append(states, n)
  BY DEF TypeInv, n
<1>4. /\ Len(states) \in Nat /\ DOMAIN states = 1..Len(states)
      /\ DOMAIN states' = 1..(Len(states) + 1)
      /\ \A i \in 1..Len(states) : states'[i] = states[i]
      /\ states'[Len(states) + 1] = n
  BY <1>1, <1>3, AppendProperties
<1>5. /\ DOMAIN states' = DOMAIN states \cup {Len(states) + 1}
      /\ Len(states) + 1 \notin DOMAIN states
      /\ \A i \in DOMAIN states : i < Len(states) + 1
  BY <1>4
<1>6. \A i \in DOMAIN states : states'[i] = states[i]
  BY <1>4
<1>7. ASSUME NEW c
      PROVE  StatesOf(c)' = IF c = a THEN StatesOf(c) \cup {Len(states) + 1} ELSE StatesOf(c)
  BY <1>2, <1>4, <1>5, <1>6 DEF StatesOf
<1>. QED  BY <1>4, <1>5, <1>6, <1>7 DEF n

(* The state found last among an actor's is the one Prior() reads.          *)
LEMMA PriorIsLinkOfAll ==
  ASSUME TypeInv, NEW a
  PROVE  Prior(a).id = LinkOf(StatesOf(a))
<1>. DEFINE S == StatesOf(a)
<1>1. /\ S \in SUBSET Nat /\ IsFiniteSet(S) /\ Latest(a) \in S \cup {0}
      /\ \A i \in S : i <= Latest(a) /\ i # 0
  BY LatestIsLast
<1>a. Latest(a) \in Nat
  <2>1. \A m \in S \cup {0} : m \in Nat
    BY <1>1
  <2>. QED  BY <1>1, <2>1
<1>2. CASE S = {}
  <2>1. Latest(a) = 0
    BY <1>1, <1>2
  <2>. QED  BY <1>2, <2>1 DEF Prior, NoPrior, LinkOf
<1>3. CASE S # {}
  <2>. HIDE DEF S
  <2>1. Max(S) \in S /\ \A i \in S : i <= Max(S)
    BY <1>1, <1>3, MaxIsGreatest
  <2>2. Max(S) <= Latest(a) /\ Max(S) # 0 /\ Max(S) \in Nat /\ Latest(a) \in Nat
    <3>. DEFINE m == Max(S)
    <3>1. m \in S
      BY <2>1
    <3>. HIDE DEF m
    <3>2. m <= Latest(a) /\ m # 0 /\ m \in Nat
      BY <1>1, <3>1
    <3>. QED  BY <1>a, <3>2 DEF m
  <2>3. Latest(a) # 0
    BY <2>2
  <2>4. Latest(a) \in S /\ Latest(a) <= Max(S)
    BY <1>1, <2>1, <2>3
  <2>5. Latest(a) = Max(S)
    BY <2>2, <2>4
  <2>. QED  BY <1>3, <2>3, <2>5 DEF Prior, LinkOf, S
<1>. QED  BY <1>2, <1>3

(* add_state() links a state to get_latest_for_actor()'s answer, and no     *)
(* later call comes between the two.                                       *)
THEOREM ChainPerActorTheorem == Spec => []ChainPerActor
<1>0. /\ ChainPerActor <=> \A i \in DOMAIN states : Linked(i)
      /\ ChainPerActor' <=> \A i \in DOMAIN states' : Linked(i)'
  BY DEF ChainPerActor, Linked, LinkOf, Before
<1>1. Init => ChainPerActor
  BY DEF Init, ChainPerActor
<1>2. ASSUME TypeInv, ChainPerActor, [Next]_vars PROVE ChainPerActor'
  <2>1. CASE UNCHANGED states
    BY <1>2, <2>1 DEF ChainPerActor, StatesOf
  <2>2. CASE OneMoreState
    <3>0. PICK id \in Ids, a \in Actors, d \in Dates, e \in Evidence, h \in Horizons, b \in Budgets :
            states' = Append(states, NewState(id, a, d, e, h, b))
      BY <2>2 DEF OneMoreState
    <3>n. PICK n \in Nat : n = Len(states) + 1
      BY <1>2 DEF TypeInv
    <3>1. /\ Len(states) \in Nat /\ DOMAIN states = 1..Len(states)
          /\ DOMAIN states' = DOMAIN states \cup {n}
          /\ \A i \in DOMAIN states : states'[i] = states[i] /\ i < n
          /\ states'[n] = NewState(id, a, d, e, h, b)
          /\ \A c : StatesOf(c)' = IF c = a THEN StatesOf(c) \cup {n} ELSE StatesOf(c)
      BY <1>2, <3>0, <3>n, StateAdded
    <3>2. \A c : StatesOf(c) \subseteq DOMAIN states
      BY DEF StatesOf
    <3>3. \A S : S \in SUBSET DOMAIN states => LinkOf(S)' = IF S = {} THEN None ELSE states'[Max(S)].id
      BY DEF LinkOf
    <3>4. ASSUME NEW S \in SUBSET DOMAIN states
          PROVE  (IF S = {} THEN None ELSE states'[Max(S)].id) = LinkOf(S)
      <4>1. CASE S # {}
        <5>1. S \in SUBSET Nat /\ IsFiniteSet(S)
          <6>1. IsFiniteSet(1..Len(states))
            BY <3>1, FS_Interval
          <6>. QED  BY <3>1, <6>1, FS_Subset
        <5>2. Max(S) \in DOMAIN states
          BY <4>1, <5>1, MaxIsGreatest
        <5>. QED  BY <3>1, <5>2 DEF LinkOf
      <4>. QED  BY <4>1 DEF LinkOf
    <3>5. ASSUME NEW i \in DOMAIN states
          PROVE  Linked(i)'
      <4>1. states'[i] = states[i] /\ i < n /\ i \in Nat
        BY <3>1
      <4>2. Before(i)' = Before(i)
        <5>1. Before(i)' = {j \in StatesOf(states[i].actor)' : j < i}
          BY <4>1 DEF Before
        <5>2. ~(n < i)
          BY <3>1, <4>1
        <5>. QED  BY <3>1, <5>1, <5>2 DEF Before
      <4>3. Before(i) \in SUBSET DOMAIN states
        BY <3>2 DEF Before
      <4>4. Linked(i)
        BY <1>0, <1>2
      <4>. QED  BY <3>4, <4>1, <4>2, <4>3, <4>4 DEF Linked, LinkOf
    <3>6. Linked(n)'
      <4>1. states'[n].actor = a /\ states'[n].previous = Prior(a).id
        BY <3>1, NewStateFields
      <4>2. Before(n)' = {j \in StatesOf(a)' : j < n}
        BY <4>1 DEF Before
      <4>3. Before(n)' = StatesOf(a)
        <5>1. \A j \in StatesOf(a) : j < n
          BY <3>1, <3>2
        <5>2. ~(n < n)
          OBVIOUS
        <5>. QED  BY <3>1, <4>2, <5>1, <5>2
      <4>4. Prior(a).id = LinkOf(StatesOf(a))
        BY <1>2, PriorIsLinkOfAll
      <4>. QED  BY <3>2, <3>4, <4>1, <4>3, <4>4 DEF Linked, LinkOf
    <3>. QED  BY <1>0, <3>1, <3>5, <3>6
  <2>. QED  BY <1>2, <2>1, <2>2, StatesStep
<1>. QED  BY <1>1, <1>2, AttentionTyping, PTL DEF Spec

-----------------------------------------------------------------------------
(***************************************************************************)
(* Saturation.                                                             *)
(***************************************************************************)
DropOrder(stale, weight) ==
  {p \in (DOMAIN stale) \X (DOMAIN stale) : DroppedBefore(p[1], p[2], stale, weight)}

(* The order in which labels are dropped leaves no two labels tied.         *)
LEMMA DropOrderTotal ==
  ASSUME NEW stale, NEW weight, DOMAIN stale \subseteq Labels,
         \A l \in DOMAIN stale : stale[l] \in Nat /\ weight[l] \in Int
  PROVE  /\ IsFiniteSet(DOMAIN stale)
         /\ TotalOrderOn(DOMAIN stale, DropOrder(stale, weight))
         /\ Saturated(stale, weight) =
              {l \in DOMAIN stale : Rank(DOMAIN stale, DropOrder(stale, weight), l) < MaxFocusLabels}
<1>. DEFINE D == DOMAIN stale
            R == DropOrder(stale, weight)
<1>1. \A l, m \in D : <<l, m>> \in R <=> DroppedBefore(l, m, stale, weight)
  BY DEF DropOrder
<1>2. IsFiniteSet(D)
  BY LabelsAlphabetic, FS_Subset
<1>3. \A l \in D : /\ stale[l] \in Int /\ weight[l] \in Int /\ Alphabetic(l) \in Int
                   /\ \A m \in D : Alphabetic(l) = Alphabetic(m) => l = m
  BY LabelsAlphabetic
<1>4. ASSUME NEW l \in D PROVE ~DroppedBefore(l, l, stale, weight)
  BY <1>3 DEF DroppedBefore
<1>5. ASSUME NEW l \in D, NEW m \in D, NEW k \in D,
             DroppedBefore(l, m, stale, weight), DroppedBefore(m, k, stale, weight)
      PROVE  DroppedBefore(l, k, stale, weight)
  BY <1>3, <1>5 DEF DroppedBefore
<1>6. ASSUME NEW l \in D, NEW m \in D, l # m
      PROVE  DroppedBefore(l, m, stale, weight) \/ DroppedBefore(m, l, stale, weight)
  BY <1>3, <1>6 DEF DroppedBefore
<1>7. TotalOrderOn(D, R)
  <2>. HIDE DEF D, R
  <2>. QED  BY <1>1, <1>4, <1>5, <1>6 DEF TotalOrderOn
<1>8. \A l \in D : {m \in D : <<l, m>> \in R} = {m \in D : DroppedBefore(l, m, stale, weight)}
  BY <1>1
<1>. QED  BY <1>2, <1>7, <1>8 DEF Saturated, Rank

(* Saturation keeps as many labels as fit, the last to be dropped.          *)
LEMMA SaturationKeeps ==
  ASSUME NEW stale, NEW weight, DOMAIN stale \subseteq Labels, DOMAIN stale # {},
         \A l \in DOMAIN stale : stale[l] \in Nat /\ weight[l] \in Int
  PROVE  /\ Cardinality(Saturated(stale, weight)) \in 1..MaxFocusLabels
         /\ \/ Saturated(stale, weight) = DOMAIN stale
            \/ Cardinality(Saturated(stale, weight)) = MaxFocusLabels
         /\ \A l \in DOMAIN stale \ Saturated(stale, weight) : \A m \in Saturated(stale, weight) :
              ~DroppedBefore(m, l, stale, weight)
<1>. DEFINE D == DOMAIN stale
            R == DropOrder(stale, weight)
            F == Saturated(stale, weight)
<1>0. /\ IsFiniteSet(D) /\ TotalOrderOn(D, R)
      /\ F = {l \in D : Rank(D, R, l) < MaxFocusLabels}
      /\ D # {}
      /\ \A l, m \in D : <<l, m>> \in R <=> DroppedBefore(l, m, stale, weight)
  BY DropOrderTotal DEF DropOrder
<1>. HIDE DEF D, R, F
<1>1. MaxFocusLabels \in Nat /\ MaxFocusLabels # 0
  BY BudgetAssumption
<1>2. Cardinality(D) \in Nat /\ Cardinality(D) # 0
  BY <1>0, FS_CardinalityType, FS_EmptySet
<1>3. Cardinality(F) = IF MaxFocusLabels < Cardinality(D) THEN MaxFocusLabels ELSE Cardinality(D)
  BY <1>0, <1>1, RanksBelow
<1>4. Cardinality(F) \in 1..MaxFocusLabels
  BY <1>1, <1>2, <1>3
<1>5. \A x \in D : Rank(D, R, x) \in 0..(Cardinality(D) - 1)
  BY <1>0, RanksDescend
<1>6. F = D \/ Cardinality(F) = MaxFocusLabels
  <2>1. CASE MaxFocusLabels < Cardinality(D)
    BY <1>3, <2>1
  <2>2. CASE ~(MaxFocusLabels < Cardinality(D))
    <3>1. \A x \in D : Rank(D, R, x) < MaxFocusLabels
      BY <1>1, <1>2, <1>5, <2>2
    <3>. QED  BY <1>0, <3>1
  <2>. QED  BY <2>1, <2>2
<1>7. ASSUME NEW l \in D \ F, NEW m \in F PROVE ~DroppedBefore(m, l, stale, weight)
  <2>1. m \in D /\ l \in D
    BY <1>0
  <2>2. SUFFICES ASSUME DroppedBefore(m, l, stale, weight) PROVE FALSE
    OBVIOUS
  <2>3. Rank(D, R, l) < Rank(D, R, m)
    BY <1>0, <2>1, <2>2, RanksDescend
  <2>4. Rank(D, R, m) < MaxFocusLabels /\ ~(Rank(D, R, l) < MaxFocusLabels)
    BY <1>0, <2>1
  <2>5. Rank(D, R, l) \in Int /\ Rank(D, R, m) \in Int
    BY <1>2, <1>5, <2>1
  <2>. QED  BY <1>1, <2>3, <2>4, <2>5
<1>. QED  BY <1>4, <1>6, <1>7 DEF D, F

(* What the evidence of the call shows has no age.                          *)
LEMMA FreshIsNew ==
  ASSUME NEW a, NEW e, NEW h, NEW l \in FreshLabels(e.signals)
  PROVE  NewAges(a, e, h)[l] = 0 /\ NewWeights(a, e, h)[l] = ResetWeight
  BY DEF NewAges, NewWeights, StaleCount, Weight

ObservedFirst(s) ==
  /\ Cardinality(Focus(s)) \in 1..MaxFocusLabels
  /\ \/ FreshLabels(s.signals) \subseteq Focus(s)
     \/ Cardinality(Focus(s)) = MaxFocusLabels /\ \A l \in Focus(s) : s.stale[l] = 0

(* A new state shows first what was observed now.                           *)
LEMMA NewStateObserved ==
  ASSUME TypeInv, NEW id, NEW a, NEW d, NEW e \in Evidence, NEW h, NEW b
  PROVE  ObservedFirst(NewState(id, a, d, e, h, b))
<1>. DEFINE s == NewState(id, a, d, e, h, b)
            stale == NewAges(a, e, h)
            weight == NewWeights(a, e, h)
            F == Saturated(stale, weight)
            fresh == FreshLabels(e.signals)
<1>1. /\ DOMAIN stale \subseteq Labels /\ fresh \subseteq DOMAIN stale
      /\ \A l \in DOMAIN stale : stale[l] \in Nat /\ weight[l] \in Int
  BY NewAgesType
<1>2. fresh # {}
  BY EvidenceAssumption, FreshLabelsType
<1>3. Focus(s) = F /\ \A l \in F : s.stale[l] = stale[l]
  <2>1. s.weight = [l \in F |-> weight[l]] /\ s.stale = [l \in F |-> stale[l]]
    BY NewStateFocus DEF NewFocus
  <2>. HIDE DEF s, stale, weight, F
  <2>. QED  BY <2>1 DEF Focus
<1>4. s.signals = e.signals
  BY NewStateFields
<1>5. \A l \in fresh : stale[l] = 0
  BY FreshIsNew
<1>6. F \subseteq DOMAIN stale
  BY DEF Saturated
<1>. HIDE DEF s, stale, weight
<1>7. /\ Cardinality(F) \in 1..MaxFocusLabels
      /\ F = DOMAIN stale \/ Cardinality(F) = MaxFocusLabels
      /\ \A l \in DOMAIN stale \ F : \A m \in F : ~DroppedBefore(m, l, stale, weight)
  BY <1>1, <1>2, SaturationKeeps
<1>. HIDE DEF F, fresh
<1>8. ASSUME NEW l \in fresh, l \notin F PROVE \A m \in F : stale[m] = 0
  <2>1. ASSUME NEW m \in F PROVE stale[m] = 0
    <3>1. ~(stale[m] > stale[l])
      BY <1>1, <1>7, <1>8 DEF DroppedBefore
    <3>2. stale[m] \in Nat /\ stale[l] = 0
      BY <1>1, <1>5, <1>6, <1>8
    <3>. QED  BY <3>1, <3>2
  <2>. QED  BY <2>1
<1>9. fresh \subseteq F \/ (Cardinality(F) = MaxFocusLabels /\ \A l \in F : stale[l] = 0)
  BY <1>1, <1>7, <1>8
<1>. QED  BY <1>3, <1>4, <1>7, <1>9 DEF ObservedFirst, fresh, s

(* drop_oldest: the focus is never empty nor above its cap, and a label     *)
(* just observed goes only when nothing older is left to give up.           *)
THEOREM ObservedBeforeInheritedTheorem == Spec => []ObservedBeforeInherited
<1>0. /\ ObservedBeforeInherited <=> \A i \in DOMAIN states : ObservedFirst(states[i])
      /\ ObservedBeforeInherited' <=> \A i \in DOMAIN states' : ObservedFirst(states'[i])
  BY DEF ObservedBeforeInherited, ObservedFirst
<1>1. Init => ObservedBeforeInherited
  BY DEF Init, ObservedBeforeInherited
<1>2. ASSUME TypeInv, ObservedBeforeInherited, [Next]_vars PROVE ObservedBeforeInherited'
  <2>1. CASE UNCHANGED states
    BY <1>0, <1>2, <2>1
  <2>2. CASE OneMoreState
    <3>0. PICK id \in Ids, a \in Actors, d \in Dates, e \in Evidence, h \in Horizons, b \in Budgets :
            states' = Append(states, NewState(id, a, d, e, h, b))
      BY <2>2 DEF OneMoreState
    <3>1. /\ DOMAIN states' = DOMAIN states \cup {Len(states) + 1}
          /\ \A i \in DOMAIN states : states'[i] = states[i]
          /\ states'[Len(states) + 1] = NewState(id, a, d, e, h, b)
      BY <1>2, <3>0, StateAdded
    <3>2. ObservedFirst(NewState(id, a, d, e, h, b))
      BY <1>2, NewStateObserved
    <3>. QED  BY <1>0, <1>2, <3>1, <3>2
  <2>. QED  BY <1>2, <2>1, <2>2, StatesStep
<1>. QED  BY <1>1, <1>2, AttentionTyping, PTL DEF Spec

-----------------------------------------------------------------------------
(***************************************************************************)
(* Ages.  A stale count is the rank, among the actor's states so far, of    *)
(* the last one whose evidence showed the label.                           *)
(***************************************************************************)
UpTo(i) == {j \in StatesOf(states[i].actor) : j <= i}

Aged(book, s, l, back) ==
  /\ s.stale[l] < Cardinality(back)
  /\ s.weight[l] = ResetWeight - s.stale[l] * DecayStep
  /\ s.weight[l] > 0 /\ (s.stale[l] = 0 \/ s.stale[l] <= s.horizon)
  /\ \A j \in back :
       /\ Rank(back, Above, j) = s.stale[l] => l \in FreshLabels(book[j].signals)
       /\ Rank(back, Above, j) < s.stale[l] => l \notin FreshLabels(book[j].signals)

AgeInv == \A i \in DOMAIN states : \A l \in Focus(states[i]) : Aged(states, states[i], l, UpTo(i))

(* A number above all others of a set takes rank 0 and moves the others up.  *)
LEMMA RanksShift ==
  ASSUME NEW S \in SUBSET Nat, IsFiniteSet(S), NEW n \in Nat, \A j \in S : j < n
  PROVE  /\ IsFiniteSet(S \cup {n})
         /\ Cardinality(S \cup {n}) = Cardinality(S) + 1 /\ Cardinality(S) \in Nat
         /\ Rank(S \cup {n}, Above, n) = 0
         /\ \A j \in S : Rank(S \cup {n}, Above, j) = Rank(S, Above, j) + 1
         /\ \A j \in S : Rank(S, Above, j) \in Nat
<1>. DEFINE T == S \cup {n}
<1>1. n \notin S /\ T \in SUBSET Nat
  OBVIOUS
<1>2. IsFiniteSet(T) /\ Cardinality(T) = Cardinality(S) + 1 /\ Cardinality(S) \in Nat
  BY <1>1, FS_AddElement, FS_CardinalityType
<1>3. \A j \in T : Rank(T, Above, j) = Cardinality({k \in T : k > j})
  BY <1>1, AboveIsTotal
<1>4. \A j \in S : Rank(S, Above, j) = Cardinality({k \in S : k > j})
  BY AboveIsTotal
<1>5. {k \in T : k > n} = {}
  <2>1. \A k \in S : k \in Nat /\ k < n
    OBVIOUS
  <2>2. \A k \in S : ~(k > n)
    BY <2>1
  <2>3. ~(n > n)
    OBVIOUS
  <2>. QED  BY <2>2, <2>3
<1>6. Rank(T, Above, n) = 0
  BY <1>3, <1>5, FS_EmptySet
<1>7. ASSUME NEW j \in S
      PROVE  Rank(T, Above, j) = Rank(S, Above, j) + 1 /\ Rank(S, Above, j) \in Nat
  <2>. DEFINE A == {k \in S : k > j}
  <2>1. {k \in T : k > j} = A \cup {n}
    OBVIOUS
  <2>2. IsFiniteSet(A) /\ n \notin A
    BY <1>1, FS_Subset
  <2>. HIDE DEF A
  <2>3. Cardinality(A \cup {n}) = Cardinality(A) + 1 /\ Cardinality(A) \in Nat
    BY <2>2, FS_AddElement, FS_CardinalityType
  <2>4. Rank(T, Above, j) = Cardinality(A \cup {n}) /\ Rank(S, Above, j) = Cardinality(A)
    BY <1>3, <1>4, <2>1 DEF A
  <2>. QED  BY <2>3, <2>4
<1>. QED  BY <1>2, <1>6, <1>7

(* The states an actor has up to one of them.                               *)
LEMMA UpToType ==
  ASSUME TypeInv, NEW i \in DOMAIN states
  PROVE  /\ UpTo(i) \in SUBSET Nat /\ IsFiniteSet(UpTo(i))
         /\ UpTo(i) \subseteq DOMAIN states
<1>1. StatesOf(states[i].actor) \in SUBSET Nat /\ IsFiniteSet(StatesOf(states[i].actor))
  BY LatestIsLast
<1>2. UpTo(i) \subseteq StatesOf(states[i].actor)
  BY DEF UpTo
<1>3. IsFiniteSet(UpTo(i))
  BY <1>1, <1>2, FS_Subset
<1>4. StatesOf(states[i].actor) \subseteq DOMAIN states
  BY DEF StatesOf
<1>. QED  BY <1>1, <1>2, <1>3, <1>4

(* The counting in StaleCountIsAge finds the states the ranks speak of.     *)
LEMMA AgeInvIsProperty ==
  ASSUME TypeInv, AgeInv
  PROVE  StaleCountIsAge
<1>. DEFINE Nth(i, n) == CHOOSE j \in UpTo(i) : Cardinality({k \in UpTo(i) : k > j}) = n
<1>1. ASSUME NEW i \in DOMAIN states, NEW l \in Focus(states[i])
      PROVE  /\ states[i].stale[l] < Cardinality(UpTo(i))
             /\ l \in FreshLabels(states[Nth(i, states[i].stale[l])].signals)
             /\ \A n \in 0..(states[i].stale[l] - 1) :
                  l \notin FreshLabels(states[Nth(i, n)].signals)
             /\ states[i].weight[l] = ResetWeight - states[i].stale[l] * DecayStep
             /\ states[i].weight[l] > 0
             /\ states[i].stale[l] = 0 \/ states[i].stale[l] <= states[i].horizon
  <2>1. Aged(states, states[i], l, UpTo(i))
    BY DEF AgeInv
  <2>2. states[i].stale[l] \in Nat
    BY StateParts DEF Focus
  <2>3. UpTo(i) \in SUBSET Nat /\ IsFiniteSet(UpTo(i)) /\ Cardinality(UpTo(i)) \in Nat
    BY UpToType, FS_CardinalityType
  <2>4. ASSUME NEW n \in 0..(Cardinality(UpTo(i)) - 1)
        PROVE  Nth(i, n) \in UpTo(i) /\ Rank(UpTo(i), Above, Nth(i, n)) = n
    <3>1. PICK j \in UpTo(i) : Rank(UpTo(i), Above, j) = n
      BY <2>3, SomeRank
    <3>2. \A k \in UpTo(i) : Rank(UpTo(i), Above, k) = Cardinality({m \in UpTo(i) : m > k})
      BY <2>3, AboveIsTotal
    <3>3. \E k \in UpTo(i) : Cardinality({m \in UpTo(i) : m > k}) = n
      BY <3>1, <3>2
    <3>4. Nth(i, n) \in UpTo(i) /\ Cardinality({m \in UpTo(i) : m > Nth(i, n)}) = n
      BY <3>3
    <3>. QED  BY <3>2, <3>4
  <2>5. /\ states[i].stale[l] \in 0..(Cardinality(UpTo(i)) - 1)
        /\ \A n \in 0..(states[i].stale[l] - 1) : n \in 0..(Cardinality(UpTo(i)) - 1) /\ n < states[i].stale[l]
    BY <2>1, <2>2, <2>3 DEF Aged
  <2>. HIDE DEF Nth
  <2>6. l \in FreshLabels(states[Nth(i, states[i].stale[l])].signals)
    BY <2>1, <2>4, <2>5 DEF Aged
  <2>7. ASSUME NEW n \in 0..(states[i].stale[l] - 1)
        PROVE  l \notin FreshLabels(states[Nth(i, n)].signals)
    BY <2>1, <2>4, <2>5 DEF Aged
  <2>. QED  BY <2>1, <2>6, <2>7 DEF Aged
<1>. QED  BY <1>1 DEF StaleCountIsAge, UpTo

(* What a new state knows of a label: seen now, or in its prior and aged.   *)
LEMMA NewStateAges ==
  ASSUME TypeInv, NEW id, NEW a, NEW d, NEW e \in Evidence, NEW h, NEW b,
         NEW l \in Focus(NewState(id, a, d, e, h, b))
  PROVE  \/ /\ l \in FreshLabels(e.signals)
            /\ NewState(id, a, d, e, h, b).stale[l] = 0
            /\ NewState(id, a, d, e, h, b).weight[l] = ResetWeight
         \/ /\ l \notin FreshLabels(e.signals)
            /\ Latest(a) \in DOMAIN states
            /\ l \in Focus(states[Latest(a)])
            /\ states[Latest(a)].actor = a
            /\ NewState(id, a, d, e, h, b).stale[l] = states[Latest(a)].stale[l] + 1
            /\ NewState(id, a, d, e, h, b).weight[l] = states[Latest(a)].weight[l] - DecayStep
            /\ states[Latest(a)].weight[l] > DecayStep
            /\ states[Latest(a)].stale[l] + 1 <= h
<1>. DEFINE s == NewState(id, a, d, e, h, b)
            F == NewFocus(a, e, h)
            fresh == FreshLabels(e.signals)
<1>1. s.weight = [m \in F |-> NewWeights(a, e, h)[m]] /\ s.stale = [m \in F |-> NewAges(a, e, h)[m]]
  BY NewStateFocus
<1>. HIDE DEF s, F
<1>2. l \in F
  BY <1>1 DEF Focus, s
<1>3. s.stale[l] = NewAges(a, e, h)[l] /\ s.weight[l] = NewWeights(a, e, h)[l]
  BY <1>1, <1>2
<1>4. l \in fresh \cup Carried(Prior(a), fresh, h)
  BY <1>2, NewAgesType DEF F, NewAges, StaleCount
<1>5. CASE l \in fresh
  BY <1>3, <1>5, FreshIsNew DEF s
<1>6. CASE l \notin fresh
  <2>1. l \in DOMAIN Prior(a).stale
    BY <1>4, <1>6 DEF Carried
  <2>2. Latest(a) # 0
    BY <2>1 DEF Prior, NoPrior
  <2>3. Prior(a) = states[Latest(a)]
    BY <2>2 DEF Prior
  <2>4. Latest(a) \in StatesOf(a)
    BY <2>2, LatestIsLast
  <2>5. Latest(a) \in DOMAIN states /\ states[Latest(a)].actor = a
    BY <2>4 DEF StatesOf
  <2>6. l \in Focus(states[Latest(a)])
    BY <2>1, <2>3, <2>5, StateParts DEF Focus
  <2>7. NewAges(a, e, h)[l] = Prior(a).stale[l] + 1 /\ NewWeights(a, e, h)[l] = Prior(a).weight[l] - DecayStep
    BY <1>4, <1>6 DEF NewAges, NewWeights, StaleCount, Weight
  <2>8. Prior(a).weight[l] > DecayStep /\ Prior(a).stale[l] + 1 <= h
    BY <1>4, <1>6 DEF Carried
  <2>. QED  BY <1>3, <1>6, <2>3, <2>5, <2>6, <2>7, <2>8 DEF s
<1>. QED  BY <1>5, <1>6

(* Decay: with the next state of its actor a label is observed again or one *)
(* state older.                                                             *)
LEMMA NewStateAged ==
  ASSUME TypeInv, AgeInv, NEW id, NEW a, NEW d, NEW e \in Evidence, NEW h, NEW b,
         NEW l \in Focus(NewState(id, a, d, e, h, b)),
         NEW n \in Nat, n = Len(states) + 1,
         NEW book, book[n] = NewState(id, a, d, e, h, b),
         \A i \in DOMAIN states : book[i] = states[i]
  PROVE  Aged(book, NewState(id, a, d, e, h, b), l, StatesOf(a) \cup {n})
<1>. DEFINE s == NewState(id, a, d, e, h, b)
            S == StatesOf(a)
            T == S \cup {n}
<1>1. S \in SUBSET Nat /\ IsFiniteSet(S) /\ S \subseteq DOMAIN states
  BY LatestIsLast DEF StatesOf
<1>2. \A j \in S : j < n /\ book[j] = states[j]
  BY <1>1 DEF TypeInv
<1>a. S \in SUBSET Nat
  BY <1>1
<1>b. book[n].signals = e.signals
  BY NewStateFields
<1>c. s.horizon = h
  BY NewStateFields
<1>. HIDE DEF S, s
<1>3. /\ Cardinality(T) = Cardinality(S) + 1 /\ Cardinality(S) \in Nat
      /\ Rank(T, Above, n) = 0
      /\ \A j \in S : Rank(T, Above, j) = Rank(S, Above, j) + 1
      /\ \A j \in S : Rank(S, Above, j) \in Nat
  BY <1>1, <1>2, <1>a, RanksShift
<1>4. CASE /\ l \in FreshLabels(e.signals)
           /\ s.stale[l] = 0
           /\ s.weight[l] = ResetWeight
  <2>1. s.stale[l] < Cardinality(T)
    BY <1>3, <1>4
  <2>2. /\ s.weight[l] = ResetWeight - s.stale[l] * DecayStep
        /\ s.weight[l] > 0 /\ s.stale[l] = 0
    BY <1>4 DEF ResetWeight, DecayStep
  <2>3. ASSUME NEW j \in S PROVE Rank(T, Above, j) \in Nat /\ Rank(T, Above, j) > 0
    <3>1. \A r \in Nat : r + 1 \in Nat /\ r + 1 > 0
      OBVIOUS
    <3>. QED  BY <1>3, <3>1
  <2>4. ASSUME NEW j \in T
        PROVE  /\ Rank(T, Above, j) = s.stale[l] => l \in FreshLabels(book[j].signals)
               /\ Rank(T, Above, j) < s.stale[l] => l \notin FreshLabels(book[j].signals)
    <3>1. CASE j = n
      <4>1. l \in FreshLabels(book[j].signals)
        BY <1>4, <1>b, <3>1
      <4>2. ~(Rank(T, Above, j) < s.stale[l])
        BY <1>3, <1>4, <3>1
      <4>. QED  BY <4>1, <4>2
    <3>2. CASE j \in S
      <4>1. Rank(T, Above, j) \in Nat /\ Rank(T, Above, j) > 0
        BY <2>3, <3>2
      <4>2. Rank(T, Above, j) # s.stale[l] /\ ~(Rank(T, Above, j) < s.stale[l])
        BY <1>4, <4>1
      <4>. QED  BY <4>2
    <3>. QED  BY <3>1, <3>2
  <2>. QED  BY <2>1, <2>2, <2>4 DEF Aged, s, S
<1>5. CASE /\ l \notin FreshLabels(e.signals)
           /\ Latest(a) \in DOMAIN states
           /\ l \in Focus(states[Latest(a)])
           /\ states[Latest(a)].actor = a
           /\ s.stale[l] = states[Latest(a)].stale[l] + 1
           /\ s.weight[l] = states[Latest(a)].weight[l] - DecayStep
           /\ states[Latest(a)].weight[l] > DecayStep
           /\ states[Latest(a)].stale[l] + 1 <= h
  <2>. DEFINE p == Latest(a)
              age == states[p].stale[l]
  <2>1. UpTo(p) = S
    <3>1. \A j \in S : j <= p
      BY LatestIsLast DEF S
    <3>. QED  BY <1>5, <3>1 DEF UpTo, S
  <2>2. age \in Nat
    BY <1>5, StateParts DEF Focus
  <2>3. Aged(states, states[p], l, S)
    BY <1>5, <2>1 DEF AgeInv
  <2>. HIDE DEF p
  <2>4. s.stale[l] = age + 1 /\ s.weight[l] = states[p].weight[l] - DecayStep
    BY <1>5 DEF p
  <2>5. age < Cardinality(S) /\ states[p].weight[l] = ResetWeight - age * DecayStep
    BY <2>3 DEF Aged
  <2>. HIDE DEF age
  <2>6. s.stale[l] < Cardinality(T)
    BY <1>3, <2>2, <2>4, <2>5
  <2>7. /\ s.weight[l] = ResetWeight - s.stale[l] * DecayStep
        /\ s.weight[l] > 0 /\ s.stale[l] <= s.horizon
    <3>1. states[p].weight[l] > DecayStep /\ age + 1 <= h
      BY <1>5 DEF p, age
    <3>. QED  BY <1>c, <2>2, <2>4, <2>5, <3>1 DEF ResetWeight, DecayStep
  <2>8. ASSUME NEW j \in T
        PROVE  /\ Rank(T, Above, j) = s.stale[l] => l \in FreshLabels(book[j].signals)
               /\ Rank(T, Above, j) < s.stale[l] => l \notin FreshLabels(book[j].signals)
    <3>1. CASE j = n
      <4>1. l \notin FreshLabels(book[j].signals)
        BY <1>5, <1>b, <3>1
      <4>2. Rank(T, Above, j) # s.stale[l]
        BY <1>3, <2>2, <2>4, <3>1
      <4>. QED  BY <4>1, <4>2
    <3>2. CASE j \in S
      <4>1. /\ Rank(S, Above, j) = age => l \in FreshLabels(book[j].signals)
            /\ Rank(S, Above, j) < age => l \notin FreshLabels(book[j].signals)
        BY <1>2, <2>3, <3>2 DEF Aged, age
      <4>2. Rank(T, Above, j) = s.stale[l] => Rank(S, Above, j) = age
        BY <1>3, <2>2, <2>4, <3>2
      <4>3. Rank(T, Above, j) < s.stale[l] => Rank(S, Above, j) < age
        BY <1>3, <2>2, <2>4, <3>2
      <4>. QED  BY <4>1, <4>2, <4>3
    <3>. QED  BY <3>1, <3>2
  <2>. QED  BY <2>6, <2>7, <2>8 DEF Aged, s, S
<1>. QED  BY <1>4, <1>5, NewStateAges DEF s

(* A label's stale count and weight are what its last observation makes     *)
(* them, over all the actor's states since.                                 *)
THEOREM StaleCountIsAgeTheorem == Spec => []StaleCountIsAge
<1>1. Init => AgeInv
  BY DEF Init, AgeInv
<1>2. ASSUME TypeInv, AgeInv, [Next]_vars PROVE AgeInv'
  <2>1. CASE UNCHANGED states
    BY <1>2, <2>1 DEF AgeInv, UpTo, StatesOf
  <2>2. CASE OneMoreState
    <3>0. PICK id \in Ids, a \in Actors, d \in Dates, e \in Evidence, h \in Horizons, b \in Budgets :
            states' = Append(states, NewState(id, a, d, e, h, b))
      BY <2>2 DEF OneMoreState
    <3>n. PICK n \in Nat : n = Len(states) + 1
      BY <1>2 DEF TypeInv
    <3>1. /\ Len(states) \in Nat /\ DOMAIN states = 1..Len(states)
          /\ DOMAIN states' = DOMAIN states \cup {n}
          /\ \A i \in DOMAIN states : states'[i] = states[i] /\ i < n
          /\ states'[n] = NewState(id, a, d, e, h, b)
          /\ \A c : StatesOf(c)' = IF c = a THEN StatesOf(c) \cup {n} ELSE StatesOf(c)
      BY <1>2, <3>0, <3>n, StateAdded
    <3>2. ASSUME NEW i \in DOMAIN states, NEW l \in Focus(states[i])
          PROVE  Aged(states', states[i], l, UpTo(i)')
      <4>1. states'[i] = states[i] /\ i < n /\ i \in Nat
        BY <3>1
      <4>2. UpTo(i)' = {j \in StatesOf(states[i].actor)' : j <= i}
        BY <4>1 DEF UpTo
      <4>3. ~(n <= i)
        BY <4>1
      <4>4. UpTo(i)' = UpTo(i)
        BY <3>1, <4>2, <4>3 DEF UpTo
      <4>5. Aged(states, states[i], l, UpTo(i))
        BY <1>2 DEF AgeInv
      <4>6. \A j \in UpTo(i) : states'[j] = states[j]
        BY <1>2, <3>1, UpToType
      <4>. QED  BY <4>4, <4>5, <4>6 DEF Aged
    <3>3. ASSUME NEW l \in Focus(NewState(id, a, d, e, h, b))
          PROVE  Aged(states', NewState(id, a, d, e, h, b), l, UpTo(n)')
      <4>1. states'[n].actor = a
        BY <3>1, NewStateFields
      <4>2. UpTo(n)' = {j \in StatesOf(a)' : j <= n}
        BY <4>1 DEF UpTo
      <4>3. \A j \in StatesOf(a) : j <= n
        BY <3>1 DEF StatesOf
      <4>4. UpTo(n)' = StatesOf(a) \cup {n}
        BY <3>1, <4>2, <4>3
      <4>5. Aged(states', NewState(id, a, d, e, h, b), l, StatesOf(a) \cup {n})
        BY <1>2, <3>1, <3>n, NewStateAged
      <4>. QED  BY <4>4, <4>5
    <3>4. ASSUME NEW i \in DOMAIN states', NEW l \in Focus(states'[i])
          PROVE  Aged(states', states'[i], l, UpTo(i)')
      BY <3>1, <3>2, <3>3
    <3>. QED  BY <3>4 DEF AgeInv
  <2>. QED  BY <1>2, <2>1, <2>2, StatesStep
<1>. QED  BY <1>1, <1>2, AgeInvIsProperty, AttentionTyping, PTL DEF Spec

-----------------------------------------------------------------------------
(***************************************************************************)
(* What a selection holds.                                                 *)
(***************************************************************************)

(* A list that took what was offered while there was room. *)
Grown(picked, offered, room, out) ==
  /\ out \in Seq(Refs) /\ IsInjective(out)
  /\ Len(out) \in Len(picked)..room
  /\ \A n \in 1..Len(picked) : out[n] = picked[n]
  /\ \A n \in (Len(picked) + 1)..Len(out) : out[n] \in offered
  /\ Len(out) = room \/ offered \subseteq ToSet(out)

(* Taking one ref more. *)
LEMMA TakeGrows ==
  ASSUME NEW picked \in Seq(Refs), NEW offered, NEW room \in Nat, NEW out,
         Grown(picked, offered, room, out), NEW r \in Refs
  PROVE  Grown(picked, offered \cup {r}, room, Take(out, r, room))
<1>. DEFINE t == Take(out, r, room)
<1>. SUFFICES Grown(picked, offered \cup {r}, room, t)
  OBVIOUS
<1>1. out \in Seq(Refs) /\ DOMAIN out = 1..Len(out) /\ IsInjective(out)
  BY DEF Grown
<1>2. Len(out) \in Nat /\ Len(picked) \in Nat /\ Len(picked) <= Len(out) /\ Len(out) <= room
  BY DEF Grown
<1>3. /\ \A n \in 1..Len(picked) : out[n] = picked[n]
      /\ \A n \in (Len(picked) + 1)..Len(out) : out[n] \in offered
  BY DEF Grown
<1>4. Len(out) = room \/ offered \subseteq ToSet(out)
  BY DEF Grown
<1>5. CASE r \in ToSet(out)
  <2>1. t = out
    BY <1>5 DEF Take
  <2>2. Len(out) = room \/ offered \cup {r} \subseteq ToSet(out)
    BY <1>4, <1>5
  <2>. QED  BY <1>1, <1>2, <1>3, <2>1, <2>2 DEF Grown
<1>6. CASE Len(out) >= room
  <2>1. t = out
    BY <1>6 DEF Take
  <2>2. Len(out) = room
    BY <1>2, <1>6
  <2>. QED  BY <1>1, <1>2, <1>3, <2>1, <2>2 DEF Grown
<1>7. CASE r \notin ToSet(out) /\ ~(Len(out) >= room)
  <2>1. t = Append(out, r)
    BY <1>7 DEF Take
  <2>. HIDE DEF t
  <2>2. /\ t \in Seq(Refs) /\ Len(t) = Len(out) + 1 /\ DOMAIN t = 1..(Len(out) + 1)
        /\ \A n \in 1..Len(out) : t[n] = out[n]
        /\ t[Len(out) + 1] = r
    BY <1>1, <2>1, AppendProperties
  <2>3. Len(t) \in Len(picked)..room
    BY <1>2, <1>7, <2>2
  <2>4. \A n \in 1..Len(picked) : t[n] = picked[n]
    BY <1>2, <1>3, <2>2
  <2>5. ASSUME NEW n \in (Len(picked) + 1)..Len(t) PROVE t[n] \in offered \cup {r}
    <3>1. CASE n = Len(out) + 1
      BY <2>2, <3>1
    <3>2. CASE n # Len(out) + 1
      <4>1. n \in 1..Len(out) /\ n \in (Len(picked) + 1)..Len(out)
        BY <1>2, <2>2, <3>2
      <4>. QED  BY <1>3, <2>2, <4>1
    <3>. QED  BY <3>1, <3>2
  <2>6. \A n \in 1..Len(out) : out[n] # r
    BY <1>1, <1>7 DEF ToSet
  <2>7. IsInjective(t)
    <3>1. \A m, n \in 1..Len(out) : out[m] = out[n] => m = n
      BY <1>1 DEF IsInjective
    <3>2. \A n \in DOMAIN t : n \in 1..Len(out) \/ n = Len(out) + 1
      BY <1>2, <2>2
    <3>. QED  BY <2>2, <2>6, <3>1, <3>2 DEF IsInjective
  <2>8. offered \cup {r} \subseteq ToSet(t)
    <3>1. \A n \in 1..Len(out) : n \in DOMAIN t
      BY <1>2, <2>2
    <3>2. Len(out) + 1 \in DOMAIN t
      BY <1>2, <2>2
    <3>3. ToSet(out) \subseteq ToSet(t) /\ r \in ToSet(t)
      BY <1>1, <2>2, <3>1, <3>2 DEF ToSet
    <3>4. Len(out) # room
      BY <1>2, <1>7
    <3>. QED  BY <1>4, <3>3, <3>4
  <2>. QED  BY <2>2, <2>3, <2>4, <2>5, <2>7, <2>8 DEF Grown
<1>. QED  BY <1>5, <1>6, <1>7

(* The refs are taken one after the other. *)
TakenBy(refs, picked, room, taken) ==
  taken[0] = picked /\ \A n \in 1..Len(refs) : taken[n] = Take(taken[n - 1], refs[n], room)

RefLists == Seq(Refs)

(* Taking refs one after the other passes through a list after each of them. *)
LEMMA TakeFromIs ==
  ASSUME NEW refs, Len(refs) \in Nat, \A n \in 1..Len(refs) : refs[n] \in Refs,
         NEW picked \in RefLists, NEW room
  PROVE  \E taken : TakenBy(refs, picked, room, taken) /\ TakeFrom(refs, picked, room) = taken[Len(refs)]
<1>. DEFINE N == Len(refs)
            g == [n \in 1..N |-> [out \in RefLists |-> Take(out, refs[n], room)]]
<1>1. N \in Nat /\ \A n \in 1..N : refs[n] \in Refs
  OBVIOUS
<1>2. g \in [1..N -> [RefLists -> RefLists]]
  <2>1. ASSUME NEW n \in 1..N, NEW out \in RefLists PROVE Take(out, refs[n], room) \in RefLists
    BY <1>1, AppendProperties DEF Take, RefLists
  <2>. QED  BY <2>1
<1>3. PICK h \in [0..N -> RefLists] : h[0] = picked /\ \A n \in 1..N : h[n] = g[n][h[n - 1]]
  <2>. HIDE DEF g, N
  <2>1. Walks(RefLists, picked, N, g)
    BY <1>1, <1>2, WalkExists
  <2>. QED  BY <2>1 DEF Walks
<1>4. \A n \in 1..N : h[n] = Take(h[n - 1], refs[n], room)
  <2>1. \A n \in 1..N : n - 1 \in 0..N
    BY <1>1
  <2>. QED  BY <1>3, <2>1
<1>. DEFINE Level(taken) ==
              taken = [n \in 0..N |-> IF n = 0 THEN picked ELSE Take(taken[n - 1], refs[n], room)]
            f == CHOOSE taken : Level(taken)
<1>5. Level(h)
  <2>1. \A n \in 0..N : n = 0 \/ n \in 1..N
    BY <1>1
  <2>2. \A n \in 0..N : h[n] = IF n = 0 THEN picked ELSE Take(h[n - 1], refs[n], room)
    BY <1>3, <1>4, <2>1
  <2>. QED  BY <1>3, <2>2
<1>6. Level(f)
  BY <1>5
<1>7. TakeFrom(refs, picked, room) = f[N]
  BY DEF TakeFrom
<1>8. TakenBy(refs, picked, room, f)
  <2>1. \A n \in 0..N : f[n] = IF n = 0 THEN picked ELSE Take(f[n - 1], refs[n], room)
    <3>. HIDE DEF f
    <3>. QED  BY <1>6
  <2>2. 0 \in 0..N /\ \A n \in 1..N : n \in 0..N /\ n # 0
    BY <1>1
  <2>. HIDE DEF f
  <2>. QED  BY <2>1, <2>2 DEF TakenBy
<1>. QED  BY <1>7, <1>8

(* One label's turn. *)
LEMMA TakeFromGrows ==
  ASSUME NEW refs \in Seq(Refs), NEW picked \in Seq(Refs), NEW room \in Nat,
         IsInjective(picked), Len(picked) <= room
  PROVE  Grown(picked, ToSet(refs), room, TakeFrom(refs, picked, room))
<1>1. PICK taken : /\ TakenBy(refs, picked, room, taken)
                   /\ TakeFrom(refs, picked, room) = taken[Len(refs)]
  BY TakeFromIs DEF RefLists
<1>. DEFINE N == Len(refs)
            Upto(n) == {refs[k] : k \in 1..n}
            T == {n \in 0..N : Grown(picked, Upto(n), room, taken[n])}
<1>2. N \in Nat /\ \A n \in 1..N : refs[n] \in Refs
  OBVIOUS
<1>3. 0 \in T
  <2>1. Upto(0) = {} /\ 0 \in 0..N
    BY <1>2
  <2>2. Grown(picked, {}, room, picked)
    BY DEF Grown
  <2>. QED  BY <1>1, <2>1, <2>2 DEF TakenBy
<1>4. ASSUME NEW n \in 1..N, n - 1 \in T PROVE n \in T
  <2>1. n \in 0..N /\ taken[n] = Take(taken[n - 1], refs[n], room)
    BY <1>1, <1>2 DEF TakenBy
  <2>2. Upto(n) = Upto(n - 1) \cup {refs[n]}
    <3>1. \A k : k \in 1..n <=> k \in 1..(n - 1) \/ k = n
      BY <1>2
    <3>. QED  BY <3>1
  <2>3. Grown(picked, Upto(n - 1), room, taken[n - 1])
    BY <1>4
  <2>4. Grown(picked, Upto(n - 1) \cup {refs[n]}, room, Take(taken[n - 1], refs[n], room))
    <3>. HIDE DEF Upto
    <3>. QED  BY <1>2, <2>3, TakeGrows
  <2>. QED  BY <2>1, <2>2, <2>4
<1>5. N \in T
  <2>1. N \in 0..N
    BY <1>2
  <2>. HIDE DEF T, N
  <2>. QED  BY <1>2, <1>3, <1>4, <2>1, Climb
<1>6. Upto(N) = ToSet(refs)
  BY DEF ToSet
<1>. QED  BY <1>1, <1>5, <1>6

-----------------------------------------------------------------------------
(* The labels whose turn it is: each once, heaviest first.                  *)
WalkedAfter(s) == {p \in Drawing(s) \X Drawing(s) : WalkedBefore(s.weight, p[2], p[1])}

Priced(s) == \A l \in DOMAIN s.weight : l \in Labels /\ s.weight[l] \in Int

(* The order lists labels that draw, and no later one is heavier. *)
LEMMA WalkOrderIs ==
  ASSUME NEW s, Priced(s)
  PROVE  /\ Len(WalkOrder(s)) \in Nat /\ DOMAIN WalkOrder(s) = 1..Len(WalkOrder(s))
         /\ \A i \in DOMAIN WalkOrder(s) : WalkOrder(s)[i] \in Drawing(s)
         /\ \A i, j \in DOMAIN WalkOrder(s) :
              i < j => s.weight[WalkOrder(s)[i]] >= s.weight[WalkOrder(s)[j]]
<1>. DEFINE D == Drawing(s)
            R == WalkedAfter(s)
            N == Cardinality(D)
            order == WalkOrder(s)
<1>1. \A l \in D : /\ l \in Labels /\ s.weight[l] \in Int /\ Alphabetic(l) \in Int
                   /\ \A m \in D : Alphabetic(l) = Alphabetic(m) => l = m
  BY LabelsAlphabetic DEF Drawing, Priced
<1>2. IsFiniteSet(D)
  <2>1. D \subseteq Labels
    BY <1>1
  <2>. QED  BY <2>1, LabelsAlphabetic, FS_Subset
<1>3. \A l, m \in D : <<l, m>> \in R <=> WalkedBefore(s.weight, m, l)
  BY DEF WalkedAfter
<1>4. ASSUME NEW l \in D PROVE ~WalkedBefore(s.weight, l, l)
  BY <1>1 DEF WalkedBefore
<1>5. ASSUME NEW l \in D, NEW m \in D, NEW k \in D,
             WalkedBefore(s.weight, m, l), WalkedBefore(s.weight, k, m)
      PROVE  WalkedBefore(s.weight, k, l)
  BY <1>1, <1>5 DEF WalkedBefore
<1>6. ASSUME NEW l \in D, NEW m \in D, l # m
      PROVE  WalkedBefore(s.weight, l, m) \/ WalkedBefore(s.weight, m, l)
  BY <1>1, <1>6 DEF WalkedBefore
<1>7. TotalOrderOn(D, R)
  <2>. HIDE DEF D, R
  <2>. QED  BY <1>3, <1>4, <1>5, <1>6 DEF TotalOrderOn
<1>8. \A l \in D : Rank(D, R, l) = Cardinality({m \in D : WalkedBefore(s.weight, m, l)})
  <2>1. \A l \in D : {m \in D : <<l, m>> \in R} = {m \in D : WalkedBefore(s.weight, m, l)}
    BY <1>3
  <2>. QED  BY <2>1 DEF Rank
<1>9. N \in Nat
  BY <1>2, FS_CardinalityType
<1>10. order = [k \in 1..N |-> CHOOSE l \in D : Rank(D, R, l) = k - 1]
  <2>1. order = [k \in 1..N |->
                   CHOOSE l \in D : Cardinality({m \in D : WalkedBefore(s.weight, m, l)}) = k - 1]
    BY DEF WalkOrder
  <2>2. ASSUME NEW k
        PROVE  (CHOOSE l \in D : Cardinality({m \in D : WalkedBefore(s.weight, m, l)}) = k - 1)
                 = (CHOOSE l \in D : Rank(D, R, l) = k - 1)
    <3>. HIDE DEF D, R
    <3>. QED  BY <1>8
  <2>. QED  BY <2>1, <2>2
<1>. HIDE DEF D, R, N, order
<1>11. ASSUME NEW k \in 1..N PROVE order[k] \in D /\ Rank(D, R, order[k]) = k - 1
  <2>1. k - 1 \in 0..(N - 1)
    BY <1>9
  <2>2. \E l \in D : Rank(D, R, l) = k - 1
    BY <1>2, <1>7, <2>1, RanksNumber DEF N
  <2>3. order[k] = CHOOSE l \in D : Rank(D, R, l) = k - 1
    BY <1>10
  <2>. QED  BY <2>2, <2>3
<1>12. DOMAIN order = 1..N /\ Len(order) = N
  BY <1>9, <1>10
<1>13. ASSUME NEW i \in 1..N, NEW j \in 1..N, i < j
       PROVE  s.weight[order[i]] >= s.weight[order[j]]
  <2>1. /\ order[i] \in D /\ Rank(D, R, order[i]) = i - 1
        /\ order[j] \in D /\ Rank(D, R, order[j]) = j - 1
    BY <1>11
  <2>2. ~WalkedBefore(s.weight, order[j], order[i])
    <3>1. SUFFICES ASSUME <<order[i], order[j]>> \in R PROVE FALSE
      BY <1>3, <2>1
    <3>2. Rank(D, R, order[j]) < Rank(D, R, order[i])
      BY <1>2, <1>7, <2>1, <3>1, RanksDescend
    <3>. QED  BY <1>13, <2>1, <3>2
  <2>3. s.weight[order[i]] \in Int /\ s.weight[order[j]] \in Int
    BY <1>1, <2>1
  <2>. QED  BY <2>2, <2>3 DEF WalkedBefore
<1>. QED  BY <1>9, <1>11, <1>12, <1>13 DEF order, D

-----------------------------------------------------------------------------
(* The labels take their turns. *)
Walked(s, walked) ==
  /\ walked[0] = <<>>
  /\ \A n \in 1..Len(WalkOrder(s)) : walked[n] = Pick(s, walked[n - 1], WalkOrder(s)[n])

Offering(s) == \A l \in Drawing(s) : Candidates(s, l) \in Seq(Refs)
Counting(s) == s.budget \in Nat /\ s.maxRefs \in Nat

(* A label takes what its budget and the total leave room for. *)
LEMMA PickGrows ==
  ASSUME NEW s, Offering(s), Counting(s), NEW l \in Drawing(s),
         NEW picked \in Seq(Refs), IsInjective(picked), Len(picked) <= s.maxRefs
  PROVE  Grown(picked, ToSet(Candidates(s, l)), SmallerOf(Len(picked) + s.budget, s.maxRefs),
               Pick(s, picked, l))
<1>. DEFINE room == SmallerOf(Len(picked) + s.budget, s.maxRefs)
            refs == Candidates(s, l)
<1>1. room \in Nat /\ Len(picked) <= room
  BY DEF SmallerOf, Counting
<1>2. refs \in Seq(Refs)
  BY DEF Offering
<1>3. Pick(s, picked, l) = TakeFrom(refs, picked, room)
  BY DEF Pick
<1>. HIDE DEF room, refs
<1>4. Grown(picked, ToSet(refs), room, TakeFrom(refs, picked, room))
  BY <1>1, <1>2, TakeFromGrows
<1>. QED  BY <1>3, <1>4 DEF room, refs

(* The selection is what the last label's turn leaves. *)
LEMMA BudgetIs ==
  ASSUME NEW s, Priced(s), Offering(s), Counting(s)
  PROVE  \E walked : /\ Walked(s, walked)
                     /\ ApplyAttentionBudget(s) = walked[Len(WalkOrder(s))]
<1>. DEFINE order == WalkOrder(s)
            N == Len(order)
            X == {out \in RefLists : IsInjective(out) /\ Len(out) <= s.maxRefs}
            g == [n \in 1..N |-> [out \in X |-> Pick(s, out, order[n])]]
            start == <<>>
<1>1. N \in Nat /\ \A n \in 1..N : order[n] \in Drawing(s)
  BY WalkOrderIs
<1>2. g \in [1..N -> [X -> X]]
  <2>1. ASSUME NEW n \in 1..N, NEW out \in X PROVE Pick(s, out, order[n]) \in X
    <3>1. Grown(out, ToSet(Candidates(s, order[n])), SmallerOf(Len(out) + s.budget, s.maxRefs),
                Pick(s, out, order[n]))
      BY <1>1, <2>1, PickGrows DEF RefLists
    <3>2. /\ Pick(s, out, order[n]) \in Seq(Refs) /\ IsInjective(Pick(s, out, order[n]))
          /\ Len(Pick(s, out, order[n])) <= SmallerOf(Len(out) + s.budget, s.maxRefs)
      BY <2>1, <3>1 DEF Grown, RefLists, Counting, SmallerOf
    <3>3. SmallerOf(Len(out) + s.budget, s.maxRefs) <= s.maxRefs
      BY <2>1 DEF SmallerOf, Counting, RefLists
    <3>. QED  BY <2>1, <3>2, <3>3 DEF RefLists, SmallerOf, Counting
  <2>. HIDE DEF X
  <2>. QED  BY <2>1
<1>3. start \in X
  BY DEF RefLists, IsInjective, Counting
<1>4. PICK h \in [0..N -> X] : h[0] = start /\ \A n \in 1..N : h[n] = g[n][h[n - 1]]
  <2>. HIDE DEF g, N, X, start
  <2>1. Walks(X, start, N, g)
    BY <1>1, <1>2, <1>3, WalkExists
  <2>. QED  BY <2>1 DEF Walks
<1>5. \A n \in 1..N : h[n] = Pick(s, h[n - 1], order[n])
  <2>1. \A n \in 1..N : n - 1 \in 0..N
    BY <1>1
  <2>. HIDE DEF X, N, order
  <2>. QED  BY <1>4, <2>1
<1>. DEFINE Level(walked) ==
              walked = [n \in 0..N |-> IF n = 0 THEN <<>> ELSE Pick(s, walked[n - 1], order[n])]
            f == CHOOSE walked : Level(walked)
<1>6. Level(h)
  <2>1. \A n \in 0..N : n = 0 \/ n \in 1..N
    BY <1>1
  <2>2. \A n \in 0..N : h[n] = IF n = 0 THEN <<>> ELSE Pick(s, h[n - 1], order[n])
    BY <1>4, <1>5, <2>1
  <2>. HIDE DEF N, order, X
  <2>. QED  BY <1>4, <2>2
<1>7. Level(f)
  <2>. HIDE DEF Level
  <2>. QED  BY <1>6
<1>8. ApplyAttentionBudget(s) = f[N]
  BY DEF ApplyAttentionBudget
<1>9. Walked(s, f)
  <2>. HIDE DEF f
  <2>1. \A n \in 0..N : f[n] = IF n = 0 THEN <<>> ELSE Pick(s, f[n - 1], order[n])
    <3>. HIDE DEF N, order
    <3>. QED  BY <1>7
  <2>2. 0 \in 0..N /\ \A n \in 1..N : n \in 0..N /\ n # 0
    BY <1>1
  <2>. QED  BY <2>1, <2>2 DEF Walked
<1>. QED  BY <1>8, <1>9

-----------------------------------------------------------------------------
(* A stretch of a list. *)
Stretch(t, j, k) == ToSet(SubSeq(t, j + 1, k))

LEMMA StretchIs ==
  ASSUME NEW S, NEW t \in Seq(S), NEW j \in Nat, NEW k \in Nat, j <= k, k <= Len(t)
  PROVE  Stretch(t, j, k) = {t[p] : p \in (j + 1)..k}
<1>. DEFINE u == SubSeq(t, j + 1, k)
<1>1. DOMAIN u = 1..(k - j) /\ \A p \in 1..(k - j) : u[p] = t[j + p]
  OBVIOUS
<1>. HIDE DEF u
<1>2. ASSUME NEW x \in ToSet(u) PROVE x \in {t[p] : p \in (j + 1)..k}
  <2>1. PICK q \in 1..(k - j) : x = u[q]
    BY <1>1 DEF ToSet
  <2>2. j + q \in (j + 1)..k
    OBVIOUS
  <2>. QED  BY <1>1, <2>1, <2>2
<1>3. ASSUME NEW p \in (j + 1)..k PROVE t[p] \in ToSet(u)
  <2>1. p - j \in 1..(k - j) /\ j + (p - j) = p
    OBVIOUS
  <2>2. u[p - j] = t[p]
    BY <1>1, <2>1
  <2>. QED  BY <1>1, <2>1, <2>2 DEF ToSet
<1>. QED  BY <1>2, <1>3 DEF u, Stretch

(* What room there is for a turn that starts with a refs and ends with b. *)
WithinRoom(a, b, budget, cap) ==
  /\ b - a \in 0..budget
  /\ b = SmallerOf(a + budget, cap) => b - a = budget \/ b = cap

LEMMA RoomIs ==
  ASSUME NEW a \in Nat, NEW b \in Nat, NEW budget \in Nat, NEW cap \in Nat,
         a <= b, b <= SmallerOf(a + budget, cap)
  PROVE  WithinRoom(a, b, budget, cap)
BY DEF SmallerOf, WithinRoom

(* What SelectionsSpendByPriority says of what a state's budget is spent on. *)
WellSpent(s, refs) ==
  LET order == WalkOrder(s)
      Offered(i) == ToSet(Candidates(s, order[i]))
      Between(j, k) == Stretch(refs, j, k)
  IN /\ IsInjective(refs)
     /\ Len(refs) <= s.maxRefs
     /\ \A i, j \in DOMAIN order : i < j => s.weight[order[i]] >= s.weight[order[j]]
     /\ \E cut \in [0..Len(order) -> 0..Len(refs)] :
          /\ cut[0] = 0 /\ cut[Len(order)] = Len(refs)
          /\ \A i \in DOMAIN order :
               /\ cut[i] - cut[i - 1] \in 0..s.budget
               /\ Between(cut[i - 1], cut[i]) \subseteq Offered(i)
               /\ \/ cut[i] - cut[i - 1] = s.budget
                  \/ cut[i] = s.maxRefs
                  \/ Offered(i) \subseteq Between(0, cut[i])

Held(s, out) == out \in Seq(Refs) /\ IsInjective(out) /\ Len(out) <= s.maxRefs

(* Each turn adds to what was picked before. *)
LEMMA TurnsGrow ==
  ASSUME NEW s, Priced(s), Offering(s), Counting(s), NEW walked, Walked(s, walked)
  PROVE  /\ \A n \in 0..Len(WalkOrder(s)) : Held(s, walked[n])
         /\ \A n \in 1..Len(WalkOrder(s)) :
              Grown(walked[n - 1], ToSet(Candidates(s, WalkOrder(s)[n])),
                    SmallerOf(Len(walked[n - 1]) + s.budget, s.maxRefs), walked[n])
<1>. DEFINE order == WalkOrder(s)
            N == Len(order)
            T == {n \in 0..N : Held(s, walked[n])}
            Turn(n) == Grown(walked[n - 1], ToSet(Candidates(s, order[n])),
                             SmallerOf(Len(walked[n - 1]) + s.budget, s.maxRefs), walked[n])
<1>1. N \in Nat /\ \A n \in 1..N : order[n] \in Drawing(s)
  BY WalkOrderIs
<1>2. \A n \in 1..N : walked[n] = Pick(s, walked[n - 1], order[n])
  BY DEF Walked
<1>. HIDE DEF order, N
<1>3. ASSUME NEW n \in 1..N, Held(s, walked[n - 1]) PROVE Turn(n)
  BY <1>1, <1>2, <1>3, PickGrows DEF Held
<1>4. ASSUME NEW n \in 1..N, Held(s, walked[n - 1]), Turn(n) PROVE Held(s, walked[n])
  <2>1. /\ walked[n] \in Seq(Refs) /\ IsInjective(walked[n])
        /\ Len(walked[n]) \in Len(walked[n - 1])..SmallerOf(Len(walked[n - 1]) + s.budget, s.maxRefs)
    BY <1>4 DEF Grown
  <2>2. Len(walked[n - 1]) \in Nat
    BY <1>4 DEF Held
  <2>. QED  BY <2>1, <2>2 DEF Held, SmallerOf, Counting
<1>5. 0 \in T
  <2>1. walked[0] = <<>> /\ 0 \in 0..N
    BY <1>1 DEF Walked
  <2>2. <<>> \in Seq(Refs) /\ Len(<<>>) = 0 /\ DOMAIN <<>> = {}
    OBVIOUS
  <2>3. s.maxRefs \in Nat
    BY DEF Counting
  <2>4. IsInjective(<<>>)
    BY <2>2 DEF IsInjective
  <2>5. Held(s, <<>>)
    BY <2>2, <2>3, <2>4 DEF Held
  <2>. QED  BY <2>1, <2>5
<1>6. \A n \in 1..N : n - 1 \in T => n \in T
  <2>1. \A n \in 1..N : n \in 0..N
    BY <1>1
  <2>. HIDE DEF Turn
  <2>. QED  BY <1>3, <1>4, <2>1
<1>7. \A n \in 0..N : n \in T
  <2>. HIDE DEF T
  <2>. QED  BY <1>1, <1>5, <1>6, Climb
<1>8. \A n \in 1..N : Turn(n)
  <2>1. \A n \in 1..N : n - 1 \in 0..N
    BY <1>1
  <2>. HIDE DEF Turn
  <2>. QED  BY <1>3, <1>7, <2>1
<1>. QED  BY <1>7, <1>8 DEF order, N

(* What was picked stays where it is. *)
Starts(out, later) == Len(out) <= Len(later) /\ \A p \in 1..Len(out) : later[p] = out[p]

LEMMA StartsStay ==
  ASSUME NEW N \in Nat, NEW walked, \A n \in 0..N : Len(walked[n]) \in Nat,
         \A n \in 1..N : Starts(walked[n - 1], walked[n])
  PROVE  \A n \in 0..N : \A k \in 0..n : Starts(walked[k], walked[n])
<1>. DEFINE T == {n \in 0..N : \A k \in 0..n : Starts(walked[k], walked[n])}
<1>1. 0 \in T
  <2>1. 0 \in 0..N /\ \A k \in 0..0 : k = 0
    OBVIOUS
  <2>. QED  BY <2>1 DEF Starts
<1>2. ASSUME NEW n \in 1..N, n - 1 \in T PROVE n \in T
  <2>1. n \in 0..N /\ n - 1 \in 0..N
    OBVIOUS
  <2>2. ASSUME NEW k \in 0..n PROVE Starts(walked[k], walked[n])
    <3>1. CASE k = n
      BY <2>1, <3>1 DEF Starts
    <3>2. CASE k # n
      <4>1. k \in 0..(n - 1) /\ k \in 0..N
        BY <3>2
      <4>2. Starts(walked[k], walked[n - 1]) /\ Starts(walked[n - 1], walked[n])
        BY <1>2, <4>1
      <4>3. Len(walked[k]) \in Nat /\ Len(walked[n - 1]) \in Nat /\ Len(walked[n]) \in Nat
        BY <2>1, <4>1
      <4>4. \A p \in 1..Len(walked[k]) : p \in 1..Len(walked[n - 1])
        BY <4>2, <4>3 DEF Starts
      <4>. QED  BY <4>2, <4>3, <4>4 DEF Starts
    <3>. QED  BY <3>1, <3>2
  <2>. QED  BY <2>1, <2>2
<1>. HIDE DEF T
<1>3. \A n \in 0..N : n \in T
  BY <1>1, <1>2, Climb
<1>. QED  BY <1>3 DEF T

(* The budget is spent by priority. *)
LEMMA BudgetSpends ==
  ASSUME NEW s, Priced(s), Offering(s), Counting(s)
  PROVE  WellSpent(s, ApplyAttentionBudget(s))
<1>. DEFINE order == WalkOrder(s)
            N == Len(order)
            Offered(i) == ToSet(Candidates(s, order[i]))
<1>1. PICK walked : Walked(s, walked) /\ ApplyAttentionBudget(s) = walked[N]
  BY BudgetIs
<1>. DEFINE out == walked[N]
            cut == [n \in 0..N |-> Len(walked[n])]
<1>2. N \in Nat /\ DOMAIN order = 1..N
      /\ \A i, j \in DOMAIN order : i < j => s.weight[order[i]] >= s.weight[order[j]]
  BY WalkOrderIs
<1>3. /\ \A n \in 0..N : Held(s, walked[n])
      /\ \A n \in 1..N : Grown(walked[n - 1], Offered(n),
                               SmallerOf(Len(walked[n - 1]) + s.budget, s.maxRefs), walked[n])
  BY <1>1, TurnsGrow
<1>. HIDE DEF order, N, Offered
<1>4. \A n \in 0..N : walked[n] \in Seq(Refs) /\ Len(walked[n]) \in Nat /\ Len(walked[n]) <= s.maxRefs
  BY <1>3 DEF Held
<1>5. ASSUME NEW n \in 1..N
      PROVE  /\ n - 1 \in 0..N /\ n \in 0..N
             /\ Len(walked[n - 1]) <= Len(walked[n])
             /\ Len(walked[n]) <= SmallerOf(Len(walked[n - 1]) + s.budget, s.maxRefs)
             /\ \A p \in 1..Len(walked[n - 1]) : walked[n][p] = walked[n - 1][p]
             /\ \A p \in (Len(walked[n - 1]) + 1)..Len(walked[n]) : walked[n][p] \in Offered(n)
  <2>1. n - 1 \in 0..N /\ n \in 0..N
    BY <1>2
  <2>2. Grown(walked[n - 1], Offered(n),
              SmallerOf(Len(walked[n - 1]) + s.budget, s.maxRefs), walked[n])
    BY <1>3
  <2>3. SmallerOf(Len(walked[n - 1]) + s.budget, s.maxRefs) \in Nat
    BY <1>4, <2>1 DEF SmallerOf, Counting
  <2>. QED  BY <1>4, <2>1, <2>2, <2>3 DEF Grown
<1>6. \A n \in 0..N : Starts(walked[n], out)
  <2>1. \A n \in 1..N : Starts(walked[n - 1], walked[n])
    BY <1>5 DEF Starts
  <2>2. \A n \in 0..N : \A k \in 0..n : Starts(walked[k], walked[n])
    BY <1>2, <1>4, <2>1, StartsStay
  <2>3. N \in 0..N
    BY <1>2
  <2>. QED  BY <2>2, <2>3
<1>7. out \in Seq(Refs) /\ Held(s, out) /\ Len(out) \in Nat
  <2>1. N \in 0..N
    BY <1>2
  <2>. QED  BY <1>3, <1>4, <2>1
<1>8. cut \in [0..N -> 0..Len(out)] /\ cut[0] = 0 /\ cut[N] = Len(out)
  <2>1. \A n \in 0..N : Len(walked[n]) \in 0..Len(out)
    BY <1>4, <1>6, <1>7 DEF Starts
  <2>2. 0 \in 0..N /\ N \in 0..N
    BY <1>2
  <2>3. walked[0] = <<>>
    BY <1>1 DEF Walked
  <2>. QED  BY <2>1, <2>2, <2>3
<1>9. \A n \in 0..N : cut[n] = Len(walked[n])
  OBVIOUS
<1>. HIDE DEF cut, out
<1>10. ASSUME NEW i \in 1..N
       PROVE  /\ cut[i] - cut[i - 1] \in 0..s.budget
              /\ Stretch(out, cut[i - 1], cut[i]) \subseteq Offered(i)
              /\ \/ cut[i] - cut[i - 1] = s.budget
                 \/ cut[i] = s.maxRefs
                 \/ Offered(i) \subseteq Stretch(out, 0, cut[i])
  <2>1. /\ i \in 0..N /\ i - 1 \in 0..N
        /\ cut[i] = Len(walked[i]) /\ cut[i - 1] = Len(walked[i - 1])
        /\ cut[i] \in Nat /\ cut[i - 1] \in Nat /\ cut[i] <= Len(out) /\ cut[i - 1] <= cut[i]
        /\ cut[i] <= s.maxRefs
    BY <1>4, <1>5, <1>6, <1>7, <1>9 DEF Starts
  <2>2. cut[i] <= SmallerOf(cut[i - 1] + s.budget, s.maxRefs)
    BY <1>5, <2>1
  <2>3. /\ cut[i] - cut[i - 1] \in 0..s.budget
        /\ cut[i] = SmallerOf(cut[i - 1] + s.budget, s.maxRefs)
             => cut[i] - cut[i - 1] = s.budget \/ cut[i] = s.maxRefs
    <3>1. s.budget \in Nat /\ s.maxRefs \in Nat
      BY DEF Counting
    <3>2. cut[i] \in Nat /\ cut[i - 1] \in Nat /\ cut[i - 1] <= cut[i]
      BY <2>1
    <3>3. WithinRoom(cut[i - 1], cut[i], s.budget, s.maxRefs)
      BY <2>2, <3>1, <3>2, RoomIs
    <3>. QED  BY <3>3 DEF WithinRoom
  <2>4. \A p \in 1..cut[i] : out[p] = walked[i][p]
    BY <1>6, <2>1 DEF Starts
  <2>5. Stretch(out, cut[i - 1], cut[i]) \subseteq Offered(i)
    <3>1. Stretch(out, cut[i - 1], cut[i]) = {out[p] : p \in (cut[i - 1] + 1)..cut[i]}
      BY <1>7, <2>1, StretchIs
    <3>2. ASSUME NEW p \in (cut[i - 1] + 1)..cut[i] PROVE out[p] \in Offered(i)
      <4>1. p \in 1..cut[i] /\ p \in (Len(walked[i - 1]) + 1)..Len(walked[i])
        BY <2>1
      <4>2. out[p] = walked[i][p]
        BY <2>4, <4>1
      <4>. QED  BY <1>5, <4>1, <4>2
    <3>. QED  BY <3>1, <3>2
  <2>6. \/ cut[i] - cut[i - 1] = s.budget
        \/ cut[i] = s.maxRefs
        \/ Offered(i) \subseteq Stretch(out, 0, cut[i])
    <3>1. \/ Len(walked[i]) = SmallerOf(Len(walked[i - 1]) + s.budget, s.maxRefs)
          \/ Offered(i) \subseteq ToSet(walked[i])
      BY <1>3 DEF Grown
    <3>2. CASE Len(walked[i]) = SmallerOf(Len(walked[i - 1]) + s.budget, s.maxRefs)
      BY <2>1, <2>3, <3>2
    <3>3. CASE Offered(i) \subseteq ToSet(walked[i])
      <4>1. Stretch(out, 0, cut[i]) = {out[p] : p \in (0 + 1)..cut[i]}
        <5>1. 0 \in Nat /\ 0 <= cut[i]
          BY <2>1
        <5>. QED  BY <1>7, <2>1, <5>1, StretchIs
      <4>2. ToSet(walked[i]) = {walked[i][p] : p \in 1..cut[i]}
        BY <1>4, <2>1 DEF ToSet
      <4>3. {walked[i][p] : p \in 1..cut[i]} \subseteq {out[p] : p \in 1..cut[i]}
        BY <2>1, <2>4
      <4>. QED  BY <3>3, <4>1, <4>2, <4>3
    <3>. QED  BY <3>1, <3>2, <3>3
  <2>. QED  BY <2>3, <2>5, <2>6
<1>11. IsInjective(out) /\ Len(out) <= s.maxRefs
  BY <1>7 DEF Held
<1>12. \E c \in [0..N -> 0..Len(out)] :
         /\ c[0] = 0 /\ c[N] = Len(out)
         /\ \A i \in DOMAIN order :
              /\ c[i] - c[i - 1] \in 0..s.budget
              /\ Stretch(out, c[i - 1], c[i]) \subseteq Offered(i)
              /\ \/ c[i] - c[i - 1] = s.budget
                 \/ c[i] = s.maxRefs
                 \/ Offered(i) \subseteq Stretch(out, 0, c[i])
  <2>1. \A i \in DOMAIN order :
              /\ cut[i] - cut[i - 1] \in 0..s.budget
              /\ Stretch(out, cut[i - 1], cut[i]) \subseteq Offered(i)
              /\ \/ cut[i] - cut[i - 1] = s.budget
                 \/ cut[i] = s.maxRefs
                 \/ Offered(i) \subseteq Stretch(out, 0, cut[i])
    BY <1>2, <1>10
  <2>. cut \in [0..N -> 0..Len(out)]
    BY <1>8
  <2>. WITNESS cut \in [0..N -> 0..Len(out)]
  <2>. QED  BY <1>8, <2>1
<1>13. WellSpent(s, out)
  BY <1>2, <1>11, <1>12 DEF WellSpent, order, N, Offered
<1>. QED  BY <1>1, <1>13 DEF out

-----------------------------------------------------------------------------
(* The state a selection is drawn from stays where it is. *)
SpentInv ==
  \A m \in selections :
    /\ m.from \in DOMAIN states
    /\ states[m.from].actor = m.actor /\ states[m.from].date < m.date
    /\ WellSpent(states[m.from], m.refs)

(* A stored state says what a selection may take of it. *)
LEMMA StateSpendable ==
  ASSUME TypeInv, NEW i \in DOMAIN states
  PROVE  Priced(states[i]) /\ Offering(states[i]) /\ Counting(states[i])
<1>. DEFINE s == states[i]
<1>1. /\ s \in StateRecord /\ DOMAIN s.weight \subseteq Labels
      /\ \A l \in DOMAIN s.weight : s.weight[l] \in Int
  BY StateParts
<1>. HIDE DEF s
<1>2. Priced(s)
  BY <1>1 DEF Priced
<1>3. Counting(s)
  <2>1. s.budget \in Budgets /\ s.maxRefs \in Nat
    BY <1>1 DEF StateRecord
  <2>. QED  BY <2>1, BudgetAssumption DEF Counting
<1>4. Offering(s)
  <2>1. PICK e \in Evidence : s.refs = e.refs
    BY <1>1 DEF StateRecord
  <2>2. ASSUME NEW l \in Drawing(s) PROVE Candidates(s, l) \in Seq(Refs)
    <3>1. SourceOf[l] \in Sources
      BY DEF Drawing, Sources
    <3>2. \A source \in Sources : e.refs[source] \in Seq(Refs)
      BY EvidenceAssumption
    <3>. QED  BY <2>1, <3>1, <3>2 DEF Candidates
  <2>. QED  BY <2>2 DEF Offering
<1>. QED  BY <1>2, <1>3, <1>4 DEF s

(* apply_attention_budget() and the memory selections built with it: whatever  *)
(* states an actor has had, with any weights, budgets and refs shared between   *)
(* labels, a selection is drawn from an earlier date and splits into one        *)
(* stretch per label, the heaviest first, each as long as budget, total and     *)
(* what the label has to offer allow.                                       *)
THEOREM SelectionsSpendByPriorityTheorem == Spec => []SelectionsSpendByPriority
<1>1. Init => SpentInv
  BY DEF Init, SpentInv
<1>2. ASSUME TypeInv, SpentInv, [Next]_vars PROVE SpentInv'
  <2>1. ASSUME NEW a \in Actors, NEW d \in Dates, BuildMemorySelection(a, d) PROVE SpentInv'
    <3>. DEFINE i == Latest(a)
                refs == ApplyAttentionBudget(states[i])
                m == [actor |-> a, date |-> d, from |-> i, refs |-> refs]
    <3>1. selections' = selections \cup {m} /\ states' = states
      BY <2>1 DEF BuildMemorySelection
    <3>2. i # 0 /\ states[i].date < d
      BY <2>1 DEF BuildMemorySelection
    <3>3. i \in DOMAIN states /\ states[i].actor = a
      BY <1>2, <3>2, LatestIsLast DEF StatesOf
    <3>4. WellSpent(states[i], refs)
      BY <1>2, <3>3, StateSpendable, BudgetSpends
    <3>5. m.actor = a /\ m.date = d /\ m.from = i /\ m.refs = refs
      OBVIOUS
    <3>. HIDE DEF m, i, refs
    <3>6. ASSUME NEW n \in selections'
          PROVE  /\ n.from \in DOMAIN states
                 /\ states[n.from].actor = n.actor /\ states[n.from].date < n.date
                 /\ WellSpent(states[n.from], n.refs)
      <4>1. CASE n \in selections
        BY <1>2, <4>1 DEF SpentInv
      <4>2. CASE n = m
        BY <3>2, <3>3, <3>4, <3>5, <4>2
      <4>. QED  BY <3>1, <4>1, <4>2
    <3>. QED  BY <3>1, <3>6 DEF SpentInv
  <2>2. ASSUME UNCHANGED selections, UNCHANGED states \/ OneMoreState PROVE SpentInv'
    <3>1. \A i \in DOMAIN states : i \in DOMAIN states' /\ states'[i] = states[i]
      <4>1. CASE UNCHANGED states
        BY <4>1
      <4>2. CASE OneMoreState
        <5>1. PICK s \in StateRecord : states' = Append(states, s)
          BY <1>2, <4>2, NewStateType DEF OneMoreState
        <5>. QED  BY <1>2, <5>1 DEF TypeInv
      <4>. QED  BY <2>2, <4>1, <4>2
    <3>. QED  BY <1>2, <2>2, <3>1 DEF SpentInv
  <2>3. ASSUME NEW a \in Actors, NEW d \in Dates, NEW sid \in IdsFor(a, d), NEW fid \in IdsFor(a, d),
               NEW e \in Evidence, NEW h \in Horizons, NEW b \in Budgets, NEW typed \in BOOLEAN,
               BuildFeedback(a, d, sid, fid, e, h, b, typed)
        PROVE  SpentInv'
    <3>1. UNCHANGED selections
      BY <2>3 DEF BuildFeedback
    <3>2. UNCHANGED states \/ OneMoreState
      BY <1>2, StatesStep
    <3>. QED  BY <2>2, <3>1, <3>2
  <2>4. CASE UNCHANGED vars
    BY <2>2, <2>4 DEF vars
  <2>. QED  BY <1>2, <2>1, <2>3, <2>4 DEF Next
<1>3. ASSUME SpentInv PROVE SelectionsSpendByPriority
  BY <1>3 DEF SpentInv, SelectionsSpendByPriority, WellSpent, Stretch
<1>. QED  BY <1>1, <1>2, <1>3, AttentionTyping, PTL DEF Spec

=============================================================================
