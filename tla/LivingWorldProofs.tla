--------------------------- MODULE LivingWorldProofs ---------------------------
(***************************************************************************)
(* Proofs about LivingWorld: a period's records are of one call, a record    *)
(* cites only what the books hold and its own actors', and reads nothing of *)
(* a later date.                                                           *)
(*                                                                         *)
(* The plans are sequences computed by arithmetic on places.  The first     *)
(* part shows what each holds (Plans) and that whatever a turn asks for     *)
(* (Asks: its reader's menu, its firm's report, the set-up, the escalation  *)
(* of an intent) stands before it.  LivingInv carries that through a call:  *)
(* what is still to do asks only for what is there.  Two facts make it      *)
(* inductive.  A record whose duplicate is taken as it is comes with one,   *)
(* its Guard, whose duplicate raises, and both are of the same call         *)
(* (GuardsOfOneCall): so a record found there already is the call's own.    *)
(* And what a record cites is of its own actors and not later, for every    *)
(* record in the books (CitesAreGood): so the citations that a step copies  *)
(* from a selection or a state are in order too.                           *)
(***************************************************************************)
EXTENDS LivingWorld, TLAPS, FiniteSetTheorems, SequenceTheorems

(***************************************************************************)
(* Sequences                                                               *)
(***************************************************************************)
(* What a sequence holds, in one word for the facts below.                  *)
Holds(s, x) == \E n \in 1..Len(s) : s[n] = x

(* Each y that R asks for before x is in H, or stands before x.             *)
Before(s, R, H) ==
  \A n \in 1..Len(s) : \A y :
    <<s[n], y>> \in R => y \in H \/ \E m \in 1..(n - 1) : s[m] = y

Joined(s, t, u) ==
  /\ Len(u) = Len(s) + Len(t)
  /\ \A n \in 1..Len(s) : u[n] = s[n]
  /\ \A n \in 1..Len(t) : u[Len(s) + n] = t[n]

LEMMA JoinedConcat ==
  ASSUME NEW T, NEW s \in Seq(T), NEW t \in Seq(T)
  PROVE  s \o t \in Seq(T) /\ Joined(s, t, s \o t)
<1>. DEFINE u == s \o t
<1>1. /\ u \in Seq(T) /\ Len(u) = Len(s) + Len(t) /\ Len(s) \in Nat /\ Len(t) \in Nat
      /\ \A i \in 1..(Len(s) + Len(t)) : u[i] = IF i <= Len(s) THEN s[i] ELSE t[i - Len(s)]
  BY ConcatProperties
<1>. HIDE DEF u
<1>2. \A n \in 1..Len(s) : u[n] = s[n]
  BY <1>1
<1>3. ASSUME NEW n \in 1..Len(t) PROVE u[Len(s) + n] = t[n]
  <2>1. Len(s) + n \in 1..(Len(s) + Len(t)) /\ ~(Len(s) + n <= Len(s)) /\ (Len(s) + n) - Len(s) = n
    BY <1>1
  <2>. QED  BY <1>1, <2>1
<1>4. Joined(s, t, u) /\ u \in Seq(T)
  BY <1>1, <1>2, <1>3 DEF Joined
<1>. QED  BY <1>4 DEF u

LEMMA HoldsConcat ==
  ASSUME NEW T, NEW s \in Seq(T), NEW t \in Seq(T)
  PROVE  \A x : Holds(s \o t, x) <=> Holds(s, x) \/ Holds(t, x)
<1>. DEFINE u == s \o t
<1>1. Joined(s, t, u) /\ Len(s) \in Nat /\ Len(t) \in Nat
  BY JoinedConcat
<1>. HIDE DEF u
<1>2. /\ \A n \in 1..(Len(s) + Len(t)) : n \in 1..Len(s) \/ \E k \in 1..Len(t) : n = Len(s) + k
      /\ \A n \in 1..Len(s) : n \in 1..(Len(s) + Len(t))
      /\ \A n \in 1..Len(t) : Len(s) + n \in 1..(Len(s) + Len(t))
  <2>1. ASSUME NEW i \in Nat, NEW j \in Nat
        PROVE  /\ \A n \in 1..(i + j) : n \in 1..i \/ (n - i \in 1..j /\ n = i + (n - i))
               /\ \A n \in 1..i : n \in 1..(i + j)
               /\ \A n \in 1..j : i + n \in 1..(i + j)
    BY ONLY i \in Nat, j \in Nat
  <2>2. \A n \in 1..(Len(s) + Len(t)) :
           n \in 1..Len(s) \/ (n - Len(s) \in 1..Len(t) /\ n = Len(s) + (n - Len(s)))
    BY <1>1, <2>1
  <2>. QED  BY <1>1, <2>1, <2>2, Zenon
<1>3. \A x : Holds(u, x) <=> Holds(s, x) \/ Holds(t, x)
  <2>. TAKE x
  <2>1. Len(u) = Len(s) + Len(t)
    BY <1>1 DEF Joined
  <2>2. ASSUME NEW n \in 1..Len(s), s[n] = x PROVE Holds(u, x)
    BY <1>1, <1>2, <2>1, <2>2 DEF Joined, Holds
  <2>3. ASSUME NEW n \in 1..Len(t), t[n] = x PROVE Holds(u, x)
    BY <1>1, <1>2, <2>1, <2>3 DEF Joined, Holds
  <2>4. ASSUME NEW n \in 1..Len(u), u[n] = x PROVE Holds(s, x) \/ Holds(t, x)
    <3>1. n \in 1..(Len(s) + Len(t))
      BY <2>1
    <3>2. CASE n \in 1..Len(s)
      BY <1>1, <2>4, <3>2 DEF Joined, Holds
    <3>3. ASSUME NEW k \in 1..Len(t), n = Len(s) + k PROVE Holds(t, x)
      BY <1>1, <2>4, <3>3 DEF Joined, Holds
    <3>. QED  BY <1>2, <3>1, <3>2, <3>3
  <2>. QED  BY <2>2, <2>3, <2>4 DEF Holds
<1>. QED  BY <1>3 DEF u

(* What the second part asks for is there already, or stands in one of them. *)
LEMMA BeforeConcat ==
  ASSUME NEW T, NEW s \in Seq(T), NEW t \in Seq(T), NEW R, NEW H, NEW G,
         Before(s, R, H), Before(t, R, G), \A y \in G : y \in H \/ Holds(s, y)
  PROVE  Before(s \o t, R, H)
<1>. DEFINE u == s \o t
<1>1. Joined(s, t, u) /\ Len(s) \in Nat /\ Len(t) \in Nat
  BY JoinedConcat
<1>. HIDE DEF u
<1>2. ASSUME NEW n \in 1..Len(u), NEW y, <<u[n], y>> \in R
      PROVE  y \in H \/ \E m \in 1..(n - 1) : u[m] = y
  <2>1. CASE n \in 1..Len(s)
    <3>1. <<s[n], y>> \in R
      BY <1>1, <1>2, <2>1 DEF Joined
    <3>2. y \in H \/ \E m \in 1..(n - 1) : s[m] = y
      BY <2>1, <3>1 DEF Before
    <3>3. \A m \in 1..(n - 1) : m \in 1..Len(s)
      BY <1>1, <2>1
    <3>. QED  BY <1>1, <3>2, <3>3 DEF Joined
  <2>2. CASE n \notin 1..Len(s)
    <3>1. PICK k \in 1..Len(t) : n = Len(s) + k
      <4>1. n - Len(s) \in 1..Len(t) /\ n = Len(s) + (n - Len(s))
        BY <1>1, <2>2 DEF Joined
      <4>. QED  BY <4>1
    <3>2. u[n] = t[k]
      BY <1>1, <3>1 DEF Joined
    <3>3. y \in G \/ \E m \in 1..(k - 1) : t[m] = y
      BY <1>2, <3>1, <3>2 DEF Before
    <3>4. \A m \in 1..Len(s) : m \in 1..(n - 1)
      BY <1>1, <3>1
    <3>5. \A m \in 1..(k - 1) : m \in 1..Len(t) /\ Len(s) + m \in 1..(n - 1)
      BY <1>1, <3>1
    <3>6. CASE y \in G
      BY <1>1, <3>4, <3>6 DEF Joined, Holds
    <3>7. CASE \E m \in 1..(k - 1) : t[m] = y
      BY <1>1, <3>5, <3>7 DEF Joined
    <3>. QED  BY <3>3, <3>6, <3>7
  <2>. QED  BY <2>1, <2>2
<1>3. Before(u, R, H)
  BY <1>2 DEF Before
<1>. QED  BY <1>3 DEF u

(* What a part asks for is in H, or stands in the part before.               *)
LEMMA BeforeAlone ==
  ASSUME NEW s, NEW R, NEW H, \A x, y : Holds(s, x) /\ <<x, y>> \in R => y \in H
  PROVE  Before(s, R, H)
BY DEF Before, Holds

(* The first is taken off: what it was is now there.                        *)
LEMMA BeforeTail ==
  ASSUME NEW T, NEW s \in Seq(T), s # <<>>, NEW R, NEW H, Before(s, R, H)
  PROVE  /\ Tail(s) \in Seq(T)
         /\ Head(s) \in T /\ Holds(s, Head(s))
         /\ Before(Tail(s), R, H \cup {Head(s)})
         /\ \A x : Holds(s, x) <=> x = Head(s) \/ Holds(Tail(s), x)
         /\ \A y : <<Head(s), y>> \in R => y \in H
<1>. DEFINE t == Tail(s)
<1>1. /\ t \in Seq(T) /\ Len(s) \in Nat /\ Len(s) >= 1 /\ Len(t) = Len(s) - 1
      /\ Head(s) = s[1] /\ s[1] \in T
      /\ \A n \in 1..Len(t) : t[n] = s[n + 1]
  OBVIOUS
<1>. HIDE DEF t
<1>2. /\ 1 \in 1..Len(s) /\ \A n \in 1..Len(t) : n + 1 \in 1..Len(s)
      /\ \A n \in 1..Len(s) : n = 1 \/ \E k \in 1..Len(t) : n = k + 1
  <2>1. \A n \in 1..Len(s) : n # 1 => n - 1 \in 1..Len(t) /\ n = (n - 1) + 1
    BY <1>1
  <2>. QED  BY <1>1, <2>1
<1>3. \A x : Holds(s, x) <=> x = Head(s) \/ Holds(t, x)
  BY <1>1, <1>2 DEF Holds
<1>4. \A y : <<Head(s), y>> \in R => y \in H
  <2>1. 1..(1 - 1) = {}
    OBVIOUS
  <2>. QED  BY <1>1, <1>2, <2>1 DEF Before
<1>5. ASSUME NEW n \in 1..Len(t), NEW y, <<t[n], y>> \in R
      PROVE  y \in H \cup {Head(s)} \/ \E m \in 1..(n - 1) : t[m] = y
  <2>1. n + 1 \in 1..Len(s) /\ <<s[n + 1], y>> \in R
    BY <1>1, <1>2, <1>5
  <2>2. y \in H \/ \E m \in 1..((n + 1) - 1) : s[m] = y
    BY <2>1 DEF Before
  <2>3. ASSUME NEW m \in 1..((n + 1) - 1), s[m] = y
        PROVE  y = Head(s) \/ \E k \in 1..(n - 1) : t[k] = y
    <3>1. CASE m = 1
      BY <1>1, <2>3, <3>1
    <3>2. CASE m # 1
      <4>1. m - 1 \in 1..(n - 1) /\ m - 1 \in 1..Len(t) /\ (m - 1) + 1 = m
        BY <1>1, <3>2
      <4>2. t[m - 1] = y
        BY <1>1, <2>3, <4>1
      <4>. QED  BY <4>1, <4>2
    <3>. QED  BY <3>1, <3>2
  <2>. QED  BY <2>2, <2>3
<1>6. Before(t, R, H \cup {Head(s)})
  BY <1>5 DEF Before
<1>7. Holds(s, Head(s))
  BY <1>3
<1>. QED  BY <1>1, <1>3, <1>4, <1>6, <1>7 DEF t

(***************************************************************************)
(* The plans                                                               *)
(***************************************************************************)
(* Euclid: place k of a grid of rows of width w.                           *)
LEMMA Divided ==
  ASSUME NEW a \in Nat, NEW b \in Nat, b > 0
  PROVE  /\ a \div b \in Nat /\ a % b \in 0..(b - 1)
         /\ a = (b * (a \div b)) + (a % b)
OBVIOUS

LEMMA RowsBounded ==
  ASSUME NEW w \in Nat, NEW h \in Nat, NEW k \in 1..(w * h)
  PROVE  /\ (k - 1) \div w \in 0..(h - 1)
         /\ (k - 1) % w \in 0..(w - 1)
<1>1. w > 0
  OBVIOUS
<1>. DEFINE q == (k - 1) \div w
            r == (k - 1) % w
<1>2. q \in Nat /\ r \in 0..(w - 1) /\ k - 1 = (w * q) + r
  BY <1>1, Divided
<1>. HIDE DEF q, r
<1>3. q < h
  <2>1. SUFFICES ASSUME q >= h PROVE FALSE
    BY <1>2
  <2>2. w * q >= w * h
    BY <1>1, <1>2, <2>1
  <2>. QED  BY <1>2, <2>2
<1>. QED  BY <1>2, <1>3 DEF q, r

LEMMA RowsCovered ==
  ASSUME NEW w \in Nat, NEW h \in Nat, NEW i \in 1..h, NEW j \in 1..w
  PROVE  \E k \in 1..(w * h) : (k - 1) \div w = i - 1 /\ (k - 1) % w = j - 1
<1>. DEFINE k == w * (i - 1) + j
<1>1. k \in Int /\ k >= 1
  OBVIOUS
<1>2. k <= w * h
  <2>1. w * (i - 1) + w = w * i
    OBVIOUS
  <2>2. w * i <= w * h
    OBVIOUS
  <2>. QED  BY <2>1, <2>2
<1>3. (k - 1) \div w = i - 1 /\ (k - 1) % w = j - 1
  OBVIOUS
<1>4. k \in 1..(w * h)
  BY <1>1, <1>2
<1>. HIDE DEF k
<1>. QED  BY <1>3, <1>4

(***************************************************************************)
(* Kinds of records.                                                       *)
(***************************************************************************)
ByReader == {"memory", "liquidity", "attention_state"}
OnFirm ==
  {"firm_state", "valuation", "dialogue", "escalation", "intent", "response", "market_intent",
   "aggregated", "market_pressure", "need", "loan_option", "bond_option", "capital_review", "path"}
Themed == {"dialogue", "escalation", "intent"}
Listed == {"market_intent", "aggregated", "market_pressure"}

(* The kinds that ask for nothing.                                          *)
Free ==
  {"theme", "venue", "calendar", "template", "report", "firm_pressure", "industry_condition",
   "market_condition", "readout", "environment", "menu", "selection", "credit_review",
   "investor_review", "bank_review"}

Kinds == Free \cup OnFirm \cup ByReader \cup {"security", "arrival", "scenario"}

(***************************************************************************)
(* What a plan holds, and what it asks for.                                 *)
(***************************************************************************)
Industries == {IndustryOf[f] : f \in Firms}
Whos == Seq(Firms \cup Investors \cup Banks \cup Markets \cup Industries)
Turns == [kind : Kinds, who : Whos]
TurnOf(kind, who) == [kind |-> kind, who |-> who]

Alone(s) == {<<s[i]>> : i \in 1..Len(s)}
Paired(s, t) == {<<s[i], t[j]>> : i \in 1..Len(s), j \in 1..Len(t)}
TurnsOf(kinds, whos) == {TurnOf(k, w) : k \in kinds, w \in whos}

(* s writes what D holds, and asks only for what H or itself holds before.  *)
Plans(s, R, H, D) ==
  /\ s \in Seq(Turns)
  /\ \A x : Holds(s, x) <=> x \in D
  /\ Before(s, R, H)

LEMMA PlansConcat ==
  ASSUME NEW s, NEW t, NEW R, NEW H, NEW D, NEW E, Plans(s, R, H, D), Plans(t, R, H \cup D, E)
  PROVE  Plans(s \o t, R, H, D \cup E)
<1>1. s \in Seq(Turns) /\ t \in Seq(Turns)
  BY DEF Plans
<1>2. s \o t \in Seq(Turns)
  BY <1>1, JoinedConcat
<1>3. \A x : Holds(s \o t, x) <=> x \in D \cup E
  BY <1>1, HoldsConcat DEF Plans
<1>4. Before(s \o t, R, H)
  BY <1>1, BeforeConcat DEF Plans
<1>. QED  BY <1>2, <1>3, <1>4 DEF Plans

LEMMA PlansAlone ==
  ASSUME NEW s \in Seq(Turns), NEW R, NEW H, NEW D, \A x : Holds(s, x) <=> x \in D,
         \A x \in D : \A y : <<x, y>> \in R => y \in H
  PROVE  Plans(s, R, H, D)
<1>1. Before(s, R, H)
  BY BeforeAlone
<1>. QED  BY <1>1 DEF Plans

LEMMA PlansIf ==
  ASSUME NEW s, NEW R, NEW H, NEW D, NEW b, b => Plans(s, R, H, D)
  PROVE  Plans(If(b, s), R, H, IF b THEN D ELSE {})
<1>1. CASE b
  BY <1>1 DEF If
<1>2. CASE ~b
  <2>1. Len(<<>>) = 0 /\ 1..0 = {} /\ <<>> \in Seq(Turns)
    OBVIOUS
  <2>2. \A x : ~Holds(<<>>, x)
    BY <2>1 DEF Holds
  <2>3. Before(<<>>, R, H)
    BY <2>1 DEF Before
  <2>. QED  BY <1>2, <2>1, <2>2, <2>3 DEF Plans, If
<1>. QED  BY <1>1, <1>2

(* Nothing is asked for by these kinds.                                     *)
LEMMA OnceIs ==
  ASSUME NEW kind \in Kinds
  PROVE  Once(kind) \in Seq(Turns) /\ \A x : Holds(Once(kind), x) <=> x \in TurnsOf({kind}, {<<>>})
<1>. DEFINE t == TurnOf(kind, <<>>)
<1>1. t \in Turns
  BY DEF Turns, TurnOf, Whos
<1>2. Once(kind) = <<t>>
  BY DEF Once, TurnOf
<1>. HIDE DEF t
<1>3. <<t>> \in Seq(Turns) /\ Len(<<t>>) = 1 /\ <<t>>[1] = t /\ 1..1 = {1}
  BY <1>1
<1>4. \A x : Holds(<<t>>, x) <=> x = t
  BY <1>3 DEF Holds
<1>5. TurnsOf({kind}, {<<>>}) = {t}
  BY DEF TurnsOf, t
<1>. QED  BY <1>2, <1>3, <1>4, <1>5

LEMMA PerActorIs ==
  ASSUME NEW kinds \in Seq(Kinds),
         NEW actors \in Seq(Firms \cup Investors \cup Banks \cup Markets \cup Industries)
  PROVE  /\ PerActor(kinds, actors) \in Seq(Turns)
         /\ \A x : Holds(PerActor(kinds, actors), x) <=>
                   x \in TurnsOf({kinds[j] : j \in 1..Len(kinds)}, Alone(actors))
<1>. DEFINE s == PerActor(kinds, actors)
            w == Len(kinds)
            h == Len(actors)
            at(k) == TurnOf(kinds[((k - 1) % w) + 1], <<actors[((k - 1) \div w) + 1]>>)
<1>1. w \in Nat /\ h \in Nat /\ w * h \in Nat
  OBVIOUS
<1>2. s = [k \in 1..(w * h) |-> at(k)]
  BY DEF PerActor, TurnOf
<1>3. \A k \in 1..(w * h) : ((k - 1) % w) + 1 \in 1..w /\ ((k - 1) \div w) + 1 \in 1..h
  <2>. TAKE k \in 1..(w * h)
  <2>1. (k - 1) \div w \in 0..(h - 1) /\ (k - 1) % w \in 0..(w - 1)
    BY <1>1, RowsBounded
  <2>. HIDE DEF w, h
  <2>. QED  BY <1>1, <2>1
<1>4. \A i \in 1..h, j \in 1..w : \E k \in 1..(w * h) :
        ((k - 1) \div w) + 1 = i /\ ((k - 1) % w) + 1 = j
  <2>. TAKE i \in 1..h, j \in 1..w
  <2>1. PICK k \in 1..(w * h) : (k - 1) \div w = i - 1 /\ (k - 1) % w = j - 1
    BY <1>1, RowsCovered
  <2>. HIDE DEF w, h
  <2>. QED  BY <1>1, <2>1
<1>5. \A i \in 1..h, j \in 1..w : TurnOf(kinds[j], <<actors[i]>>) \in Turns
  BY DEF Turns, TurnOf, Whos
<1>6. \A k \in 1..(w * h) : at(k) \in Turns
  BY <1>3, <1>5
<1>7. s \in Seq(Turns) /\ Len(s) = w * h
  <2>. HIDE DEF at, s, w, h
  <2>. QED  BY <1>1, <1>2, <1>6
<1>8. ASSUME NEW x
      PROVE  Holds(s, x) <=> \E i \in 1..h, j \in 1..w : x = TurnOf(kinds[j], <<actors[i]>>)
  <2>1. ASSUME NEW k \in 1..(w * h), s[k] = x
        PROVE  \E i \in 1..h, j \in 1..w : x = TurnOf(kinds[j], <<actors[i]>>)
    BY <1>2, <1>3, <2>1
  <2>2. ASSUME NEW i \in 1..h, NEW j \in 1..w, x = TurnOf(kinds[j], <<actors[i]>>)
        PROVE  \E k \in 1..(w * h) : s[k] = x
    <3>1. PICK k \in 1..(w * h) : ((k - 1) \div w) + 1 = i /\ ((k - 1) % w) + 1 = j
      BY <1>4
    <3>2. s[k] = x
      BY <1>2, <2>2, <3>1
    <3>. QED  BY <3>2
  <2>. HIDE DEF s, w, h
  <2>. QED  BY <1>7, <2>1, <2>2 DEF Holds
<1>9. ASSUME NEW x
      PROVE  x \in TurnsOf({kinds[j] : j \in 1..w}, Alone(actors)) <=>
               \E i \in 1..h, j \in 1..w : x = TurnOf(kinds[j], <<actors[i]>>)
  <2>1. x \in TurnsOf({kinds[j] : j \in 1..w}, Alone(actors)) <=>
          \E k \in {kinds[j] : j \in 1..w}, who \in Alone(actors) : x = TurnOf(k, who)
    BY DEF TurnsOf
  <2>2. \A k : k \in {kinds[j] : j \in 1..w} <=> \E j \in 1..w : k = kinds[j]
    OBVIOUS
  <2>3. \A who : who \in Alone(actors) <=> \E i \in 1..h : who = <<actors[i]>>
    BY DEF Alone
  <2>. HIDE DEF w, h
  <2>. QED  BY <2>1, <2>2, <2>3
<1>. QED  BY <1>7, <1>8, <1>9

LEMMA PerPairIs ==
  ASSUME NEW kind \in Kinds, NEW actors \in Seq(Investors \cup Banks), NEW firms \in Seq(Firms)
  PROVE  /\ PerPair(kind, actors, firms) \in Seq(Turns)
         /\ \A x : Holds(PerPair(kind, actors, firms), x) <=>
                   x \in TurnsOf({kind}, Paired(actors, firms))
<1>. DEFINE s == PerPair(kind, actors, firms)
            w == Len(firms)
            h == Len(actors)
            at(k) == TurnOf(kind, <<actors[((k - 1) \div w) + 1], firms[((k - 1) % w) + 1]>>)
<1>1. w \in Nat /\ h \in Nat /\ w * h \in Nat /\ w * h = h * w
  OBVIOUS
<1>2. s = [k \in 1..(w * h) |-> at(k)]
  BY <1>1 DEF PerPair, TurnOf
<1>3. \A k \in 1..(w * h) : ((k - 1) % w) + 1 \in 1..w /\ ((k - 1) \div w) + 1 \in 1..h
  <2>. TAKE k \in 1..(w * h)
  <2>1. (k - 1) \div w \in 0..(h - 1) /\ (k - 1) % w \in 0..(w - 1)
    BY <1>1, RowsBounded
  <2>. HIDE DEF w, h
  <2>. QED  BY <1>1, <2>1
<1>4. \A i \in 1..h, j \in 1..w : \E k \in 1..(w * h) :
        ((k - 1) \div w) + 1 = i /\ ((k - 1) % w) + 1 = j
  <2>. TAKE i \in 1..h, j \in 1..w
  <2>1. PICK k \in 1..(w * h) : (k - 1) \div w = i - 1 /\ (k - 1) % w = j - 1
    BY <1>1, RowsCovered
  <2>. HIDE DEF w, h
  <2>. QED  BY <1>1, <2>1
<1>5. \A i \in 1..h, j \in 1..w : TurnOf(kind, <<actors[i], firms[j]>>) \in Turns
  BY DEF Turns, TurnOf, Whos
<1>6. \A k \in 1..(w * h) : at(k) \in Turns
  BY <1>3, <1>5
<1>7. s \in Seq(Turns) /\ Len(s) = w * h
  <2>. HIDE DEF at, s, w, h
  <2>. QED  BY <1>1, <1>2, <1>6
<1>8. ASSUME NEW x
      PROVE  Holds(s, x) <=> \E i \in 1..h, j \in 1..w : x = TurnOf(kind, <<actors[i], firms[j]>>)
  <2>1. ASSUME NEW k \in 1..(w * h), s[k] = x
        PROVE  \E i \in 1..h, j \in 1..w : x = TurnOf(kind, <<actors[i], firms[j]>>)
    BY <1>2, <1>3, <2>1
  <2>2. ASSUME NEW i \in 1..h, NEW j \in 1..w, x = TurnOf(kind, <<actors[i], firms[j]>>)
        PROVE  \E k \in 1..(w * h) : s[k] = x
    <3>1. PICK k \in 1..(w * h) : ((k - 1) \div w) + 1 = i /\ ((k - 1) % w) + 1 = j
      BY <1>4
    <3>2. s[k] = x
      BY <1>2, <2>2, <3>1
    <3>. QED  BY <3>2
  <2>. HIDE DEF s, w, h
  <2>. QED  BY <1>7, <2>1, <2>2 DEF Holds
<1>9. ASSUME NEW x
      PROVE  x \in TurnsOf({kind}, Paired(actors, firms)) <=>
               \E i \in 1..h, j \in 1..w : x = TurnOf(kind, <<actors[i], firms[j]>>)
  <2>1. x \in TurnsOf({kind}, Paired(actors, firms)) <=>
          \E who \in Paired(actors, firms) : x = TurnOf(kind, who)
    BY DEF TurnsOf
  <2>2. \A who : who \in Paired(actors, firms) <=>
          \E i \in 1..h, j \in 1..w : who = <<actors[i], firms[j]>>
    BY DEF Paired
  <2>. HIDE DEF w, h
  <2>3. ASSUME NEW i \in 1..h, NEW j \in 1..w, x = TurnOf(kind, <<actors[i], firms[j]>>)
        PROVE  x \in TurnsOf({kind}, Paired(actors, firms))
    <3>1. <<actors[i], firms[j]>> \in Paired(actors, firms)
      BY <2>2
    <3>. QED  BY <2>1, <2>3, <3>1
  <2>4. ASSUME NEW who \in Paired(actors, firms), x = TurnOf(kind, who)
        PROVE  \E i \in 1..h, j \in 1..w : x = TurnOf(kind, <<actors[i], firms[j]>>)
    BY <2>2, <2>4
  <2>. QED  BY <2>1, <2>3, <2>4
<1>. QED  BY <1>7, <1>8, <1>9

(***************************************************************************)
(* What a turn asks for: what must have been written before it, in its       *)
(* period or, of the set-up, ever.                                         *)
(***************************************************************************)
AsksFor(c, x, y) ==
  \/ x.kind \in ByReader /\ y = TurnOf("menu", <<x.who[1]>>)
  \/ x.kind \in OnFirm /\ y = TurnOf("report", <<x.who[Len(x.who)]>>)
  \/ x.kind \in {"security"} \cup Listed /\ y = TurnOf("venue", <<>>)
  \/ x.kind \in Listed /\ y = TurnOf("security", <<x.who[Len(x.who)]>>)
  \/ x.kind = "arrival" /\ y = TurnOf("calendar", <<>>)
  \/ x.kind = "scenario" /\ y = TurnOf("template", <<>>)
  \/ x.kind \in Themed /\ y = TurnOf("theme", <<x.who[1]>>)
  \/ x.kind = "response" /\ \E i \in 1..Len(c.investors) : y = TurnOf("theme", <<c.investors[i]>>)
  \/ x.kind = "intent" /\ y = TurnOf("escalation", x.who)

Asks(c) == {p \in Turns \X Turns : AsksFor(c, p[1], p[2])}
AsksWithin(R, D, H) == \A x \in D : \A y : <<x, y>> \in R => y \in H

LEMMA AsksIs ==
  ASSUME NEW c, NEW x, NEW y
  PROVE  <<x, y>> \in Asks(c) <=> x \in Turns /\ y \in Turns /\ AsksFor(c, x, y)
BY DEF Asks

LEMMA InTurnsOf ==
  ASSUME NEW K, NEW W, NEW x
  PROVE  /\ x \in TurnsOf(K, W) => x.kind \in K /\ x.who \in W /\ x = TurnOf(x.kind, x.who)
         /\ \A k \in K, who \in W : TurnOf(k, who) \in TurnsOf(K, W)
BY DEF TurnsOf, TurnOf

LEMMA AsksMore ==
  ASSUME NEW R, NEW D, NEW H, NEW G, AsksWithin(R, D, H), H \subseteq G
  PROVE  AsksWithin(R, D, G)
BY DEF AsksWithin

LEMMA FreeAsks ==
  ASSUME NEW c, NEW K, K \subseteq Free, NEW W, NEW H
  PROVE  AsksWithin(Asks(c), TurnsOf(K, W), H)
<1>1. SUFFICES ASSUME NEW x \in TurnsOf(K, W), NEW y, <<x, y>> \in Asks(c) PROVE FALSE
  BY DEF AsksWithin
<1>2. x.kind \in Free /\ AsksFor(c, x, y)
  BY <1>1, AsksIs, InTurnsOf
<1>. QED  BY <1>2 DEF AsksFor, Free, ByReader, OnFirm, Themed, Listed

(* What a record on a firm asks for besides its report.                     *)
Besides(c, x) ==
  (IF x.kind \in Listed THEN {TurnOf("venue", <<>>), TurnOf("security", <<x.who[Len(x.who)]>>)} ELSE {})
    \cup (IF x.kind \in Themed THEN {TurnOf("theme", <<x.who[1]>>)} ELSE {})
    \cup (IF x.kind = "response" THEN TurnsOf({"theme"}, Alone(c.investors)) ELSE {})
    \cup (IF x.kind = "intent" THEN {TurnOf("escalation", x.who)} ELSE {})

LEMMA OnFirmAsks ==
  ASSUME NEW c, NEW x, NEW y, <<x, y>> \in Asks(c), x.kind \in OnFirm
  PROVE  y = TurnOf("report", <<x.who[Len(x.who)]>>) \/ y \in Besides(c, x)
<1>1. AsksFor(c, x, y)
  BY AsksIs
<1>2. \A i \in 1..Len(c.investors) : TurnOf("theme", <<c.investors[i]>>) \in TurnsOf({"theme"}, Alone(c.investors))
  <2>1. \A i \in 1..Len(c.investors) : <<c.investors[i]>> \in Alone(c.investors)
    BY DEF Alone
  <2>. QED  BY <2>1, InTurnsOf
<1>. QED  BY <1>1, <1>2 DEF AsksFor, Besides, ByReader, OnFirm, Listed, Themed

LEMMA SoloPlans ==
  ASSUME NEW kind \in Kinds,
         NEW actors \in Seq(Firms \cup Investors \cup Banks \cup Markets \cup Industries),
         NEW R, NEW H, AsksWithin(R, TurnsOf({kind}, Alone(actors)), H)
  PROVE  Plans(PerActor(<<kind>>, actors), R, H, TurnsOf({kind}, Alone(actors)))
<1>1. <<kind>> \in Seq(Kinds) /\ {<<kind>>[j] : j \in 1..Len(<<kind>>)} = {kind}
  OBVIOUS
<1>. QED  BY <1>1, PerActorIs, PlansAlone DEF AsksWithin

LEMMA PairPlans ==
  ASSUME NEW kind \in Kinds, NEW actors \in Seq(Investors \cup Banks), NEW firms \in Seq(Firms),
         NEW R, NEW H, AsksWithin(R, TurnsOf({kind}, Paired(actors, firms)), H)
  PROVE  Plans(PerPair(kind, actors, firms), R, H, TurnsOf({kind}, Paired(actors, firms)))
BY PerPairIs, PlansAlone DEF AsksWithin

LEMMA OncePlans ==
  ASSUME NEW kind \in Kinds, NEW R, NEW H, AsksWithin(R, TurnsOf({kind}, {<<>>}), H)
  PROVE  Plans(Once(kind), R, H, TurnsOf({kind}, {<<>>}))
BY OnceIs, PlansAlone DEF AsksWithin

(***************************************************************************)
(* The turns of a call                                                     *)
(***************************************************************************)
IfTurns(b, D) == IF b THEN D ELSE {}
Readers(c) == c.investors \o c.banks
Single(kind) == TurnsOf({kind}, {<<>>})
Solo(kind, actors) == TurnsOf({kind}, Alone(actors))
Pair(kind, c) == TurnsOf({kind}, Paired(c.investors, c.firms))
IndustriesOf(c) == SetToSeq({IndustryOf[f] : f \in ToSet(c.firms)})

SetupTurns(c) ==
  IfTurns(~Scenario(c), Solo("theme", c.investors)) \cup Single("venue") \cup Solo("security", c.firms)
    \cup IfTurns(c.profile # "quarterly_default", Single("calendar"))
    \cup IfTurns(Scenario(c), Single("template"))

ContextTurns(c, k) ==
  IfTurns(c.profile # "quarterly_default", Single("arrival"))
    \cup IfTurns(Scenario(c) /\ k = ScenarioPeriod, Single("scenario"))
    \cup Solo("report", c.firms) \cup Solo("firm_pressure", c.firms)
    \cup Solo("industry_condition", IndustriesOf(c)) \cup Solo("market_condition", c.markets)
    \cup IfTurns(c.markets # <<>>, Single("readout") \cup Single("environment"))
    \cup Solo("firm_state", c.firms)

AttentionTurns(c) ==
  TurnsOf({"menu", "selection"}, Alone(Readers(c))) \cup Solo("memory", Readers(c))

AssessmentTurns(c) ==
  IfTurns(~Scenario(c), Pair("valuation", c)) \cup Solo("liquidity", c.banks)
    \cup TurnsOf({"credit_review"}, Paired(c.banks, c.firms))

EngagementTurns(c) ==
  IfTurns(~Scenario(c), Pair("dialogue", c) \cup Pair("escalation", c) \cup Pair("intent", c)
                          \cup Solo("response", c.firms))

FinancingKinds == {"need", "loan_option", "bond_option", "capital_review", "path"}

ClosingTurns(c) ==
  Solo("investor_review", c.investors) \cup Solo("bank_review", c.banks)
    \cup Solo("attention_state", Readers(c)) \cup Pair("market_intent", c)
    \cup Solo("aggregated", c.firms) \cup Solo("market_pressure", c.firms)
    \cup TurnsOf(FinancingKinds, Alone(c.firms))

PlanTurns(c, k) ==
  ContextTurns(c, k) \cup AttentionTurns(c) \cup AssessmentTurns(c) \cup EngagementTurns(c)
    \cup ClosingTurns(c)

LEMMA CallHas ==
  ASSUME NEW c \in CallType
  PROVE  /\ c.firms \in Seq(Firms) /\ c.investors \in Seq(Investors) /\ c.banks \in Seq(Banks)
         /\ c.markets \in Seq(Markets) /\ c.dates \in Seq(Nat \ {0}) /\ c.dates # <<>>
         /\ c.profile \in Profiles /\ c.investors \in Seq(Investors \cup Banks)
         /\ c.banks \in Seq(Investors \cup Banks) /\ Readers(c) \in Seq(Investors \cup Banks)
         /\ \A x : x \in Alone(Readers(c)) <=> x \in Alone(c.investors) \/ x \in Alone(c.banks)
<1>1. /\ c.firms \in Seq(Firms) /\ c.investors \in Seq(Investors) /\ c.banks \in Seq(Banks)
      /\ c.markets \in Seq(Markets) /\ c.dates \in Seq(Nat \ {0}) /\ c.dates # <<>>
      /\ c.profile \in Profiles
  BY DEF CallType
<1>2. c.investors \in Seq(Investors \cup Banks) /\ c.banks \in Seq(Investors \cup Banks)
  BY <1>1
<1>3. /\ Readers(c) \in Seq(Investors \cup Banks)
      /\ \A a : Holds(Readers(c), a) <=> Holds(c.investors, a) \/ Holds(c.banks, a)
  BY <1>2, JoinedConcat, HoldsConcat DEF Readers
<1>4. \A s : \A x : x \in Alone(s) <=> \E a : Holds(s, a) /\ x = <<a>>
  BY DEF Alone, Holds
<1>5. \A x : x \in Alone(Readers(c)) <=> x \in Alone(c.investors) \/ x \in Alone(c.banks)
  <2>. TAKE x
  <2>1. x \in Alone(Readers(c)) <=> \E a : Holds(Readers(c), a) /\ x = <<a>>
    BY <1>4
  <2>2. x \in Alone(c.investors) <=> \E a : Holds(c.investors, a) /\ x = <<a>>
    BY <1>4
  <2>3. x \in Alone(c.banks) <=> \E a : Holds(c.banks, a) /\ x = <<a>>
    BY <1>4
  <2>. QED  BY ONLY <1>3, <2>1, <2>2, <2>3
<1>. QED  BY <1>1, <1>2, <1>3, <1>5

LEMMA IndustriesListed ==
  ASSUME NEW c \in CallType
  PROVE  IndustriesOf(c) \in Seq(Industries)
<1>. DEFINE S == {IndustryOf[f] : f \in ToSet(c.firms)}
<1>1. c.firms \in Seq(Firms)
  BY CallHas
<1>2. ToSet(c.firms) \subseteq Firms /\ S \subseteq Industries
  BY <1>1 DEF ToSet, Industries
<1>3. IsFiniteSet(S)
  <2>1. DOMAIN c.firms = 1..Len(c.firms) /\ Len(c.firms) \in Nat
    BY <1>1
  <2>2. IsFiniteSet(1..Len(c.firms))
    BY <2>1, FS_Interval
  <2>3. S = {IndustryOf[c.firms[n]] : n \in 1..Len(c.firms)}
    BY <2>1 DEF ToSet
  <2>. DEFINE I == 1..Len(c.firms)
              f == [n \in I |-> IndustryOf[c.firms[n]]]
  <2>4. f \in [I -> S] /\ \A x \in S : \E n \in I : f[n] = x
    BY <2>3
  <2>5. f \in Surjection(I, S)
    BY <2>4 DEF Surjection
  <2>. HIDE DEF I, f, S
  <2>. QED  BY <2>2, <2>5, FS_Surjection DEF I
<1>. HIDE DEF S
<1>4. Cardinality(S) \in Nat
  BY <1>3, FS_CardinalityType
<1>5. \E f \in [1..Cardinality(S) -> S] : IsInjective(f)
  <2>1. PICK n \in Nat : ExistsBijection(1..n, S)
    BY <1>3, FS_NatBijection
  <2>2. Cardinality(S) = n
    BY <2>1, FS_CountingElements
  <2>3. PICK f : f \in Bijection(1..Cardinality(S), S)
    BY <2>1, <2>2 DEF ExistsBijection
  <2>. QED  BY <2>3 DEF Bijection, Injection, Surjection, IsInjective
<1>6. SetToSeq(S) \in [1..Cardinality(S) -> S]
  BY <1>5 DEF SetToSeq
<1>7. SetToSeq(S) \in Seq(Industries)
  BY <1>2, <1>4, <1>6
<1>. QED  BY <1>7 DEF IndustriesOf, S

(* A record on a firm follows the firm's report.                            *)
LEMMA FirmAsks ==
  ASSUME NEW c, NEW K, K \subseteq OnFirm, NEW W, NEW H,
         Solo("report", c.firms) \subseteq H,
         \A who \in W : <<who[Len(who)]>> \in Alone(c.firms),
         \A x \in TurnsOf(K, W) : Besides(c, x) \subseteq H
  PROVE  AsksWithin(Asks(c), TurnsOf(K, W), H)
<1>1. SUFFICES ASSUME NEW x \in TurnsOf(K, W), NEW y, <<x, y>> \in Asks(c) PROVE y \in H
  BY DEF AsksWithin
<1>2. x.kind \in OnFirm /\ x.who \in W
  BY InTurnsOf
<1>3. TurnOf("report", <<x.who[Len(x.who)]>>) \in Solo("report", c.firms)
  BY <1>2, InTurnsOf DEF Solo
<1>. QED  BY <1>1, <1>2, <1>3, OnFirmAsks

LEMMA LastIsFirm ==
  ASSUME NEW s, NEW t
  PROVE  /\ \A who \in Alone(t) : <<who[Len(who)]>> \in Alone(t) /\ who[1] = who[Len(who)]
         /\ \A who \in Paired(s, t) : <<who[Len(who)]>> \in Alone(t) /\ <<who[1]>> \in Alone(s)
<1>1. \A a, b : Len(<<a>>) = 1 /\ <<a>>[1] = a /\ Len(<<a, b>>) = 2 /\ <<a, b>>[1] = a /\ <<a, b>>[2] = b
  OBVIOUS
<1>2. ASSUME NEW who \in Alone(t) PROVE <<who[Len(who)]>> \in Alone(t) /\ who[1] = who[Len(who)]
  <2>1. PICK i \in 1..Len(t) : who = <<t[i]>>
    BY DEF Alone
  <2>. QED  BY <1>1, <2>1
<1>3. ASSUME NEW who \in Paired(s, t) PROVE <<who[Len(who)]>> \in Alone(t) /\ <<who[1]>> \in Alone(s)
  <2>1. PICK i \in 1..Len(s), j \in 1..Len(t) : who = <<s[i], t[j]>>
    BY DEF Paired
  <2>2. who[Len(who)] = t[j] /\ who[1] = s[i]
    BY <1>1, <2>1
  <2>. QED  BY <2>2 DEF Alone
<1>. QED  BY <1>2, <1>3

LEMMA PlainBesides ==
  ASSUME NEW c, NEW K, NEW W, K \cap (Listed \cup Themed \cup {"response"}) = {}
  PROVE  \A x \in TurnsOf(K, W) : Besides(c, x) = {}
<1>. TAKE x \in TurnsOf(K, W)
<1>1. x.kind \notin Listed \cup Themed \cup {"response"}
  BY InTurnsOf
<1>. QED  BY <1>1 DEF Besides, Themed

LEMMA ReaderAsks ==
  ASSUME NEW c \in CallType, NEW kind \in ByReader, NEW actors, NEW H,
         \A who \in Alone(actors) : who \in Alone(Readers(c)),
         TurnsOf({"menu", "selection"}, Alone(Readers(c))) \subseteq H
  PROVE  AsksWithin(Asks(c), Solo(kind, actors), H)
<1>1. SUFFICES ASSUME NEW x \in Solo(kind, actors), NEW y, <<x, y>> \in Asks(c) PROVE y \in H
  BY DEF AsksWithin
<1>2. x.kind = kind /\ x.who \in Alone(actors) /\ x.who \in Alone(Readers(c)) /\ AsksFor(c, x, y)
  BY <1>1, InTurnsOf, AsksIs DEF Solo
<1>3. y = TurnOf("menu", <<x.who[1]>>)
  BY <1>2 DEF AsksFor, ByReader, OnFirm, Listed, Themed
<1>4. <<x.who[1]>> = x.who
  BY <1>2, LastIsFirm DEF Alone
<1>. QED  BY <1>2, <1>3, <1>4, InTurnsOf

LEMMA FreeSolo ==
  ASSUME NEW kind \in Free,
         NEW actors \in Seq(Firms \cup Investors \cup Banks \cup Markets \cup Industries), NEW c, NEW H
  PROVE  Plans(PerActor(<<kind>>, actors), Asks(c), H, Solo(kind, actors))
<1>1. kind \in Kinds /\ {kind} \subseteq Free
  BY DEF Kinds
<1>. QED  BY <1>1, FreeAsks, SoloPlans DEF Solo

LEMMA FreeOnce ==
  ASSUME NEW kind \in Free, NEW c, NEW H
  PROVE  Plans(Once(kind), Asks(c), H, Single(kind))
<1>1. kind \in Kinds /\ {kind} \subseteq Free
  BY DEF Kinds
<1>. QED  BY <1>1, FreeAsks, OncePlans DEF Single

(* One record that asks for one of the set-up.                              *)
LEMMA OnceAsking ==
  ASSUME NEW kind \in {"arrival", "scenario"}, NEW c, NEW H,
         TurnOf(IF kind = "arrival" THEN "calendar" ELSE "template", <<>>) \in H
  PROVE  Plans(Once(kind), Asks(c), H, Single(kind))
<1>1. AsksWithin(Asks(c), Single(kind), H)
  <2>1. SUFFICES ASSUME NEW x \in Single(kind), NEW y, <<x, y>> \in Asks(c) PROVE y \in H
    BY DEF AsksWithin
  <2>2. x.kind = kind /\ AsksFor(c, x, y)
    BY <2>1, InTurnsOf, AsksIs DEF Single
  <2>. QED  BY <2>2 DEF AsksFor, ByReader, OnFirm, Listed, Themed
<1>2. kind \in Kinds
  BY DEF Kinds
<1>. QED  BY <1>1, <1>2, OncePlans DEF Single

LEMMA FirmSolo ==
  ASSUME NEW c \in CallType, NEW kind \in OnFirm, NEW H, Solo("report", c.firms) \subseteq H,
         \A x \in Solo(kind, c.firms) : Besides(c, x) \subseteq H
  PROVE  Plans(PerActor(<<kind>>, c.firms), Asks(c), H, Solo(kind, c.firms))
<1>1. kind \in Kinds /\ {kind} \subseteq OnFirm
  BY DEF Kinds
<1>2. c.firms \in Seq(Firms \cup Investors \cup Banks \cup Markets \cup Industries)
  BY CallHas
<1>3. AsksWithin(Asks(c), Solo(kind, c.firms), H)
  BY <1>1, FirmAsks, LastIsFirm DEF Solo
<1>. QED  BY <1>1, <1>2, <1>3, SoloPlans DEF Solo

LEMMA FirmPair ==
  ASSUME NEW c \in CallType, NEW kind \in OnFirm, NEW H, Solo("report", c.firms) \subseteq H,
         \A x \in Pair(kind, c) : Besides(c, x) \subseteq H
  PROVE  Plans(PerPair(kind, c.investors, c.firms), Asks(c), H, Pair(kind, c))
<1>1. kind \in Kinds /\ {kind} \subseteq OnFirm
  BY DEF Kinds
<1>2. c.investors \in Seq(Investors \cup Banks) /\ c.firms \in Seq(Firms)
  BY CallHas
<1>3. AsksWithin(Asks(c), Pair(kind, c), H)
  BY <1>1, FirmAsks, LastIsFirm DEF Pair
<1>. QED  BY <1>1, <1>2, <1>3, PairPlans DEF Pair

LEMMA ReaderSolo ==
  ASSUME NEW c \in CallType, NEW kind \in ByReader, NEW actors \in Seq(Investors \cup Banks), NEW H,
         \A who \in Alone(actors) : who \in Alone(Readers(c)),
         TurnsOf({"menu", "selection"}, Alone(Readers(c))) \subseteq H
  PROVE  Plans(PerActor(<<kind>>, actors), Asks(c), H, Solo(kind, actors))
<1>1. kind \in Kinds
  BY DEF Kinds
<1>2. actors \in Seq(Firms \cup Investors \cup Banks \cup Markets \cup Industries)
  OBVIOUS
<1>3. AsksWithin(Asks(c), Solo(kind, actors), H)
  BY ReaderAsks
<1>. QED  BY <1>1, <1>2, <1>3, SoloPlans DEF Solo

(* What the records on a firm ask for besides the report.                   *)
LEMMA BesidesAre ==
  ASSUME NEW c
  PROVE  /\ \A kind \in OnFirm \ (Listed \cup Themed \cup {"response"}) :
              /\ \A x \in Solo(kind, c.firms) : Besides(c, x) = {}
              /\ \A x \in Pair(kind, c) : Besides(c, x) = {}
         /\ \A x \in TurnsOf(FinancingKinds, Alone(c.firms)) : Besides(c, x) = {}
         /\ \A kind \in {"dialogue", "escalation"} : \A x \in Pair(kind, c) :
              Besides(c, x) \subseteq Solo("theme", c.investors)
         /\ \A x \in Pair("intent", c) :
              Besides(c, x) \subseteq Solo("theme", c.investors) \cup Pair("escalation", c)
         /\ \A x \in Solo("response", c.firms) : Besides(c, x) \subseteq Solo("theme", c.investors)
         /\ \A x \in Pair("market_intent", c) :
              Besides(c, x) \subseteq Single("venue") \cup Solo("security", c.firms)
         /\ \A kind \in {"aggregated", "market_pressure"} : \A x \in Solo(kind, c.firms) :
              Besides(c, x) \subseteq Single("venue") \cup Solo("security", c.firms)
<1>1. /\ \A kind : \A x \in Solo(kind, c.firms) :
             x.kind = kind /\ x.who \in Alone(c.firms) /\ <<x.who[Len(x.who)]>> \in Alone(c.firms)
      /\ \A kind : \A x \in Pair(kind, c) :
             /\ x.kind = kind /\ x.who \in Paired(c.investors, c.firms)
             /\ <<x.who[Len(x.who)]>> \in Alone(c.firms) /\ <<x.who[1]>> \in Alone(c.investors)
  BY InTurnsOf, LastIsFirm DEF Solo, Pair
<1>2. /\ \A who \in Alone(c.firms) : TurnOf("security", who) \in Solo("security", c.firms)
      /\ \A who \in Alone(c.investors) : TurnOf("theme", who) \in Solo("theme", c.investors)
      /\ \A who \in Paired(c.investors, c.firms) : TurnOf("escalation", who) \in Pair("escalation", c)
      /\ TurnOf("venue", <<>>) \in Single("venue")
  BY InTurnsOf DEF Solo, Pair, Single
<1>3. \A x \in TurnsOf(FinancingKinds, Alone(c.firms)) : Besides(c, x) = {}
  BY PlainBesides DEF FinancingKinds, Listed, Themed
<1>4. \A kind \in OnFirm \ (Listed \cup Themed \cup {"response"}) :
        /\ \A x \in Solo(kind, c.firms) : Besides(c, x) = {}
        /\ \A x \in Pair(kind, c) : Besides(c, x) = {}
  <2>. TAKE kind \in OnFirm \ (Listed \cup Themed \cup {"response"})
  <2>1. {kind} \cap (Listed \cup Themed \cup {"response"}) = {}
    OBVIOUS
  <2>. QED  BY <2>1, PlainBesides DEF Solo, Pair
<1>5. \A kind \in {"dialogue", "escalation"} : \A x \in Pair(kind, c) :
        Besides(c, x) \subseteq Solo("theme", c.investors)
  <2>. TAKE kind \in {"dialogue", "escalation"}
  <2>. TAKE x \in Pair(kind, c)
  <2>1. x.kind = kind /\ TurnOf("theme", <<x.who[1]>>) \in Solo("theme", c.investors)
    BY <1>1, <1>2
  <2>. QED  BY <2>1 DEF Besides, Listed, Themed
<1>6. \A x \in Pair("intent", c) :
        Besides(c, x) \subseteq Solo("theme", c.investors) \cup Pair("escalation", c)
  <2>. TAKE x \in Pair("intent", c)
  <2>1. /\ x.kind = "intent" /\ TurnOf("theme", <<x.who[1]>>) \in Solo("theme", c.investors)
        /\ TurnOf("escalation", x.who) \in Pair("escalation", c)
    BY <1>1, <1>2
  <2>. QED  BY <2>1 DEF Besides, Listed, Themed
<1>7. \A x \in Solo("response", c.firms) : Besides(c, x) \subseteq Solo("theme", c.investors)
  BY <1>1 DEF Besides, Listed, Themed, Solo
<1>8. /\ \A x \in Pair("market_intent", c) :
           Besides(c, x) \subseteq Single("venue") \cup Solo("security", c.firms)
      /\ \A kind \in {"aggregated", "market_pressure"} : \A x \in Solo(kind, c.firms) :
           Besides(c, x) \subseteq Single("venue") \cup Solo("security", c.firms)
  BY <1>1, <1>2 DEF Besides, Listed, Themed
<1>. QED  BY <1>3, <1>4, <1>5, <1>6, <1>7, <1>8

LEMMA SetupPlans ==
  ASSUME NEW c \in CallType
  PROVE  Plans(SetupPlan(c), Asks(c), {}, SetupTurns(c))
<1>. DEFINE R == Asks(c)
            H == {}
            s1 == If(~Scenario(c), PerActor(<<"theme">>, c.investors))
            D1 == IfTurns(~Scenario(c), Solo("theme", c.investors))
            s2 == Once("venue")
            D2 == Single("venue")
            s3 == PerActor(<<"security">>, c.firms)
            D3 == Solo("security", c.firms)
            s4 == If(c.profile # "quarterly_default", Once("calendar"))
            D4 == IfTurns(c.profile # "quarterly_default", Single("calendar"))
            s5 == If(Scenario(c), Once("template"))
            D5 == IfTurns(Scenario(c), Single("template"))
<1>1. /\ c.firms \in Seq(Firms) /\ c.investors \in Seq(Investors) /\ c.banks \in Seq(Banks)
      /\ c.markets \in Seq(Markets)
      /\ c.firms \in Seq(Firms \cup Investors \cup Banks \cup Markets \cup Industries)
      /\ c.investors \in Seq(Firms \cup Investors \cup Banks \cup Markets \cup Industries)
      /\ c.banks \in Seq(Firms \cup Investors \cup Banks \cup Markets \cup Industries)
      /\ c.markets \in Seq(Firms \cup Investors \cup Banks \cup Markets \cup Industries)
  <2>1. /\ c.firms \in Seq(Firms) /\ c.investors \in Seq(Investors) /\ c.banks \in Seq(Banks)
        /\ c.markets \in Seq(Markets)
    BY CallHas
  <2>. QED  BY <2>1
<1>11. Plans(s1, R, H, D1)
  BY <1>1, FreeSolo, PlansIf DEF Free, IfTurns
<1>12. Plans(s2, R, H \cup D1, D2)
  BY FreeOnce DEF Free
<1>13. Plans(s3, R, H \cup (D1 \cup D2), D3)
  <2>1. AsksWithin(R, Solo("security", c.firms), H \cup (D1 \cup D2))
    <3>1. SUFFICES ASSUME NEW x \in Solo("security", c.firms), NEW y, <<x, y>> \in Asks(c)
                   PROVE  y \in D2
      BY DEF AsksWithin
    <3>2. x.kind = "security" /\ AsksFor(c, x, y)
      BY <3>1, InTurnsOf, AsksIs DEF Solo
    <3>3. y = TurnOf("venue", <<>>)
      BY <3>2 DEF AsksFor, ByReader, OnFirm, Listed, Themed
    <3>. QED  BY <3>3, InTurnsOf DEF Single
  <2>. QED  BY <1>1, <2>1, SoloPlans DEF Solo, Kinds
<1>14. Plans(s4, R, H \cup (D1 \cup D2 \cup D3), D4)
  BY FreeOnce, PlansIf DEF Free, IfTurns
<1>15. Plans(s5, R, H \cup (D1 \cup D2 \cup D3 \cup D4), D5)
  BY FreeOnce, PlansIf DEF Free, IfTurns, Scenario
<1>. HIDE DEF R, H, s1, D1, s2, D2, s3, D3, s4, D4, s5, D5
<1>32. Plans(s1 \o s2, R, H, D1 \cup D2)
  BY <1>11, <1>12, PlansConcat
<1>33. Plans(s1 \o s2 \o s3, R, H, D1 \cup D2 \cup D3)
  BY <1>32, <1>13, PlansConcat
<1>34. Plans(s1 \o s2 \o s3 \o s4, R, H, D1 \cup D2 \cup D3 \cup D4)
  BY <1>33, <1>14, PlansConcat
<1>35. Plans(s1 \o s2 \o s3 \o s4 \o s5, R, H, D1 \cup D2 \cup D3 \cup D4 \cup D5)
  BY <1>34, <1>15, PlansConcat
<1>. QED  BY <1>35 DEF SetupPlan, SetupTurns, R, H, s1, D1, s2, D2, s3, D3, s4, D4, s5, D5

LEMMA ContextPlans ==
  ASSUME NEW c \in CallType, NEW k
  PROVE  Plans(ContextPlan(c, k), Asks(c), SetupTurns(c), ContextTurns(c, k))
<1>. DEFINE R == Asks(c)
            H == SetupTurns(c)
            s1 == If(c.profile # "quarterly_default", Once("arrival"))
            D1 == IfTurns(c.profile # "quarterly_default", Single("arrival"))
            s2 == If(Scenario(c) /\ k = ScenarioPeriod, Once("scenario"))
            D2 == IfTurns(Scenario(c) /\ k = ScenarioPeriod, Single("scenario"))
            s3 == PerActor(<<"report">>, c.firms)
            D3 == Solo("report", c.firms)
            s4 == PerActor(<<"firm_pressure">>, c.firms)
            D4 == Solo("firm_pressure", c.firms)
            s5 == PerActor(<<"industry_condition">>, IndustriesOf(c))
            D5 == Solo("industry_condition", IndustriesOf(c))
            s6 == PerActor(<<"market_condition">>, c.markets)
            D6 == Solo("market_condition", c.markets)
            s7 == If(c.markets # <<>>, Once("readout") \o Once("environment"))
            D7 == IfTurns(c.markets # <<>>, Single("readout") \cup Single("environment"))
            s8 == PerActor(<<"firm_state">>, c.firms)
            D8 == Solo("firm_state", c.firms)
<1>1. /\ c.firms \in Seq(Firms) /\ c.investors \in Seq(Investors) /\ c.banks \in Seq(Banks)
      /\ c.markets \in Seq(Markets)
      /\ c.firms \in Seq(Firms \cup Investors \cup Banks \cup Markets \cup Industries)
      /\ c.investors \in Seq(Firms \cup Investors \cup Banks \cup Markets \cup Industries)
      /\ c.banks \in Seq(Firms \cup Investors \cup Banks \cup Markets \cup Industries)
      /\ c.markets \in Seq(Firms \cup Investors \cup Banks \cup Markets \cup Industries)
  <2>1. /\ c.firms \in Seq(Firms) /\ c.investors \in Seq(Investors) /\ c.banks \in Seq(Banks)
        /\ c.markets \in Seq(Markets)
    BY CallHas
  <2>. QED  BY <2>1
<1>11. Plans(s1, R, H, D1)
  <2>1. ASSUME c.profile # "quarterly_default" PROVE Plans(Once("arrival"), R, H, Single("arrival"))
    <3>1. TurnOf("calendar", <<>>) \in H
      BY <2>1, InTurnsOf DEF SetupTurns, IfTurns, Single
    <3>. QED  BY <3>1, OnceAsking
  <2>. QED  BY <2>1, PlansIf DEF IfTurns
<1>12. Plans(s2, R, H \cup D1, D2)
  <2>1. ASSUME Scenario(c) PROVE Plans(Once("scenario"), R, H \cup D1, Single("scenario"))
    <3>1. TurnOf("template", <<>>) \in H
      BY <2>1, InTurnsOf DEF SetupTurns, IfTurns, Single
    <3>. QED  BY <3>1, OnceAsking
  <2>. QED  BY <2>1, PlansIf DEF IfTurns, Scenario
<1>13. Plans(s3, R, H \cup (D1 \cup D2), D3)
  BY <1>1, FreeSolo DEF Free
<1>14. Plans(s4, R, H \cup (D1 \cup D2 \cup D3), D4)
  BY <1>1, FreeSolo DEF Free
<1>15. Plans(s5, R, H \cup (D1 \cup D2 \cup D3 \cup D4), D5)
  <2>1. IndustriesOf(c) \in Seq(Industries)
    BY IndustriesListed
  <2>2. IndustriesOf(c) \in Seq(Firms \cup Investors \cup Banks \cup Markets \cup Industries)
    BY <2>1
  <2>. QED  BY <2>2, FreeSolo DEF Free
<1>16. Plans(s6, R, H \cup (D1 \cup D2 \cup D3 \cup D4 \cup D5), D6)
  BY <1>1, FreeSolo DEF Free
<1>17. Plans(s7, R, H \cup (D1 \cup D2 \cup D3 \cup D4 \cup D5 \cup D6), D7)
  BY FreeOnce, PlansConcat, PlansIf DEF Free, IfTurns
<1>18. Plans(s8, R, H \cup (D1 \cup D2 \cup D3 \cup D4 \cup D5 \cup D6 \cup D7), D8)
  <2>1. \A x \in Solo("firm_state", c.firms) : Besides(c, x) = {}
    BY BesidesAre DEF OnFirm, Listed, Themed
  <2>. QED  BY <2>1, FirmSolo DEF OnFirm
<1>. HIDE DEF R, H, s1, D1, s2, D2, s3, D3, s4, D4, s5, D5, s6, D6, s7, D7, s8, D8
<1>32. Plans(s1 \o s2, R, H, D1 \cup D2)
  BY <1>11, <1>12, PlansConcat
<1>33. Plans(s1 \o s2 \o s3, R, H, D1 \cup D2 \cup D3)
  BY <1>32, <1>13, PlansConcat
<1>34. Plans(s1 \o s2 \o s3 \o s4, R, H, D1 \cup D2 \cup D3 \cup D4)
  BY <1>33, <1>14, PlansConcat
<1>35. Plans(s1 \o s2 \o s3 \o s4 \o s5, R, H, D1 \cup D2 \cup D3 \cup D4 \cup D5)
  BY <1>34, <1>15, PlansConcat
<1>36. Plans(s1 \o s2 \o s3 \o s4 \o s5 \o s6, R, H, D1 \cup D2 \cup D3 \cup D4 \cup D5 \cup D6)
  BY <1>35, <1>16, PlansConcat
<1>37. Plans(s1 \o s2 \o s3 \o s4 \o s5 \o s6 \o s7, R, H, D1 \cup D2 \cup D3 \cup D4 \cup D5 \cup D6 \cup D7)
  BY <1>36, <1>17, PlansConcat
<1>38. Plans(s1 \o s2 \o s3 \o s4 \o s5 \o s6 \o s7 \o s8, R, H, D1 \cup D2 \cup D3 \cup D4 \cup D5 \cup D6 \cup D7 \cup D8)
  BY <1>37, <1>18, PlansConcat
<1>. QED  BY <1>38 DEF ContextPlan, ContextTurns, IndustriesOf, R, H, s1, D1, s2, D2, s3, D3, s4, D4, s5, D5, s6, D6, s7, D7, s8, D8

LEMMA AttentionPlans ==
  ASSUME NEW c \in CallType, NEW H0
  PROVE  Plans(AttentionPlan(c), Asks(c), H0, AttentionTurns(c))
<1>. DEFINE R == Asks(c)
            H == H0
            s1 == PerActor(<<"menu", "selection">>, Readers(c))
            D1 == TurnsOf({"menu", "selection"}, Alone(Readers(c)))
            s2 == PerActor(<<"memory">>, Readers(c))
            D2 == Solo("memory", Readers(c))
<1>2. /\ Readers(c) \in Seq(Investors \cup Banks)
      /\ Readers(c) \in Seq(Firms \cup Investors \cup Banks \cup Markets \cup Industries)
  <2>1. Readers(c) \in Seq(Investors \cup Banks)
    BY CallHas
  <2>. QED  BY <2>1
<1>11. Plans(s1, R, H, D1)
  <2>. DEFINE kinds == <<"menu", "selection">>
  <2>1. kinds \in Seq(Kinds) /\ Len(kinds) = 2 /\ kinds[1] = "menu" /\ kinds[2] = "selection"
    BY DEF Kinds, Free
  <2>2. {kinds[j] : j \in 1..Len(kinds)} = {"menu", "selection"}
    <3>1. 1..2 = {1, 2}
      OBVIOUS
    <3>. HIDE DEF kinds
    <3>. QED  BY <2>1, <3>1
  <2>3. AsksWithin(R, D1, H)
    BY FreeAsks DEF Free
  <2>. HIDE DEF kinds
  <2>4. PerActor(kinds, Readers(c)) \in Seq(Turns) /\ \A x : Holds(PerActor(kinds, Readers(c)), x) <=> x \in D1
    BY <1>2, <2>1, <2>2, PerActorIs
  <2>. HIDE DEF D1
  <2>5. Plans(PerActor(kinds, Readers(c)), R, H, D1)
    BY <2>3, <2>4, PlansAlone DEF AsksWithin
  <2>. QED  BY <2>5 DEF kinds
<1>12. Plans(s2, R, H \cup D1, D2)
  BY <1>2, ReaderSolo DEF ByReader
<1>. HIDE DEF R, H, s1, D1, s2, D2
<1>32. Plans(s1 \o s2, R, H, D1 \cup D2)
  BY <1>11, <1>12, PlansConcat
<1>. QED  BY <1>32 DEF AttentionPlan, AttentionTurns, Readers, R, H, s1, D1, s2, D2

LEMMA AssessmentPlans ==
  ASSUME NEW c \in CallType, NEW H0, Solo("report", c.firms) \subseteq H0,
         TurnsOf({"menu", "selection"}, Alone(Readers(c))) \subseteq H0
  PROVE  Plans(AssessmentPlan(c), Asks(c), H0, AssessmentTurns(c))
<1>. DEFINE R == Asks(c)
            H == H0
            s1 == If(~Scenario(c), PerPair("valuation", c.investors, c.firms))
            D1 == IfTurns(~Scenario(c), Pair("valuation", c))
            s2 == PerActor(<<"liquidity">>, c.banks)
            D2 == Solo("liquidity", c.banks)
            s3 == PerPair("credit_review", c.banks, c.firms)
            D3 == TurnsOf({"credit_review"}, Paired(c.banks, c.firms))
<1>11. Plans(s1, R, H, D1)
  <2>1. \A x \in Pair("valuation", c) : Besides(c, x) = {}
    BY BesidesAre DEF OnFirm, Listed, Themed
  <2>2. Plans(PerPair("valuation", c.investors, c.firms), R, H, Pair("valuation", c))
    BY <2>1, FirmPair DEF OnFirm
  <2>. QED  BY <2>2, PlansIf DEF IfTurns
<1>12. Plans(s2, R, H \cup D1, D2)
  BY CallHas, ReaderSolo DEF ByReader
<1>13. Plans(s3, R, H \cup (D1 \cup D2), D3)
  BY CallHas, FreeAsks, PairPlans DEF Free, Kinds
<1>. HIDE DEF R, H, s1, D1, s2, D2, s3, D3
<1>32. Plans(s1 \o s2, R, H, D1 \cup D2)
  BY <1>11, <1>12, PlansConcat
<1>33. Plans(s1 \o s2 \o s3, R, H, D1 \cup D2 \cup D3)
  BY <1>32, <1>13, PlansConcat
<1>. QED  BY <1>33 DEF AssessmentPlan, AssessmentTurns, R, H, s1, D1, s2, D2, s3, D3

LEMMA EngagementPlans ==
  ASSUME NEW c \in CallType, NEW H0, Solo("report", c.firms) \subseteq H0,
         ~Scenario(c) => Solo("theme", c.investors) \subseteq H0
  PROVE  Plans(EngagementPlan(c), Asks(c), H0, EngagementTurns(c))
<1>. DEFINE R == Asks(c)
            H == H0
            s1 == PerPair("dialogue", c.investors, c.firms)
            D1 == Pair("dialogue", c)
            s2 == PerPair("escalation", c.investors, c.firms)
            D2 == Pair("escalation", c)
            s3 == PerPair("intent", c.investors, c.firms)
            D3 == Pair("intent", c)
            s4 == PerActor(<<"response">>, c.firms)
            D4 == Solo("response", c.firms)
<1>1. ASSUME ~Scenario(c)
      PROVE  Plans(s1 \o s2 \o s3 \o s4, R, H, D1 \cup D2 \cup D3 \cup D4)
  <2>1. H = H0 /\ Solo("theme", c.investors) \subseteq H
    BY <1>1
  <2>11. Plans(s1, R, H, D1)
    BY <2>1, BesidesAre, FirmPair DEF OnFirm
  <2>12. Plans(s2, R, H \cup D1, D2)
    <3>1. \A x \in Pair("escalation", c) : Besides(c, x) \subseteq H \cup D1
      BY <2>1, BesidesAre
    <3>2. Solo("report", c.firms) \subseteq H \cup D1
      OBVIOUS
    <3>. QED  BY <3>1, <3>2, FirmPair DEF OnFirm
  <2>13. Plans(s3, R, H \cup (D1 \cup D2), D3)
    <3>1. \A x \in Pair("intent", c) : Besides(c, x) \subseteq H \cup (D1 \cup D2)
      BY <2>1, BesidesAre
    <3>2. Solo("report", c.firms) \subseteq H \cup (D1 \cup D2)
      OBVIOUS
    <3>. QED  BY <3>1, <3>2, FirmPair DEF OnFirm
  <2>14. Plans(s4, R, H \cup (D1 \cup D2 \cup D3), D4)
    <3>1. \A x \in Solo("response", c.firms) : Besides(c, x) \subseteq H \cup (D1 \cup D2 \cup D3)
      BY <2>1, BesidesAre
    <3>2. Solo("report", c.firms) \subseteq H \cup (D1 \cup D2 \cup D3)
      OBVIOUS
    <3>. QED  BY <3>1, <3>2, FirmSolo DEF OnFirm
  <2>. HIDE DEF R, H, s1, D1, s2, D2, s3, D3, s4, D4
  <2>32. Plans(s1 \o s2, R, H, D1 \cup D2)
    BY <2>11, <2>12, PlansConcat
  <2>33. Plans(s1 \o s2 \o s3, R, H, D1 \cup D2 \cup D3)
    BY <2>32, <2>13, PlansConcat
  <2>34. Plans(s1 \o s2 \o s3 \o s4, R, H, D1 \cup D2 \cup D3 \cup D4)
    BY <2>33, <2>14, PlansConcat
  <2>. QED  BY <2>34
<1>. HIDE DEF s1, s2, s3, s4, D1, D2, D3, D4, R
<1>3. Plans(If(~Scenario(c), s1 \o s2 \o s3 \o s4), R, H, IF ~Scenario(c) THEN D1 \cup D2 \cup D3 \cup D4 ELSE {})
  BY <1>1, PlansIf
<1>. QED  BY <1>3 DEF EngagementPlan, EngagementTurns, IfTurns, R, H, s1, D1, s2, D2, s3, D3, s4, D4

LEMMA ClosingPlans ==
  ASSUME NEW c \in CallType, NEW H0, Solo("report", c.firms) \subseteq H0,
         TurnsOf({"menu", "selection"}, Alone(Readers(c))) \subseteq H0,
         Single("venue") \cup Solo("security", c.firms) \subseteq H0
  PROVE  Plans(ClosingPlan(c), Asks(c), H0, ClosingTurns(c))
<1>. DEFINE R == Asks(c)
            H == H0
            s1 == PerActor(<<"investor_review">>, c.investors)
            D1 == Solo("investor_review", c.investors)
            s2 == PerActor(<<"bank_review">>, c.banks)
            D2 == Solo("bank_review", c.banks)
            s3 == PerActor(<<"attention_state">>, Readers(c))
            D3 == Solo("attention_state", Readers(c))
            s4 == PerPair("market_intent", c.investors, c.firms)
            D4 == Pair("market_intent", c)
            s5 == PerActor(<<"aggregated">>, c.firms)
            D5 == Solo("aggregated", c.firms)
            s6 == PerActor(<<"market_pressure">>, c.firms)
            D6 == Solo("market_pressure", c.firms)
            s7 == PerActor(<<"need", "loan_option", "bond_option", "capital_review", "path">>, c.firms)
            D7 == TurnsOf(FinancingKinds, Alone(c.firms))
<1>1. /\ c.firms \in Seq(Firms) /\ c.investors \in Seq(Investors) /\ c.banks \in Seq(Banks)
      /\ c.markets \in Seq(Markets)
      /\ c.firms \in Seq(Firms \cup Investors \cup Banks \cup Markets \cup Industries)
      /\ c.investors \in Seq(Firms \cup Investors \cup Banks \cup Markets \cup Industries)
      /\ c.banks \in Seq(Firms \cup Investors \cup Banks \cup Markets \cup Industries)
      /\ c.markets \in Seq(Firms \cup Investors \cup Banks \cup Markets \cup Industries)
  <2>1. /\ c.firms \in Seq(Firms) /\ c.investors \in Seq(Investors) /\ c.banks \in Seq(Banks)
        /\ c.markets \in Seq(Markets)
    BY CallHas
  <2>. QED  BY <2>1
<1>11. Plans(s1, R, H, D1)
  BY <1>1, FreeSolo DEF Free
<1>12. Plans(s2, R, H \cup D1, D2)
  BY <1>1, FreeSolo DEF Free
<1>13. Plans(s3, R, H \cup (D1 \cup D2), D3)
  <2>1. TurnsOf({"menu", "selection"}, Alone(Readers(c))) \subseteq H \cup (D1 \cup D2)
    OBVIOUS
  <2>. QED  BY <2>1, CallHas, ReaderSolo DEF ByReader
<1>14. Plans(s4, R, H \cup (D1 \cup D2 \cup D3), D4)
  <2>1. Solo("report", c.firms) \subseteq H \cup (D1 \cup D2 \cup D3) /\ Single("venue") \cup Solo("security", c.firms) \subseteq H \cup (D1 \cup D2 \cup D3)
    OBVIOUS
  <2>2. \A x \in Pair("market_intent", c) : Besides(c, x) \subseteq H \cup (D1 \cup D2 \cup D3)
    BY <2>1, BesidesAre
  <2>. QED  BY <2>1, <2>2, FirmPair DEF OnFirm
<1>15. Plans(s5, R, H \cup (D1 \cup D2 \cup D3 \cup D4), D5)
  <2>1. Solo("report", c.firms) \subseteq H \cup (D1 \cup D2 \cup D3 \cup D4) /\ Single("venue") \cup Solo("security", c.firms) \subseteq H \cup (D1 \cup D2 \cup D3 \cup D4)
    OBVIOUS
  <2>2. \A x \in Solo("aggregated", c.firms) : Besides(c, x) \subseteq H \cup (D1 \cup D2 \cup D3 \cup D4)
    BY <2>1, BesidesAre
  <2>. QED  BY <2>1, <2>2, FirmSolo DEF OnFirm
<1>16. Plans(s6, R, H \cup (D1 \cup D2 \cup D3 \cup D4 \cup D5), D6)
  <2>1. Solo("report", c.firms) \subseteq H \cup (D1 \cup D2 \cup D3 \cup D4 \cup D5) /\ Single("venue") \cup Solo("security", c.firms) \subseteq H \cup (D1 \cup D2 \cup D3 \cup D4 \cup D5)
    OBVIOUS
  <2>2. \A x \in Solo("market_pressure", c.firms) : Besides(c, x) \subseteq H \cup (D1 \cup D2 \cup D3 \cup D4 \cup D5)
    BY <2>1, BesidesAre
  <2>. QED  BY <2>1, <2>2, FirmSolo DEF OnFirm
<1>17. Plans(s7, R, H \cup (D1 \cup D2 \cup D3 \cup D4 \cup D5 \cup D6), D7)
  <2>. DEFINE kinds == <<"need", "loan_option", "bond_option", "capital_review", "path">>
              G == H \cup (D1 \cup D2 \cup D3 \cup D4 \cup D5 \cup D6)
  <2>1. /\ kinds \in Seq(Kinds) /\ Len(kinds) = 5 /\ kinds[1] = "need" /\ kinds[2] = "loan_option"
        /\ kinds[3] = "bond_option" /\ kinds[4] = "capital_review" /\ kinds[5] = "path"
    BY DEF Kinds, OnFirm
  <2>2. {kinds[j] : j \in 1..Len(kinds)} = FinancingKinds
    <3>1. 1..5 = {1, 2, 3, 4, 5}
      OBVIOUS
    <3>. HIDE DEF kinds
    <3>. QED  BY <2>1, <3>1 DEF FinancingKinds
  <2>3. AsksWithin(R, D7, G)
    <3>1. /\ FinancingKinds \subseteq OnFirm /\ \A x \in D7 : Besides(c, x) \subseteq G
          /\ \A who \in Alone(c.firms) : <<who[Len(who)]>> \in Alone(c.firms)
      BY BesidesAre, LastIsFirm DEF FinancingKinds, OnFirm
    <3>2. Solo("report", c.firms) \subseteq G
      OBVIOUS
    <3>. QED  BY <3>1, <3>2, FirmAsks
  <2>. HIDE DEF kinds
  <2>4. PerActor(kinds, c.firms) \in Seq(Turns) /\ \A x : Holds(PerActor(kinds, c.firms), x) <=> x \in D7
    BY <1>1, <2>1, <2>2, PerActorIs
  <2>. HIDE DEF D7, G
  <2>5. Plans(PerActor(kinds, c.firms), R, G, D7)
    BY <2>3, <2>4, PlansAlone DEF AsksWithin
  <2>. QED  BY <2>5 DEF kinds, G
<1>. HIDE DEF R, H, s1, D1, s2, D2, s3, D3, s4, D4, s5, D5, s6, D6, s7, D7
<1>32. Plans(s1 \o s2, R, H, D1 \cup D2)
  BY <1>11, <1>12, PlansConcat
<1>33. Plans(s1 \o s2 \o s3, R, H, D1 \cup D2 \cup D3)
  BY <1>32, <1>13, PlansConcat
<1>34. Plans(s1 \o s2 \o s3 \o s4, R, H, D1 \cup D2 \cup D3 \cup D4)
  BY <1>33, <1>14, PlansConcat
<1>35. Plans(s1 \o s2 \o s3 \o s4 \o s5, R, H, D1 \cup D2 \cup D3 \cup D4 \cup D5)
  BY <1>34, <1>15, PlansConcat
<1>36. Plans(s1 \o s2 \o s3 \o s4 \o s5 \o s6, R, H, D1 \cup D2 \cup D3 \cup D4 \cup D5 \cup D6)
  BY <1>35, <1>16, PlansConcat
<1>37. Plans(s1 \o s2 \o s3 \o s4 \o s5 \o s6 \o s7, R, H, D1 \cup D2 \cup D3 \cup D4 \cup D5 \cup D6 \cup D7)
  BY <1>36, <1>17, PlansConcat
<1>. QED  BY <1>37 DEF ClosingPlan, ClosingTurns, Readers, R, H, s1, D1, s2, D2, s3, D3, s4, D4, s5, D5, s6, D6, s7, D7

(* The plan of a period writes PlanTurns and asks for nothing that is not    *)
(* written before, by the period itself or by the set-up.                   *)
LEMMA PeriodPlans ==
  ASSUME NEW c \in CallType, NEW k
  PROVE  Plans(Plan(c, k), Asks(c), SetupTurns(c), PlanTurns(c, k))
<1>. DEFINE R == Asks(c)
            H == SetupTurns(c)
            D1 == ContextTurns(c, k)
            D2 == AttentionTurns(c)
            D3 == AssessmentTurns(c)
            D4 == EngagementTurns(c)
            D5 == ClosingTurns(c)
<1>1. /\ Solo("report", c.firms) \subseteq D1
      /\ TurnsOf({"menu", "selection"}, Alone(Readers(c))) \subseteq D2
      /\ Single("venue") \cup Solo("security", c.firms) \subseteq H
      /\ ~Scenario(c) => Solo("theme", c.investors) \subseteq H
  BY DEF ContextTurns, AttentionTurns, SetupTurns, IfTurns
<1>11. Plans(ContextPlan(c, k), R, H, D1)
  BY ContextPlans
<1>12. Plans(AttentionPlan(c), R, H \cup D1, D2)
  BY AttentionPlans
<1>. HIDE DEF H, D1, D2, D3, D4, D5
<1>13. Plans(AssessmentPlan(c), R, H \cup (D1 \cup D2), D3)
  <2>1. /\ Solo("report", c.firms) \subseteq H \cup (D1 \cup D2)
        /\ TurnsOf({"menu", "selection"}, Alone(Readers(c))) \subseteq H \cup (D1 \cup D2)
    BY <1>1
  <2>. QED  BY <2>1, AssessmentPlans DEF D3
<1>14. Plans(EngagementPlan(c), R, H \cup (D1 \cup D2 \cup D3), D4)
  <2>1. /\ Solo("report", c.firms) \subseteq H \cup (D1 \cup D2 \cup D3)
        /\ ~Scenario(c) => Solo("theme", c.investors) \subseteq H \cup (D1 \cup D2 \cup D3)
    BY <1>1
  <2>. QED  BY <2>1, EngagementPlans DEF D4
<1>15. Plans(ClosingPlan(c), R, H \cup (D1 \cup D2 \cup D3 \cup D4), D5)
  <2>1. /\ Solo("report", c.firms) \subseteq H \cup (D1 \cup D2 \cup D3 \cup D4)
        /\ TurnsOf({"menu", "selection"}, Alone(Readers(c))) \subseteq H \cup (D1 \cup D2 \cup D3 \cup D4)
        /\ Single("venue") \cup Solo("security", c.firms) \subseteq H \cup (D1 \cup D2 \cup D3 \cup D4)
    BY <1>1
  <2>. QED  BY <2>1, ClosingPlans DEF D5
<1>. HIDE DEF R
<1>32. Plans(ContextPlan(c, k) \o AttentionPlan(c), R, H, D1 \cup D2)
  BY <1>11, <1>12, PlansConcat
<1>33. Plans(ContextPlan(c, k) \o AttentionPlan(c) \o AssessmentPlan(c), R, H, D1 \cup D2 \cup D3)
  BY <1>32, <1>13, PlansConcat
<1>34. Plans(ContextPlan(c, k) \o AttentionPlan(c) \o AssessmentPlan(c) \o EngagementPlan(c), R, H,
             D1 \cup D2 \cup D3 \cup D4)
  BY <1>33, <1>14, PlansConcat
<1>35. Plans(ContextPlan(c, k) \o AttentionPlan(c) \o AssessmentPlan(c) \o EngagementPlan(c) \o ClosingPlan(c),
             R, H, D1 \cup D2 \cup D3 \cup D4 \cup D5)
  BY <1>34, <1>15, PlansConcat
<1>. QED  BY <1>35 DEF Plan, PlanTurns, R, H, D1, D2, D3, D4, D5

(***************************************************************************)
(* The invariant                                                           *)
(***************************************************************************)
IdOf(x) == Id(x.kind, x.who)
OfThisCall == SetupTurns(call) \cup PlanTurns(call, period)

(* What has been written: of the set-up in any call, of a period by itself. *)
There == {x \in Turns : IF x.kind \in StandingKinds THEN IdOf(x) \in DOMAIN records ELSE IdOf(x) \in named}

CallIsTyped ==
  /\ Running => call \in CallType /\ period \in 1..Len(call.dates)
  /\ ~Running => todo = <<>> /\ named = {}
TodoIsPlan ==
  /\ todo \in Seq(Turns)
  /\ \A x : Holds(todo, x) => x \in OfThisCall
  /\ Before(todo, Asks(call), There)
NamedIsPlan ==
  /\ named \subseteq DOMAIN records
  /\ \A id \in named : \E x \in OfThisCall : id = IdOf(x)

(* What is not still to do has been done; an actor may have no memory.      *)
DoneOrDue ==
  /\ \A x \in SetupTurns(call) : Holds(todo, x) \/ IdOf(x) \in DOMAIN records
  /\ \A x \in PlanTurns(call, period) : x.kind # "memory" => Holds(todo, x) \/ IdOf(x) \in named

Previous ==
  IF period = 1 THEN {}
  ELSE [kind : {"market_pressure", "path"}, who : {<<f>> : f \in ToSet(call.firms)},
        date : {call.dates[period - 1]}]
PrevIsPrevious == prev = Previous /\ prev \subseteq DOMAIN records

(* A record that does not raise when it is there already comes with one that  *)
(* does, of the same call: the menu of its reader, or the report of its firm. *)
Guard(id) ==
  [kind |-> IF id.kind \in ByReader THEN "menu" ELSE "report",
   who |-> <<IF id.kind \in ByReader THEN id.who[1] ELSE id.who[Len(id.who)]>>,
   date |-> id.date]
GuardsOfOneCall ==
  \A id \in DOMAIN records :
    id.kind \in OnFirm \cup ByReader =>
      Guard(id) \in DOMAIN records /\ records[Guard(id)].by = records[id].by

(* Whose ids a record of a kind has in its own.                             *)
Fits(kind, who) ==
  /\ kind \in Kinds /\ who \in Whos
  /\ kind \in {"venue", "calendar", "template", "arrival", "scenario", "readout", "environment"} =>
       who = <<>>
  /\ kind \in {"security", "report", "firm_pressure", "firm_state", "response", "aggregated",
               "market_pressure"} \cup FinancingKinds => \E f \in Firms : who = <<f>>
  /\ kind \in {"theme", "investor_review"} => \E i \in Investors : who = <<i>>
  /\ kind \in {"liquidity", "bank_review"} => \E b \in Banks : who = <<b>>
  /\ kind \in {"menu", "selection", "memory", "attention_state"} =>
       \E a \in Investors \cup Banks : who = <<a>>
  /\ kind \in {"valuation", "dialogue", "escalation", "intent", "market_intent"} =>
       \E i \in Investors, f \in Firms : who = <<i, f>>
  /\ kind = "credit_review" => \E b \in Banks, f \in Firms : who = <<b, f>>
  /\ kind = "industry_condition" => \E x \in Industries : who = <<x>>
  /\ kind = "market_condition" => \E m \in Markets : who = <<m>>

IdIsTyped(id) ==
  /\ id = [kind |-> id.kind, who |-> id.who, date |-> id.date]
  /\ Fits(id.kind, id.who) /\ id.date \in Nat

(* What an id shares with another of a role is its own.                     *)
OwnActors(id, c) ==
  \A role \in {Investors, Banks, Firms} :
    /\ id.kind # "menu"
    /\ ActorsOf(id) \cap role # {}
    /\ role = Firms => id.kind \in FirmScoped
    => ActorsOf(c) \cap role \subseteq ActorsOf(id)

(* What a record may cite of a later date.                                  *)
MayBeLater(id, c) ==
  \/ c.kind = id.kind /\ c.kind \in {"firm_state", "attention_state"}
  \/ id.kind = "attention_state" /\ c.kind \in {"market_pressure", "path"}

CitesAreGood ==
  \A id \in DOMAIN records : \A c \in records[id].cites :
    /\ c \in DOMAIN records
    /\ OwnActors(id, c)
    /\ id.kind \notin StandingKinds /\ c.date > id.date => MayBeLater(id, c)

RecordsAreTyped == \A id \in DOMAIN records : IdIsTyped(id)

LivingInv ==
  /\ CallIsTyped
  /\ Running => TodoIsPlan /\ NamedIsPlan /\ DoneOrDue /\ PrevIsPrevious
  /\ PeriodIsOneCalls
  /\ GuardsOfOneCall
  /\ RecordsAreTyped
  /\ CitesAreGood

(* What a step that writes a record has to show of its citations.           *)
GoodCites(id, cites) ==
  /\ cites \subseteq DOMAIN records
  /\ \A c \in cites : OwnActors(id, c)
  /\ \A c \in cites : id.kind \notin StandingKinds /\ c.date > id.date =>
       \/ c.kind = id.kind /\ c.kind \in {"firm_state", "attention_state"}
       \/ id.kind = "attention_state" /\ c \in prev
  /\ id.kind = "attention_state" => {c \in cites : c.kind \in {"market_pressure", "path"}} = prev

(***************************************************************************)
(* The turns of a call, kind by kind                                       *)
(***************************************************************************)
LEMMA BeforeMore ==
  ASSUME NEW s, NEW R, NEW H, NEW G, Before(s, R, H), H \subseteq G
  PROVE  Before(s, R, G)
BY DEF Before

LEMMA WhosAre ==
  ASSUME NEW S, NEW T, NEW s \in Seq(S), NEW t \in Seq(T)
  PROVE  /\ \A who \in Alone(s) : \E a \in S : who = <<a>>
         /\ \A who \in Paired(s, t) : \E a \in S, b \in T : who = <<a, b>>
<1>1. \A i \in 1..Len(s) : s[i] \in S
  OBVIOUS
<1>2. \A i \in 1..Len(t) : t[i] \in T
  OBVIOUS
<1>. QED  BY <1>1, <1>2 DEF Alone, Paired

Bare == {"venue", "calendar", "template", "arrival", "scenario", "readout", "environment"}
OfFirm ==
  {"security", "report", "firm_pressure", "firm_state", "response", "aggregated",
   "market_pressure"} \cup FinancingKinds
OfReader == {"menu", "selection", "memory", "attention_state"}
OfPair == {"valuation", "dialogue", "escalation", "intent", "market_intent"}

(* The actors that the turns of a kind name.                                *)
NamesOfCall(c, x) ==
  /\ x.kind \in Bare => x.who = <<>>
  /\ x.kind \in OfFirm => x.who \in Alone(c.firms)
  /\ x.kind \in {"theme", "investor_review"} => x.who \in Alone(c.investors)
  /\ x.kind \in {"liquidity", "bank_review"} => x.who \in Alone(c.banks)
  /\ x.kind \in OfReader => x.who \in Alone(Readers(c))
  /\ x.kind \in OfPair => x.who \in Paired(c.investors, c.firms)
  /\ x.kind = "credit_review" => x.who \in Paired(c.banks, c.firms)
  /\ x.kind = "industry_condition" => x.who \in Alone(IndustriesOf(c))
  /\ x.kind = "market_condition" => x.who \in Alone(c.markets)

LEMMA TurnsAre ==
  ASSUME NEW c, NEW k, NEW x \in SetupTurns(c) \cup PlanTurns(c, k)
  PROVE  /\ x = TurnOf(x.kind, x.who) /\ x.kind \in Kinds /\ NamesOfCall(c, x)
         /\ x \in SetupTurns(c) <=> x.kind \in StandingKinds
<1>. DEFINE Good(K, W) == \A y \in TurnsOf(K, W) :
              y.kind \in K /\ y.who \in W /\ y = TurnOf(y.kind, y.who)
<1>1. \A K, W : Good(K, W)
  BY InTurnsOf
<1>2. ASSUME x \in SetupTurns(c)
      PROVE  /\ x = TurnOf(x.kind, x.who) /\ x.kind \in StandingKinds
             /\ x.kind = "theme" => x.who \in Alone(c.investors)
             /\ x.kind = "security" => x.who \in Alone(c.firms)
             /\ x.kind \notin {"theme", "security"} => x.who = <<>>
  BY <1>1, <1>2 DEF SetupTurns, IfTurns, Solo, Single, StandingKinds
<1>3. ASSUME x \in ContextTurns(c, k)
      PROVE  /\ x = TurnOf(x.kind, x.who)
             /\ \/ x.kind \in {"arrival", "scenario", "readout", "environment"} /\ x.who = <<>>
                \/ x.kind \in {"report", "firm_pressure", "firm_state"} /\ x.who \in Alone(c.firms)
                \/ x.kind = "industry_condition" /\ x.who \in Alone(IndustriesOf(c))
                \/ x.kind = "market_condition" /\ x.who \in Alone(c.markets)
  BY <1>1, <1>3 DEF ContextTurns, IfTurns, Solo, Single
<1>4. ASSUME x \in AttentionTurns(c)
      PROVE  /\ x = TurnOf(x.kind, x.who)
             /\ x.kind \in {"menu", "selection", "memory"} /\ x.who \in Alone(Readers(c))
  BY <1>1, <1>4 DEF AttentionTurns, Solo
<1>5. ASSUME x \in AssessmentTurns(c)
      PROVE  /\ x = TurnOf(x.kind, x.who)
             /\ \/ x.kind = "valuation" /\ x.who \in Paired(c.investors, c.firms)
                \/ x.kind = "liquidity" /\ x.who \in Alone(c.banks)
                \/ x.kind = "credit_review" /\ x.who \in Paired(c.banks, c.firms)
  BY <1>1, <1>5 DEF AssessmentTurns, IfTurns, Solo, Pair
<1>6. ASSUME x \in EngagementTurns(c)
      PROVE  /\ x = TurnOf(x.kind, x.who)
             /\ \/ x.kind \in {"dialogue", "escalation", "intent"} /\ x.who \in Paired(c.investors, c.firms)
                \/ x.kind = "response" /\ x.who \in Alone(c.firms)
  BY <1>1, <1>6 DEF EngagementTurns, IfTurns, Solo, Pair
<1>7. ASSUME x \in ClosingTurns(c)
      PROVE  /\ x = TurnOf(x.kind, x.who)
             /\ \/ x.kind = "investor_review" /\ x.who \in Alone(c.investors)
                \/ x.kind = "bank_review" /\ x.who \in Alone(c.banks)
                \/ x.kind = "attention_state" /\ x.who \in Alone(Readers(c))
                \/ x.kind = "market_intent" /\ x.who \in Paired(c.investors, c.firms)
                \/ x.kind \in {"aggregated", "market_pressure"} \cup FinancingKinds /\ x.who \in Alone(c.firms)
  BY <1>1, <1>7 DEF ClosingTurns, Solo, Pair
<1>. HIDE DEF Good
<1>8. x \in SetupTurns(c) \/ x \in ContextTurns(c, k) \/ x \in AttentionTurns(c)
        \/ x \in AssessmentTurns(c) \/ x \in EngagementTurns(c) \/ x \in ClosingTurns(c)
  BY DEF PlanTurns
<1>9. x.kind \in Kinds
  BY <1>2, <1>3, <1>4, <1>5, <1>6, <1>7, <1>8 DEF Kinds, Free, OnFirm, ByReader, StandingKinds, FinancingKinds
<1>10. NamesOfCall(c, x)
  BY <1>2, <1>3, <1>4, <1>5, <1>6, <1>7, <1>8
    DEF NamesOfCall, Bare, OfFirm, OfReader, OfPair, StandingKinds, FinancingKinds
<1>11. x = TurnOf(x.kind, x.who)
  BY <1>2, <1>3, <1>4, <1>5, <1>6, <1>7, <1>8
<1>12. x \in SetupTurns(c) <=> x.kind \in StandingKinds
  BY <1>2, <1>3, <1>4, <1>5, <1>6, <1>7, <1>8 DEF StandingKinds, FinancingKinds
<1>. QED  BY <1>9, <1>10, <1>11, <1>12

LEMMA TurnsFit ==
  ASSUME NEW c \in CallType, NEW k, NEW x \in SetupTurns(c) \cup PlanTurns(c, k)
  PROVE  Fits(x.kind, x.who) /\ x \in Turns
<1>1. x = TurnOf(x.kind, x.who) /\ x.kind \in Kinds /\ NamesOfCall(c, x)
  BY TurnsAre
<1>2. /\ c.firms \in Seq(Firms) /\ c.investors \in Seq(Investors) /\ c.banks \in Seq(Banks)
      /\ c.markets \in Seq(Markets) /\ Readers(c) \in Seq(Investors \cup Banks)
      /\ IndustriesOf(c) \in Seq(Industries)
  BY CallHas, IndustriesListed
<1>3. /\ \A who \in Alone(c.firms) : \E a \in Firms : who = <<a>>
      /\ \A who \in Alone(c.investors) : \E a \in Investors : who = <<a>>
      /\ \A who \in Alone(c.banks) : \E a \in Banks : who = <<a>>
      /\ \A who \in Alone(Readers(c)) : \E a \in Investors \cup Banks : who = <<a>>
      /\ \A who \in Alone(c.markets) : \E a \in Markets : who = <<a>>
      /\ \A who \in Alone(IndustriesOf(c)) : \E a \in Industries : who = <<a>>
      /\ \A who \in Paired(c.investors, c.firms) : \E a \in Investors, b \in Firms : who = <<a, b>>
      /\ \A who \in Paired(c.banks, c.firms) : \E a \in Banks, b \in Firms : who = <<a, b>>
  BY <1>2, WhosAre
<1>4. x.kind \in Bare \cup OfFirm \cup {"theme", "investor_review", "liquidity", "bank_review"}
                   \cup OfReader \cup OfPair \cup {"credit_review", "industry_condition", "market_condition"}
  BY <1>1 DEF Kinds, Free, OnFirm, ByReader, Bare, OfFirm, OfReader, OfPair, FinancingKinds
<1>. DEFINE A == Firms \cup Investors \cup Banks \cup Markets \cup Industries
<1>5. \A a \in A : <<a>> \in Seq(A)
  OBVIOUS
<1>6. \A a, b \in A : <<a, b>> \in Seq(A)
  OBVIOUS
<1>7. <<>> \in Seq(A)
  OBVIOUS
<1>8. Firms \subseteq A /\ Investors \subseteq A /\ Banks \subseteq A /\ Markets \subseteq A /\ Industries \subseteq A
  OBVIOUS
<1>. HIDE DEF A
<1>9. x.who \in Seq(A)
  <2>1. x.who = <<>> \/ (\E a \in A : x.who = <<a>>) \/ (\E a, b \in A : x.who = <<a, b>>)
    <3>1. CASE x.kind \in Bare \cup OfFirm \cup {"theme", "investor_review", "liquidity", "bank_review"}
      BY <1>1, <1>3, <1>8, <3>1 DEF NamesOfCall
    <3>2. CASE x.kind \in OfReader \cup {"industry_condition", "market_condition"}
      BY <1>1, <1>3, <1>8, <3>2 DEF NamesOfCall
    <3>3. CASE x.kind \in OfPair \cup {"credit_review"}
      BY <1>1, <1>3, <1>8, <3>3 DEF NamesOfCall
    <3>. QED  BY <1>4, <3>1, <3>2, <3>3
  <2>. QED  BY <1>5, <1>6, <1>7, <2>1
<1>10. x.who \in Whos
  BY <1>9 DEF Whos, A
<1>11. Fits(x.kind, x.who)
  BY <1>1, <1>3, <1>10 DEF Fits, NamesOfCall, Bare, OfFirm, OfReader, OfPair
<1>. QED  BY <1>1, <1>10, <1>11 DEF Turns, TurnOf

(* A turn's dates are of its call.                                          *)
LEMMA DatesOf ==
  ASSUME NEW c \in CallType, NEW k \in 1..Len(c.dates)
  PROVE  c.dates[k] \in Nat \ {0} /\ Len(c.dates) \in Nat /\ Len(c.dates) >= 1
<1>1. c.dates \in Seq(Nat \ {0}) /\ c.dates # <<>>
  BY CallHas
<1>. QED  BY <1>1

(***************************************************************************)
(* Between the records                                                     *)
(***************************************************************************)
LEMMA LivingInit == Init => LivingInv
<1>. SUFFICES ASSUME Init PROVE LivingInv
  OBVIOUS
<1>1. records = <<>> /\ call = Idle /\ todo = <<>> /\ named = {}
  BY DEF Init
<1>2. DOMAIN records = {}
  BY <1>1
<1>. QED
  BY <1>1, <1>2 DEF LivingInv, CallIsTyped, Running, PeriodIsOneCalls, GuardsOfOneCall,
    RecordsAreTyped, CitesAreGood

(* What the steps that store nothing leave as it is.                        *)
BooksAreGood == GuardsOfOneCall /\ RecordsAreTyped /\ CitesAreGood

LEMMA BooksKept ==
  ASSUME BooksAreGood, UNCHANGED records
  PROVE  BooksAreGood'
BY DEF BooksAreGood, GuardsOfOneCall, RecordsAreTyped, CitesAreGood

(* Nothing is named any more: the period or the call begins.                *)
LEMMA NothingNamed ==
  ASSUME named' = {}
  PROVE  PeriodIsOneCalls' /\ NamedIsPlan'
BY DEF PeriodIsOneCalls, NamedIsPlan

LEMMA EndHolds ==
  ASSUME LivingInv, EndCall
  PROVE  LivingInv'
<1>1. call' = Idle /\ todo' = <<>> /\ named' = {} /\ UNCHANGED records
  BY DEF EndCall
<1>2. BooksAreGood'
  BY <1>1, BooksKept DEF LivingInv, BooksAreGood
<1>. QED
  BY <1>1, <1>2, NothingNamed DEF LivingInv, BooksAreGood, CallIsTyped, Running

(* Of the set-up only this matters: it is in the books.                     *)
LEMMA SetupIsThere ==
  ASSUME NEW c, \A x \in SetupTurns(c) : IdOf(x) \in DOMAIN records, c \in CallType
  PROVE  SetupTurns(c) \subseteq There
<1>1. SUFFICES ASSUME NEW x \in SetupTurns(c) PROVE x \in There
  OBVIOUS
<1>2. x \in Turns /\ x.kind \in StandingKinds
  BY TurnsFit, TurnsAre
<1>. QED  BY <1>2 DEF There

LEMMA StartHolds ==
  ASSUME LivingInv, StartCall
  PROVE  LivingInv'
<1>1. PICK c \in Calls : call' = c /\ period' = 1 /\ todo' = SetupPlan(c) \o Plan(c, 1)
  BY DEF StartCall
<1>2. named' = {} /\ prev' = {} /\ UNCHANGED records
  BY DEF StartCall
<1>3. c \in CallType
  BY CallAssumption
<1>4. Plans(SetupPlan(c) \o Plan(c, 1), Asks(c), {}, SetupTurns(c) \cup PlanTurns(c, 1))
  <2>1. Plans(SetupPlan(c), Asks(c), {}, SetupTurns(c))
    BY <1>3, SetupPlans
  <2>2. Plans(Plan(c, 1), Asks(c), {} \cup SetupTurns(c), PlanTurns(c, 1))
    <3>1. {} \cup SetupTurns(c) = SetupTurns(c)
      OBVIOUS
    <3>. QED  BY <1>3, <3>1, PeriodPlans
  <2>. QED  BY <2>1, <2>2, PlansConcat
<1>5. TodoIsPlan'
  <2>1. todo' \in Seq(Turns) /\ \A x : Holds(todo', x) => x \in OfThisCall'
    BY <1>1, <1>4 DEF Plans, OfThisCall
  <2>2. Before(todo', Asks(call'), There')
    BY <1>1, <1>4, BeforeMore DEF Plans
  <2>. QED  BY <2>1, <2>2 DEF TodoIsPlan
<1>6. DoneOrDue'
  BY <1>1, <1>4 DEF Plans, DoneOrDue
<1>7. PrevIsPrevious'
  BY <1>1, <1>2 DEF PrevIsPrevious, Previous
<1>8. CallIsTyped'
  <2>1. period' \in 1..Len(c.dates)
    <3>1. c.dates \in Seq(Nat \ {0}) /\ c.dates # <<>>
      BY <1>3, CallHas
    <3>. QED  BY <1>1, <3>1
  <2>2. Running'
    <3>1. DOMAIN c = {"firms", "investors", "banks", "dates", "markets", "profile", "refused"}
      BY <1>3 DEF CallType
    <3>2. DOMAIN Idle = {"profile"}
      BY DEF Idle
    <3>. QED  BY <1>1, <3>1, <3>2 DEF Running
  <2>. QED  BY <1>1, <1>3, <2>1, <2>2 DEF CallIsTyped
<1>9. BooksAreGood'
  BY <1>2, BooksKept DEF LivingInv, BooksAreGood
<1>. QED  BY <1>2, <1>5, <1>6, <1>7, <1>8, <1>9, NothingNamed DEF LivingInv, BooksAreGood

(* Nothing is left to do: what the period writes for the next is all there. *)
LEMMA NextPeriodHolds ==
  ASSUME LivingInv, NextPeriod
  PROVE  LivingInv'
<1>1. /\ Running /\ todo = <<>> /\ period < Len(call.dates)
      /\ period' = period + 1 /\ todo' = Plan(call, period + 1) /\ named' = {}
      /\ prev' = Named({"market_pressure", "path"}) /\ UNCHANGED <<records, call, calls>>
  BY DEF NextPeriod
<1>2. call \in CallType /\ period \in 1..Len(call.dates)
  BY <1>1 DEF LivingInv, CallIsTyped
<1>3. Plans(Plan(call, period + 1), Asks(call), SetupTurns(call), PlanTurns(call, period + 1))
  BY <1>2, PeriodPlans
<1>4. \A x : ~Holds(todo, x)
  <2>1. Len(<<>>) = 0 /\ 1..0 = {}
    OBVIOUS
  <2>. QED  BY <1>1, <2>1 DEF Holds
<1>5. \A x \in SetupTurns(call) : IdOf(x) \in DOMAIN records /\ x.kind \in StandingKinds
  BY <1>1, <1>4, TurnsAre DEF LivingInv, DoneOrDue
<1>6. \A x \in SetupTurns(call) : IdOf(x)' = IdOf(x)
  BY <1>5 DEF IdOf, Id
<1>7. TodoIsPlan'
  <2>1. \A x \in SetupTurns(call) : IdOf(x)' \in DOMAIN records'
    BY <1>1, <1>5, <1>6
  <2>2. SetupTurns(call) \subseteq There'
    <3>1. SUFFICES ASSUME NEW x \in SetupTurns(call) PROVE x \in There'
      OBVIOUS
    <3>2. x \in Turns /\ x.kind \in StandingKinds
      BY <1>2, TurnsFit, TurnsAre
    <3>. QED  BY <2>1, <3>2 DEF There
  <2>3. Before(todo', Asks(call'), There')
    BY <1>1, <1>3, <2>2, BeforeMore DEF Plans
  <2>4. todo' \in Seq(Turns) /\ \A x : Holds(todo', x) => x \in OfThisCall'
    BY <1>1, <1>3 DEF Plans, OfThisCall
  <2>. QED  BY <2>3, <2>4 DEF TodoIsPlan
<1>8. DoneOrDue'
  <2>1. \A x \in SetupTurns(call') : IdOf(x)' \in DOMAIN records'
    BY <1>1, <1>5, <1>6
  <2>2. \A x \in PlanTurns(call', period') : Holds(todo', x)
    BY <1>1, <1>3 DEF Plans
  <2>. QED  BY <2>1, <2>2 DEF DoneOrDue
<1>9. PrevIsPrevious'
  <2>. DEFINE K == {"market_pressure", "path"}
              P == [kind : K, who : {<<f>> : f \in ToSet(call.firms)}, date : {call.dates[period]}]
  <2>1. \A who : who \in Alone(call.firms) <=> \E f \in ToSet(call.firms) : who = <<f>>
    <3>1. call.firms \in Seq(Firms)
      BY <1>2, CallHas
    <3>2. DOMAIN call.firms = 1..Len(call.firms)
      BY <3>1
    <3>. QED  BY <3>2 DEF Alone, ToSet
  <2>2. ASSUME NEW id \in named, id.kind \in K PROVE id \in P
    <3>1. PICK x \in OfThisCall : id = IdOf(x)
      BY <1>1 DEF LivingInv, NamedIsPlan
    <3>2. id.kind = x.kind /\ id.who = x.who /\ id = [kind |-> x.kind, who |-> x.who, date |-> call.dates[period]]
      BY <2>2, <3>1 DEF IdOf, Id, Today, StandingKinds
    <3>3. x.who \in Alone(call.firms)
      <4>1. NamesOfCall(call, x)
        BY <3>1, TurnsAre DEF OfThisCall
      <4>. QED  BY <2>2, <3>2, <4>1 DEF NamesOfCall, OfFirm, FinancingKinds
    <3>4. PICK f \in ToSet(call.firms) : x.who = <<f>>
      BY <2>1, <3>3
    <3>. QED  BY <2>2, <3>2, <3>4
  <2>3. ASSUME NEW id \in P PROVE id \in named /\ id.kind \in K
    <3>. DEFINE x == TurnOf(id.kind, id.who)
    <3>1. /\ id.kind \in K /\ id.date = call.dates[period]
          /\ id = [kind |-> id.kind, who |-> id.who, date |-> id.date]
          /\ \E f \in ToSet(call.firms) : id.who = <<f>>
      OBVIOUS
    <3>2. id.who \in Alone(call.firms)
      BY <2>1, <3>1
    <3>3. x \in PlanTurns(call, period)
      <4>1. x \in Solo("market_pressure", call.firms) \cup TurnsOf(FinancingKinds, Alone(call.firms))
        BY <3>1, <3>2, InTurnsOf DEF Solo, FinancingKinds
      <4>. QED  BY <4>1 DEF PlanTurns, ClosingTurns
    <3>4. x.kind = id.kind /\ x.who = id.who
      BY DEF TurnOf
    <3>5. IdOf(x) \in named
      BY <1>1, <1>4, <3>1, <3>3, <3>4 DEF LivingInv, DoneOrDue
    <3>6. IdOf(x) = id
      BY <3>1, <3>4 DEF IdOf, Id, Today, StandingKinds
    <3>. QED  BY <3>1, <3>5, <3>6
  <2>. HIDE DEF P
  <2>4. prev' = P
    BY <1>1, <2>2, <2>3 DEF Named
  <2>5. period' # 1 /\ period' - 1 = period /\ call' = call
    BY <1>1, <1>2
  <2>6. Previous' = P
    BY <2>5 DEF Previous, P
  <2>7. prev' \subseteq DOMAIN records'
    BY <1>1 DEF LivingInv, NamedIsPlan, Named
  <2>. QED  BY <2>4, <2>6, <2>7 DEF PrevIsPrevious
<1>10. CallIsTyped' /\ Running'
  <2>1. Len(call.dates) \in Nat
    BY <1>2, DatesOf
  <2>2. period' \in 1..Len(call.dates)
    BY <1>1, <1>2, <2>1
  <2>. QED  BY <1>1, <1>2, <2>2 DEF CallIsTyped, Running
<1>11. BooksAreGood'
  BY <1>1, BooksKept DEF LivingInv, BooksAreGood
<1>. QED  BY <1>1, <1>7, <1>8, <1>9, <1>10, <1>11, NothingNamed DEF LivingInv, BooksAreGood

(***************************************************************************)
(* One record                                                              *)
(***************************************************************************)
(* The turn at hand, and what stands before it.                             *)
LEMMA TurnIs ==
  ASSUME LivingInv, Running, todo # <<>>
  PROVE  /\ call \in CallType /\ period \in 1..Len(call.dates) /\ Today \in Nat \ {0}
         /\ Turn \in OfThisCall /\ Turn \in Turns /\ Fits(Turn.kind, Turn.who)
         /\ NamesOfCall(call, Turn)
         /\ TurnId = [kind |-> Turn.kind, who |-> Turn.who,
                      date |-> IF Turn.kind \in StandingKinds THEN 0 ELSE Today]
         /\ IdIsTyped(TurnId)
         /\ \A y : <<Turn, y>> \in Asks(call) => y \in There
<1>1. call \in CallType /\ period \in 1..Len(call.dates)
  BY DEF LivingInv, CallIsTyped
<1>2. Today \in Nat \ {0}
  BY <1>1, DatesOf DEF Today
<1>3. Turn \in OfThisCall
  <2>1. todo \in Seq(Turns) /\ Before(todo, Asks(call), There)
    BY DEF LivingInv, TodoIsPlan
  <2>2. Holds(todo, Turn)
    BY <2>1, BeforeTail DEF Turn
  <2>. QED  BY <2>2 DEF LivingInv, TodoIsPlan
<1>4. Turn \in Turns /\ Fits(Turn.kind, Turn.who) /\ NamesOfCall(call, Turn)
  BY <1>1, <1>3, TurnsFit, TurnsAre DEF OfThisCall
<1>5. \A y : <<Turn, y>> \in Asks(call) => y \in There
  <2>1. todo \in Seq(Turns) /\ Before(todo, Asks(call), There)
    BY DEF LivingInv, TodoIsPlan
  <2>. QED  BY <2>1, BeforeTail DEF Turn
<1>6. TurnId = [kind |-> Turn.kind, who |-> Turn.who,
                date |-> IF Turn.kind \in StandingKinds THEN 0 ELSE Today]
  BY DEF TurnId, Id
<1>7. IdIsTyped(TurnId)
  BY <1>2, <1>4, <1>6 DEF IdIsTyped
<1>. QED  BY <1>1, <1>2, <1>3, <1>4, <1>5, <1>6, <1>7

(* What one record asks of another, as ids.                                 *)
LEMMA AskedIsThere ==
  ASSUME LivingInv, Running, todo # <<>>, NEW kind \in Kinds, NEW who \in Whos,
         AsksFor(call, Turn, TurnOf(kind, who))
  PROVE  IF kind \in StandingKinds THEN Id(kind, who) \in DOMAIN records ELSE Id(kind, who) \in named
<1>. DEFINE y == TurnOf(kind, who)
<1>1. y \in Turns /\ y.kind = kind /\ y.who = who
  BY DEF TurnOf, Turns
<1>2. Turn \in Turns /\ \A z : <<Turn, z>> \in Asks(call) => z \in There
  BY TurnIs
<1>3. AsksFor(call, Turn, y)
  OBVIOUS
<1>. HIDE DEF y
<1>4. y \in There
  BY <1>1, <1>2, <1>3, AsksIs
<1>. QED  BY <1>1, <1>4 DEF There, IdOf

(* The record whose duplicate would have raised.                            *)
LEMMA GuardIsNamed ==
  ASSUME LivingInv, Running, todo # <<>>, Turn.kind \in OnFirm \cup ByReader
  PROVE  Guard(TurnId) \in named /\ records[Guard(TurnId)].by = calls
<1>1. /\ Fits(Turn.kind, Turn.who) /\ call \in CallType
      /\ TurnId = [kind |-> Turn.kind, who |-> Turn.who, date |-> Today]
  <2>1. Turn.kind \notin StandingKinds
    BY DEF OnFirm, ByReader, StandingKinds
  <2>. QED  BY <2>1, TurnIs
<1>. DEFINE kind == IF Turn.kind \in ByReader THEN "menu" ELSE "report"
            own == IF Turn.kind \in ByReader THEN Turn.who[1] ELSE Turn.who[Len(Turn.who)]
<1>2. own \in Investors \cup Banks \cup Firms
  <2>1. CASE Turn.kind \in ByReader
    <3>1. \E a \in Investors \cup Banks : Turn.who = <<a>>
      BY <1>1, <2>1 DEF Fits, ByReader
    <3>. QED  BY <2>1, <3>1
  <2>2. CASE Turn.kind \notin ByReader
    <3>1. (\E f \in Firms : Turn.who = <<f>>) \/ \E i \in Investors, f \in Firms : Turn.who = <<i, f>>
      BY <1>1, <2>2 DEF Fits, OnFirm, FinancingKinds
    <3>2. Turn.who[Len(Turn.who)] \in Firms
      <4>1. \A f : Len(<<f>>) = 1 /\ <<f>>[1] = f
        OBVIOUS
      <4>2. \A i, f : Len(<<i, f>>) = 2 /\ <<i, f>>[2] = f
        OBVIOUS
      <4>3. CASE \E f \in Firms : Turn.who = <<f>>
        BY <4>1, <4>3
      <4>4. CASE \E i \in Investors, f \in Firms : Turn.who = <<i, f>>
        BY <4>2, <4>4
      <4>. QED  BY <3>1, <4>3, <4>4
    <3>. QED  BY <2>2, <3>2
  <2>. QED  BY <2>1, <2>2
<1>3. <<own>> \in Whos
  <2>. DEFINE A == Firms \cup Investors \cup Banks \cup Markets \cup Industries
  <2>1. own \in A
    BY <1>2
  <2>. HIDE DEF own, A
  <2>2. <<own>> \in Seq(A)
    BY <2>1
  <2>. QED  BY <2>2 DEF Whos, A
<1>4. AsksFor(call, Turn, TurnOf(kind, <<own>>))
  BY DEF AsksFor, OnFirm, ByReader
<1>5. kind \in Kinds /\ kind \notin StandingKinds /\ kind \notin Shared
  BY DEF Kinds, Free, StandingKinds, Shared
<1>6. Guard(TurnId) = Id(kind, <<own>>)
  BY <1>1, <1>5 DEF Guard, Id
<1>7. (Guard(TurnId)).kind = kind
  BY <1>6 DEF Id
<1>. HIDE DEF kind, own
<1>8. Guard(TurnId) \in named
  BY <1>3, <1>4, <1>5, <1>6, AskedIsThere
<1>. QED  BY <1>5, <1>7, <1>8 DEF LivingInv, PeriodIsOneCalls

LEMMA AddIs ==
  ASSUME NEW cites, Add(cites)
  PROVE  /\ DOMAIN records' = {TurnId} \cup DOMAIN records
         /\ \A id \in DOMAIN records : records'[id] = records[id]
         /\ TurnId \notin DOMAIN records =>
              records'[TurnId].by = calls /\ records'[TurnId].cites = cites
         /\ TurnId \in DOMAIN records => Turn.kind \notin Raising
         /\ named' = named \cup {TurnId} /\ todo' = Tail(todo)
         /\ UNCHANGED <<call, period, prev, calls>>
<1>1. CASE TurnId \in DOMAIN records
  <2>1. records' = records /\ {TurnId} \cup DOMAIN records = DOMAIN records
    BY <1>1 DEF Add
  <2>. QED  BY <1>1, <2>1 DEF Add
<1>2. CASE TurnId \notin DOMAIN records
  <2>1. records' = [id \in {TurnId} \cup DOMAIN records |->
                      IF id = TurnId
                        THEN [at |-> Cardinality(DOMAIN records), by |-> calls, cites |-> cites]
                        ELSE records[id]]
    BY <1>2 DEF Add
  <2>2. DOMAIN records' = {TurnId} \cup DOMAIN records
    BY <2>1
  <2>3. \A id \in DOMAIN records : records'[id] = records[id]
    BY <1>2, <2>1
  <2>4. records'[TurnId] = [at |-> Cardinality(DOMAIN records), by |-> calls, cites |-> cites]
    BY <2>1
  <2>. QED  BY <1>2, <2>2, <2>3, <2>4 DEF Add
<1>. QED  BY <1>1, <1>2

LEMMA PrevKinds ==
  ASSUME PrevIsPrevious
  PROVE  \A p \in prev : p.kind \in {"market_pressure", "path"} /\ p \in DOMAIN records
                         /\ \E f \in ToSet(call.firms) : p.who = <<f>>
<1>1. CASE period = 1
  BY <1>1 DEF PrevIsPrevious, Previous
<1>2. CASE period # 1
  <2>. DEFINE W == {<<f>> : f \in ToSet(call.firms)}
              D == {call.dates[period - 1]}
  <2>1. prev = [kind : {"market_pressure", "path"}, who : W, date : D] /\ prev \subseteq DOMAIN records
    BY <1>2 DEF PrevIsPrevious, Previous
  <2>2. \A w \in W : \E f \in ToSet(call.firms) : w = <<f>>
    OBVIOUS
  <2>. HIDE DEF W, D
  <2>3. \A p \in prev : p.kind \in {"market_pressure", "path"} /\ p.who \in W
    BY <2>1
  <2>. QED  BY <2>1, <2>2, <2>3
<1>. QED  BY <1>1, <1>2

LEMMA AddHolds ==
  ASSUME LivingInv, Running, todo # <<>>, NEW cites, Add(cites), GoodCites(TurnId, cites)
  PROVE  LivingInv'
<1>1. /\ DOMAIN records' = {TurnId} \cup DOMAIN records
      /\ \A id \in DOMAIN records : records'[id] = records[id]
      /\ TurnId \notin DOMAIN records => records'[TurnId].by = calls /\ records'[TurnId].cites = cites
      /\ TurnId \in DOMAIN records => Turn.kind \notin Raising
      /\ named' = named \cup {TurnId} /\ todo' = Tail(todo)
      /\ UNCHANGED <<call, period, prev, calls>>
  BY AddIs
<1>2. /\ call \in CallType /\ period \in 1..Len(call.dates)
      /\ Turn \in OfThisCall /\ Turn \in Turns /\ Turn.kind \in Kinds
      /\ TurnId = IdOf(Turn) /\ TurnId.kind = Turn.kind /\ TurnId.who = Turn.who
      /\ IdIsTyped(TurnId)
  <2>1. TurnId = IdOf(Turn)
    BY DEF TurnId, IdOf
  <2>2. Turn.kind \in Kinds
    BY TurnIs DEF Fits
  <2>. QED  BY <2>1, <2>2, TurnIs
<1>3. CallIsTyped' /\ Running'
  BY <1>1 DEF LivingInv, CallIsTyped, Running
<1>4. \A x : IdOf(x)' = IdOf(x)
  BY <1>1 DEF IdOf, Id, Today
<1>5. /\ Tail(todo) \in Seq(Turns)
      /\ Before(Tail(todo), Asks(call), There \cup {Turn})
      /\ \A x : Holds(todo, x) <=> x = Turn \/ Holds(Tail(todo), x)
  <2>1. todo \in Seq(Turns) /\ Before(todo, Asks(call), There)
    BY DEF LivingInv, TodoIsPlan
  <2>. QED  BY <2>1, BeforeTail DEF Turn
<1>6. TodoIsPlan'
  <2>1. There \cup {Turn} \subseteq There'
    <3>1. SUFFICES ASSUME NEW x \in There \cup {Turn} PROVE x \in There'
      OBVIOUS
    <3>2. x \in Turns
      BY <1>2 DEF There
    <3>3. IF x.kind \in StandingKinds THEN IdOf(x) \in DOMAIN records' ELSE IdOf(x) \in named'
      BY <1>1, <1>2 DEF There
    <3>. QED  BY <1>4, <3>2, <3>3 DEF There
  <2>2. Before(todo', Asks(call'), There')
    BY <1>1, <1>5, <2>1, BeforeMore
  <2>3. \A x : Holds(todo', x) => x \in OfThisCall'
    BY <1>1, <1>5 DEF LivingInv, TodoIsPlan, OfThisCall
  <2>. QED  BY <1>1, <1>5, <2>2, <2>3 DEF TodoIsPlan
<1>7. NamedIsPlan'
  <2>1. OfThisCall' = OfThisCall
    BY <1>1 DEF OfThisCall
  <2>2. named' \subseteq DOMAIN records'
    BY <1>1 DEF LivingInv, NamedIsPlan
  <2>3. \A id \in named' : \E x \in OfThisCall' : id = IdOf(x)'
    BY <1>1, <1>2, <1>4, <2>1 DEF LivingInv, NamedIsPlan
  <2>. QED  BY <2>2, <2>3 DEF NamedIsPlan
<1>8. DoneOrDue'
  <2>1. \A x \in SetupTurns(call') : Holds(todo', x) \/ IdOf(x)' \in DOMAIN records'
    BY <1>1, <1>2, <1>4, <1>5 DEF LivingInv, DoneOrDue
  <2>2. \A x \in PlanTurns(call', period') : x.kind # "memory" => Holds(todo', x) \/ IdOf(x)' \in named'
    BY <1>1, <1>2, <1>4, <1>5 DEF LivingInv, DoneOrDue
  <2>. QED  BY <2>1, <2>2 DEF DoneOrDue
<1>9. PrevIsPrevious'
  BY <1>1 DEF LivingInv, PrevIsPrevious, Previous
<1>10. ASSUME Turn.kind \in OnFirm \cup ByReader
       PROVE  Guard(TurnId) \in DOMAIN records /\ records[Guard(TurnId)].by = calls
  BY <1>10, GuardIsNamed DEF LivingInv, NamedIsPlan
<1>11. PeriodIsOneCalls'
  <2>1. ASSUME Turn.kind \notin Shared PROVE records'[TurnId].by = calls
    <3>1. CASE TurnId \notin DOMAIN records
      BY <1>1, <3>1
    <3>2. CASE TurnId \in DOMAIN records
      <4>1. Turn.kind \notin Raising
        BY <1>1, <3>2
      <4>2. Turn.kind \in OnFirm \cup ByReader
        BY <1>2, <2>1, <4>1 DEF Kinds, Free, Shared, Raising, StandingKinds
      <4>3. records[TurnId].by = calls
        BY <1>2, <1>10, <3>2, <4>2 DEF LivingInv, GuardsOfOneCall
      <4>. QED  BY <1>1, <3>2, <4>3
    <3>. QED  BY <3>1, <3>2
  <2>2. \A id \in named : id.kind \notin Shared => records'[id].by = calls
    BY <1>1 DEF LivingInv, PeriodIsOneCalls, NamedIsPlan
  <2>. QED  BY <1>1, <1>2, <2>1, <2>2 DEF PeriodIsOneCalls
<1>12. GuardsOfOneCall'
  <2>1. SUFFICES ASSUME NEW id \in DOMAIN records', id.kind \in OnFirm \cup ByReader
                 PROVE  Guard(id) \in DOMAIN records' /\ records'[Guard(id)].by = records'[id].by
    BY DEF GuardsOfOneCall
  <2>2. CASE id \in DOMAIN records
    BY <1>1, <2>1, <2>2 DEF LivingInv, GuardsOfOneCall
  <2>3. CASE id \notin DOMAIN records
    BY <1>1, <1>2, <1>10, <2>1, <2>3
  <2>. QED  BY <2>2, <2>3
<1>13. RecordsAreTyped'
  BY <1>1, <1>2 DEF LivingInv, RecordsAreTyped, IdIsTyped
<1>14. CitesAreGood'
  <2>1. SUFFICES ASSUME NEW id \in DOMAIN records', NEW c \in records'[id].cites
                 PROVE  /\ c \in DOMAIN records' /\ OwnActors(id, c)
                        /\ id.kind \notin StandingKinds /\ c.date > id.date => MayBeLater(id, c)
    BY DEF CitesAreGood
  <2>2. CASE id \in DOMAIN records
    BY <1>1, <2>1, <2>2 DEF LivingInv, CitesAreGood
  <2>3. CASE id \notin DOMAIN records
    <3>1. id = TurnId /\ c \in cites
      BY <1>1, <2>1, <2>3
    <3>2. \A p \in prev : p.kind \in {"market_pressure", "path"}
      BY PrevKinds DEF LivingInv
    <3>. QED  BY <1>1, <3>1, <3>2 DEF GoodCites, MayBeLater
  <2>. QED  BY <2>2, <2>3
<1>. QED
  BY <1>3, <1>6, <1>7, <1>8, <1>9, <1>11, <1>12, <1>13, <1>14 DEF LivingInv

LEMMA NothingToRecallHolds ==
  ASSUME LivingInv, NothingToRecall
  PROVE  LivingInv'
<1>1. /\ Running /\ todo # <<>> /\ Turn.kind = "memory" /\ todo' = Tail(todo)
      /\ UNCHANGED <<records, call, period, named, prev, calls>>
  BY DEF NothingToRecall, Doing
<1>2. Turn \in OfThisCall /\ Turn \in Turns
  BY <1>1, TurnIs
<1>3. \A x : IdOf(x)' = IdOf(x)
  BY <1>1 DEF IdOf, Id, Today
<1>4. /\ Tail(todo) \in Seq(Turns)
      /\ Before(Tail(todo), Asks(call), There \cup {Turn})
      /\ \A x : Holds(todo, x) <=> x = Turn \/ Holds(Tail(todo), x)
  <2>1. todo \in Seq(Turns) /\ Before(todo, Asks(call), There)
    BY <1>1 DEF LivingInv, TodoIsPlan
  <2>. QED  BY <1>1, <2>1, BeforeTail DEF Turn
<1>5. TodoIsPlan'
  <2>1. \A x \in Turns : <<x, Turn>> \notin Asks(call)
    BY <1>1, AsksIs DEF AsksFor, TurnOf
  <2>2. Before(Tail(todo), Asks(call), There)
    <3>1. \A n \in 1..Len(Tail(todo)) : Tail(todo)[n] \in Turns
      BY <1>4
    <3>. QED  BY <1>4, <2>1, <3>1 DEF Before
  <2>3. There' = There
    BY <1>1, <1>3 DEF There
  <2>4. \A x : Holds(todo', x) => x \in OfThisCall'
    BY <1>1, <1>4 DEF LivingInv, TodoIsPlan, OfThisCall
  <2>. QED  BY <1>1, <1>4, <2>2, <2>3, <2>4 DEF TodoIsPlan
<1>6. NamedIsPlan'
  BY <1>1, <1>3 DEF LivingInv, NamedIsPlan, OfThisCall
<1>7. DoneOrDue'
  <2>1. Turn \notin SetupTurns(call)
    BY <1>1, TurnsAre DEF StandingKinds
  <2>. QED  BY <1>1, <1>3, <1>4, <2>1 DEF LivingInv, DoneOrDue
<1>8. PrevIsPrevious' /\ CallIsTyped' /\ PeriodIsOneCalls' /\ Running'
  BY <1>1 DEF LivingInv, PrevIsPrevious, Previous, CallIsTyped, PeriodIsOneCalls, Running
<1>9. BooksAreGood'
  BY <1>1, BooksKept DEF LivingInv, BooksAreGood
<1>. QED  BY <1>5, <1>6, <1>7, <1>8, <1>9 DEF LivingInv, BooksAreGood

(***************************************************************************)
(* Whose records a turn may cite                                           *)
(***************************************************************************)
OfActor == OfReader \cup {"theme", "investor_review", "liquidity", "bank_review"}
Pairs == OfPair \cup {"credit_review"}

Owned(x, c) ==
  \/ c.kind \in Bare
  \/ c.kind \in OfFirm /\ (x.kind \in FirmScoped => c.who = <<x.who[Len(x.who)]>>)
  \/ c.kind = "industry_condition" /\ x.kind \in {"firm_state", "response", "environment"}
  \/ c.kind = "market_condition" /\ x.kind \notin FirmScoped
  \/ c.kind \in OfActor /\ (c.who = <<x.who[1]>> \/ x.kind \in OfFirm \cup Bare)
  \/ /\ c.kind \in Pairs
     /\ c.who[1] = x.who[1] \/ x.kind \in OfFirm \cup Bare \/ (x.kind = "credit_review" /\ c.kind \in OfPair)
     /\ x.kind \in FirmScoped => c.who[2] = x.who[Len(x.who)]

LEMMA ActorsAre ==
  ASSUME NEW id
  PROVE  /\ id.who = <<>> => ActorsOf(id) = {}
         /\ \A a : id.who = <<a>> => ActorsOf(id) = {a} /\ id.who[1] = a /\ id.who[Len(id.who)] = a
         /\ \A a, b : id.who = <<a, b>> =>
              ActorsOf(id) = {a, b} /\ id.who[1] = a /\ id.who[2] = b /\ id.who[Len(id.who)] = b
<1>1. id.who = <<>> => ActorsOf(id) = {}
  <2>1. DOMAIN <<>> = {}
    OBVIOUS
  <2>. QED  BY <2>1 DEF ActorsOf
<1>2. ASSUME NEW a, id.who = <<a>> PROVE ActorsOf(id) = {a} /\ id.who[1] = a /\ id.who[Len(id.who)] = a
  <2>1. DOMAIN <<a>> = {1} /\ <<a>>[1] = a /\ Len(<<a>>) = 1
    OBVIOUS
  <2>. QED  BY <1>2, <2>1 DEF ActorsOf
<1>3. ASSUME NEW a, NEW b, id.who = <<a, b>>
      PROVE  ActorsOf(id) = {a, b} /\ id.who[1] = a /\ id.who[2] = b /\ id.who[Len(id.who)] = b
  <2>1. DOMAIN <<a, b>> = {1, 2} /\ <<a, b>>[1] = a /\ <<a, b>>[2] = b /\ Len(<<a, b>>) = 2
    OBVIOUS
  <2>. QED  BY <1>3, <2>1 DEF ActorsOf
<1>. QED  BY <1>1, <1>2, <1>3

(* The shape of an id, by kind.                                             *)
LEMMA FitsIs ==
  ASSUME NEW id, Fits(id.kind, id.who)
  PROVE  /\ id.kind \in Kinds
         /\ id.kind \in Bare => ActorsOf(id) = {}
         /\ id.kind \in OfFirm =>
              \E f \in Firms : id.who = <<f>> /\ ActorsOf(id) = {f} /\ id.who[1] = f /\ id.who[Len(id.who)] = f
         /\ id.kind \in OfActor =>
              \E a \in Investors \cup Banks :
                id.who = <<a>> /\ ActorsOf(id) = {a} /\ id.who[1] = a /\ id.who[Len(id.who)] = a
         /\ id.kind \in Pairs =>
              \E a \in Investors \cup Banks, f \in Firms :
                 /\ id.who = <<a, f>> /\ ActorsOf(id) = {a, f} /\ id.who[1] = a /\ id.who[2] = f
                 /\ id.who[Len(id.who)] = f
                 /\ a \in IF id.kind = "credit_review" THEN Banks ELSE Investors
         /\ id.kind = "industry_condition" => \E x \in Industries : id.who = <<x>> /\ ActorsOf(id) = {x}
         /\ id.kind = "market_condition" => \E m \in Markets : id.who = <<m>> /\ ActorsOf(id) = {m}
         /\ id.kind \in Bare \cup OfFirm \cup OfActor \cup Pairs \cup {"industry_condition", "market_condition"}
<1>1. id.kind \in Kinds
  BY DEF Fits
<1>2. id.kind \in Bare => ActorsOf(id) = {}
  BY ActorsAre DEF Fits, Bare
<1>3. ASSUME id.kind \in OfFirm
      PROVE \E f \in Firms : id.who = <<f>> /\ ActorsOf(id) = {f} /\ id.who[1] = f /\ id.who[Len(id.who)] = f
  <2>1. \E f \in Firms : id.who = <<f>>
    BY <1>3 DEF Fits, OfFirm
  <2>. QED  BY <2>1, ActorsAre
<1>4. ASSUME id.kind \in OfActor
      PROVE  \E a \in Investors \cup Banks :
                id.who = <<a>> /\ ActorsOf(id) = {a} /\ id.who[1] = a /\ id.who[Len(id.who)] = a
  <2>1. \E a \in Investors \cup Banks : id.who = <<a>>
    BY <1>4 DEF Fits, OfActor, OfReader
  <2>. QED  BY <2>1, ActorsAre
<1>5. ASSUME id.kind \in Pairs
      PROVE  \E a \in Investors \cup Banks, f \in Firms :
                 /\ id.who = <<a, f>> /\ ActorsOf(id) = {a, f} /\ id.who[1] = a /\ id.who[2] = f
                 /\ id.who[Len(id.who)] = f
                 /\ a \in IF id.kind = "credit_review" THEN Banks ELSE Investors
  <2>1. CASE id.kind = "credit_review"
    <3>1. \E a \in Banks, f \in Firms : id.who = <<a, f>>
      BY <2>1 DEF Fits
    <3>. QED  BY <2>1, <3>1, ActorsAre
  <2>2. CASE id.kind # "credit_review"
    <3>1. \E a \in Investors, f \in Firms : id.who = <<a, f>>
      BY <1>5, <2>2 DEF Fits, Pairs, OfPair
    <3>. QED  BY <2>2, <3>1, ActorsAre
  <2>. QED  BY <2>1, <2>2
<1>6. ASSUME id.kind = "industry_condition" PROVE \E x \in Industries : id.who = <<x>> /\ ActorsOf(id) = {x}
  <2>1. \E x \in Industries : id.who = <<x>>
    BY <1>6 DEF Fits
  <2>. QED  BY <2>1, ActorsAre
<1>7. ASSUME id.kind = "market_condition" PROVE \E m \in Markets : id.who = <<m>> /\ ActorsOf(id) = {m}
  <2>1. \E m \in Markets : id.who = <<m>>
    BY <1>7 DEF Fits
  <2>. QED  BY <2>1, ActorsAre
<1>8. id.kind \in Bare \cup OfFirm \cup OfActor \cup Pairs \cup {"industry_condition", "market_condition"}
  BY <1>1 DEF Kinds, Free, OnFirm, ByReader, Bare, OfFirm, OfActor, OfReader, Pairs, OfPair, FinancingKinds
<1>. QED  BY <1>1, <1>2, <1>3, <1>4, <1>5, <1>6, <1>7, <1>8

(* The three roles, one by one.                                             *)
LEMMA OwnByRole ==
  ASSUME NEW id, NEW c,
         ActorsOf(id) \cap Investors # {} => ActorsOf(c) \cap Investors \subseteq ActorsOf(id),
         ActorsOf(id) \cap Banks # {} => ActorsOf(c) \cap Banks \subseteq ActorsOf(id),
         id.kind \in FirmScoped => ActorsOf(c) \cap Firms \subseteq ActorsOf(id)
  PROVE  OwnActors(id, c)
<1>1. SUFFICES ASSUME NEW role \in {Investors, Banks, Firms}, id.kind # "menu", ActorsOf(id) \cap role # {},
                      role = Firms => id.kind \in FirmScoped
               PROVE  ActorsOf(c) \cap role \subseteq ActorsOf(id)
  BY DEF OwnActors
<1>2. CASE role = Investors
  BY <1>1, <1>2
<1>3. CASE role = Banks
  BY <1>1, <1>3
<1>4. CASE role = Firms
  BY <1>1, <1>4
<1>. QED  BY <1>2, <1>3, <1>4

LEMMA OwnedIsOwn ==
  ASSUME NEW id, NEW c, Fits(id.kind, id.who), Fits(c.kind, c.who), Owned(id, c)
  PROVE  OwnActors(id, c)
<1>. DEFINE A == ActorsOf(id)
            C == ActorsOf(c)
<1>1. /\ Firms \cap (Investors \cup Banks) = {} /\ Investors \cap Banks = {}
      /\ Markets \cap (Investors \cup Banks) = {}
  BY ActorsAssumption
<1>2. /\ id.kind \in OfFirm \cup Bare => A \subseteq Firms
      /\ id.kind \in FirmScoped => id.who[Len(id.who)] \in A
  <2>1. FirmScoped \subseteq OfFirm \cup Pairs
    BY DEF FirmScoped, OfFirm, Pairs, OfPair, FinancingKinds
  <2>. QED  BY <2>1, FitsIs
<1>3. CASE c.kind \in Bare
  <2>1. C = {}
    BY <1>3, FitsIs
  <2>. QED  BY <2>1, OwnByRole
<1>4. CASE c.kind \in OfFirm /\ (id.kind \in FirmScoped => c.who = <<id.who[Len(id.who)]>>)
  <2>1. \E f \in Firms : c.who = <<f>> /\ C = {f}
    BY <1>4, FitsIs
  <2>2. id.kind \in FirmScoped => C \subseteq A
    <3>1. id.kind \in FirmScoped => C = {id.who[Len(id.who)]}
      BY <1>4, ActorsAre
    <3>. QED  BY <1>2, <3>1
  <2>. QED  BY <1>1, <2>1, <2>2, OwnByRole
<1>5. CASE c.kind = "industry_condition" /\ id.kind \in {"firm_state", "response", "environment"}
  <2>1. A \subseteq Firms /\ id.kind \notin FirmScoped
    BY <1>2, <1>5 DEF OfFirm, Bare, FirmScoped
  <2>. QED  BY <1>1, <2>1, OwnByRole
<1>6. CASE c.kind = "market_condition" /\ id.kind \notin FirmScoped
  <2>1. \E m \in Markets : C = {m}
    BY <1>6, FitsIs
  <2>. QED  BY <1>1, <1>6, <2>1, OwnByRole
<1>7. CASE c.kind \in OfActor /\ (c.who = <<id.who[1]>> \/ id.kind \in OfFirm \cup Bare)
  <2>1. PICK a \in Investors \cup Banks : c.who = <<a>> /\ C = {a} /\ c.who[1] = a
    BY <1>7, FitsIs
  <2>2. CASE id.kind \in OfFirm \cup Bare
    BY <1>1, <1>2, <2>1, <2>2, OwnByRole
  <2>3. CASE c.who = <<id.who[1]>> /\ id.kind \notin OfFirm \cup Bare
    <3>1. id.who[1] = a
      BY <2>1, <2>3
    <3>2. a \in A
      <4>1. CASE id.kind \in OfActor \cup Pairs
        BY <3>1, <4>1, FitsIs
      <4>2. CASE id.kind \notin OfActor \cup Pairs
        <5>1. (\E x \in Industries : id.who = <<x>> /\ A = {x}) \/ \E m \in Markets : id.who = <<m>> /\ A = {m}
          BY <2>3, <4>2, FitsIs
        <5>. QED  BY <3>1, <5>1, ActorsAre
      <4>. QED  BY <4>1, <4>2
    <3>. QED  BY <2>1, <3>2, OwnByRole
  <2>. QED  BY <1>7, <2>2, <2>3
<1>8. CASE /\ c.kind \in Pairs
           /\ c.who[1] = id.who[1] \/ id.kind \in OfFirm \cup Bare \/ (id.kind = "credit_review" /\ c.kind \in OfPair)
           /\ id.kind \in FirmScoped => c.who[2] = id.who[Len(id.who)]
  <2>1. PICK a \in Investors \cup Banks, f \in Firms :
           /\ c.who = <<a, f>> /\ C = {a, f} /\ c.who[1] = a /\ c.who[2] = f
           /\ a \in IF c.kind = "credit_review" THEN Banks ELSE Investors
    BY <1>8, FitsIs
  <2>2. id.kind \in FirmScoped => f \in A
    BY <1>2, <1>8, <2>1
  <2>3. CASE id.kind \in OfFirm \cup Bare
    BY <1>1, <1>2, <2>1, <2>2, <2>3, OwnByRole
  <2>4. CASE id.kind = "credit_review" /\ c.kind \in OfPair
    <3>1. a \in Investors
      BY <2>1, <2>4 DEF OfPair
    <3>2. A \cap Investors = {}
      <4>1. \E b \in Banks, g \in Firms : A = {b, g}
        BY <2>4, FitsIs DEF Pairs
      <4>. QED  BY <1>1, <4>1
    <3>3. C \cap Banks = {} /\ id.kind \notin FirmScoped
      BY <1>1, <2>1, <2>4, <3>1 DEF FirmScoped
    <3>. QED  BY <3>2, <3>3, OwnByRole
  <2>5. CASE c.who[1] = id.who[1] /\ id.kind \notin OfFirm \cup Bare
    <3>1. id.who[1] = a
      BY <2>1, <2>5
    <3>2. a \in A
      <4>1. CASE id.kind \in OfActor \cup Pairs
        BY <3>1, <4>1, FitsIs
      <4>2. CASE id.kind \notin OfActor \cup Pairs
        <5>1. (\E x \in Industries : id.who = <<x>> /\ A = {x}) \/ \E m \in Markets : id.who = <<m>> /\ A = {m}
          BY <2>5, <4>2, FitsIs
        <5>. QED  BY <3>1, <5>1, ActorsAre
      <4>. QED  BY <4>1, <4>2
    <3>3. C \cap Investors \subseteq A /\ C \cap Banks \subseteq A
      BY <1>1, <2>1, <3>2
    <3>4. C \cap Firms \subseteq {f}
      BY <1>1, <2>1
    <3>. QED  BY <2>2, <3>3, <3>4, OwnByRole
  <2>. QED  BY <1>8, <2>3, <2>4, <2>5
<1>. QED  BY <1>3, <1>4, <1>5, <1>6, <1>7, <1>8 DEF Owned

(***************************************************************************)
(* Where citations come from                                               *)
(***************************************************************************)
(* A citation of the running turn is in order.                              *)
Good(c) ==
  /\ c \in DOMAIN records /\ OwnActors(TurnId, c)
  /\ TurnId.kind \notin StandingKinds /\ c.date > TurnId.date =>
       \/ c.kind = TurnId.kind /\ c.kind \in {"firm_state", "attention_state"}
       \/ TurnId.kind = "attention_state" /\ c \in prev

WritesWell == Running /\ todo # <<>> /\ \E cites : Add(cites) /\ GoodCites(TurnId, cites)

LEMMA GoodTogether ==
  ASSUME Running, todo # <<>>, NEW cites, Add(cites), \A c \in cites : Good(c),
         TurnId.kind # "attention_state"
  PROVE  WritesWell
<1>1. GoodCites(TurnId, cites)
  BY DEF Good, GoodCites
<1>. QED  BY <1>1 DEF WritesWell

(* Of today or earlier, and on the turn's own actors.                       *)
LEMMA OwnedIsGood ==
  ASSUME LivingInv, Running, todo # <<>>, NEW c, c \in DOMAIN records, Owned(Turn, c),
         c.date <= Today
  PROVE  Good(c)
<1>1. /\ Today \in Nat /\ Fits(Turn.kind, Turn.who)
      /\ TurnId.kind = Turn.kind /\ TurnId.who = Turn.who
      /\ TurnId.kind \notin StandingKinds => TurnId.date = Today
  BY TurnIs
<1>2. IdIsTyped(c)
  BY DEF LivingInv, RecordsAreTyped
<1>3. Owned(TurnId, c)
  BY <1>1 DEF Owned
<1>4. OwnActors(TurnId, c)
  BY <1>1, <1>2, <1>3, OwnedIsOwn DEF IdIsTyped
<1>5. TurnId.kind \notin StandingKinds => ~(c.date > TurnId.date)
  BY <1>1, <1>2 DEF IdIsTyped
<1>. QED  BY <1>4, <1>5 DEF Good

LEMMA NamedIs ==
  ASSUME LivingInv, Running, todo # <<>>, NEW c \in named
  PROVE  /\ c \in DOMAIN records /\ IdIsTyped(c) /\ Fits(c.kind, c.who)
         /\ c.date <= Today /\ (c.kind \notin StandingKinds => c.date = Today)
<1>1. c \in DOMAIN records /\ \E x \in OfThisCall : c = IdOf(x)
  BY DEF LivingInv, NamedIsPlan
<1>2. IdIsTyped(c)
  BY <1>1 DEF LivingInv, RecordsAreTyped
<1>3. Today \in Nat
  BY TurnIs
<1>4. c.date <= Today /\ (c.kind \notin StandingKinds => c.date = Today)
  BY <1>1, <1>3 DEF IdOf, Id
<1>. QED  BY <1>1, <1>2, <1>4 DEF IdIsTyped

LEMMA NamedIsGood ==
  ASSUME LivingInv, Running, todo # <<>>, NEW c \in named, Owned(Turn, c)
  PROVE  Good(c)
BY NamedIs, OwnedIsGood

(* The searches find an actor's own.                                        *)
LEMMA MentioningIs ==
  ASSUME LivingInv, Running, todo # <<>>,
         NEW kind \in {"valuation", "credit_review", "intent", "dialogue", "escalation"},
         NEW x \in Firms \cup Investors \cup Banks, NEW c \in Mentioning(kind, x)
  PROVE  /\ c \in named /\ c.kind = kind /\ kind \in Pairs
         /\ x \in Firms => c.who[2] = x
         /\ x \in Investors \cup Banks => c.who[1] = x
<1>1. c \in named /\ c.kind = kind /\ Occurs(x, Segments(c))
  BY DEF Mentioning, Named
<1>2. kind \in Pairs
  BY DEF Pairs, OfPair
<1>3. Fits(c.kind, c.who)
  BY <1>1, NamedIs
<1>4. PICK a \in Investors \cup Banks, f \in Firms : c.who = <<a, f>> /\ c.who[1] = a /\ c.who[2] = f
  BY <1>1, <1>2, <1>3, FitsIs
<1>. DEFINE id == [kind |-> kind, who |-> <<a, f>>]
<1>5. Segments(id) = Segments(c)
  BY <1>1, <1>4 DEF Segments
<1>6. Occurs(x, Segments(id))
  BY <1>1, <1>5
<1>. HIDE DEF id
<1>7. x \in {a, f}
  BY <1>6, IdAssumption DEF IdsApart, id
<1>8. Firms \cap (Investors \cup Banks) = {}
  BY ActorsAssumption
<1>. QED  BY <1>1, <1>2, <1>4, <1>7, <1>8

LEMMA PieceOccurs ==
  ASSUME NEW S, NEW x \in Seq(S), NEW y \in Seq(S), NEW s \in Seq(S), Occurs(x \o y, s)
  PROVE  Occurs(x, s) /\ Occurs(y, s)
<1>. DEFINE z == x \o y
<1>1. /\ z \in Seq(S) /\ Joined(x, y, z) /\ Len(x) \in Nat /\ Len(y) \in Nat /\ Len(s) \in Nat
      /\ Len(z) = Len(x) + Len(y)
  BY JoinedConcat DEF Joined
<1>. HIDE DEF z
<1>2. PICK j \in 2..(Len(s) - Len(z) + 1) : SubSeq(s, j, j + Len(z) - 1) = z
  BY DEF Occurs, z
<1>3. \A m, n \in Int : SubSeq(s, m, n) = [i \in 1..(1 + n - m) |-> s[i + m - 1]]
  OBVIOUS
<1>4. \A i \in 1..Len(z) : z[i] = s[i + j - 1]
  <2>1. 1 + (j + Len(z) - 1) - j = Len(z)
    BY <1>1
  <2>2. z = [i \in 1..Len(z) |-> s[i + j - 1]]
    BY <1>1, <1>2, <1>3, <2>1
  <2>. QED  BY <2>2
<1>5. Occurs(x, s)
  <2>1. j \in 2..(Len(s) - Len(x) + 1) /\ 1 + (j + Len(x) - 1) - j = Len(x) /\ j + Len(x) - 1 \in Int
    BY <1>1
  <2>2. SubSeq(s, j, j + Len(x) - 1) = [i \in 1..Len(x) |-> s[i + j - 1]]
    BY <1>3, <2>1
  <2>3. \A i \in 1..Len(x) : x[i] = s[i + j - 1]
    <3>1. \A i \in 1..Len(x) : i \in 1..Len(z)
      BY <1>1
    <3>2. \A i \in 1..Len(x) : x[i] = z[i]
      BY <1>1 DEF Joined
    <3>. QED  BY <1>4, <3>1, <3>2
  <2>4. x = [i \in 1..Len(x) |-> x[i]]
    OBVIOUS
  <2>5. SubSeq(s, j, j + Len(x) - 1) = x
    BY <2>2, <2>3, <2>4
  <2>. QED  BY <2>1, <2>5 DEF Occurs
<1>6. Occurs(y, s)
  <2>. DEFINE k == j + Len(x)
  <2>1. k \in 2..(Len(s) - Len(y) + 1) /\ 1 + (k + Len(y) - 1) - k = Len(y) /\ k + Len(y) - 1 \in Int
    BY <1>1
  <2>2. SubSeq(s, k, k + Len(y) - 1) = [i \in 1..Len(y) |-> s[i + k - 1]]
    BY <1>3, <2>1
  <2>3. \A i \in 1..Len(y) : y[i] = s[i + k - 1]
    <3>1. \A i \in 1..Len(y) : Len(x) + i \in 1..Len(z) /\ (Len(x) + i) + j - 1 = i + k - 1
      BY <1>1
    <3>2. \A i \in 1..Len(y) : y[i] = z[Len(x) + i]
      BY <1>1 DEF Joined
    <3>. QED  BY <1>4, <3>1, <3>2
  <2>4. y = [i \in 1..Len(y) |-> y[i]]
    OBVIOUS
  <2>. HIDE DEF k
  <2>5. SubSeq(s, k, k + Len(y) - 1) = y
    BY <2>2, <2>3, <2>4
  <2>. QED  BY <2>1, <2>5 DEF Occurs
<1>. QED  BY <1>5, <1>6

LEMMA SeqMore ==
  ASSUME NEW T, NEW S, T \subseteq S, NEW x \in Seq(T)
  PROVE  x \in Seq(S)
OBVIOUS

(* A pair's valuations are of both.                                         *)
LEMMA PairIs ==
  ASSUME LivingInv, Running, todo # <<>>, NEW a \in Investors, NEW f \in Firms,
         NEW c \in Mentioning("valuation", a \o f)
  PROVE  c \in named /\ c.kind = "valuation" /\ c.who[1] = a /\ c.who[2] = f
<1>1. c \in named /\ c.kind = "valuation" /\ Occurs(a \o f, Segments(c))
  BY DEF Mentioning, Named
<1>2. Fits(c.kind, c.who)
  BY <1>1, NamedIs
<1>3. PICK b \in Investors \cup Banks, g \in Firms : c.who = <<b, g>> /\ c.who[1] = b /\ c.who[2] = g
  BY <1>1, <1>2, FitsIs DEF Pairs, OfPair
<1>4. Segments(c) = <<"valuation", "reference_lite">> \o b \o g
  BY <1>1, <1>3 DEF Segments
<1>. DEFINE S == STRING \cup {"valuation", "reference_lite"}
<1>5. \A x \in Seq(STRING) : x \in Seq(S)
  <2>1. STRING \subseteq S
    OBVIOUS
  <2>. HIDE DEF S
  <2>. QED  BY <2>1, SeqMore
<1>6. <<"valuation", "reference_lite">> \in Seq(S)
  <2>1. "valuation" \in S /\ "reference_lite" \in S
    OBVIOUS
  <2>. HIDE DEF S
  <2>. QED  BY <2>1
<1>. HIDE DEF S
<1>7. a \in Seq(S) /\ f \in Seq(S) /\ b \in Seq(S) /\ g \in Seq(S)
  BY <1>5, ActorsAssumption
<1>8. Segments(c) \in Seq(S)
  BY <1>4, <1>6, <1>7, JoinedConcat
<1>9. Occurs(a, Segments(c)) /\ Occurs(f, Segments(c))
  BY <1>1, <1>7, <1>8, PieceOccurs
<1>10. c \in Mentioning("valuation", a) /\ c \in Mentioning("valuation", f)
  BY <1>1, <1>9 DEF Mentioning, Named
<1>. QED  BY <1>1, <1>10, MentioningIs

(* What selections hold.                                                    *)
LEMMA SelectedIs ==
  ASSUME LivingInv, Running, todo # <<>>, NEW sel \in named, sel.kind \in {"selection", "memory"},
         NEW c \in records[sel].cites
  PROVE  /\ c \in DOMAIN records /\ c.date <= Today
         /\ \E a \in Investors \cup Banks : sel.who = <<a>>
         /\ \A a : sel.who = <<a>> =>
              /\ a \in Investors => ActorsOf(c) \cap Investors \subseteq {a}
              /\ a \in Banks => ActorsOf(c) \cap Banks \subseteq {a}
<1>1. sel \in DOMAIN records /\ Fits(sel.kind, sel.who) /\ sel.date = Today /\ Today \in Nat
  BY NamedIs, TurnIs DEF StandingKinds
<1>2. /\ c \in DOMAIN records /\ OwnActors(sel, c)
      /\ sel.kind \notin StandingKinds /\ c.date > sel.date => MayBeLater(sel, c)
  BY <1>1 DEF LivingInv, CitesAreGood
<1>3. c.date <= Today
  <2>1. ~(c.date > sel.date)
    BY <1>2 DEF MayBeLater, StandingKinds
  <2>2. IdIsTyped(c)
    BY <1>2 DEF LivingInv, RecordsAreTyped
  <2>. QED  BY <1>1, <2>1, <2>2 DEF IdIsTyped
<1>4. \E a \in Investors \cup Banks : sel.who = <<a>> /\ ActorsOf(sel) = {a}
  BY <1>1, FitsIs DEF OfActor, OfReader
<1>5. sel.kind # "menu"
  OBVIOUS
<1>6. ASSUME NEW a, sel.who = <<a>>
      PROVE  /\ a \in Investors => ActorsOf(c) \cap Investors \subseteq {a}
             /\ a \in Banks => ActorsOf(c) \cap Banks \subseteq {a}
  <2>1. ActorsOf(sel) = {a}
    BY <1>6, ActorsAre
  <2>. QED  BY <1>2, <1>5, <2>1, ActorsAssumption DEF OwnActors
<1>. QED  BY <1>2, <1>3, <1>4, <1>6

(* A turn of the selecting actor that is no firm's cites them.               *)
LEMMA SelectedIsGood ==
  ASSUME LivingInv, Running, todo # <<>>, NEW a \in Investors \cup Banks,
         NEW c \in Selected(a), Turn.kind \notin FirmScoped,
         Turn.who = <<a>> \/ \E f \in Firms : Turn.who = <<a, f>>
  PROVE  Good(c)
<1>1. PICK sel \in Selections(a) : c \in records[sel].cites
  BY DEF Selected
<1>2. sel \in named /\ sel.kind \in {"selection", "memory"} /\ sel.who = <<a>>
  BY DEF Selections, NamedFor, Named
<1>3. /\ c \in DOMAIN records /\ c.date <= Today
      /\ a \in Investors => ActorsOf(c) \cap Investors \subseteq {a}
      /\ a \in Banks => ActorsOf(c) \cap Banks \subseteq {a}
  BY <1>1, <1>2, SelectedIs
<1>4. TurnId.kind = Turn.kind /\ TurnId.who = Turn.who /\ Today \in Nat
      /\ (TurnId.kind \notin StandingKinds => TurnId.date = Today)
  BY TurnIs
<1>5. ActorsOf(TurnId) = {a} \/ \E f \in Firms : ActorsOf(TurnId) = {a, f}
  BY <1>4, ActorsAre
<1>6. OwnActors(TurnId, c)
  BY <1>3, <1>4, <1>5, OwnByRole, ActorsAssumption
<1>7. TurnId.kind \notin StandingKinds => ~(c.date > TurnId.date)
  <2>1. IdIsTyped(c)
    BY <1>3 DEF LivingInv, RecordsAreTyped
  <2>. QED  BY <1>3, <1>4, <2>1 DEF IdIsTyped
<1>. QED  BY <1>3, <1>6, <1>7 DEF Good

(* Selections of the turn's own reader.                                     *)
LEMMA SelectionsAreGood ==
  ASSUME LivingInv, Running, todo # <<>>, NEW c \in Selections(Actor)
  PROVE  Good(c) /\ c \in named /\ c.kind \in {"selection", "memory"} /\ c.who = <<Actor>>
<1>1. c \in named /\ c.kind \in {"selection", "memory"} /\ c.who = <<Actor>>
  BY DEF Selections, NamedFor, Named
<1>2. Owned(Turn, c)
  BY <1>1 DEF Owned, OfActor, OfReader, Actor
<1>. QED  BY <1>1, <1>2, NamedIsGood

(* What the set-up left.                                                    *)
LEMMA SetupIsGood ==
  ASSUME LivingInv, Running, todo # <<>>, NEW kind \in StandingKinds, NEW who,
         Id(kind, who) \in DOMAIN records, Owned(Turn, [kind |-> kind, who |-> who])
  PROVE  Good(Id(kind, who))
<1>. DEFINE c == Id(kind, who)
<1>1. c.kind = kind /\ c.who = who /\ c.date = 0
  BY DEF Id
<1>2. Owned(Turn, c)
  BY <1>1 DEF Owned
<1>3. Today \in Nat
  BY TurnIs
<1>. HIDE DEF c
<1>4. c.date <= Today
  BY <1>1, <1>3
<1>5. c \in DOMAIN records
  BY DEF c
<1>6. Good(c)
  BY <1>2, <1>4, <1>5, OwnedIsGood
<1>. QED  BY <1>6 DEF c

(***************************************************************************)
(* Every step that writes a record cites in order                          *)
(***************************************************************************)
AllGood(S) == \A c \in S : Good(c)

LEMMA WrittenWell ==
  ASSUME LivingInv, Running, todo # <<>>, NEW cites, Add(cites), AllGood(cites),
         Turn.kind # "attention_state"
  PROVE  WritesWell
<1>1. TurnId.kind # "attention_state"
  BY TurnIs
<1>. QED  BY <1>1, GoodTogether DEF AllGood

LEMMA TurnActors ==
  ASSUME LivingInv, Running, todo # <<>>
  PROVE  /\ Turn.kind \in OfFirm => Firm \in Firms /\ Turn.who = <<Firm>> /\ Actor = Firm
         /\ Turn.kind \in OfActor => Actor \in Investors \cup Banks /\ Turn.who = <<Actor>>
         /\ Turn.kind \in OfPair => Actor \in Investors /\ Firm \in Firms /\ Turn.who = <<Actor, Firm>>
         /\ Turn.kind = "credit_review" => Actor \in Banks /\ Firm \in Firms /\ Turn.who = <<Actor, Firm>>
<1>1. Fits(Turn.kind, Turn.who)
  BY TurnIs
<1>2. Turn.kind \in OfPair => Turn.kind \in Pairs /\ Turn.kind # "credit_review"
  BY DEF OfPair, Pairs
<1>3. Turn.kind = "credit_review" => Turn.kind \in Pairs
  BY DEF Pairs
<1>. QED  BY <1>1, <1>2, <1>3, FitsIs DEF Actor, Firm

(* Citations among what the period has named, by kind.                      *)
LEMMA NamedGoods ==
  ASSUME LivingInv, Running, todo # <<>>, NEW c \in named
  PROVE  /\ c.kind \in Bare => Good(c)
         /\ c.kind \in OfFirm /\ (Turn.kind \in FirmScoped => c.who = <<Firm>>) => Good(c)
         /\ c.kind = "industry_condition" /\ Turn.kind \in {"firm_state", "response", "environment"} => Good(c)
         /\ c.kind = "market_condition" /\ Turn.kind \notin FirmScoped => Good(c)
         /\ c.kind \in OfActor /\ (c.who = <<Actor>> \/ Turn.kind \in OfFirm) => Good(c)
         /\ c.kind \in Pairs /\ (c.who[1] = Actor \/ Turn.kind \in OfFirm
                                  \/ (Turn.kind = "credit_review" /\ c.kind \in OfPair))
              /\ (Turn.kind \in FirmScoped => c.who[2] = Firm) => Good(c)
<1>1. Owned(Turn, c) => Good(c)
  BY NamedIsGood
<1>. QED  BY <1>1 DEF Owned, Actor, Firm

(* What a financing or market record of a firm lists.                       *)
LEMMA ListingIsGood ==
  ASSUME LivingInv, Running, todo # <<>>, Turn.kind \in Listed
  PROVE  AllGood(Listing)
<1>1. Firm \in Firms
  BY TurnActors DEF Listed, OfFirm, OfPair
<1>2. <<Firm>> \in Whos /\ <<>> \in Whos
  <2>. DEFINE A == Firms \cup Investors \cup Banks \cup Markets \cup Industries
  <2>1. Firm \in A
    BY <1>1
  <2>. HIDE DEF A
  <2>2. <<Firm>> \in Seq(A) /\ <<>> \in Seq(A)
    BY <2>1
  <2>. QED  BY <2>2 DEF Whos, A
<1>3. Id("venue", <<>>) \in DOMAIN records
  <2>1. AsksFor(call, Turn, TurnOf("venue", <<>>)) /\ "venue" \in Kinds /\ "venue" \in StandingKinds
    BY DEF AsksFor, Kinds, Free, StandingKinds
  <2>. QED  BY <1>2, <2>1, AskedIsThere
<1>4. Id("security", <<Firm>>) \in DOMAIN records
  <2>1. AsksFor(call, Turn, TurnOf("security", <<Firm>>)) /\ "security" \in Kinds /\ "security" \in StandingKinds
    BY DEF AsksFor, Kinds, StandingKinds, Firm
  <2>. QED  BY <1>2, <2>1, AskedIsThere
<1>5. Owned(Turn, [kind |-> "venue", who |-> <<>>])
  BY DEF Owned, Bare
<1>6. Owned(Turn, [kind |-> "security", who |-> <<Firm>>])
  BY DEF Owned, OfFirm, Firm
<1>7. "venue" \in StandingKinds /\ "security" \in StandingKinds
  BY DEF StandingKinds
<1>8. Good(Id("venue", <<>>)) /\ Good(Id("security", <<Firm>>))
  BY <1>3, <1>4, <1>5, <1>6, <1>7, SetupIsGood
<1>. QED  BY <1>8 DEF AllGood, Listing

(* Engagement on an investor's own theme, and a response to all of them.    *)
LEMMA ThemesAreGood ==
  ASSUME LivingInv, Running, todo # <<>>
  PROVE  /\ Turn.kind \in Themed => AllGood(Themes({Actor}))
         /\ Turn.kind = "response" => AllGood(Themes(ToSet(call.investors)))
<1>1. ASSUME NEW i \in Investors, AsksFor(call, Turn, TurnOf("theme", <<i>>)),
             Turn.who[1] = i \/ Turn.kind \in OfFirm
      PROVE  Good(Id("theme", <<i>>))
  <2>1. <<i>> \in Whos
    <3>. DEFINE A == Firms \cup Investors \cup Banks \cup Markets \cup Industries
    <3>1. i \in A
      OBVIOUS
    <3>. HIDE DEF A
    <3>2. <<i>> \in Seq(A)
      BY <3>1
    <3>. QED  BY <3>2 DEF Whos, A
  <2>2. "theme" \in Kinds /\ "theme" \in StandingKinds
    BY DEF Kinds, Free, StandingKinds
  <2>3. Id("theme", <<i>>) \in DOMAIN records
    BY <1>1, <2>1, <2>2, AskedIsThere
  <2>4. Owned(Turn, [kind |-> "theme", who |-> <<i>>])
    BY <1>1 DEF Owned, OfActor
  <2>. QED  BY <2>2, <2>3, <2>4, SetupIsGood
<1>2. ASSUME Turn.kind \in Themed PROVE AllGood(Themes({Actor}))
  <2>1. Actor \in Investors
    BY <1>2, TurnActors DEF Themed, OfPair
  <2>2. AsksFor(call, Turn, TurnOf("theme", <<Actor>>))
    BY <1>2 DEF AsksFor, Actor
  <2>. QED  BY <1>1, <2>1, <2>2 DEF AllGood, Themes, Actor
<1>3. ASSUME Turn.kind = "response" PROVE AllGood(Themes(ToSet(call.investors)))
  <2>1. call.investors \in Seq(Investors)
    BY TurnIs, CallHas
  <2>2. \A i \in ToSet(call.investors) : i \in Investors /\ \E n \in 1..Len(call.investors) : i = call.investors[n]
    BY <2>1 DEF ToSet
  <2>3. \A i \in ToSet(call.investors) : AsksFor(call, Turn, TurnOf("theme", <<i>>))
    BY <1>3, <2>2 DEF AsksFor
  <2>4. Turn.kind \in OfFirm
    BY <1>3 DEF OfFirm
  <2>. QED  BY <1>1, <2>2, <2>3, <2>4 DEF AllGood, Themes
<1>. QED  BY <1>2, <1>3

(* The last state of a firm or an actor goes into its next one.             *)
LEMMA LatestIsGood ==
  ASSUME LivingInv, Running, todo # <<>>, NEW kind \in {"firm_state", "attention_state"},
         Turn.kind = kind, NEW x, Turn.who = <<x>>
  PROVE  AllGood(Latest(kind, x))
<1>1. SUFFICES ASSUME NEW c \in Latest(kind, x) PROVE Good(c)
  BY DEF AllGood
<1>2. c \in DOMAIN records /\ c.kind = kind /\ c.who = <<x>>
  BY <1>1 DEF Latest
<1>3. TurnId.kind = kind /\ TurnId.who = <<x>>
  BY TurnIs
<1>4. ActorsOf(c) = ActorsOf(TurnId)
  BY <1>2, <1>3 DEF ActorsOf
<1>5. OwnActors(TurnId, c)
  BY <1>4, OwnByRole
<1>. QED  BY <1>2, <1>3, <1>5 DEF Good

(***************************************************************************)
(* Set-up and the state of the world                                       *)
(***************************************************************************)
LEMMA PlainWrites ==
  ASSUME LivingInv,
         \/ EnsureTheme \/ EnsureVenue \/ EnsureCalendar \/ EnsureTemplate
         \/ Report \/ IndustryCondition \/ MarketCondition
  PROVE  WritesWell
<1>1. Running /\ todo # <<>> /\ Turn.kind # "attention_state" /\ Add({})
  BY DEF EnsureTheme, EnsureVenue, EnsureCalendar, EnsureTemplate, Report, IndustryCondition,
    MarketCondition, Doing
<1>2. AllGood({})
  BY DEF AllGood
<1>. QED  BY <1>1, <1>2, WrittenWell

(* What one of the set-up is for.                                           *)
LEMMA AskedSetupIsGood ==
  ASSUME LivingInv, Running, todo # <<>>, NEW kind \in StandingKinds \cap Bare,
         AsksFor(call, Turn, TurnOf(kind, <<>>))
  PROVE  Good(Id(kind, <<>>))
<1>1. kind \in Kinds /\ <<>> \in Whos
  <2>. DEFINE A == Firms \cup Investors \cup Banks \cup Markets \cup Industries
  <2>. HIDE DEF A
  <2>1. <<>> \in Seq(A)
    OBVIOUS
  <2>. QED  BY <2>1 DEF Kinds, Free, StandingKinds, Whos, A
<1>2. Id(kind, <<>>) \in DOMAIN records
  BY <1>1, AskedIsThere
<1>3. Owned(Turn, [kind |-> kind, who |-> <<>>])
  BY DEF Owned
<1>. QED  BY <1>2, <1>3, SetupIsGood

LEMMA SecurityWrites == ASSUME LivingInv, EnsureSecurity PROVE WritesWell
<1>1. Running /\ todo # <<>> /\ Turn.kind = "security"
  BY DEF EnsureSecurity, Doing
<1>2. Good(Id("venue", <<>>))
  BY <1>1, AskedSetupIsGood DEF AsksFor, StandingKinds, Bare
<1>3. AllGood({Id("venue", <<>>)})
  BY <1>2 DEF AllGood
<1>. QED  BY <1>1, <1>3, WrittenWell DEF EnsureSecurity

LEMMA ArrivalsWrite == ASSUME LivingInv, EmitArrivals PROVE WritesWell
<1>1. Running /\ todo # <<>> /\ Turn.kind = "arrival"
  BY DEF EmitArrivals, Doing
<1>2. Good(Id("calendar", <<>>))
  BY <1>1, AskedSetupIsGood DEF AsksFor, StandingKinds, Bare
<1>3. AllGood({Id("calendar", <<>>)})
  BY <1>2 DEF AllGood
<1>. QED  BY <1>1, <1>3, WrittenWell DEF EmitArrivals

LEMMA ScenarioWrites == ASSUME LivingInv, ApplyScenario PROVE WritesWell
<1>1. Running /\ todo # <<>> /\ Turn.kind = "scenario"
  BY DEF ApplyScenario, Doing
<1>2. Good(Id("template", <<>>))
  BY <1>1, AskedSetupIsGood DEF AsksFor, StandingKinds, Bare
<1>3. \A c \in Named({"arrival"}) : Good(c)
  BY <1>1, NamedGoods DEF Named, Bare
<1>4. AllGood({Id("template", <<>>)} \cup Named({"arrival"}))
  BY <1>2, <1>3 DEF AllGood
<1>. QED  BY <1>1, <1>4, WrittenWell DEF ApplyScenario

LEMMA FirmPressureWrites == ASSUME LivingInv, FirmPressure PROVE WritesWell
<1>1. Running /\ todo # <<>> /\ Turn.kind = "firm_pressure"
  BY DEF FirmPressure, Doing
<1>2. AllGood(NamedFor({"report"}, <<Firm>>))
  BY <1>1, NamedGoods DEF AllGood, NamedFor, Named, OfFirm
<1>. QED  BY <1>1, <1>2, WrittenWell DEF FirmPressure

LEMMA ReadoutWrites == ASSUME LivingInv, Readout PROVE WritesWell
<1>1. Running /\ todo # <<>> /\ Turn.kind = "readout"
  BY DEF Readout, Doing
<1>2. AllGood(Named({"market_condition"}))
  BY <1>1, NamedGoods DEF AllGood, Named, FirmScoped
<1>. QED  BY <1>1, <1>2, WrittenWell DEF Readout

LEMMA EnvironmentWrites == ASSUME LivingInv, Environment PROVE WritesWell
<1>1. Running /\ todo # <<>> /\ Turn.kind = "environment"
  BY DEF Environment, Doing
<1>2. AllGood(Named({"market_condition", "readout", "industry_condition"}))
  BY <1>1, NamedGoods DEF AllGood, Named, FirmScoped, Bare
<1>. QED  BY <1>1, <1>2, WrittenWell DEF Environment

LEMMA FirmStateWrites == ASSUME LivingInv, FirmState PROVE WritesWell
<1>1. Running /\ todo # <<>> /\ Turn.kind = "firm_state"
  BY DEF FirmState, Doing
<1>2. Turn.who = <<Firm>> /\ Turn.kind \notin FirmScoped
  BY <1>1, TurnActors DEF OfFirm, FirmScoped
<1>3. \A c \in Named({"market_condition", "readout", "environment"}) : Good(c)
  BY <1>1, <1>2, NamedGoods DEF Named, Bare
<1>4. \A c \in NamedFor({"industry_condition"}, <<IndustryOf[Firm]>>) : Good(c)
  BY <1>1, NamedGoods DEF NamedFor, Named
<1>5. \A c \in NamedFor({"firm_pressure"}, <<Firm>>) : Good(c)
  BY <1>1, NamedGoods DEF NamedFor, Named, OfFirm
<1>6. \A c \in Latest("firm_state", Firm) : Good(c)
  BY <1>1, <1>2, LatestIsGood DEF AllGood
<1>7. AllGood(Named({"market_condition", "readout", "environment"})
                \cup NamedFor({"industry_condition"}, <<IndustryOf[Firm]>>)
                \cup NamedFor({"firm_pressure"}, <<Firm>>) \cup Latest("firm_state", Firm))
  BY <1>3, <1>4, <1>5, <1>6 DEF AllGood
<1>. QED  BY <1>1, <1>7, WrittenWell DEF FirmState

(***************************************************************************)
(* Attention                                                               *)
(***************************************************************************)
LEMMA MenuWrites == ASSUME LivingInv, BuildMenu PROVE WritesWell
<1>1. Running /\ todo # <<>> /\ Turn.kind = "menu"
  BY DEF BuildMenu, Doing
<1>2. TurnId.kind = "menu" /\ TurnId.date = Today /\ Today \in Nat
  BY <1>1, TurnIs DEF StandingKinds
<1>3. ASSUME NEW c \in VisibleSignals PROVE Good(c)
  <2>1. c \in DOMAIN records /\ c.date <= Today
    BY <1>3 DEF VisibleSignals
  <2>2. IdIsTyped(c)
    BY <2>1 DEF LivingInv, RecordsAreTyped
  <2>3. ~(c.date > TurnId.date)
    BY <1>2, <2>1, <2>2 DEF IdIsTyped
  <2>4. OwnActors(TurnId, c)
    BY <1>2 DEF OwnActors
  <2>. QED  BY <2>1, <2>3, <2>4 DEF Good
<1>4. AllGood(VisibleSignals)
  BY <1>3 DEF AllGood
<1>. QED  BY <1>1, <1>4, WrittenWell DEF BuildMenu

LEMMA SelectWrites == ASSUME LivingInv, Select PROVE WritesWell
<1>1. Running /\ todo # <<>> /\ Turn.kind = "selection"
  BY DEF Select, Doing
<1>2. PICK menu \in NamedFor({"menu"}, <<Actor>>) :
        Add({menu} \cup {s \in records[menu].cites : s.kind = "report"})
  BY DEF Select
<1>3. menu \in named /\ menu.kind = "menu" /\ menu.who = <<Actor>>
  BY <1>2 DEF NamedFor, Named
<1>4. Good(menu)
  BY <1>1, <1>3, NamedGoods DEF OfActor, OfReader, FirmScoped
<1>5. ASSUME NEW c \in records[menu].cites, c.kind = "report" PROVE Good(c)
  <2>1. menu \in DOMAIN records /\ menu.date = Today /\ Today \in Nat
    BY <1>1, <1>3, NamedIs, TurnIs DEF StandingKinds
  <2>2. c \in DOMAIN records /\ ~(c.date > menu.date)
    BY <1>3, <1>5, <2>1 DEF LivingInv, CitesAreGood, MayBeLater, StandingKinds
  <2>3. c.date <= Today
    <3>1. IdIsTyped(c)
      BY <2>2 DEF LivingInv, RecordsAreTyped
    <3>. QED  BY <2>1, <2>2, <3>1 DEF IdIsTyped
  <2>4. Owned(Turn, c)
    BY <1>1, <1>5 DEF Owned, OfFirm, FirmScoped
  <2>. QED  BY <1>1, <2>2, <2>3, <2>4, OwnedIsGood
<1>6. AllGood({menu} \cup {s \in records[menu].cites : s.kind = "report"})
  BY <1>4, <1>5 DEF AllGood
<1>. QED  BY <1>1, <1>2, <1>6, WrittenWell

LEMMA RecallWrites == ASSUME LivingInv, RecallMemory PROVE WritesWell
<1>1. Running /\ todo # <<>> /\ Turn.kind = "memory"
  BY DEF RecallMemory, Doing
<1>2. PICK focus \in FocusSets :
        Add(Prior(Actor) \cup NamedFor({"menu"}, <<Actor>>) \cup Remembered(Actor, focus))
  BY DEF RecallMemory
<1>3. /\ Actor \in Investors \cup Banks /\ Turn.who = <<Actor>> /\ Today \in Nat
      /\ TurnId.kind = "memory" /\ TurnId.who = <<Actor>> /\ TurnId.date = Today
  BY <1>1, TurnActors, TurnIs DEF OfActor, OfReader, StandingKinds
<1>4. \A c \in Prior(Actor) :
        c \in DOMAIN records /\ c.kind = "attention_state" /\ c.who = <<Actor>> /\ c.date < Today
  BY DEF Prior, Latest
<1>5. ASSUME NEW c \in Prior(Actor) PROVE Good(c)
  <2>1. c.date <= Today
    <3>1. IdIsTyped(c)
      BY <1>4, <1>5 DEF LivingInv, RecordsAreTyped
    <3>. QED  BY <1>3, <1>4, <1>5, <3>1 DEF IdIsTyped
  <2>2. Owned(Turn, c)
    BY <1>4, <1>5 DEF Owned, OfActor, OfReader, Actor
  <2>. QED  BY <1>1, <1>4, <1>5, <2>1, <2>2, OwnedIsGood
<1>6. \A c \in NamedFor({"menu"}, <<Actor>>) : Good(c)
  BY <1>1, NamedGoods DEF NamedFor, Named, OfActor, OfReader
<1>7. ASSUME NEW c \in Remembered(Actor, focus) PROVE Good(c)
  <2>1. PICK state \in Prior(Actor) : c \in records[state].cites /\ c.kind \in focus
    BY <1>7 DEF Remembered
  <2>2. c.kind \in Recallable
    BY <1>2, <2>1, FocusAssumption
  <2>3. /\ state \in DOMAIN records /\ state.kind = "attention_state" /\ state.who = <<Actor>>
        /\ state.date < Today /\ IdIsTyped(state)
    BY <1>4, <2>1 DEF LivingInv, RecordsAreTyped
  <2>4. c \in DOMAIN records /\ OwnActors(state, c) /\ ~(c.date > state.date)
    BY <2>1, <2>2, <2>3 DEF LivingInv, CitesAreGood, MayBeLater, Recallable, StandingKinds
  <2>5. ~(c.date > TurnId.date)
    <3>1. IdIsTyped(c)
      BY <2>4 DEF LivingInv, RecordsAreTyped
    <3>. QED  BY <1>3, <2>3, <2>4, <3>1 DEF IdIsTyped
  <2>6. OwnActors(TurnId, c)
    <3>1. ActorsOf(TurnId) = ActorsOf(state)
      BY <1>3, <2>3 DEF ActorsOf
    <3>. QED  BY <1>3, <2>3, <2>4, <3>1 DEF OwnActors, FirmScoped
  <2>. QED  BY <2>4, <2>5, <2>6 DEF Good
<1>8. AllGood(Prior(Actor) \cup NamedFor({"menu"}, <<Actor>>) \cup Remembered(Actor, focus))
  BY <1>5, <1>6, <1>7 DEF AllGood
<1>. QED  BY <1>1, <1>2, <1>8, WrittenWell

(***************************************************************************)
(* Assessments and engagement                                              *)
(***************************************************************************)
(* What an assessment or an engagement draws on, of its own.                *)
LEMMA EvidenceIsGood ==
  ASSUME LivingInv, Running, todo # <<>>
  PROVE  /\ \A c \in OwnEvidence(Firm) : Good(c)
         /\ \A c \in NamedFor({"firm_state"}, <<Firm>>) : Good(c)
         /\ \A c \in Surroundings : Good(c)
         /\ \A c \in Selections(Actor) : Good(c)
         /\ Turn.kind \notin FirmScoped /\ Turn.kind \in OfActor \cup Pairs =>
              \A c \in Selected(Actor) : Good(c)
<1>1. \A c \in OwnEvidence(Firm) : Good(c)
  BY NamedGoods DEF OwnEvidence, NamedFor, Named, OfFirm
<1>2. \A c \in NamedFor({"firm_state"}, <<Firm>>) : Good(c)
  BY NamedGoods DEF NamedFor, Named, OfFirm
<1>3. \A c \in Surroundings : Good(c)
  BY NamedGoods DEF Surroundings, Named, Bare
<1>4. \A c \in Selections(Actor) : Good(c)
  BY SelectionsAreGood
<1>5. ASSUME Turn.kind \notin FirmScoped, Turn.kind \in OfActor \cup Pairs, NEW c \in Selected(Actor)
      PROVE  Good(c)
  <2>1. /\ Actor \in Investors \cup Banks
        /\ Turn.who = <<Actor>> \/ \E f \in Firms : Turn.who = <<Actor, f>>
    BY <1>5, TurnActors DEF Pairs
  <2>. QED  BY <1>5, <2>1, SelectedIsGood
<1>. QED  BY <1>1, <1>2, <1>3, <1>4, <1>5

LEMMA PairValuationsAreGood ==
  ASSUME LivingInv, Running, todo # <<>>, Turn.kind \in OfPair
  PROVE  \A c \in PairValuations : Good(c)
<1>1. Actor \in Investors /\ Firm \in Firms
  BY TurnActors
<1>2. SUFFICES ASSUME NEW c \in Mentioning("valuation", Actor \o Firm) PROVE Good(c)
  BY DEF PairValuations
<1>3. c \in named /\ c.kind = "valuation" /\ c.who[1] = Actor /\ c.who[2] = Firm
  BY <1>1, <1>2, PairIs
<1>. QED  BY <1>3, NamedGoods DEF Pairs, OfPair

LEMMA ValuationWrites == ASSUME LivingInv, Valuation PROVE WritesWell
<1>1. Running /\ todo # <<>> /\ Turn.kind = "valuation"
  BY DEF Valuation, Doing
<1>2. Turn.kind \in Pairs /\ Turn.kind \notin FirmScoped
  BY <1>1 DEF Pairs, OfPair, FirmScoped
<1>3. AllGood(Selections(Actor) \cup Selected(Actor) \cup OwnEvidence(Firm)
                \cup NamedFor({"firm_state"}, <<Firm>>) \cup Surroundings)
  BY <1>1, <1>2, EvidenceIsGood DEF AllGood
<1>. QED  BY <1>1, <1>3, WrittenWell DEF Valuation

LEMMA LiquidityWrites == ASSUME LivingInv, Liquidity PROVE WritesWell
<1>1. Running /\ todo # <<>> /\ Turn.kind = "liquidity"
  BY DEF Liquidity, Doing
<1>2. AllGood(Named({"environment"}))
  BY <1>1, NamedGoods DEF AllGood, Named, Bare
<1>. QED  BY <1>1, <1>2, WrittenWell DEF Liquidity

LEMMA CreditReviewWrites == ASSUME LivingInv, CreditReview PROVE WritesWell
<1>1. Running /\ todo # <<>> /\ Turn.kind = "credit_review"
  BY DEF CreditReview, Doing
<1>2. Turn.kind \in Pairs /\ Turn.kind \notin FirmScoped /\ Firm \in Firms
  BY <1>1, TurnActors DEF Pairs, FirmScoped
<1>3. \A c \in Mentioning("valuation", Firm) : Good(c)
  <2>1. \A c \in Mentioning("valuation", Firm) : c \in named /\ c.kind = "valuation"
    BY DEF Mentioning, Named
  <2>. QED  BY <1>1, <1>2, <2>1, NamedGoods DEF Pairs, OfPair
<1>4. \A c \in NamedFor({"liquidity"}, <<Actor>>) : Good(c)
  BY <1>1, NamedGoods DEF NamedFor, Named, OfActor
<1>5. AllGood(Selections(Actor) \cup Selected(Actor) \cup OwnEvidence(Firm)
                \cup Mentioning("valuation", Firm) \cup NamedFor({"firm_state"}, <<Firm>>)
                \cup Surroundings \cup NamedFor({"liquidity"}, <<Actor>>))
  BY <1>1, <1>2, <1>3, <1>4, EvidenceIsGood DEF AllGood
<1>. QED  BY <1>1, <1>5, WrittenWell DEF CreditReview

LEMMA DialogueWrites == ASSUME LivingInv, Dialogue PROVE WritesWell
<1>1. Running /\ todo # <<>> /\ Turn.kind = "dialogue"
  BY DEF Dialogue, Doing
<1>2. \A c \in Themes({Actor}) : Good(c)
  BY <1>1, ThemesAreGood DEF Themed, AllGood
<1>3. \A c \in PairValuations : Good(c)
  BY <1>1, PairValuationsAreGood DEF OfPair
<1>4. AllGood(Themes({Actor}) \cup OwnEvidence(Firm) \cup PairValuations)
  BY <1>1, <1>2, <1>3, EvidenceIsGood DEF AllGood
<1>. QED  BY <1>1, <1>4, WrittenWell DEF Dialogue

(* The pair's own dialogue, and the escalation whose id is spelled out.      *)
LEMMA PairRecordsAreGood ==
  ASSUME LivingInv, Running, todo # <<>>, Turn.kind \in Themed
  PROVE  /\ \A c \in NamedFor({"dialogue"}, Turn.who) : Good(c)
         /\ Turn.kind = "intent" => Good(Id("escalation", Turn.who))
<1>1. Turn.who[1] = Actor /\ Turn.who[2] = Firm /\ Turn.who \in Whos
  <2>1. Turn.who = <<Actor, Firm>>
    BY TurnActors DEF Themed, OfPair
  <2>2. Turn.who[1] = Actor /\ Turn.who[2] = Firm
    BY <2>1
  <2>. QED  BY <2>2, TurnIs DEF Fits
<1>2. \A c \in NamedFor({"dialogue"}, Turn.who) : Good(c)
  BY <1>1, NamedGoods DEF NamedFor, Named, Pairs, OfPair
<1>3. ASSUME Turn.kind = "intent" PROVE Good(Id("escalation", Turn.who))
  <2>1. AsksFor(call, Turn, TurnOf("escalation", Turn.who))
    BY <1>3 DEF AsksFor
  <2>2. "escalation" \in Kinds /\ "escalation" \notin StandingKinds
    BY DEF Kinds, OnFirm, StandingKinds
  <2>3. Id("escalation", Turn.who) \in named
    BY <1>1, <2>1, <2>2, AskedIsThere
  <2>4. (Id("escalation", Turn.who)).kind = "escalation" /\ (Id("escalation", Turn.who)).who = Turn.who
    BY DEF Id
  <2>. QED  BY <1>1, <2>3, <2>4, NamedGoods DEF Pairs, OfPair
<1>. QED  BY <1>2, <1>3

LEMMA EscalationWrites == ASSUME LivingInv, Escalation PROVE WritesWell
<1>1. Running /\ todo # <<>> /\ Turn.kind = "escalation"
  BY DEF Escalation, Doing
<1>2. \A c \in Themes({Actor}) : Good(c)
  BY <1>1, ThemesAreGood DEF Themed, AllGood
<1>3. \A c \in PairValuations : Good(c)
  BY <1>1, PairValuationsAreGood DEF OfPair
<1>4. \A c \in NamedFor({"dialogue"}, Turn.who) : Good(c)
  BY <1>1, PairRecordsAreGood DEF Themed
<1>5. AllGood(Themes({Actor}) \cup NamedFor({"dialogue"}, Turn.who) \cup OwnEvidence(Firm)
                \cup PairValuations)
  BY <1>1, <1>2, <1>3, <1>4, EvidenceIsGood DEF AllGood
<1>. QED  BY <1>1, <1>5, WrittenWell DEF Escalation

LEMMA IntentWrites == ASSUME LivingInv, Intent PROVE WritesWell
<1>1. Running /\ todo # <<>> /\ Turn.kind = "intent"
  BY DEF Intent, Doing
<1>2. Turn.kind \in Pairs /\ Turn.kind \notin FirmScoped /\ Turn.kind \in OfPair /\ Turn.kind \in Themed
  BY <1>1 DEF Pairs, OfPair, FirmScoped, Themed
<1>3. \A c \in Themes({Actor}) : Good(c)
  BY <1>1, <1>2, ThemesAreGood DEF AllGood
<1>4. \A c \in PairValuations : Good(c)
  BY <1>1, <1>2, PairValuationsAreGood
<1>5. (\A c \in NamedFor({"dialogue"}, Turn.who) : Good(c)) /\ Good(Id("escalation", Turn.who))
  BY <1>1, <1>2, PairRecordsAreGood
<1>6. \A c \in Named({"market_condition"}) : Good(c)
  BY <1>1, <1>2, NamedGoods DEF Named
<1>7. AllGood({s \in Selected(Actor) : s.kind # "report"} \cup Selections(Actor) \cup Surroundings
                \cup Named({"market_condition"}) \cup NamedFor({"firm_state"}, <<Firm>>)
                \cup PairValuations \cup NamedFor({"dialogue"}, Turn.who)
                \cup {Id("escalation", Turn.who)} \cup Themes({Actor}))
  BY <1>1, <1>2, <1>3, <1>4, <1>5, <1>6, EvidenceIsGood DEF AllGood
<1>. QED  BY <1>1, <1>7, WrittenWell DEF Intent

LEMMA ResponseWrites == ASSUME LivingInv, Response PROVE WritesWell
<1>1. Running /\ todo # <<>> /\ Turn.kind = "response"
  BY DEF Response, Doing
<1>2. Turn.kind \in OfFirm /\ Turn.kind \notin FirmScoped
  BY <1>1 DEF OfFirm, FirmScoped
<1>3. \A c \in Themes(ToSet(call.investors)) : Good(c)
  BY <1>1, ThemesAreGood DEF AllGood
<1>4. \A c \in {id \in Named({"dialogue"}) : id.who[2] = Firm} : Good(c)
  BY <1>1, <1>2, NamedGoods DEF Named, Pairs, OfPair
<1>5. \A c \in Mentioning("valuation", Firm) : Good(c)
  BY <1>1, <1>2, NamedGoods DEF Mentioning, Named, Pairs, OfPair
<1>6. \A c \in NamedFor({"industry_condition"}, <<IndustryOf[Firm]>>) : Good(c)
  BY <1>1, NamedGoods DEF NamedFor, Named
<1>7. \A c \in Named({"market_condition", "environment"}) : Good(c)
  BY <1>1, <1>2, NamedGoods DEF Named, Bare
<1>8. AllGood(Themes(ToSet(call.investors))
                \cup {id \in Named({"dialogue"}) : id.who[2] = Firm} \cup OwnEvidence(Firm)
                \cup Mentioning("valuation", Firm)
                \cup NamedFor({"industry_condition"}, <<IndustryOf[Firm]>>)
                \cup Named({"market_condition", "environment"}))
  BY <1>1, <1>3, <1>4, <1>5, <1>6, <1>7, EvidenceIsGood DEF AllGood
<1>. QED  BY <1>1, <1>8, WrittenWell DEF Response

LEMMA ReviewWrites == ASSUME LivingInv, Review PROVE WritesWell
<1>1. Running /\ todo # <<>> /\ Turn.kind \in {"investor_review", "bank_review"}
  BY DEF Review, Doing
<1>. DEFINE own == NamedFor({"selection"}, <<Actor>>)
<1>2. Turn.kind \in OfActor /\ Turn.kind \notin FirmScoped /\ Turn.kind # "attention_state"
  BY <1>1 DEF OfActor, FirmScoped
<1>3. own \subseteq Selections(Actor)
  BY DEF Selections, NamedFor, Named
<1>4. Add(own \cup {s \in Selected(Actor) : \E sel \in own : s \in records[sel].cites})
  BY DEF Review
<1>. HIDE DEF own
<1>5. AllGood(own \cup {s \in Selected(Actor) : \E sel \in own : s \in records[sel].cites})
  BY <1>1, <1>2, <1>3, EvidenceIsGood DEF AllGood
<1>. QED  BY <1>1, <1>2, <1>4, <1>5, WrittenWell

LEMMA AttentionStateWrites == ASSUME LivingInv, AttentionState PROVE WritesWell
<1>1. Running /\ todo # <<>> /\ Turn.kind = "attention_state"
  BY DEF AttentionState, Doing
<1>2. /\ Actor \in Investors \cup Banks /\ Turn.who = <<Actor>> /\ Turn.kind \notin FirmScoped
      /\ TurnId.kind = "attention_state" /\ TurnId.who = <<Actor>>
  BY <1>1, TurnActors, TurnIs DEF OfActor, OfReader, FirmScoped
<1>. DEFINE state == Latest("attention_state", Actor)
            around == Named({"environment", "firm_state"})
            found == IF Actor \in Banks THEN Mentioning("credit_review", Actor)
                     ELSE UNION {Mentioning(kind, Actor) :
                                   kind \in {"intent", "valuation", "dialogue", "escalation"}}
            fed == {"market_pressure", "path"}
<1>3. Add(state \cup around \cup prev \cup found)
  BY DEF AttentionState
<1>4. \A c \in state : Good(c) /\ c.kind \notin fed
  BY <1>1, <1>2, LatestIsGood DEF AllGood, Latest
<1>5. \A c \in around : Good(c) /\ c.kind \notin fed
  <2>1. \A c \in around : c \in named /\ c.kind \in {"environment", "firm_state"}
    BY DEF Named
  <2>. QED  BY <1>1, <1>2, <2>1, NamedGoods DEF Bare, OfFirm
<1>6. \A c \in found : Good(c) /\ c.kind \notin fed
  <2>1. SUFFICES ASSUME NEW c \in found PROVE Good(c) /\ c.kind \notin fed
    OBVIOUS
  <2>2. PICK kind \in {"credit_review", "intent", "valuation", "dialogue", "escalation"} :
           c \in Mentioning(kind, Actor)
    <3>1. CASE Actor \in Banks
      BY <2>1, <3>1
    <3>2. CASE Actor \notin Banks
      BY <2>1, <3>2
    <3>. QED  BY <3>1, <3>2
  <2>3. c \in named /\ c.kind \in Pairs /\ c.who[1] = Actor
    BY <1>1, <1>2, <2>2, MentioningIs
  <2>4. Good(c)
    BY <1>1, <1>2, <2>3, NamedGoods
  <2>. QED  BY <2>3, <2>4 DEF Pairs, OfPair
<1>7. \A c \in prev : Good(c) /\ c.kind \in fed
  <2>1. SUFFICES ASSUME NEW c \in prev PROVE Good(c) /\ c.kind \in fed
    OBVIOUS
  <2>2. c.kind \in fed /\ c \in DOMAIN records
    BY <1>1, <2>1, PrevKinds DEF LivingInv
  <2>3. Fits(c.kind, c.who)
    BY <2>2 DEF LivingInv, RecordsAreTyped, IdIsTyped
  <2>4. OwnActors(TurnId, c)
    <3>1. Owned(TurnId, c)
      BY <1>2, <2>2 DEF Owned, OfFirm, FinancingKinds, FirmScoped
    <3>2. Fits(TurnId.kind, TurnId.who)
      BY <1>1, TurnIs DEF IdIsTyped
    <3>. QED  BY <2>3, <3>1, <3>2, OwnedIsOwn
  <2>. QED  BY <1>2, <2>1, <2>2, <2>4 DEF Good
<1>. HIDE DEF state, around, found, fed
<1>8. \A c \in state \cup around \cup prev \cup found : Good(c)
  BY <1>4, <1>5, <1>6, <1>7
<1>9. {c \in state \cup around \cup prev \cup found : c.kind \in fed} = prev
  BY <1>4, <1>5, <1>6, <1>7
<1>10. GoodCites(TurnId, state \cup around \cup prev \cup found)
  BY <1>8, <1>9 DEF Good, GoodCites, fed
<1>. QED  BY <1>1, <1>3, <1>10 DEF WritesWell

(***************************************************************************)
(* Market interest and financing                                           *)
(***************************************************************************)
(* What the records of a firm's interest and financing draw on.             *)
LEMMA FinanceIsGood ==
  ASSUME LivingInv, Running, todo # <<>>, Turn.kind \in OfFirm
  PROVE  /\ \A K \in SUBSET OfFirm : \A c \in NamedFor(K, <<Firm>>) : Good(c)
         /\ \A c \in Named({"environment"}) : Good(c)
         /\ \A c \in Funding(Firm) : Good(c)
<1>1. Firm \in Firms
  BY TurnActors
<1>2. ASSUME NEW K \in SUBSET OfFirm, NEW c \in NamedFor(K, <<Firm>>) PROVE Good(c)
  BY <1>2, NamedGoods DEF NamedFor, Named
<1>3. \A c \in Named({"environment"}) : Good(c)
  BY NamedGoods DEF Named, Bare
<1>4. ASSUME NEW kind \in {"credit_review", "intent"}, NEW c \in Mentioning(kind, Firm) PROVE Good(c)
  <2>1. c \in named /\ c.kind \in Pairs /\ c.who[2] = Firm
    BY <1>1, <1>4, MentioningIs
  <2>. QED  BY <2>1, NamedGoods
<1>5. \A c \in Named({"environment", "liquidity"}) : Good(c)
  BY NamedGoods DEF Named, Bare, OfActor
<1>6. \A c \in Funding(Firm) : Good(c)
  BY <1>4, <1>5 DEF Funding
<1>. QED  BY <1>2, <1>3, <1>6

LEMMA MarketIntentWrites == ASSUME LivingInv, MarketIntent PROVE WritesWell
<1>1. Running /\ todo # <<>> /\ Turn.kind = "market_intent"
  BY DEF MarketIntent, Doing
<1>2. Actor \in Investors /\ Firm \in Firms
  BY <1>1, TurnActors DEF OfPair
<1>3. ASSUME NEW kind \in {"intent", "valuation"},
             NEW c \in Mentioning(kind, Actor) \cap Mentioning(kind, Firm)
      PROVE  Good(c)
  <2>1. c \in Mentioning(kind, Actor) /\ c \in Mentioning(kind, Firm)
    BY <1>3
  <2>2. c \in named /\ c.kind \in Pairs /\ c.who[1] = Actor
    BY <1>1, <1>2, <2>1, MentioningIs
  <2>3. c.who[2] = Firm
    BY <1>1, <1>2, <2>1, MentioningIs
  <2>. QED  BY <1>1, <2>2, <2>3, NamedGoods
<1>4. \A c \in Named({"environment"}) : Good(c)
  BY <1>1, NamedGoods DEF Named, Bare
<1>5. \A c \in NamedFor({"firm_state"}, <<Firm>>) : Good(c)
  BY <1>1, NamedGoods DEF NamedFor, Named, OfFirm
<1>6. \A c \in Listing : Good(c)
  BY <1>1, ListingIsGood DEF AllGood, Listed
<1>7. AllGood((Mentioning("intent", Actor) \cap Mentioning("intent", Firm))
                \cup (Mentioning("valuation", Actor) \cap Mentioning("valuation", Firm))
                \cup Named({"environment"}) \cup NamedFor({"firm_state"}, <<Firm>>) \cup Listing)
  BY <1>3, <1>4, <1>5, <1>6 DEF AllGood
<1>. QED  BY <1>1, <1>7, WrittenWell DEF MarketIntent

LEMMA AggregateWrites == ASSUME LivingInv, Aggregate PROVE WritesWell
<1>1. Running /\ todo # <<>> /\ Turn.kind = "aggregated"
  BY DEF Aggregate, Doing
<1>2. Turn.kind \in OfFirm
  BY <1>1 DEF OfFirm
<1>3. \A c \in {id \in Named({"market_intent"}) : id.who[2] = Firm} : Good(c)
  BY <1>1, <1>2, NamedGoods DEF Named, Pairs, OfPair
<1>4. \A c \in Listing : Good(c)
  BY <1>1, ListingIsGood DEF AllGood, Listed
<1>5. AllGood({id \in Named({"market_intent"}) : id.who[2] = Firm} \cup Named({"environment"}) \cup Listing)
  BY <1>1, <1>2, <1>3, <1>4, FinanceIsGood DEF AllGood
<1>. QED  BY <1>1, <1>5, WrittenWell DEF Aggregate

LEMMA MarketPressureWrites == ASSUME LivingInv, MarketPressure PROVE WritesWell
<1>1. Running /\ todo # <<>> /\ Turn.kind = "market_pressure"
  BY DEF MarketPressure, Doing
<1>2. Turn.kind \in OfFirm /\ {"aggregated"} \in SUBSET OfFirm
  BY <1>1 DEF OfFirm
<1>3. \A c \in Listing : Good(c)
  BY <1>1, ListingIsGood DEF AllGood, Listed
<1>4. AllGood(NamedFor({"aggregated"}, <<Firm>>) \cup Named({"environment"}) \cup Listing)
  BY <1>1, <1>2, <1>3, FinanceIsGood DEF AllGood
<1>. QED  BY <1>1, <1>4, WrittenWell DEF MarketPressure

LEMMA NeedWrites == ASSUME LivingInv, Need PROVE WritesWell
<1>1. Running /\ todo # <<>> /\ Turn.kind = "need"
  BY DEF Need, Doing
<1>2. Turn.kind \in OfFirm /\ {"firm_state", "report"} \in SUBSET OfFirm
  BY <1>1 DEF OfFirm, FinancingKinds
<1>3. AllGood(NamedFor({"firm_state", "report"}, <<Firm>>) \cup Named({"environment"}))
  BY <1>1, <1>2, FinanceIsGood DEF AllGood
<1>. QED  BY <1>1, <1>3, WrittenWell DEF Need

LEMMA OptionWrites == ASSUME LivingInv, Option PROVE WritesWell
<1>1. Running /\ todo # <<>> /\ Turn.kind \in {"loan_option", "bond_option"}
  BY DEF Option, Doing
<1>2. /\ Turn.kind \in OfFirm /\ {"need", "firm_state"} \in SUBSET OfFirm
      /\ Turn.kind # "attention_state"
  BY <1>1 DEF OfFirm, FinancingKinds
<1>3. AllGood(NamedFor({"need", "firm_state"}, <<Firm>>) \cup Funding(Firm))
  BY <1>1, <1>2, FinanceIsGood DEF AllGood
<1>. QED  BY <1>1, <1>2, <1>3, WrittenWell DEF Option

LEMMA CapitalReviewWrites == ASSUME LivingInv, CapitalReview PROVE WritesWell
<1>1. Running /\ todo # <<>> /\ Turn.kind = "capital_review"
  BY DEF CapitalReview, Doing
<1>. DEFINE K == {"need", "loan_option", "bond_option", "firm_state", "market_pressure"}
<1>2. Turn.kind \in OfFirm /\ K \in SUBSET OfFirm
  BY <1>1 DEF OfFirm, FinancingKinds
<1>3. Add(NamedFor(K, <<Firm>>) \cup Funding(Firm))
  BY DEF CapitalReview
<1>. HIDE DEF K
<1>4. AllGood(NamedFor(K, <<Firm>>) \cup Funding(Firm))
  BY <1>1, <1>2, FinanceIsGood DEF AllGood
<1>. QED  BY <1>1, <1>3, <1>4, WrittenWell

LEMMA PathWrites == ASSUME LivingInv, Path PROVE WritesWell
<1>1. Running /\ todo # <<>> /\ Turn.kind = "path"
  BY DEF Path, Doing
<1>. DEFINE K == {"need", "loan_option", "bond_option", "capital_review", "market_pressure"}
<1>2. Turn.kind \in OfFirm /\ K \in SUBSET OfFirm
  BY <1>1 DEF OfFirm, FinancingKinds
<1>3. Add(NamedFor(K, <<Firm>>) \cup Funding(Firm))
  BY DEF Path
<1>. HIDE DEF K
<1>4. AllGood(NamedFor(K, <<Firm>>) \cup Funding(Firm))
  BY <1>1, <1>2, FinanceIsGood DEF AllGood
<1>. QED  BY <1>1, <1>3, <1>4, WrittenWell

(***************************************************************************)
(* The theorems                                                            *)
(***************************************************************************)
(* Every step writes a record in order, or no record.                       *)
LEMMA EveryStep ==
  ASSUME LivingInv, Next
  PROVE  \/ WritesWell
         \/ StartCall \/ NextPeriod \/ EndCall \/ NothingToRecall
BY PlainWrites, SecurityWrites, ArrivalsWrite, ScenarioWrites, FirmPressureWrites, ReadoutWrites,
  EnvironmentWrites, FirmStateWrites, MenuWrites, SelectWrites, RecallWrites, ValuationWrites,
  LiquidityWrites, CreditReviewWrites, DialogueWrites, EscalationWrites, IntentWrites,
  ResponseWrites, ReviewWrites, AttentionStateWrites, MarketIntentWrites, AggregateWrites,
  MarketPressureWrites, NeedWrites, OptionWrites, CapitalReviewWrites, PathWrites
  DEF Next, ReturnResult, Raise

LEMMA LivingStep ==
  ASSUME LivingInv, [Next]_vars
  PROVE  LivingInv'
<1>1. CASE Next
  <2>1. CASE WritesWell
    BY <2>1, AddHolds DEF WritesWell
  <2>. QED
    BY <1>1, <2>1, EveryStep, StartHolds, NextPeriodHolds, EndHolds, NothingToRecallHolds
<1>2. CASE UNCHANGED vars
  <2>1. UNCHANGED <<records, call, period, todo, named, prev, calls>>
    BY <1>2 DEF vars
  <2>2. \A x : IdOf(x)' = IdOf(x)
    BY <2>1 DEF IdOf, Id, Today
  <2>3. There' = There
    BY <2>1, <2>2 DEF There
  <2>4. TodoIsPlan' = TodoIsPlan /\ NamedIsPlan' = NamedIsPlan /\ DoneOrDue' = DoneOrDue
    BY <2>1, <2>2, <2>3 DEF TodoIsPlan, NamedIsPlan, DoneOrDue, OfThisCall
  <2>5. BooksAreGood'
    BY <2>1, BooksKept DEF LivingInv, BooksAreGood
  <2>6. CallIsTyped' /\ PeriodIsOneCalls' /\ (Running => PrevIsPrevious') /\ Running' = Running
    BY <2>1 DEF LivingInv, CallIsTyped, Running, PeriodIsOneCalls, PrevIsPrevious, Previous
  <2>. QED  BY <2>4, <2>5, <2>6 DEF LivingInv, BooksAreGood
<1>. QED  BY <1>1, <1>2

(* A step that adds a record adds the turn's, cited in order.               *)
LEMMA NewIsGood ==
  ASSUME LivingInv, [Next]_vars, NEW id \in New
  PROVE  Running /\ id = TurnId /\ GoodCites(id, records'[id].cites)
<1>1. id \in DOMAIN records' /\ id \notin DOMAIN records
  BY DEF New
<1>2. records' # records
  BY <1>1
<1>3. WritesWell
  <2>1. ~(UNCHANGED vars)
    BY <1>2 DEF vars
  <2>2. ~StartCall /\ ~NextPeriod /\ ~EndCall /\ ~NothingToRecall
    BY <1>2 DEF StartCall, NextPeriod, EndCall, NothingToRecall
  <2>. QED  BY <2>1, <2>2, EveryStep
<1>4. PICK cites : Add(cites) /\ GoodCites(TurnId, cites)
  BY <1>3 DEF WritesWell
<1>5. id = TurnId /\ records'[id].cites = cites
  BY <1>1, <1>4, AddIs
<1>. QED  BY <1>3, <1>4, <1>5 DEF WritesWell

THEOREM LivingInvariance == Spec => []LivingInv
<1>1. Init => LivingInv
  BY LivingInit
<1>2. LivingInv /\ [Next]_vars => LivingInv'
  BY LivingStep
<1>. QED  BY <1>1, <1>2, PTL DEF Spec

(* Two calls' periods are never mixed, whatever calls came before and       *)
(* wherever they failed.                                                   *)
THEOREM PeriodIsOneCallsTheorem == Spec => []PeriodIsOneCalls
<1>1. LivingInv => PeriodIsOneCalls
  BY DEF LivingInv
<1>. QED  BY <1>1, LivingInvariance, PTL

(* What each property asks of one step.                                     *)
ResolvesStep ==
  \A id \in New :
    /\ records'[id].cites \subseteq DOMAIN records
    /\ \A role \in {Investors, Banks, Firms} :
         /\ id.kind # "menu"
         /\ ActorsOf(id) \cap role # {}
         /\ role = Firms => id.kind \in FirmScoped
         => \A c \in records'[id].cites : ActorsOf(c) \cap role \subseteq ActorsOf(id)

FedStep ==
  \A id \in New : id.kind = "attention_state" =>
    {c \in records'[id].cites : c.kind \in {"market_pressure", "path"}} =
      IF period = 1 THEN {}
      ELSE [kind : {"market_pressure", "path"}, who : {<<f>> : f \in ToSet(call.firms)},
            date : {call.dates[period - 1]}]

TimelyStep ==
  \A id \in New : id.kind \notin StandingKinds =>
    \A c \in records'[id].cites :
      c.date > id.date =>
        \/ c.kind = id.kind /\ c.kind \in {"firm_state", "attention_state"}
        \/ id.kind = "attention_state" /\ c \in prev

LEMMA StepsCiteWell ==
  ASSUME LivingInv, [Next]_vars
  PROVE  ResolvesStep /\ FedStep /\ TimelyStep
<1>1. ASSUME NEW id \in New PROVE GoodCites(id, records'[id].cites)
  BY <1>1, NewIsGood
<1>2. ResolvesStep
  BY <1>1 DEF ResolvesStep, GoodCites, OwnActors
<1>3. FedStep
  <2>1. SUFFICES ASSUME NEW id \in New, id.kind = "attention_state"
                 PROVE  {c \in records'[id].cites : c.kind \in {"market_pressure", "path"}} = Previous
    BY DEF FedStep, Previous
  <2>2. Running
    BY <2>1, NewIsGood
  <2>3. prev = Previous
    BY <2>2 DEF LivingInv, PrevIsPrevious
  <2>. QED  BY <1>1, <2>1, <2>3 DEF GoodCites
<1>4. TimelyStep
  BY <1>1 DEF TimelyStep, GoodCites
<1>. QED  BY <1>2, <1>3, <1>4

(* A record cites what the books hold, and its own actors' only.             *)
THEOREM CitationsResolveTheorem == Spec => CitationsResolve
<1>1. LivingInv /\ [Next]_vars => [ResolvesStep]_vars
  BY StepsCiteWell
<1>2. [][ResolvesStep]_vars => CitationsResolve
  BY PTL DEF CitationsResolve, ResolvesStep
<1>. QED  BY <1>1, <1>2, LivingInvariance, PTL DEF Spec

(* An attention state is fed the pressures and paths of the period before,  *)
(* all of them and no others.                                              *)
THEOREM FeedbackTheorem == Spec => FeedbackCitesPreviousPeriod
<1>1. LivingInv /\ [Next]_vars => [FedStep]_vars
  BY StepsCiteWell
<1>2. [][FedStep]_vars => FeedbackCitesPreviousPeriod
  BY PTL DEF FeedbackCitesPreviousPeriod, FedStep
<1>. QED  BY <1>1, <1>2, LivingInvariance, PTL DEF Spec

(* In whatever order the caller gives the dates, nothing of a later one is  *)
(* read, except what is taken over from a state or from the period before. *)
THEOREM NoLookaheadTheorem == Spec => NoLookahead
<1>1. LivingInv /\ [Next]_vars => [TimelyStep]_vars
  BY StepsCiteWell
<1>2. [][TimelyStep]_vars => NoLookahead
  BY PTL DEF NoLookahead, TimelyStep
<1>. QED  BY <1>1, <1>2, LivingInvariance, PTL DEF Spec
===============================================================================
