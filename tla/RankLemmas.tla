------------------------------ MODULE RankLemmas ------------------------------
(***************************************************************************)
(* What several proofs need of ranks, logs and lists.                        *)
(*   In a finite set under a strict total order, the number of elements that  *)
(* come after one numbers the set: each rank below the size is taken once.    *)
(*   A log is read by the places of its records: what an append adds, which    *)
(* record of a kind is the last, how the records of a kind are listed.        *)
(*   Picking, flattening and sorting (Lists) keep the entries of a list, and    *)
(* sorting by keys that no two entries share forgets their order.  A function   *)
(* that steps from one level to the next exists, up to any level (Stepwise).  *)
(***************************************************************************)
EXTENDS Lists, Integers, FiniteSets, FiniteSetsExt, TLAPS, FiniteSetTheorems, FunctionTheorems,
        SequenceTheorems

Rank(D, R, x) == Cardinality({y \in D : <<x, y>> \in R})

TotalOrderOn(D, R) ==
  /\ \A x \in D : <<x, x>> \notin R
  /\ \A x, y, z \in D : <<x, y>> \in R /\ <<y, z>> \in R => <<x, z>> \in R
  /\ \A x, y \in D : x # y => <<x, y>> \in R \/ <<y, x>> \in R

(* An earlier element has a higher rank, and all ranks are below the size.  *)
LEMMA RanksDescend ==
  ASSUME NEW D, IsFiniteSet(D), NEW R, TotalOrderOn(D, R)
  PROVE  /\ \A x \in D : Rank(D, R, x) \in 0..(Cardinality(D) - 1)
         /\ \A x, y \in D : <<x, y>> \in R => Rank(D, R, y) < Rank(D, R, x)
<1>. DEFINE After(x) == {y \in D : <<x, y>> \in R}
<1>1. \A x \in D : IsFiniteSet(After(x)) /\ Cardinality(After(x)) \in Nat
  BY FS_Subset, FS_CardinalityType
<1>2. ASSUME NEW x \in D PROVE Rank(D, R, x) \in 0..(Cardinality(D) - 1)
  <2>1. After(x) \subseteq D \ {x} /\ D \ {x} \subseteq D
    BY DEF TotalOrderOn
  <2>2. /\ IsFiniteSet(D \ {x})
        /\ Cardinality(D \ {x}) = Cardinality(D) - 1
    BY FS_RemoveElement
  <2>3. Cardinality(After(x)) <= Cardinality(D) - 1
    BY <2>1, <2>2, FS_Subset
  <2>4. Cardinality(D) \in Nat
    BY FS_CardinalityType
  <2>. QED  BY <1>1, <2>3, <2>4 DEF Rank
<1>3. ASSUME NEW x \in D, NEW y \in D, <<x, y>> \in R PROVE Rank(D, R, y) < Rank(D, R, x)
  <2>1. After(y) \subseteq After(x)
    BY <1>3 DEF TotalOrderOn
  <2>2. y \in After(x) /\ y \notin After(y)
    BY <1>3 DEF TotalOrderOn
  <2>3. Cardinality(After(y)) <= Cardinality(After(x))
        /\ (Cardinality(After(y)) = Cardinality(After(x)) => After(y) = After(x))
    BY <1>1, <2>1, FS_Subset
  <2>4. Cardinality(After(y)) < Cardinality(After(x))
    <3>1. Cardinality(After(y)) # Cardinality(After(x))
      BY <2>2, <2>3
    <3>. HIDE DEF After
    <3>. QED  BY <1>1, <2>3, <3>1
  <2>. QED  BY <2>4 DEF Rank
<1>. QED  BY <1>2, <1>3

(* Every rank is taken, by one element.                                     *)
LEMMA RanksNumber ==
  ASSUME NEW D, IsFiniteSet(D), NEW R, TotalOrderOn(D, R)
  PROVE  /\ \A x, y \in D : Rank(D, R, x) = Rank(D, R, y) => x = y
         /\ \A n \in 0..(Cardinality(D) - 1) : \E x \in D : Rank(D, R, x) = n
<1>. DEFINE N == Cardinality(D)
            f == [x \in D |-> Rank(D, R, x)]
<1>1. N \in Nat
  BY FS_CardinalityType
<1>2. f \in [D -> 0..(N - 1)]
  BY RanksDescend
<1>3. ASSUME NEW x \in D, NEW y \in D, x # y PROVE Rank(D, R, x) # Rank(D, R, y)
  <2>1. Rank(D, R, x) \in Int /\ Rank(D, R, y) \in Int
    BY <1>1, RanksDescend
  <2>2. <<x, y>> \in R \/ <<y, x>> \in R
    BY <1>3 DEF TotalOrderOn
  <2>3. Rank(D, R, x) < Rank(D, R, y) \/ Rank(D, R, y) < Rank(D, R, x)
    BY <2>2, RanksDescend
  <2>. QED  BY <2>1, <2>3
<1>4. \A x, y \in D : f[x] = f[y] => x = y
  BY <1>3
<1>. HIDE DEF f, N
<1>5. f \in Injection(D, 0..(N - 1))
  BY <1>2, <1>4, Fun_IsInj
<1>6. IsFiniteSet(0..(N - 1)) /\ Cardinality(0..(N - 1)) = N
  BY <1>1, FS_Interval
<1>7. f \in Surjection(D, 0..(N - 1))
  BY <1>5, <1>6, FS_Injection DEF N
<1>8. \A n \in 0..(N - 1) : \E x \in D : f[x] = n
  BY <1>7, Fun_SurjectionProperties
<1>. QED  BY <1>3, <1>8 DEF f, N

(* As many elements as fit have a rank below m.                             *)
LEMMA RanksBelow ==
  ASSUME NEW D, IsFiniteSet(D), NEW R, TotalOrderOn(D, R), NEW m \in Nat
  PROVE  Cardinality({x \in D : Rank(D, R, x) < m})
           = IF m < Cardinality(D) THEN m ELSE Cardinality(D)
<1>. DEFINE N == Cardinality(D)
            S == {x \in D : Rank(D, R, x) < m}
<1>1. N \in Nat /\ \A x \in D : Rank(D, R, x) \in 0..(N - 1)
  BY FS_CardinalityType, RanksDescend
<1>2. CASE m < N
  <2>. DEFINE g == [x \in S |-> Rank(D, R, x)]
  <2>1. g \in [S -> 0..(m - 1)]
    <3>1. \A x \in S : Rank(D, R, x) \in 0..(m - 1)
      BY <1>1
    <3>. QED  BY <3>1
  <2>2. \A x, y \in S : g[x] = g[y] => x = y
    BY RanksNumber
  <2>3. \A n \in 0..(m - 1) : \E x \in S : g[x] = n
    <3>1. ASSUME NEW n \in 0..(m - 1) PROVE \E x \in S : g[x] = n
      <4>1. n \in 0..(N - 1) /\ n < m
        BY <1>1, <1>2
      <4>2. PICK x \in D : Rank(D, R, x) = n
        BY <4>1, RanksNumber
      <4>3. x \in S
        BY <4>1, <4>2
      <4>. QED  BY <4>2, <4>3
    <3>. QED  BY <3>1
  <2>. HIDE DEF g, S
  <2>4. g \in Bijection(S, 0..(m - 1))
    BY <2>1, <2>2, <2>3, Fun_IsBij
  <2>5. ExistsBijection(S, 0..(m - 1))
    BY <2>4, Fun_ExistsBij
  <2>6. IsFiniteSet(S)
    BY FS_Subset DEF S
  <2>7. Cardinality(S) = Cardinality(0..(m - 1))
    BY <2>5, <2>6, FS_Bijection
  <2>8. Cardinality(0..(m - 1)) = m
    BY FS_Interval
  <2>. QED  BY <1>2, <2>7, <2>8 DEF S
<1>3. CASE ~(m < N)
  <2>1. S = D
    BY <1>1, <1>3
  <2>. QED  BY <1>3, <2>1
<1>. QED  BY <1>2, <1>3

Above == {p \in Nat \X Nat : p[1] < p[2]}

(* The natural numbers of a finite set are ranked by size.                  *)
LEMMA AboveIsTotal ==
  ASSUME NEW S \in SUBSET Nat
  PROVE  /\ TotalOrderOn(S, Above)
         /\ \A i \in S : Rank(S, Above, i) = Cardinality({j \in S : j > i})
<1>1. \A i, j \in S : <<i, j>> \in Above <=> i < j
  BY DEF Above
<1>2. TotalOrderOn(S, Above)
  <2>1. \A i \in S : i \in Nat
    OBVIOUS
  <2>. QED  BY <1>1, <2>1 DEF TotalOrderOn
<1>3. \A i \in S : {j \in S : <<i, j>> \in Above} = {j \in S : j > i}
  BY <1>1
<1>. QED  BY <1>2, <1>3 DEF Rank

(* Every rank below the size is taken by a number of the set.               *)
LEMMA SomeRank ==
  ASSUME NEW S \in SUBSET Nat, IsFiniteSet(S)
  PROVE  \A n \in 0..(Cardinality(S) - 1) : \E x \in S : Rank(S, Above, x) = n
<1>1. TotalOrderOn(S, Above)
  BY AboveIsTotal
<1>2. ASSUME NEW D, IsFiniteSet(D), NEW R, TotalOrderOn(D, R)
      PROVE  \A n \in 0..(Cardinality(D) - 1) : \E x \in D : Rank(D, R, x) = n
  BY <1>2, RanksNumber
<1>. QED  BY <1>1, <1>2

(* Max() of the library, for the sets it is used on here.                   *)
LEMMA MaxIsGreatest ==
  ASSUME NEW S \in SUBSET Nat, IsFiniteSet(S), S # {}
  PROVE  Max(S) \in S /\ \A i \in S : i <= Max(S)
<1>1. Cardinality(S) \in Nat /\ Cardinality(S) # 0
  BY FS_CardinalityType, FS_EmptySet
<1>2. 0 \in 0..(Cardinality(S) - 1)
  BY <1>1
<1>3. PICK x \in S : Rank(S, Above, x) = 0
  BY <1>2, SomeRank
<1>4. {j \in S : j > x} = {}
  <2>1. IsFiniteSet({j \in S : j > x})
    BY FS_Subset
  <2>. QED  BY <1>3, <2>1, AboveIsTotal, FS_EmptySet
<1>5. \A y \in S : x >= y
  BY <1>4
<1>. QED  BY <1>5 DEF Max

Below == {p \in Nat \X Nat : p[1] > p[2]}

(* Counted from below, the place of a number of a finite set is its own.     *)
LEMMA PlacesNumber ==
  ASSUME NEW S \in SUBSET Nat, IsFiniteSet(S)
  PROVE  /\ \A n \in 1..Cardinality(S) : \E x \in S : Cardinality({y \in S : y <= x}) = n
         /\ \A x \in S : Cardinality({y \in S : y <= x}) \in 1..Cardinality(S)
         /\ \A x, y \in S : Cardinality({z \in S : z <= x}) = Cardinality({z \in S : z <= y}) => x = y
<1>. DEFINE place(x) == Cardinality({y \in S : y <= x})
<1>0. Cardinality(S) \in Nat
  BY FS_CardinalityType
<1>1. TotalOrderOn(S, Below)
  <2>1. \A i, j \in S : <<i, j>> \in Below <=> i > j
    BY DEF Below
  <2>2. \A i \in S : i \in Nat
    OBVIOUS
  <2>. QED  BY <2>1, <2>2 DEF TotalOrderOn
<1>2. ASSUME NEW x \in S
      PROVE  place(x) = Rank(S, Below, x) + 1 /\ Rank(S, Below, x) \in Nat
  <2>. DEFINE A == {y \in S : <<x, y>> \in Below}
  <2>1. {y \in S : y <= x} = A \cup {x} /\ x \notin A
    <3>1. \A y \in S : y \in Nat /\ x \in Nat
      OBVIOUS
    <3>2. \A y \in S : <<x, y>> \in Below <=> y < x
      BY <3>1 DEF Below
    <3>3. \A y \in S : y <= x <=> y < x \/ y = x
      BY <3>1
    <3>4. ~(x < x)
      BY <3>1
    <3>. QED  BY <3>2, <3>3, <3>4
  <2>2. IsFiniteSet(A)
    BY FS_Subset
  <2>3. Cardinality(A \cup {x}) = Cardinality(A) + 1 /\ Cardinality(A) \in Nat
    <3>. HIDE DEF A
    <3>. QED  BY <2>1, <2>2, FS_AddElement, FS_CardinalityType
  <2>4. place(x) = Cardinality(A \cup {x}) /\ Rank(S, Below, x) = Cardinality(A)
    BY <2>1 DEF Rank
  <2>. HIDE DEF A, place
  <2>. QED  BY <2>3, <2>4
<1>3. ASSUME NEW D, IsFiniteSet(D), NEW R, TotalOrderOn(D, R)
      PROVE  /\ \A n \in 0..(Cardinality(D) - 1) : \E x \in D : Rank(D, R, x) = n
             /\ \A x \in D : Rank(D, R, x) \in 0..(Cardinality(D) - 1)
             /\ \A x, y \in D : Rank(D, R, x) = Rank(D, R, y) => x = y
  <2>1. \A n \in 0..(Cardinality(D) - 1) : \E x \in D : Rank(D, R, x) = n
    BY <1>3, RanksNumber
  <2>2. \A x \in D : Rank(D, R, x) \in 0..(Cardinality(D) - 1)
    BY <1>3, RanksDescend
  <2>3. \A x, y \in D : Rank(D, R, x) = Rank(D, R, y) => x = y
    BY <1>3, RanksNumber
  <2>. QED  BY <2>1, <2>2, <2>3
<1>4. /\ \A n \in 0..(Cardinality(S) - 1) : \E x \in S : Rank(S, Below, x) = n
      /\ \A x \in S : Rank(S, Below, x) \in 0..(Cardinality(S) - 1)
      /\ \A x, y \in S : Rank(S, Below, x) = Rank(S, Below, y) => x = y
  BY <1>1, <1>3
<1>. HIDE DEF place
<1>5. ASSUME NEW n \in 1..Cardinality(S) PROVE \E x \in S : place(x) = n
  <2>1. n - 1 \in 0..(Cardinality(S) - 1)
    BY <1>0
  <2>2. PICK x \in S : Rank(S, Below, x) = n - 1
    BY <1>4, <2>1
  <2>. QED  BY <1>2, <2>2
<1>6. ASSUME NEW x \in S PROVE place(x) \in 1..Cardinality(S)
  BY <1>0, <1>2, <1>4
<1>7. ASSUME NEW x \in S, NEW y \in S, place(x) = place(y) PROVE x = y
  <2>1. Rank(S, Below, x) = Rank(S, Below, y)
    BY <1>2, <1>7
  <2>. QED  BY <1>4, <2>1
<1>. QED  BY <1>5, <1>6, <1>7 DEF place

(* Min() of the library, likewise.                                          *)
LEMMA MinIsLeast ==
  ASSUME NEW S \in SUBSET Nat, IsFiniteSet(S), S # {}
  PROVE  Min(S) \in S /\ \A i \in S : Min(S) <= i
<1>1. 1 \in 1..Cardinality(S)
  BY FS_CardinalityType, FS_EmptySet
<1>2. PICK x \in S : Cardinality({y \in S : y <= x}) = 1
  BY <1>1, PlacesNumber
<1>3. ASSUME NEW z \in S PROVE x <= z
  <2>1. SUFFICES ASSUME z < x PROVE FALSE
    OBVIOUS
  <2>2. Cardinality({y \in S : y <= z}) \in 1..Cardinality(S)
    BY PlacesNumber
  <2>. DEFINE A == {y \in S : y <= z}
              B == {y \in S : y <= x}
  <2>3. A \subseteq B /\ x \in B /\ x \notin A /\ IsFiniteSet(B)
    <3>1. \A y \in S : y \in Nat
      OBVIOUS
    <3>2. \A y \in S : y <= z => y <= x
      BY <2>1, <3>1
    <3>3. x <= x /\ ~(x <= z)
      BY <2>1, <3>1
    <3>4. IsFiniteSet(B)
      BY FS_Subset
    <3>. QED  BY <3>2, <3>3, <3>4
  <2>4. Cardinality(A) < Cardinality(B)
    <3>. HIDE DEF A, B
    <3>1. Cardinality(A) <= Cardinality(B) /\ (Cardinality(A) = Cardinality(B) => A = B)
      BY <2>3, FS_Subset
    <3>2. Cardinality(A) \in Nat /\ Cardinality(B) \in Nat
      BY <2>3, FS_Subset, FS_CardinalityType
    <3>3. A # B
      BY <2>3
    <3>. QED  BY <3>1, <3>2, <3>3
  <2>. HIDE DEF A
  <2>5. Cardinality(A) < 1
    BY <1>2, <2>4
  <2>. QED  BY <2>2, <2>5 DEF A
<1>. QED  BY <1>3 DEF Min

-----------------------------------------------------------------------------
(***************************************************************************)
(* A list as a value.  The records of a ledger differ in their fields, so     *)
(* its type is that of a sequence and no more.                              *)
(***************************************************************************)
IsLog(s) == Len(s) \in Nat /\ s = [i \in 1..Len(s) |-> s[i]]

(* One list after another.                                                  *)
LEMMA LogExtended ==
  ASSUME NEW s, NEW t, IsLog(s), IsLog(t)
  PROVE  /\ IsLog(s \o t)
         /\ Len(s \o t) = Len(s) + Len(t)
         /\ \A i \in 1..Len(s) : (s \o t)[i] = s[i]
         /\ \A i \in 1..Len(t) : (s \o t)[Len(s) + i] = t[i]
<1>. DEFINE A == {s[i] : i \in 1..Len(s)} \cup {t[i] : i \in 1..Len(t)}
<1>1. s \in Seq(A)
  <2>1. [i \in 1..Len(s) |-> s[i]] \in [1..Len(s) -> A]
    OBVIOUS
  <2>2. s \in [1..Len(s) -> A] /\ Len(s) \in Nat
    BY <2>1 DEF IsLog
  <2>. HIDE DEF A
  <2>. QED  BY <2>2, IsASeq
<1>2. t \in Seq(A)
  <2>1. [i \in 1..Len(t) |-> t[i]] \in [1..Len(t) -> A]
    OBVIOUS
  <2>2. t \in [1..Len(t) -> A] /\ Len(t) \in Nat
    BY <2>1 DEF IsLog
  <2>. HIDE DEF A
  <2>. QED  BY <2>2, IsASeq
<1>. HIDE DEF A
<1>3. /\ s \o t \in Seq(A) /\ Len(s \o t) = Len(s) + Len(t)
      /\ \A i \in 1..Len(s) : (s \o t)[i] = s[i]
      /\ Len(s) \in Nat /\ Len(t) \in Nat
  BY <1>1, <1>2, ConcatProperties
<1>4. \A i \in 1..Len(t) : (s \o t)[Len(s) + i] = t[i]
  BY <1>1, <1>2
<1>5. IsLog(s \o t)
  <2>. DEFINE u == s \o t
  <2>1. u \in Seq(A)
    BY <1>3
  <2>. HIDE DEF u
  <2>2. IsLog(u)
    BY <2>1 DEF IsLog
  <2>. QED  BY <2>2 DEF u
<1>. QED  BY <1>3, <1>4, <1>5

(* A sequence given place by place.                                         *)
LEMMA LogOf ==
  ASSUME NEW k \in Nat, NEW s, s = [i \in 1..k |-> s[i]]
  PROVE  IsLog(s) /\ Len(s) = k /\ DOMAIN s = 1..k
<1>. DEFINE A == {s[i] : i \in 1..k}
<1>1. DOMAIN s = 1..k
  OBVIOUS
<1>2. s \in Seq(A)
  <2>1. [i \in 1..k |-> s[i]] \in [1..k -> A]
    OBVIOUS
  <2>2. s \in [1..k -> A]
    BY <2>1
  <2>. HIDE DEF A
  <2>. QED  BY <2>2, IsASeq
<1>. HIDE DEF A
<1>3. Len(s) \in Nat /\ DOMAIN s = 1..Len(s)
  BY <1>2
<1>4. Len(s) = k
  BY <1>1, <1>3
<1>. QED  BY <1>1, <1>4 DEF IsLog

(* The call told one record.                                                *)
LEMMA LogOfOne ==
  ASSUME NEW f
  PROVE  IsLog(<<f>>) /\ Len(<<f>>) = 1 /\ <<f>>[1] = f
  BY DEF IsLog

(* The list of one element more.                                            *)
LEMMA LogOfAppend ==
  ASSUME NEW s, IsLog(s), NEW x
  PROVE  /\ IsLog(Append(s, x)) /\ Len(Append(s, x)) = Len(s) + 1
         /\ Append(s, x) = [i \in 1..(Len(s) + 1) |-> IF i = Len(s) + 1 THEN x ELSE s[i]]
         /\ \A i \in 1..Len(s) : Append(s, x)[i] = s[i]
         /\ Append(s, x)[Len(s) + 1] = x
         /\ DOMAIN s = 1..Len(s)
<1>. DEFINE A == {s[i] : i \in 1..Len(s)} \cup {x}
            t == Append(s, x)
<1>1. s \in Seq(A) /\ x \in A
  <2>1. [i \in 1..Len(s) |-> s[i]] \in [1..Len(s) -> A] /\ x \in A
    OBVIOUS
  <2>2. s \in [1..Len(s) -> A] /\ Len(s) \in Nat
    BY <2>1 DEF IsLog
  <2>. HIDE DEF A
  <2>. QED  BY <2>1, <2>2, IsASeq
<1>. HIDE DEF A
<1>2. /\ t \in Seq(A) /\ Len(s) \in Nat /\ DOMAIN s = 1..Len(s)
      /\ Len(t) = Len(s) + 1 /\ DOMAIN t = 1..(Len(s) + 1)
      /\ \A i \in 1..Len(s) : t[i] = s[i]
      /\ t[Len(s) + 1] = x
  BY <1>1, AppendProperties
<1>. HIDE DEF t
<1>3. IsLog(t)
  BY <1>2 DEF IsLog
<1>4. \A i \in 1..(Len(s) + 1) : i = Len(s) + 1 \/ i \in 1..Len(s)
  BY <1>2
<1>5. t = [i \in 1..(Len(s) + 1) |-> t[i]]
  BY <1>2
<1>6. \A i \in 1..(Len(s) + 1) : t[i] = IF i = Len(s) + 1 THEN x ELSE s[i]
  BY <1>2, <1>4
<1>7. t = [i \in 1..(Len(s) + 1) |-> IF i = Len(s) + 1 THEN x ELSE s[i]]
  BY <1>5, <1>6
<1>. QED  BY <1>2, <1>3, <1>7 DEF t

(* The last of some places, one further or not.                             *)
LEMMA LastOne ==
  ASSUME NEW n \in Nat, NEW S, S \subseteq 1..n
  PROVE  /\ S \in SUBSET Nat /\ IsFiniteSet(S)
         /\ S # {} => Max(S) \in S
         /\ Max(S \cup {n + 1}) = n + 1
<1>1. IsFiniteSet(1..n)
  BY FS_Interval
<1>2. S \in SUBSET Nat /\ IsFiniteSet(S)
  <2>1. IsFiniteSet(S)
    BY <1>1, FS_Subset
  <2>2. 1..n \subseteq Nat
    OBVIOUS
  <2>. QED  BY <2>1, <2>2
<1>3. S # {} => Max(S) \in S
  BY <1>2, MaxIsGreatest
<1>4. Max(S \cup {n + 1}) = n + 1
  <2>. DEFINE T == S \cup {n + 1}
  <2>0. \A x \in S : x \in Nat /\ x < n + 1
    OBVIOUS
  <2>1. T \in SUBSET Nat /\ T # {} /\ n + 1 \in T
    BY <1>2
  <2>2. IsFiniteSet(T)
    BY <1>2, FS_AddElement
  <2>. HIDE DEF T
  <2>3. Max(T) \in T /\ \A i \in T : i <= Max(T)
    BY <2>1, <2>2, MaxIsGreatest
  <2>4. Max(T) = n + 1 \/ (Max(T) \in S /\ n + 1 <= Max(T))
    BY <2>1, <2>3 DEF T
  <2>5. ~(Max(T) \in S /\ n + 1 <= Max(T))
    <3>1. \A x \in S : ~(n + 1 <= x)
      BY <2>0
    <3>. QED  BY <3>1
  <2>. QED  BY <2>4, <2>5 DEF T
<1>. QED  BY <1>2, <1>3, <1>4

(* A set of numbers as the list of its elements in order.                   *)
Place(S, x) == Cardinality({y \in S : y <= x})
InOrder(S) == [h \in 1..Cardinality(S) |-> CHOOSE x \in S : Place(S, x) = h]

LEMMA InOrderIs ==
  ASSUME NEW S \in SUBSET Nat, IsFiniteSet(S)
  PROVE  /\ DOMAIN InOrder(S) = 1..Cardinality(S)
         /\ \A h \in 1..Cardinality(S) :
              /\ InOrder(S)[h] \in S
              /\ Place(S, InOrder(S)[h]) = h
              /\ \A x \in S : Place(S, x) = h => x = InOrder(S)[h]
<1>1. ASSUME NEW h \in 1..Cardinality(S)
      PROVE  /\ InOrder(S)[h] \in S
             /\ Place(S, InOrder(S)[h]) = h
  <2>1. \E x \in S : Place(S, x) = h
    BY PlacesNumber DEF Place
  <2>. QED  BY <2>1 DEF InOrder
<1>2. \A x, y \in S : Place(S, x) = Place(S, y) => x = y
  BY PlacesNumber DEF Place
<1>. QED  BY <1>1, <1>2 DEF InOrder

(* A greater number comes last and leaves the others where they are.        *)
LEMMA InOrderGrows ==
  ASSUME NEW S \in SUBSET Nat, IsFiniteSet(S), NEW m \in Nat, \A x \in S : x < m
  PROVE  /\ IsFiniteSet(S \cup {m}) /\ Cardinality(S) \in Nat
         /\ Cardinality(S \cup {m}) = Cardinality(S) + 1
         /\ \A h \in 1..Cardinality(S) : InOrder(S \cup {m})[h] = InOrder(S)[h]
         /\ InOrder(S \cup {m})[Cardinality(S) + 1] = m
<1>. DEFINE T == S \cup {m}
            k == Cardinality(S)
<1>0. \A x \in S : x \in Nat /\ x < m /\ ~(m <= x) /\ x <= m
  OBVIOUS
<1>1. m \notin S /\ T \in SUBSET Nat /\ m <= m
  BY <1>0
<1>2. IsFiniteSet(T) /\ Cardinality(T) = k + 1 /\ k \in Nat
  BY <1>1, FS_AddElement, FS_CardinalityType
<1>3. Place(T, m) = k + 1 /\ m \in T
  <2>1. {y \in T : y <= m} = T
    BY <1>0, <1>1
  <2>. QED  BY <1>2, <2>1 DEF Place
<1>4. ASSUME NEW x \in S PROVE Place(T, x) = Place(S, x) /\ x \in T
  <2>1. {y \in T : y <= x} = {y \in S : y <= x}
    BY <1>0
  <2>. QED  BY <2>1 DEF Place
<1>. HIDE DEF T
<1>5. \A h \in 1..(k + 1) : \A x \in T : Place(T, x) = h => x = InOrder(T)[h]
  BY <1>1, <1>2, InOrderIs
<1>6. InOrder(T)[k + 1] = m
  <2>1. k + 1 \in 1..(k + 1)
    BY <1>2
  <2>. QED  BY <1>3, <1>5, <2>1
<1>7. ASSUME NEW h \in 1..k PROVE InOrder(T)[h] = InOrder(S)[h]
  <2>1. h \in 1..(k + 1)
    BY <1>2
  <2>2. InOrder(S)[h] \in S /\ Place(S, InOrder(S)[h]) = h
    BY InOrderIs
  <2>. QED  BY <1>4, <1>5, <2>1, <2>2
<1>. QED  BY <1>2, <1>6, <1>7 DEF T

(* The entries of a list at some of its places, and what one more entry     *)
(* does to them.                                                           *)
EntriesAt(s, S) == [h \in 1..Cardinality(S) |-> s[InOrder(S)[h]]]

MoreEntries(s, t, S, m) ==
  /\ EntriesAt(t, S) = EntriesAt(s, S)
  /\ EntriesAt(t, S \cup {m}) = Append(EntriesAt(s, S), t[m])

LEMMA EntriesAtGrow ==
  ASSUME NEW n \in Nat, NEW s, NEW t, NEW S, S \subseteq 1..n, \A i \in 1..n : t[i] = s[i]
  PROVE  MoreEntries(s, t, S, n + 1)
<1>. DEFINE k == Cardinality(S)
            T == S \cup {n + 1}
            p == EntriesAt(s, S)
<1>0. n + 1 \in Nat /\ \A x \in S : x < n + 1
  <2>1. n + 1 \in Nat /\ \A x \in 1..n : x < n + 1
    BY ONLY n \in Nat
  <2>2. \A x \in S : x \in 1..n
    BY ONLY S \subseteq 1..n
  <2>. QED  BY ONLY <2>1, <2>2
<1>a. S \in SUBSET Nat /\ IsFiniteSet(S)
  BY LastOne
<1>1. S \in SUBSET Nat /\ IsFiniteSet(S) /\ n + 1 \in Nat /\ \A x \in S : x < n + 1
  BY <1>0, <1>a
<1>2. /\ k \in Nat /\ Cardinality(T) = k + 1
      /\ \A h \in 1..k : InOrder(T)[h] = InOrder(S)[h]
      /\ InOrder(T)[k + 1] = n + 1
  BY <1>1, InOrderGrows
<1>3. \A h \in 1..k : t[InOrder(S)[h]] = s[InOrder(S)[h]]
  <2>1. \A h \in 1..k : InOrder(S)[h] \in S
    BY <1>a, InOrderIs
  <2>. QED  BY <2>1
<1>4. p = [h \in 1..k |-> s[InOrder(S)[h]]] /\ EntriesAt(t, S) = p
  BY <1>3 DEF EntriesAt
<1>5. p = [h \in 1..k |-> p[h]] /\ \A h \in 1..k : p[h] = s[InOrder(S)[h]]
  BY <1>4
<1>6. EntriesAt(t, T) = [h \in 1..(k + 1) |-> t[InOrder(T)[h]]]
  BY <1>2 DEF EntriesAt
<1>. HIDE DEF p, T
<1>7. IsLog(p) /\ Len(p) = k
  BY <1>2, <1>5, LogOf
<1>8. Append(p, t[n + 1]) = [h \in 1..(k + 1) |-> IF h = k + 1 THEN t[n + 1] ELSE p[h]]
  BY <1>7, LogOfAppend
<1>9. \A h \in 1..(k + 1) : h = k + 1 \/ (h # k + 1 /\ h \in 1..k)
  BY <1>2
<1>10. \A h \in 1..(k + 1) : t[InOrder(T)[h]] = IF h = k + 1 THEN t[n + 1] ELSE p[h]
  BY <1>2, <1>3, <1>5, <1>9
<1>11. EntriesAt(t, T) = Append(p, t[n + 1])
  BY <1>6, <1>8, <1>10
<1>. QED  BY <1>4, <1>11 DEF p, T, MoreEntries

-----------------------------------------------------------------------------
(***************************************************************************)
(* Induction up to a bound, over a set of numbers in the place of a          *)
(* predicate, and what is defined step by step from the step before.         *)
(***************************************************************************)
LEMMA Climb ==
  ASSUME NEW N \in Nat, NEW T, 0 \in T, \A n \in 1..N : n - 1 \in T => n \in T
  PROVE  \A n \in 0..N : n \in T
<1>. DEFINE B == {n \in 0..N : n \notin T}
<1>1. SUFFICES ASSUME B # {} PROVE FALSE
  OBVIOUS
<1>2. B \in SUBSET Nat /\ IsFiniteSet(B)
  <2>1. 0..N \subseteq Nat /\ IsFiniteSet(0..N) /\ B \subseteq 0..N
    BY FS_Interval
  <2>. QED  BY <2>1, FS_Subset
<1>3. Min(B) \in B /\ \A i \in B : Min(B) <= i
  <2>. HIDE DEF B
  <2>. QED  BY <1>1, <1>2, MinIsLeast
<1>4. PICK m \in 0..N : m = Min(B) /\ m \notin T
  BY <1>3
<1>5. m \in 1..N /\ m - 1 \in 0..N /\ ~(m <= m - 1)
  BY <1>4
<1>6. m - 1 \in T
  <2>1. m - 1 \notin B
    BY <1>3, <1>4, <1>5
  <2>. QED  BY <1>5, <2>1
<1>. QED  BY <1>4, <1>5, <1>6

LEMMA Stepwise ==
  ASSUME NEW S, NEW x \in S, NEW N \in Nat, NEW g \in [1..N -> [S -> S]]
  PROVE  \E f \in [0..N -> S] : f[0] = x /\ \A n \in 1..N : f[n] = g[n][f[n - 1]]
<1>. DEFINE Steps(m) == {f \in [0..m -> S] : f[0] = x /\ \A n \in 1..m : f[n] = g[n][f[n - 1]]}
            T == {m \in 0..N : Steps(m) # {}}
<1>1. 0 \in T
  <2>1. [n \in 0..0 |-> x] \in Steps(0)
    <3>1. 1..0 = {} /\ 0 \in 0..0
      OBVIOUS
    <3>. QED  BY <3>1
  <2>. QED  BY <2>1
<1>2. ASSUME NEW m \in 1..N, m - 1 \in T PROVE m \in T
  <2>1. PICK f \in [0..(m - 1) -> S] : f[0] = x /\ \A n \in 1..(m - 1) : f[n] = g[n][f[n - 1]]
    BY <1>2
  <2>. DEFINE h == [n \in 0..m |-> IF n = m THEN g[m][f[m - 1]] ELSE f[n]]
  <2>2. /\ m - 1 \in 0..(m - 1) /\ 0 \in 0..(m - 1) /\ m # 0 /\ m \in 0..m /\ 0 \in 0..m
        /\ \A n \in 0..m : n = m \/ n \in 0..(m - 1)
        /\ \A n \in 1..m : n \in 0..m /\ n - 1 \in 0..(m - 1) /\ n - 1 \in 0..m /\ n - 1 # m
        /\ \A n \in 1..m : n = m \/ (n # m /\ n \in 1..(m - 1))
    OBVIOUS
  <2>3. g[m][f[m - 1]] \in S
    BY <2>2
  <2>4. h \in [0..m -> S]
    BY <2>2, <2>3
  <2>5. h[0] = x
    BY <2>1, <2>2
  <2>6. \A n \in 1..m : h[n] = g[n][h[n - 1]]
    <3>1. \A n \in 1..m : h[n - 1] = f[n - 1]
      BY <2>2
    <3>2. h[m] = g[m][h[m - 1]]
      BY <2>2, <3>1
    <3>3. \A n \in 1..(m - 1) : n \in 1..m /\ h[n] = f[n]
      BY <2>2
    <3>. QED  BY <2>1, <2>2, <3>1, <3>2, <3>3
  <2>7. h \in Steps(m)
    <3>. HIDE DEF h
    <3>. QED  BY <2>4, <2>5, <2>6
  <2>. HIDE DEF Steps
  <2>. QED  BY <2>2, <2>7
<1>3. N \in T
  <2>. HIDE DEF T
  <2>1. N \in 0..N
    OBVIOUS
  <2>. QED  BY <1>1, <1>2, <2>1, Climb
<1>. QED  BY <1>3

(* The same with a name for it, which the provers take better than the formula. *)
Walks(S, x, N, g) == \E f \in [0..N -> S] : f[0] = x /\ \A n \in 1..N : f[n] = g[n][f[n - 1]]

LEMMA WalkExists ==
  ASSUME NEW S, NEW x \in S, NEW N \in Nat, NEW g \in [1..N -> [S -> S]]
  PROVE  Walks(S, x, N, g)
BY Stepwise DEF Walks

-----------------------------------------------------------------------------
(***************************************************************************)
(* Lists taken from lists.                                                  *)
(***************************************************************************)
LEMMA PickedEntries == \A s, P : Picked(s, P) = EntriesAt(s, P)
<1>. TAKE s, P
<1>. DEFINE at(h) == CHOOSE n \in P : Cardinality({m \in P : m <= n}) = h
            by(h) == CHOOSE x \in P : Place(P, x) = h
<1>1. \A h : at(h) = by(h)
  BY DEF Place
<1>2. Picked(s, P) = [h \in 1..Cardinality(P) |-> s[at(h)]]
  BY DEF Picked
<1>3. EntriesAt(s, P) = [h \in 1..Cardinality(P) |-> s[by(h)]]
  <2>1. \A h \in 1..Cardinality(P) : InOrder(P)[h] = by(h)
    BY DEF InOrder
  <2>. HIDE DEF by
  <2>. QED  BY <2>1 DEF EntriesAt
<1>. HIDE DEF at, by
<1>. QED  BY <1>1, <1>2, <1>3

EntriesOf(s) == {s[n] : n \in DOMAIN s}

(* What is known of the entries at some places: which they are, how many, and *)
(* which is the first.                                                     *)
PickedFrom(s, P, t) ==
  /\ IsLog(t) /\ Cardinality(P) \in Nat /\ Len(t) = Cardinality(P) /\ DOMAIN t = 1..Cardinality(P)
  /\ \A h \in 1..Cardinality(P) : InOrder(P)[h] \in P /\ t[h] = s[InOrder(P)[h]]
  /\ EntriesOf(t) = {s[n] : n \in P}
  /\ P # {} => \E n \in P : t[1] = s[n] /\ 1 \in DOMAIN t /\ \A m \in P : n <= m
  /\ P = {} <=> t = <<>>

LEMMA PickedIs ==
  ASSUME NEW s, IsLog(s), NEW P, P \subseteq DOMAIN s
  PROVE  PickedFrom(s, P, Picked(s, P))
<1>. DEFINE k == Cardinality(P)
            t == Picked(s, P)
<1>1. P \in SUBSET Nat /\ IsFiniteSet(P)
  <2>1. DOMAIN s = 1..Len(s) /\ Len(s) \in Nat
    BY DEF IsLog
  <2>. QED  BY <2>1, LastOne
<1>2. k \in Nat /\ (k = 0 <=> P = {})
  BY <1>1, FS_CardinalityType, FS_EmptySet
<1>3. /\ \A h \in 1..k : InOrder(P)[h] \in P /\ Place(P, InOrder(P)[h]) = h
      /\ \A h \in 1..k : \A x \in P : Place(P, x) = h => x = InOrder(P)[h]
  BY <1>1, InOrderIs
<1>4. t = [h \in 1..k |-> s[InOrder(P)[h]]]
  BY PickedEntries DEF EntriesAt
<1>5. DOMAIN t = 1..k /\ t = [h \in 1..k |-> t[h]] /\ \A h \in 1..k : t[h] = s[InOrder(P)[h]]
  <2>. HIDE DEF k
  <2>. QED  BY <1>4
<1>. HIDE DEF t, k
<1>6. IsLog(t) /\ Len(t) = k
  BY <1>2, <1>5, LogOf
<1>7. \A n \in P : Place(P, n) \in 1..k
  BY <1>1, PlacesNumber DEF Place, k
<1>8. EntriesOf(t) = {s[n] : n \in P}
  <2>1. \A h \in 1..k : \E n \in P : t[h] = s[n]
    BY <1>3, <1>5
  <2>2. \A n \in P : \E h \in 1..k : t[h] = s[n]
    BY <1>3, <1>5, <1>7
  <2>. QED  BY <1>5, <2>1, <2>2 DEF EntriesOf
<1>9. ASSUME P # {} PROVE \E n \in P : t[1] = s[n] /\ 1 \in DOMAIN t /\ \A m \in P : n <= m
  <2>1. 1 \in 1..k
    BY <1>2, <1>9
  <2>2. Min(P) \in P /\ \A i \in P : Min(P) <= i
    BY <1>1, <1>9, MinIsLeast
  <2>3. PICK n \in P : \A m \in P : n <= m
    BY <2>2
  <2>4. Place(P, n) = 1
    <3>0. \A y \in P : y \in Nat
      BY <1>1
    <3>1. {y \in P : y <= n} = {n}
      BY <2>3, <3>0
    <3>. QED  BY <3>1, FS_Singleton DEF Place
  <2>5. n = InOrder(P)[1]
    BY <1>3, <2>1, <2>4
  <2>. QED  BY <1>5, <2>1, <2>3, <2>5
<1>10. P = {} <=> t = <<>>
  <2>1. t = <<>> <=> Len(t) = 0
    BY <1>6 DEF IsLog
  <2>. QED  BY <1>2, <1>6, <2>1
<1>. QED  BY <1>2, <1>3, <1>5, <1>6, <1>8, <1>9, <1>10 DEF PickedFrom, t, k

Firsts(s) == {n \in DOMAIN s : \A m \in 1..(n - 1) : s[m] # s[n]}

(* Duplicates go, the entries and the first of them stay. *)
DistinctOf(s, t) ==
  /\ IsLog(t) /\ DOMAIN t = 1..Len(t)
  /\ EntriesOf(t) = EntriesOf(s)
  /\ 1 \in DOMAIN s => 1 \in DOMAIN t /\ t[1] = s[1]
  /\ \A h, i \in DOMAIN t : t[h] = t[i] => h = i

LEMMA DistinctIs ==
  ASSUME NEW s, IsLog(s)
  PROVE  DistinctOf(s, Distinct(s)) /\ PickedFrom(s, Firsts(s), Distinct(s))
<1>. DEFINE P == Firsts(s)
            t == Distinct(s)
<1>1. DOMAIN s = 1..Len(s) /\ Len(s) \in Nat
  BY DEF IsLog
<1>2. P \subseteq DOMAIN s
  BY DEF Firsts
<1>3. t = Picked(s, P)
  BY DEF Distinct, Firsts
<1>4. PickedFrom(s, P, t)
  BY <1>2, <1>3, PickedIs
<1>5. \A n \in P : \A m \in 1..(n - 1) : s[m] # s[n]
  BY DEF Firsts
<1>6. ASSUME NEW n \in DOMAIN s PROVE \E m \in P : s[m] = s[n]
  <2>. DEFINE S == {i \in DOMAIN s : s[i] = s[n]}
  <2>1. S \in SUBSET Nat /\ IsFiniteSet(S) /\ S # {}
    <3>1. S \subseteq 1..Len(s) /\ n \in S
      BY <1>1
    <3>. HIDE DEF S
    <3>. QED  BY <1>1, <3>1, LastOne
  <2>2. Min(S) \in S /\ \A i \in S : Min(S) <= i
    <3>. HIDE DEF S
    <3>. QED  BY <2>1, MinIsLeast
  <2>3. PICK m \in DOMAIN s : s[m] = s[n] /\ \A i \in S : m <= i
    BY <2>2
  <2>4. ASSUME NEW i \in 1..(m - 1) PROVE s[i] # s[m]
    <3>1. i \in DOMAIN s /\ ~(m <= i)
      BY <1>1, <2>4
    <3>2. i \notin S
      BY <2>3, <3>1
    <3>. QED  BY <2>3, <3>1, <3>2
  <2>. QED  BY <2>3, <2>4 DEF Firsts
<1>. HIDE DEF P, t
<1>7. EntriesOf(t) = EntriesOf(s)
  BY <1>2, <1>4, <1>6 DEF PickedFrom, EntriesOf
<1>8. ASSUME 1 \in DOMAIN s PROVE 1 \in DOMAIN t /\ t[1] = s[1]
  <2>1. 1 \in P
    BY <1>8 DEF P, Firsts
  <2>2. PICK n \in P : t[1] = s[n] /\ 1 \in DOMAIN t /\ \A m \in P : n <= m
    BY <1>4, <2>1 DEF PickedFrom
  <2>3. n = 1
    BY <1>1, <1>2, <2>1, <2>2
  <2>. QED  BY <2>2, <2>3
<1>9. ASSUME NEW h \in DOMAIN t, NEW i \in DOMAIN t, t[h] = t[i] PROVE h = i
  <2>1. P \in SUBSET Nat /\ IsFiniteSet(P)
    BY <1>1, <1>2, LastOne
  <2>2. /\ InOrder(P)[h] \in P /\ InOrder(P)[i] \in P
        /\ s[InOrder(P)[h]] = s[InOrder(P)[i]]
        /\ h \in 1..Cardinality(P) /\ i \in 1..Cardinality(P)
    BY <1>4, <1>9 DEF PickedFrom
  <2>3. \A m, n \in P : s[m] = s[n] => ~(m < n)
    <3>1. ASSUME NEW m \in P, NEW n \in P, s[m] = s[n], m < n PROVE FALSE
      <4>1. m \in 1..(n - 1)
        BY <1>1, <1>2, <3>1
      <4>. QED  BY <1>5, <3>1, <4>1 DEF P
    <3>. QED  BY <3>1
  <2>4. InOrder(P)[h] = InOrder(P)[i]
    <3>1. \A m, n \in P : m < n \/ n < m \/ m = n
      BY <2>1
    <3>. QED  BY <2>2, <2>3, <3>1
  <2>5. Place(P, InOrder(P)[h]) = h /\ Place(P, InOrder(P)[i]) = i
    BY <2>1, <2>2, InOrderIs
  <2>. QED  BY <2>4, <2>5
<1>10. DistinctOf(s, t)
  BY <1>4, <1>7, <1>8, <1>9 DEF DistinctOf, PickedFrom
<1>. QED  BY <1>4, <1>10 DEF P, t

-----------------------------------------------------------------------------
LEMMA FirstNumbers ==
  ASSUME NEW n \in Nat
  PROVE  IsFiniteSet(1..n) /\ Cardinality(1..n) = n
<1>1. IsFiniteSet(1..n) /\ Cardinality(1..n) = IF 1 > n THEN 0 ELSE n - 1 + 1
  BY FS_Interval
<1>. QED  BY <1>1

(***************************************************************************)
(* Counted from the first, each place of a finite order has its own element. *)
(***************************************************************************)
Counted(D, R, x) == Cardinality({y \in D : y = x \/ <<x, y>> \in R})
Numbering(D, R) == [h \in 1..Cardinality(D) |-> CHOOSE x \in D : Counted(D, R, x) = h]

NumberedBy(D, R, f) ==
  /\ Cardinality(D) \in Nat
  /\ f \in Bijection(1..Cardinality(D), D)
  /\ \A h, i \in 1..Cardinality(D) : h < i => <<f[i], f[h]>> \in R

LEMMA NumberingIs ==
  ASSUME NEW D, IsFiniteSet(D), NEW R, TotalOrderOn(D, R)
  PROVE  NumberedBy(D, R, Numbering(D, R))
<1>. DEFINE k == Cardinality(D)
            f == Numbering(D, R)
<1>1. k \in Nat
  BY FS_CardinalityType
<1>2. ASSUME NEW x \in D
      PROVE  Counted(D, R, x) = Rank(D, R, x) + 1 /\ Rank(D, R, x) \in Nat
  <2>. DEFINE A == {y \in D : <<x, y>> \in R}
  <2>1. {y \in D : y = x \/ <<x, y>> \in R} = A \cup {x} /\ x \notin A
    BY DEF TotalOrderOn
  <2>2. IsFiniteSet(A)
    BY FS_Subset
  <2>3. Cardinality(A \cup {x}) = Cardinality(A) + 1 /\ Cardinality(A) \in Nat
    <3>. HIDE DEF A
    <3>. QED  BY <2>1, <2>2, FS_AddElement, FS_CardinalityType
  <2>. QED  BY <2>1, <2>3 DEF Counted, Rank
<1>3. \A x, y \in D : <<x, y>> \in R => Rank(D, R, y) < Rank(D, R, x)
  BY RanksDescend
<1>4. /\ \A x, y \in D : Rank(D, R, x) = Rank(D, R, y) => x = y
      /\ \A n \in 0..(k - 1) : \E x \in D : Rank(D, R, x) = n
      /\ \A x \in D : Rank(D, R, x) \in 0..(k - 1)
  BY RanksNumber, RanksDescend
<1>5. ASSUME NEW h \in 1..k PROVE f[h] \in D /\ Counted(D, R, f[h]) = h
  <2>1. h - 1 \in 0..(k - 1)
    BY <1>1
  <2>2. PICK x \in D : Rank(D, R, x) = h - 1
    BY <1>4, <2>1
  <2>3. Counted(D, R, x) = h
    BY <1>2, <2>2
  <2>4. f[h] = CHOOSE y \in D : Counted(D, R, y) = h
    BY DEF Numbering
  <2>. QED  BY <2>3, <2>4
<1>6. f \in [1..k -> D]
  <2>1. f = [h \in 1..k |-> f[h]]
    BY DEF Numbering
  <2>. HIDE DEF f
  <2>. QED  BY <1>5, <2>1
<1>. HIDE DEF f, k
<1>7. \A h, i \in 1..k : f[h] = f[i] => h = i
  BY <1>5
<1>8. ASSUME NEW x \in D PROVE \E h \in 1..k : f[h] = x
  <2>1. Rank(D, R, x) + 1 \in 1..k
    BY <1>1, <1>4
  <2>2. Counted(D, R, f[Rank(D, R, x) + 1]) = Rank(D, R, x) + 1 /\ f[Rank(D, R, x) + 1] \in D
    BY <1>5, <2>1
  <2>3. Rank(D, R, f[Rank(D, R, x) + 1]) = Rank(D, R, x)
    BY <1>2, <2>2
  <2>. QED  BY <1>4, <2>1, <2>2, <2>3
<1>9. f \in Bijection(1..k, D)
  BY <1>6, <1>7, <1>8, Fun_IsBij
<1>10. ASSUME NEW h \in 1..k, NEW i \in 1..k, h < i PROVE <<f[i], f[h]>> \in R
  <2>1. f[h] \in D /\ f[i] \in D /\ Rank(D, R, f[h]) + 1 = h /\ Rank(D, R, f[i]) + 1 = i
    BY <1>2, <1>5
  <2>2. Rank(D, R, f[h]) < Rank(D, R, f[i])
    BY <1>2, <1>10, <2>1
  <2>3. f[h] # f[i]
    BY <1>7, <1>10
  <2>4. <<f[i], f[h]>> \in R \/ <<f[h], f[i]>> \in R
    BY <2>1, <2>3 DEF TotalOrderOn
  <2>5. <<f[h], f[i]>> \notin R
    BY <1>2, <1>3, <2>1, <2>2
  <2>. QED  BY <2>4, <2>5
<1>. QED  BY <1>1, <1>9, <1>10 DEF NumberedBy, f, k

(***************************************************************************)
(* The same entries in another order.                                       *)
(***************************************************************************)
Permuted(s, t) ==
  \E p \in Bijection(DOMAIN s, DOMAIN t) : \A i \in DOMAIN s : s[i] = t[p[i]]

LEMMA PermutedBack ==
  ASSUME NEW s, NEW t, Permuted(s, t)
  PROVE  Permuted(t, s)
<1>1. PICK p \in Bijection(DOMAIN s, DOMAIN t) : \A i \in DOMAIN s : s[i] = t[p[i]]
  BY DEF Permuted
<1>. DEFINE q == Inverse(p, DOMAIN s, DOMAIN t)
<1>2. q \in Bijection(DOMAIN t, DOMAIN s) /\ \A i \in DOMAIN s : q[p[i]] = i
  BY Fun_BijInverse
<1>3. \A j \in DOMAIN t : \E i \in DOMAIN s : p[i] = j
  BY Fun_BijectionProperties
<1>. HIDE DEF q
<1>4. \A j \in DOMAIN t : t[j] = s[q[j]]
  BY <1>1, <1>2, <1>3
<1>. QED  BY <1>2, <1>4 DEF Permuted

LEMMA PermutedOn ==
  ASSUME NEW s, NEW t, NEW u, Permuted(s, t), Permuted(t, u)
  PROVE  Permuted(s, u)
<1>1. PICK p \in Bijection(DOMAIN s, DOMAIN t) : \A i \in DOMAIN s : s[i] = t[p[i]]
  BY DEF Permuted
<1>2. PICK q \in Bijection(DOMAIN t, DOMAIN u) : \A i \in DOMAIN t : t[i] = u[q[i]]
  BY DEF Permuted
<1>. DEFINE r == [i \in DOMAIN s |-> q[p[i]]]
<1>3. r \in Bijection(DOMAIN s, DOMAIN u)
  BY Fun_BijTransitive
<1>4. \A i \in DOMAIN s : s[i] = u[r[i]]
  <2>1. \A i \in DOMAIN s : p[i] \in DOMAIN t
    BY Fun_BijectionProperties
  <2>. QED  BY <1>1, <1>2, <2>1
<1>. HIDE DEF r
<1>. QED  BY <1>3, <1>4 DEF Permuted

LEMMA PermutedSame ==
  ASSUME NEW s, NEW t, Permuted(s, t), IsLog(s), IsLog(t)
  PROVE  Len(s) = Len(t) /\ EntriesOf(s) = EntriesOf(t)
<1>1. PICK p \in Bijection(DOMAIN s, DOMAIN t) : \A i \in DOMAIN s : s[i] = t[p[i]]
  BY DEF Permuted
<1>2. /\ p \in [DOMAIN s -> DOMAIN t] /\ \A j \in DOMAIN t : \E i \in DOMAIN s : p[i] = j
  BY Fun_BijectionProperties
<1>3. EntriesOf(s) = EntriesOf(t)
  BY <1>1, <1>2 DEF EntriesOf
<1>4. DOMAIN s = 1..Len(s) /\ DOMAIN t = 1..Len(t) /\ Len(s) \in Nat /\ Len(t) \in Nat
  BY DEF IsLog
<1>5. ExistsBijection(1..Len(s), 1..Len(t))
  BY <1>4, Fun_ExistsBij
<1>6. IsFiniteSet(1..Len(s)) /\ Cardinality(1..Len(s)) = Len(s) /\ Cardinality(1..Len(t)) = Len(t)
  BY <1>4, FirstNumbers
<1>7. Len(s) = Len(t)
  BY <1>5, <1>6, FS_Bijection
<1>. QED  BY <1>3, <1>7

Rising(K, s) == \A i, j \in DOMAIN s : i <= j => K[s[i]] <= K[s[j]]

(* Sorted lists of the same entries have the same keys.                     *)
LEMMA RisingBelow ==
  ASSUME NEW K, NEW s, NEW t, IsLog(s), IsLog(t), Permuted(s, t),
         Rising(K, s), Rising(K, t),
         \A i \in DOMAIN s : K[s[i]] \in Int, \A i \in DOMAIN t : K[t[i]] \in Int,
         NEW k \in DOMAIN s
  PROVE  k \in DOMAIN t /\ ~(K[s[k]] < K[t[k]])
<1>. DEFINE n == Len(s)
            A == {i \in 1..n : K[s[i]] <= K[s[k]]}
            B == {j \in 1..n : K[t[j]] <= K[s[k]]}
<1>1. Len(t) = n
  BY PermutedSame
<1>2. n \in Nat /\ DOMAIN s = 1..n /\ DOMAIN t = 1..n
  BY <1>1 DEF IsLog
<1>3. SUFFICES ASSUME K[s[k]] < K[t[k]] PROVE FALSE
  BY <1>2
<1>4. PICK p \in Bijection(1..n, 1..n) : \A i \in 1..n : s[i] = t[p[i]]
  BY <1>2 DEF Permuted
<1>. HIDE DEF n
<1>5. p \in [1..n -> 1..n] /\ \A a, b \in 1..n : p[a] = p[b] => a = b
  BY Fun_BijectionProperties
<1>6. 1..k \subseteq A /\ k \in 1..n
  <2>1. \A i \in 1..k : i \in 1..n /\ i <= k
    BY <1>2
  <2>. QED  BY <1>2, <2>1 DEF Rising
<1>7. B \subseteq 1..(k - 1)
  <2>1. ASSUME NEW j \in B PROVE j < k
    <3>1. SUFFICES ASSUME k <= j PROVE FALSE
      BY <1>2
    <3>2. K[t[k]] <= K[t[j]]
      BY <1>2, <3>1 DEF Rising
    <3>3. K[t[j]] \in Int /\ K[t[k]] \in Int /\ K[s[k]] \in Int /\ K[t[j]] <= K[s[k]]
      BY <1>2
    <3>. QED  BY <1>3, <3>2, <3>3
  <2>. QED  BY <1>2, <2>1
<1>8. \A i \in A : p[i] \in B
  BY <1>4, <1>5
<1>. DEFINE q == [i \in A |-> p[i]]
<1>9. q \in Injection(A, B)
  <2>1. q \in [A -> B] /\ \A a, b \in A : q[a] = q[b] => a = b
    BY <1>5, <1>8
  <2>. HIDE DEF q, A, B
  <2>. QED  BY <2>1, Fun_IsInj
<1>. HIDE DEF q, A, B
<1>10. IsFiniteSet(B) /\ Cardinality(B) <= k - 1
  <2>1. k - 1 \in Nat
    BY <1>2
  <2>2. IsFiniteSet(1..(k - 1)) /\ Cardinality(1..(k - 1)) = k - 1
    BY <2>1, FS_Interval
  <2>. QED  BY <1>7, <2>2, FS_Subset
<1>11. IsFiniteSet(A) /\ Cardinality(A) <= Cardinality(B)
  BY <1>9, <1>10, FS_Injection
<1>12. k <= Cardinality(A)
  <2>1. k \in Nat
    BY <1>2
  <2>2. Cardinality(1..k) = k
    BY <2>1, FS_Interval
  <2>. QED  BY <1>6, <1>11, <2>2, FS_Subset
<1>13. Cardinality(A) \in Nat /\ Cardinality(B) \in Nat /\ k \in Nat
  BY <1>2, <1>10, <1>11, FS_CardinalityType
<1>. QED  BY <1>10, <1>11, <1>12, <1>13

LEMMA RisingSame ==
  ASSUME NEW K, NEW s, NEW t, IsLog(s), IsLog(t), Permuted(s, t),
         Rising(K, s), Rising(K, t),
         \A i \in DOMAIN s : K[s[i]] \in Int, \A i \in DOMAIN t : K[t[i]] \in Int
  PROVE  Len(s) = Len(t) /\ \A k \in DOMAIN s : K[s[k]] = K[t[k]]
<1>1. Len(s) = Len(t) /\ DOMAIN s = DOMAIN t
  BY PermutedSame DEF IsLog
<1>2. Permuted(t, s)
  BY PermutedBack
<1>3. \A k \in DOMAIN s : ~(K[s[k]] < K[t[k]])
  BY RisingBelow
<1>4. \A k \in DOMAIN t : ~(K[t[k]] < K[s[k]])
  BY <1>2, RisingBelow
<1>. QED  BY <1>1, <1>3, <1>4

(***************************************************************************)
(* sorted()                                                                *)
(***************************************************************************)
LEMMA SortedIs ==
  ASSUME NEW K, NEW s, IsLog(s), \A i \in DOMAIN s : K[s[i]] \in Int
  PROVE  /\ IsLog(SortedBy(K, s)) /\ Rising(K, SortedBy(K, s))
         /\ Permuted(SortedBy(K, s), s)
<1>. DEFINE n == Len(s)
            D == 1..n
            R == {ij \in D \X D : K[s[ij[2]]] < K[s[ij[1]]]
                                   \/ (K[s[ij[2]]] = K[s[ij[1]]] /\ ij[2] < ij[1])}
            f == Numbering(D, R)
            t == SortedBy(K, s)
<1>1. n \in Nat /\ DOMAIN s = D /\ IsFiniteSet(D) /\ Cardinality(D) = n
  <2>1. n \in Nat /\ DOMAIN s = 1..n
    BY DEF IsLog
  <2>. HIDE DEF n
  <2>. QED  BY <2>1, FirstNumbers
<1>2. \A i, j \in D : <<i, j>> \in R <=>
         K[s[j]] < K[s[i]] \/ (K[s[j]] = K[s[i]] /\ j < i)
  OBVIOUS
<1>3. \A i \in D : K[s[i]] \in Int /\ i \in Int
  BY <1>1
<1>4. TotalOrderOn(D, R)
  <2>. HIDE DEF R, D
  <2>1. \A x \in D : <<x, x>> \notin R
    BY <1>2, <1>3
  <2>2. \A x, y, z \in D : <<x, y>> \in R /\ <<y, z>> \in R => <<x, z>> \in R
    BY <1>2, <1>3
  <2>3. \A x, y \in D : x # y => <<x, y>> \in R \/ <<y, x>> \in R
    BY <1>2, <1>3
  <2>. QED  BY <2>1, <2>2, <2>3 DEF TotalOrderOn
<1>5. NumberedBy(D, R, f)
  <2>. HIDE DEF R, D
  <2>. QED  BY <1>1, <1>4, NumberingIs
<1>. DEFINE Count(i) == Cardinality({j \in DOMAIN s :
                      K[s[j]] < K[s[i]] \/ (K[s[j]] = K[s[i]] /\ j <= i)})
            at(k) == CHOOSE i \in DOMAIN s : Count(i) = k
<1>6. t = [k \in DOMAIN s |-> s[at(k)]]
  BY DEF SortedBy
<1>7. \A i \in D : Count(i) = Counted(D, R, i)
  <2>. TAKE i \in D
  <2>1. \A j \in D : (K[s[j]] < K[s[i]] \/ (K[s[j]] = K[s[i]] /\ j <= i)) <=> (j = i \/ <<i, j>> \in R)
    <3>. HIDE DEF R
    <3>1. \A j \in D : j <= i <=> j < i \/ j = i
      OBVIOUS
    <3>. HIDE DEF D
    <3>. QED  BY <1>2, <1>3, <3>1
  <2>. HIDE DEF R, D
  <2>2. {j \in DOMAIN s : K[s[j]] < K[s[i]] \/ (K[s[j]] = K[s[i]] /\ j <= i)}
          = {j \in D : j = i \/ <<i, j>> \in R}
    BY <1>1, <2>1
  <2>. QED  BY <2>2 DEF Counted
<1>8. \A k \in D : at(k) = f[k]
  <2>. TAKE k \in D
  <2>. HIDE DEF Count, R
  <2>1. f[k] = CHOOSE x \in D : Counted(D, R, x) = k
    BY <1>1 DEF Numbering
  <2>2. \A i : (i \in D /\ Count(i) = k) <=> (i \in D /\ Counted(D, R, i) = k)
    BY <1>7
  <2>. HIDE DEF D
  <2>3. (CHOOSE i \in D : Count(i) = k) = CHOOSE x \in D : Counted(D, R, x) = k
    BY <2>2
  <2>. QED  BY <1>1, <2>1, <2>3
<1>. HIDE DEF at, Count, t, f, R
<1>9. t = [k \in 1..n |-> s[f[k]]]
  BY <1>1, <1>6, <1>8
<1>10. f \in Bijection(D, D) /\ \A h, i \in D : h < i => <<f[i], f[h]>> \in R
  BY <1>1, <1>5 DEF NumberedBy
<1>11. t = [k \in 1..n |-> t[k]] /\ DOMAIN t = 1..n /\ \A k \in 1..n : t[k] = s[f[k]]
  BY <1>9
<1>12. IsLog(t)
  BY <1>1, <1>11, LogOf
<1>13. Permuted(t, s)
  BY <1>1, <1>10, <1>11 DEF Permuted
<1>14. Rising(K, t)
  <2>. SUFFICES ASSUME NEW h \in D, NEW i \in D, h <= i PROVE K[t[h]] <= K[t[i]]
    BY <1>11 DEF Rising
  <2>1. f[h] \in D /\ f[i] \in D
    <3>. HIDE DEF D
    <3>1. f \in [D -> D]
      BY <1>10, Fun_BijectionProperties
    <3>. QED  BY <3>1
  <2>2. CASE h = i
    BY <1>3, <1>11, <2>1, <2>2
  <2>3. CASE h # i
    <3>1. <<f[i], f[h]>> \in R
      BY <1>1, <1>10, <2>3
    <3>. HIDE DEF D
    <3>2. K[s[f[h]]] <= K[s[f[i]]]
      BY <1>2, <1>3, <2>1, <3>1
    <3>. QED  BY <1>11, <3>2 DEF D
  <2>. QED  BY <2>2, <2>3
<1>. QED  BY <1>12, <1>13, <1>14 DEF t

(* With a key of its own for each entry, sorting forgets the order of arrival. *)
LEMMA SortedSame ==
  ASSUME NEW K, NEW s, NEW t, IsLog(s), IsLog(t), Permuted(s, t),
         \A x \in EntriesOf(s) : K[x] \in Int,
         \A x, y \in EntriesOf(s) : K[x] = K[y] => x = y
  PROVE  SortedBy(K, s) = SortedBy(K, t)
<1>. DEFINE a == SortedBy(K, s)
            b == SortedBy(K, t)
<1>1. EntriesOf(t) = EntriesOf(s)
  BY PermutedSame
<1>2. /\ \A i \in DOMAIN s : K[s[i]] \in Int
      /\ \A i \in DOMAIN t : K[t[i]] \in Int
  <2>1. (\A i \in DOMAIN s : s[i] \in EntriesOf(s)) /\ \A i \in DOMAIN t : t[i] \in EntriesOf(t)
    BY DEF EntriesOf
  <2>. QED  BY <1>1, <2>1
<1>3. IsLog(a) /\ Rising(K, a) /\ Permuted(a, s)
  BY <1>2, SortedIs
<1>4. IsLog(b) /\ Rising(K, b) /\ Permuted(b, t)
  BY <1>2, SortedIs
<1>. HIDE DEF a, b
<1>5. EntriesOf(a) = EntriesOf(s) /\ EntriesOf(b) = EntriesOf(s)
  BY <1>1, <1>3, <1>4, PermutedSame
<1>6. Permuted(a, b)
  <2>1. Permuted(a, t)
    BY <1>3, PermutedOn
  <2>2. Permuted(t, b)
    BY <1>4, PermutedBack
  <2>. QED  BY <2>1, <2>2, PermutedOn
<1>7. (\A i \in DOMAIN a : a[i] \in EntriesOf(s)) /\ \A i \in DOMAIN b : b[i] \in EntriesOf(s)
  BY <1>5 DEF EntriesOf
<1>8. /\ \A i \in DOMAIN a : K[a[i]] \in Int
      /\ \A i \in DOMAIN b : K[b[i]] \in Int
  BY <1>7
<1>9. Len(a) = Len(b) /\ \A k \in DOMAIN a : K[a[k]] = K[b[k]]
  BY <1>3, <1>4, <1>6, <1>8, RisingSame
<1>10. DOMAIN a = 1..Len(a) /\ DOMAIN b = 1..Len(a)
  BY <1>3, <1>4, <1>9 DEF IsLog
<1>11. \A k \in 1..Len(a) : a[k] = b[k]
  BY <1>7, <1>9, <1>10
<1>12. a = [k \in 1..Len(a) |-> a[k]] /\ b = [k \in 1..Len(a) |-> b[k]]
  BY <1>3, <1>4, <1>9 DEF IsLog
<1>13. [k \in 1..Len(a) |-> a[k]] = [k \in 1..Len(a) |-> b[k]]
  BY <1>11
<1>14. a = b
  BY <1>12, <1>13
<1>. QED  BY <1>14 DEF a, b

LEMMA InOrderNumbers ==
  ASSUME NEW P \in SUBSET Nat, IsFiniteSet(P)
  PROVE  InOrder(P) \in Bijection(1..Cardinality(P), P)
<1>. DEFINE f == InOrder(P)
            k == Cardinality(P)
<1>1. /\ \A h \in 1..k : f[h] \in P /\ Place(P, f[h]) = h
      /\ \A h \in 1..k : \A x \in P : Place(P, x) = h => x = f[h]
  BY InOrderIs
<1>2. f = [h \in 1..k |-> f[h]]
  BY DEF InOrder
<1>3. \A x \in P : Place(P, x) \in 1..k
  BY PlacesNumber DEF Place
<1>. HIDE DEF f, k
<1>4. f \in [1..k -> P] /\ \A h, i \in 1..k : f[h] = f[i] => h = i
  BY <1>1, <1>2
<1>5. \A x \in P : \E h \in 1..k : f[h] = x
  BY <1>1, <1>3
<1>6. f \in Bijection(1..k, P)
  BY <1>4, <1>5, Fun_IsBij
<1>. QED  BY <1>6 DEF f, k

(* What is taken from the same entries is the same entries.                 *)
LEMMA PickedPermutes ==
  ASSUME NEW s, NEW t, IsLog(s), IsLog(t), Permuted(s, t), NEW V
  PROVE  Permuted(Picked(s, {n \in DOMAIN s : s[n] \in V}), Picked(t, {n \in DOMAIN t : t[n] \in V}))
<1>1. ASSUME NEW u, IsLog(u), NEW P, P \subseteq DOMAIN u
      PROVE  Permuted(Picked(u, P), [n \in P |-> u[n]])
  <2>. DEFINE v == Picked(u, P)
              w == [n \in P |-> u[n]]
  <2>0. DOMAIN u = 1..Len(u) /\ Len(u) \in Nat
    BY <1>1 DEF IsLog
  <2>1. P \in SUBSET Nat /\ IsFiniteSet(P)
    BY <1>1, <2>0, LastOne
  <2>2. InOrder(P) \in Bijection(1..Cardinality(P), P)
    BY <2>1, InOrderNumbers
  <2>3. /\ DOMAIN v = 1..Cardinality(P)
        /\ \A h \in 1..Cardinality(P) : InOrder(P)[h] \in P /\ v[h] = u[InOrder(P)[h]]
    BY <1>1, PickedIs DEF PickedFrom
  <2>. HIDE DEF v
  <2>4. DOMAIN w = P /\ \A h \in DOMAIN v : v[h] = w[InOrder(P)[h]]
    BY <2>3
  <2>. HIDE DEF w
  <2>5. Permuted(v, w)
    BY <2>2, <2>3, <2>4 DEF Permuted
  <2>. QED  BY <2>5 DEF v, w
<1>. DEFINE P == {n \in DOMAIN s : s[n] \in V}
            Q == {n \in DOMAIN t : t[n] \in V}
            a == [n \in P |-> s[n]]
            b == [n \in Q |-> t[n]]
<1>2. PICK p \in Bijection(DOMAIN s, DOMAIN t) : \A i \in DOMAIN s : s[i] = t[p[i]]
  BY DEF Permuted
<1>3. /\ p \in [DOMAIN s -> DOMAIN t]
      /\ \A x, y \in DOMAIN s : p[x] = p[y] => x = y
      /\ \A y \in DOMAIN t : \E x \in DOMAIN s : p[x] = y
  BY Fun_BijectionProperties
<1>4. Permuted(a, b)
  <2>. DEFINE q == [n \in P |-> p[n]]
  <2>1. \A n \in P : q[n] \in Q /\ a[n] = b[q[n]]
    BY <1>2, <1>3
  <2>2. q \in [P -> Q] /\ \A x, y \in P : q[x] = q[y] => x = y
    BY <1>3, <2>1
  <2>3. \A y \in Q : \E x \in P : q[x] = y
    BY <1>2, <1>3
  <2>4. DOMAIN a = P /\ DOMAIN b = Q
    OBVIOUS
  <2>. HIDE DEF q, P, Q, a, b
  <2>5. q \in Bijection(P, Q)
    BY <2>2, <2>3, Fun_IsBij
  <2>. QED  BY <2>1, <2>4, <2>5 DEF Permuted
<1>5. Permuted(Picked(s, P), a) /\ Permuted(Picked(t, Q), b)
  BY <1>1
<1>. HIDE DEF P, Q, a, b
<1>6. Permuted(b, Picked(t, Q))
  BY <1>5, PermutedBack
<1>7. Permuted(a, Picked(t, Q))
  BY <1>4, <1>6, PermutedOn
<1>8. Permuted(Picked(s, P), Picked(t, Q))
  BY <1>5, <1>7, PermutedOn
<1>. QED  BY <1>8 DEF P, Q

(* One after the other in another order.                                    *)
AllLogs(ss) == IsLog(ss) /\ \A n \in DOMAIN ss : IsLog(ss[n])
Laid(ss) == [x \in Spots(ss) |-> ss[x[1]][x[2]]]

LEMMA FlattenedIs ==
  ASSUME NEW ss, AllLogs(ss)
  PROVE  /\ IsLog(Flattened(ss))
         /\ Permuted(Flattened(ss), Laid(ss))
         /\ EntriesOf(Flattened(ss)) = UNION {EntriesOf(ss[n]) : n \in DOMAIN ss}
<1>. DEFINE D == Spots(ss)
            R == {xy \in D \X D : Reaches(xy[1], xy[2]) /\ xy[1] # xy[2]}
            k == Cardinality(D)
            f == Numbering(D, R)
            t == Flattened(ss)
<1>1. /\ DOMAIN ss = 1..Len(ss) /\ Len(ss) \in Nat
      /\ \A n \in DOMAIN ss : DOMAIN ss[n] = 1..Len(ss[n]) /\ Len(ss[n]) \in Nat
  BY DEF AllLogs, IsLog
<1>2. IsFiniteSet(D)
  <2>. DEFINE row == [n \in DOMAIN ss |-> {<<n, i>> : i \in DOMAIN ss[n]}]
              col(n) == [i \in DOMAIN ss[n] |-> <<n, i>>]
  <2>1. ASSUME NEW n \in DOMAIN ss PROVE IsFiniteSet(row[n])
    <3>1. col(n) \in [DOMAIN ss[n] -> row[n]] /\ \A x \in row[n] : \E i \in DOMAIN ss[n] : col(n)[i] = x
      OBVIOUS
    <3>2. IsFiniteSet(DOMAIN ss[n])
      BY <1>1, FirstNumbers
    <3>. HIDE DEF col, row
    <3>3. col(n) \in Surjection(DOMAIN ss[n], row[n])
      BY <3>1, Fun_IsSurj
    <3>. QED  BY <3>2, <3>3, FS_Surjection
  <2>. DEFINE rows == {row[n] : n \in DOMAIN ss}
  <2>2. D = UNION rows
    BY DEF Spots
  <2>3. IsFiniteSet(rows)
    <3>0. DOMAIN row = DOMAIN ss
      OBVIOUS
    <3>. HIDE DEF row
    <3>1. row \in [DOMAIN ss -> rows] /\ \A x \in rows : \E n \in DOMAIN ss : row[n] = x
      <4>1. row = [n \in DOMAIN ss |-> row[n]]
        BY DEF row
      <4>. QED  BY <4>1
    <3>2. IsFiniteSet(DOMAIN ss)
      BY <1>1, FirstNumbers
    <3>. HIDE DEF rows
    <3>3. row \in Surjection(DOMAIN ss, rows)
      BY <3>1, Fun_IsSurj
    <3>. QED  BY <3>2, <3>3, FS_Surjection
  <2>. HIDE DEF row
  <2>4. \A T \in rows : IsFiniteSet(T)
    BY <2>1
  <2>. HIDE DEF rows, D
  <2>. QED  BY <2>2, <2>3, <2>4, FS_UNION
<1>3. \A x \in D : \E n \in DOMAIN ss : \E i \in DOMAIN ss[n] : x = <<n, i>>
  BY DEF Spots
<1>4. \A n \in DOMAIN ss : \A i \in DOMAIN ss[n] : <<n, i>> \in D
  BY DEF Spots
<1>5. \A x \in D : /\ x = <<x[1], x[2]>> /\ x[1] \in Int /\ x[2] \in Int
                   /\ x[1] \in DOMAIN ss /\ x[2] \in DOMAIN ss[x[1]]
  BY <1>1, <1>3
<1>6. \A x, y \in D : <<x, y>> \in R <=> Reaches(x, y) /\ x # y
  OBVIOUS
<1>. HIDE DEF D, R
<1>7. TotalOrderOn(D, R)
  <2>1. \A x \in D : <<x, x>> \notin R
    BY <1>6
  <2>2. ASSUME NEW x \in D, NEW y \in D, NEW z \in D, <<x, y>> \in R, <<y, z>> \in R
        PROVE  <<x, z>> \in R
    <3>1. Reaches(x, y) /\ x # y /\ Reaches(y, z) /\ y # z
      BY <1>6, <2>2
    <3>2. Reaches(x, z)
      BY <1>5, <3>1 DEF Reaches
    <3>3. x # z
      <4>1. SUFFICES ASSUME x = z PROVE FALSE
        OBVIOUS
      <4>2. x[1] = y[1] /\ x[2] = y[2]
        BY <1>5, <3>1, <4>1 DEF Reaches
      <4>. QED  BY <1>5, <3>1, <4>2
    <3>. QED  BY <1>6, <3>2, <3>3
  <2>3. ASSUME NEW x \in D, NEW y \in D, x # y PROVE <<x, y>> \in R \/ <<y, x>> \in R
    <3>1. x[1] # y[1] \/ x[2] # y[2]
      BY <1>5, <2>3
    <3>2. Reaches(x, y) \/ Reaches(y, x)
      BY <1>5, <3>1 DEF Reaches
    <3>. QED  BY <1>6, <2>3, <3>2
  <2>. QED  BY <2>1, <2>2, <2>3 DEF TotalOrderOn
<1>8. NumberedBy(D, R, f)
  BY <1>2, <1>7, NumberingIs
<1>. DEFINE at(h) == CHOOSE p \in D : Cardinality({q \in D : Reaches(p, q)}) = h
<1>9. t = [h \in 1..k |-> ss[at(h)[1]][at(h)[2]]]
  BY DEF Flattened, D
<1>10. \A p \in D : Cardinality({q \in D : Reaches(p, q)}) = Counted(D, R, p)
  <2>. TAKE p \in D
  <2>1. \A q \in D : Reaches(p, q) <=> q = p \/ <<p, q>> \in R
    <3>1. Reaches(p, p)
      BY <1>5 DEF Reaches
    <3>. QED  BY <1>6, <3>1
  <2>2. {q \in D : Reaches(p, q)} = {q \in D : q = p \/ <<p, q>> \in R}
    BY <2>1
  <2>. QED  BY <2>2 DEF Counted
<1>11. \A h \in 1..k : at(h) = f[h]
  <2>. TAKE h \in 1..k
  <2>1. f[h] = CHOOSE x \in D : Counted(D, R, x) = h
    BY DEF Numbering
  <2>2. (CHOOSE p \in D : Cardinality({q \in D : Reaches(p, q)}) = h)
          = CHOOSE x \in D : Counted(D, R, x) = h
    BY <1>10
  <2>. QED  BY <2>1, <2>2
<1>12. /\ k \in Nat /\ f \in Bijection(1..k, D)
  BY <1>8 DEF NumberedBy
<1>. HIDE DEF at, f, k, t
<1>13. /\ f \in [1..k -> D] /\ \A x \in D : \E h \in 1..k : f[h] = x
  BY <1>12, Fun_BijectionProperties
<1>14. t = [h \in 1..k |-> t[h]] /\ DOMAIN t = 1..k /\ \A h \in 1..k : t[h] = ss[f[h][1]][f[h][2]]
  BY <1>9, <1>11
<1>15. IsLog(t)
  BY <1>12, <1>14, LogOf
<1>16. Permuted(t, Laid(ss))
  <2>1. DOMAIN Laid(ss) = D /\ \A x \in D : Laid(ss)[x] = ss[x[1]][x[2]]
    BY DEF Laid, D
  <2>2. \A h \in 1..k : t[h] = Laid(ss)[f[h]]
    BY <1>13, <1>14, <2>1
  <2>. QED  BY <1>12, <1>14, <2>1, <2>2 DEF Permuted
<1>17. EntriesOf(t) = UNION {EntriesOf(ss[n]) : n \in DOMAIN ss}
  <2>1. ASSUME NEW h \in 1..k PROVE \E n \in DOMAIN ss : t[h] \in EntriesOf(ss[n])
    <3>1. f[h] \in D
      BY <1>13
    <3>. QED  BY <1>5, <1>14, <3>1 DEF EntriesOf
  <2>2. ASSUME NEW n \in DOMAIN ss, NEW i \in DOMAIN ss[n] PROVE \E h \in 1..k : t[h] = ss[n][i]
    <3>1. PICK h \in 1..k : f[h] = <<n, i>>
      BY <1>4, <1>13
    <3>. QED  BY <1>14, <3>1
  <2>3. EntriesOf(t) = {t[h] : h \in 1..k}
    BY <1>14 DEF EntriesOf
  <2>4. \A n \in DOMAIN ss : \A y \in EntriesOf(ss[n]) : \E h \in 1..k : t[h] = y
    BY <2>2 DEF EntriesOf
  <2>. QED  BY <2>1, <2>3, <2>4
<1>. QED  BY <1>15, <1>16, <1>17 DEF t

LEMMA FlattenedPermutes ==
  ASSUME NEW ss, NEW tt, AllLogs(ss), AllLogs(tt), Permuted(ss, tt)
  PROVE  Permuted(Flattened(ss), Flattened(tt))
<1>1. PICK p \in Bijection(DOMAIN ss, DOMAIN tt) : \A i \in DOMAIN ss : ss[i] = tt[p[i]]
  BY DEF Permuted
<1>2. /\ p \in [DOMAIN ss -> DOMAIN tt]
      /\ \A x, y \in DOMAIN ss : p[x] = p[y] => x = y
      /\ \A y \in DOMAIN tt : \E x \in DOMAIN ss : p[x] = y
  BY Fun_BijectionProperties
<1>. DEFINE D == Spots(ss)
            C == Spots(tt)
            q == [x \in D |-> <<p[x[1]], x[2]>>]
            a == Laid(ss)
            b == Laid(tt)
<1>3. \A x \in D : x = <<x[1], x[2]>> /\ x[1] \in DOMAIN ss /\ x[2] \in DOMAIN ss[x[1]]
  BY DEF Spots
<1>4. \A y \in C : y = <<y[1], y[2]>> /\ y[1] \in DOMAIN tt /\ y[2] \in DOMAIN tt[y[1]]
  BY DEF Spots
<1>5. \A n \in DOMAIN ss : \A i \in DOMAIN ss[n] : <<n, i>> \in D
  BY DEF Spots
<1>6. \A n \in DOMAIN tt : \A i \in DOMAIN tt[n] : <<n, i>> \in C
  BY DEF Spots
<1>7. /\ DOMAIN a = D /\ \A x \in D : a[x] = ss[x[1]][x[2]]
      /\ DOMAIN b = C /\ \A y \in C : b[y] = tt[y[1]][y[2]]
  BY DEF Laid
<1>. HIDE DEF D, C, a, b
<1>8. \A x \in D : q[x] = <<p[x[1]], x[2]>> /\ q[x] \in C /\ a[x] = b[q[x]]
  <2>. TAKE x \in D
  <2>1. p[x[1]] \in DOMAIN tt /\ ss[x[1]] = tt[p[x[1]]]
    BY <1>1, <1>2, <1>3
  <2>2. q[x] = <<p[x[1]], x[2]>>
    OBVIOUS
  <2>3. q[x] \in C
    BY <1>3, <1>6, <2>1, <2>2
  <2>. QED  BY <1>7, <2>1, <2>2, <2>3
<1>9. q \in [D -> C]
  BY <1>8
<1>. HIDE DEF q
<1>10. \A x, y \in D : q[x] = q[y] => x = y
  <2>1. ASSUME NEW x \in D, NEW y \in D, q[x] = q[y] PROVE x = y
    <3>1. p[x[1]] = p[y[1]] /\ x[2] = y[2]
      BY <1>8, <2>1
    <3>2. x[1] = y[1]
      BY <1>2, <1>3, <3>1
    <3>. QED  BY <1>3, <3>1, <3>2
  <2>. QED  BY <2>1
<1>11. ASSUME NEW y \in C PROVE \E x \in D : q[x] = y
  <2>1. PICK n \in DOMAIN ss : p[n] = y[1]
    BY <1>2, <1>4
  <2>2. ss[n] = tt[y[1]]
    BY <1>1, <2>1
  <2>3. <<n, y[2]>> \in D
    BY <1>4, <1>5, <2>2
  <2>4. q[<<n, y[2]>>] = <<p[n], y[2]>>
    BY <1>8, <2>3
  <2>. QED  BY <1>4, <2>1, <2>3, <2>4
<1>12. q \in Bijection(D, C)
  BY <1>9, <1>10, <1>11, Fun_IsBij
<1>13. Permuted(a, b)
  BY <1>7, <1>8, <1>12 DEF Permuted
<1>14. Permuted(Flattened(ss), a) /\ Permuted(Flattened(tt), b)
  BY FlattenedIs DEF a, b
<1>15. Permuted(b, Flattened(tt))
  BY <1>14, PermutedBack
<1>16. Permuted(a, Flattened(tt))
  BY <1>13, <1>15, PermutedOn
<1>. QED  BY <1>14, <1>16, PermutedOn

(* As many of each: the same entries.                                       *)
LEMMA SameCountsPermute ==
  ASSUME NEW s, NEW t, IsLog(s), IsLog(t),
         \A x \in EntriesOf(s) \cup EntriesOf(t) :
            Cardinality({i \in DOMAIN s : s[i] = x}) = Cardinality({i \in DOMAIN t : t[i] = x})
  PROVE  Permuted(s, t)
<1>. DEFINE A(x) == {i \in DOMAIN s : s[i] = x}
            B(x) == {i \in DOMAIN t : t[i] = x}
            both == EntriesOf(s) \cup EntriesOf(t)
            pair == [x \in both |-> CHOOSE f : f \in Bijection(A(x), B(x))]
            p == [i \in DOMAIN s |-> pair[s[i]][i]]
<1>1. ASSUME NEW x \in both PROVE pair[x] \in Bijection(A(x), B(x))
  <2>1. IsFiniteSet(DOMAIN s) /\ IsFiniteSet(DOMAIN t)
    <3>1. DOMAIN s = 1..Len(s) /\ Len(s) \in Nat /\ DOMAIN t = 1..Len(t) /\ Len(t) \in Nat
      BY DEF IsLog
    <3>. QED  BY <3>1, FirstNumbers
  <2>2. IsFiniteSet(A(x)) /\ IsFiniteSet(B(x)) /\ Cardinality(A(x)) = Cardinality(B(x))
    <3>1. A(x) \subseteq DOMAIN s /\ B(x) \subseteq DOMAIN t
      OBVIOUS
    <3>2. Cardinality(A(x)) = Cardinality(B(x))
      OBVIOUS
    <3>. HIDE DEF A, B
    <3>. QED  BY <2>1, <3>1, <3>2, FS_Subset
  <2>3. ExistsBijection(A(x), B(x))
    <3>. HIDE DEF A, B
    <3>. QED  BY <2>2, FS_SameCardinalityBij
  <2>4. \E f : f \in Bijection(A(x), B(x))
    <3>. HIDE DEF A, B
    <3>. QED  BY <2>3 DEF ExistsBijection
  <2>5. pair[x] = CHOOSE f : f \in Bijection(A(x), B(x))
    <3>. HIDE DEF A, B, both
    <3>. QED  OBVIOUS
  <2>. HIDE DEF A, B, pair
  <2>. QED  BY <2>4, <2>5
<1>2. /\ \A i \in DOMAIN s : s[i] \in both /\ i \in A(s[i])
      /\ \A i \in DOMAIN t : t[i] \in both /\ i \in B(t[i])
      /\ \A x : \A i \in A(x) : i \in DOMAIN s /\ s[i] = x
      /\ \A x : \A i \in B(x) : i \in DOMAIN t /\ t[i] = x
  BY DEF EntriesOf
<1>. HIDE DEF A, B, both, pair
<1>3. ASSUME NEW x \in both
      PROVE  /\ \A i \in A(x) : pair[x][i] \in B(x)
             /\ \A i, j \in A(x) : pair[x][i] = pair[x][j] => i = j
             /\ \A j \in B(x) : \E i \in A(x) : pair[x][i] = j
  <2>1. /\ pair[x] \in [A(x) -> B(x)]
        /\ \A a, b \in A(x) : pair[x][a] = pair[x][b] => a = b
        /\ \A u \in B(x) : \E a \in A(x) : pair[x][a] = u
    BY <1>1, Fun_BijectionProperties
  <2>. QED  BY <2>1
<1>4. \A i \in DOMAIN s : p[i] = pair[s[i]][i]
  OBVIOUS
<1>5. \A i \in DOMAIN s : p[i] \in B(s[i])
  BY <1>2, <1>3, <1>4
<1>6. p \in [DOMAIN s -> DOMAIN t] /\ \A i \in DOMAIN s : s[i] = t[p[i]]
  BY <1>2, <1>5
<1>. HIDE DEF p
<1>7. \A i, j \in DOMAIN s : p[i] = p[j] => i = j
  <2>1. ASSUME NEW i \in DOMAIN s, NEW j \in DOMAIN s, p[i] = p[j] PROVE i = j
    <3>1. s[i] = s[j]
      BY <1>6, <2>1
    <3>2. i \in A(s[i]) /\ j \in A(s[i]) /\ s[i] \in both
      BY <1>2, <3>1
    <3>3. pair[s[i]][i] = pair[s[i]][j]
      BY <1>4, <2>1, <3>1
    <3>. QED  BY <1>3, <3>2, <3>3
  <2>. QED  BY <2>1
<1>8. ASSUME NEW j \in DOMAIN t PROVE \E i \in DOMAIN s : p[i] = j
  <2>1. PICK i \in A(t[j]) : pair[t[j]][i] = j
    BY <1>2, <1>3
  <2>2. i \in DOMAIN s /\ s[i] = t[j]
    BY <1>2
  <2>. QED  BY <1>4, <2>1, <2>2
<1>9. p \in Bijection(DOMAIN s, DOMAIN t)
  BY <1>6, <1>7, <1>8, Fun_IsBij
<1>. QED  BY <1>6, <1>9 DEF Permuted


(* A list, as a type and as a function on a first stretch of the numbers. *)
LEMMA ListsAreLogs ==
  ASSUME NEW S, NEW s \in Seq(S)
  PROVE  IsLog(s) /\ DOMAIN s = 1..Len(s) /\ EntriesOf(s) \subseteq S
BY DEF IsLog, EntriesOf

LEMMA LogsAreLists ==
  ASSUME NEW S, NEW s, IsLog(s), EntriesOf(s) \subseteq S
  PROVE  s \in Seq(S)
<1>1. DOMAIN s = 1..Len(s) /\ Len(s) \in Nat
  BY DEF IsLog
<1>2. \A n \in 1..Len(s) : s[n] \in S
  BY <1>1 DEF EntriesOf
<1>3. [i \in 1..Len(s) |-> s[i]] \in Seq(S)
  BY <1>1, <1>2
<1>. QED  BY <1>3 DEF IsLog

=============================================================================
