-------------------------------- MODULE Lists --------------------------------
(***************************************************************************)
(* Lists taken from lists, as the code's comprehensions, chained loops and   *)
(* sorted() calls make them.  Each is given place by place, without           *)
(* recursion, so that what it holds at a place can be proved.                *)
(***************************************************************************)
EXTENDS Naturals, Sequences, FiniteSets

(* The entries of a list at some of its places. *)
Picked(s, places) ==
  [h \in 1..Cardinality(places) |->
     s[CHOOSE n \in places : Cardinality({m \in places : m <= n}) = h]]

(* Of equal entries the first. *)
Distinct(s) == Picked(s, {n \in DOMAIN s : \A m \in 1..(n - 1) : s[m] # s[n]})

(* One list after the other. *)
Spots(ss) == UNION {{<<n, i>> : i \in DOMAIN ss[n]} : n \in DOMAIN ss}
Reaches(p, q) == q[1] < p[1] \/ (q[1] = p[1] /\ q[2] <= p[2])

Flattened(ss) ==
  [h \in 1..Cardinality(Spots(ss)) |->
     LET p == CHOOSE p \in Spots(ss) : Cardinality({q \in Spots(ss) : Reaches(p, q)}) = h
     IN ss[p[1]][p[2]]]

(* sorted(..., key = ...): equal keys keep their order. *)
SortedBy(key, s) ==
  LET Rank(i) == Cardinality({j \in DOMAIN s :
                     key[s[j]] < key[s[i]] \/ (key[s[j]] = key[s[i]] /\ j <= i)})
  IN [k \in DOMAIN s |-> s[CHOOSE i \in DOMAIN s : Rank(i) = k]]
=============================================================================
