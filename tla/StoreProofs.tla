----------------------------- MODULE StoreProofs -----------------------------
(***************************************************************************)
(* The stores, for all their constants.  The layered state store: a history  *)
(* ends in the current entry and its versions run without a gap, through any *)
(* order of writes, snapshots and restores.  The record books: the ledger    *)
(* tells what a book holds, whichever of the adders fills it.  The books of   *)
(* ownership, contracts and prices: the ledger replays them, transfers keep   *)
(* totals but for rounding, and what was derived from the books was right    *)
(* when it was derived, whatever the views and classifications compute.      *)
(* The trace edges: digests and answers do not show the order of arrival,    *)
(* and the ancestor walk finds what edges lead back to.                      *)
(***************************************************************************)
EXTENDS StateStore, RecordBooks, WorldBooks, TraceGraph, RankLemmas

Keys == Layers \X Objects
Entries == [version : Nat, value : Values, owner : Perceivers \cup {Nobody}]
Contents == UNION {[keys -> Entries] : keys \in SUBSET Keys}

(* Snapshots come from either store, so what they may hold has to be known    *)
(* before one is restored.                                                 *)
StateTyped ==
  /\ current \in Contents
  /\ history \in UNION {[keys -> Seq(Entries)] : keys \in SUBSET Keys}
  /\ snapshots \in Seq(Contents)
  /\ plain \in UNION {[objects -> Values] : objects \in SUBSET Objects}

StateInv == StateTyped /\ HistoryEndsInCurrent

(* What HistoryEndsInCurrent says of one key. *)
Unbroken(s, entry) ==
  /\ s # <<>>
  /\ s[Len(s)] = entry
  /\ \A n \in 2..Len(s) : s[n].version = s[n - 1].version + 1

(* A history with a further entry of the next version stays unbroken. *)
LEMMA AppendUnbroken ==
  ASSUME NEW s \in Seq(Entries), NEW last \in Entries, NEW entry \in Entries,
         Unbroken(s, last), entry.version = last.version + 1
  PROVE  Append(s, entry) \in Seq(Entries) /\ Unbroken(Append(s, entry), entry)
<1> DEFINE t == Append(s, entry)
<1>1. /\ t \in Seq(Entries) /\ t # <<>> /\ Len(t) = Len(s) + 1 /\ t[Len(t)] = entry
      /\ \A n \in 1..Len(s) : t[n] = s[n]
  OBVIOUS
<1>2. ASSUME NEW n \in 2..Len(t) PROVE t[n].version = t[n - 1].version + 1
  <2>1. CASE n = Len(t)
    BY <1>1, <2>1 DEF Unbroken
  <2>2. CASE n # Len(t)
    <3>1. n \in 2..Len(s) /\ n - 1 \in 1..Len(s)  BY <1>1, <2>2
    <3>. QED  BY <1>1, <3>1 DEF Unbroken
  <2>. QED  BY <2>1, <2>2
<1>. QED  BY <1>1, <1>2 DEF Unbroken

(* A history of one entry is unbroken. *)
LEMMA SingleUnbroken ==
  ASSUME NEW entry \in Entries
  PROVE  <<entry>> \in Seq(Entries) /\ Unbroken(<<entry>>, entry)
BY DEF Unbroken

LEMMA InitState == StateInit => StateInv
<1> SUFFICES ASSUME StateInit PROVE StateInv
  OBVIOUS
<1>1. \A S : <<>> \in [{} -> S]
  OBVIOUS
<1>2. <<>> \in Contents /\ <<>> \in UNION {[keys -> Seq(Entries)] : keys \in SUBSET Keys}
      /\ <<>> \in UNION {[objects -> Values] : objects \in SUBSET Objects}
  BY <1>1 DEF Contents
<1>. QED  BY <1>2 DEF StateInit, StateInv, StateTyped, HistoryEndsInCurrent

(* One step: a write, with the history it appends to. *)
LEMMA SetStateKeeps ==
  ASSUME StateInv, NEW layer \in Layers, NEW object \in Objects, NEW value \in Values,
         NEW owner \in Perceivers \cup {Nobody}, SetState(layer, object, value, owner)
  PROVE  StateInv'
<1> DEFINE key == <<layer, object>>
           version == IF key \in DOMAIN current THEN current[key].version + 1 ELSE 1
           entry == StateEntry(version, value, owner)
           written == Append(HistoryOf(key), entry)
<1>0. /\ current \in [DOMAIN current -> Entries] /\ DOMAIN current \in SUBSET Keys
      /\ history \in [DOMAIN current -> Seq(Entries)]
      /\ \A k \in DOMAIN current : Unbroken(history[k], current[k])
  BY DEF StateInv, StateTyped, HistoryEndsInCurrent, Contents, Unbroken
<1>1. key \in Keys
  BY DEF Keys
<1>2. version \in Nat
  BY <1>0 DEF Entries
<1>3. entry \in Entries /\ entry.version = version
  BY <1>2 DEF Entries, StateEntry
<1>4. written \in Seq(Entries) /\ Unbroken(written, entry)
  <2>1. CASE key \in DOMAIN current
    <3>1. HistoryOf(key) = history[key]  BY <1>0, <2>1 DEF HistoryOf
    <3>2. history[key] \in Seq(Entries) /\ current[key] \in Entries
          /\ Unbroken(history[key], current[key])
      BY <1>0, <2>1
    <3>3. entry.version = current[key].version + 1  BY <1>3, <2>1
    <3>. QED  BY <1>3, <3>1, <3>2, <3>3, AppendUnbroken
  <2>2. CASE key \notin DOMAIN current
    <3>1. written = <<entry>>  BY <1>0, <2>2 DEF HistoryOf
    <3>. QED  BY <1>3, <3>1, SingleUnbroken
  <2>. QED  BY <2>1, <2>2
<1>5. current' = [k \in {key} \cup DOMAIN current |-> IF k = key THEN entry ELSE current[k]]
  BY <1>0 DEF SetState, With
<1>6. history' = [k \in {key} \cup DOMAIN current |-> IF k = key THEN written ELSE history[k]]
  BY <1>0 DEF SetState, With
<1>7. current' \in [{key} \cup DOMAIN current -> Entries] /\ {key} \cup DOMAIN current \in SUBSET Keys
      /\ history' \in [{key} \cup DOMAIN current -> Seq(Entries)]
  BY <1>0, <1>1, <1>3, <1>4, <1>5, <1>6
<1>8. \A k \in DOMAIN current' : Unbroken(history'[k], current'[k])
  BY <1>0, <1>4, <1>5, <1>6
<1>9. StateTyped'
  <2>1. snapshots' = snapshots /\ plain' = plain  BY DEF SetState
  <2>. QED  BY <1>7, <2>1 DEF StateInv, StateTyped, Contents
<1>. QED  BY <1>7, <1>8, <1>9 DEF StateInv, HistoryEndsInCurrent, Unbroken

(* One step: a restore, after which each history is the restored entry. *)
LEMMA RestoreKeeps ==
  ASSUME StateInv, NEW n \in DOMAIN snapshots, RestoreSnapshot(n)
  PROVE  StateInv'
<1>1. snapshots[n] \in Contents
  BY DEF StateInv, StateTyped
<1>2. snapshots[n] \in [DOMAIN snapshots[n] -> Entries] /\ DOMAIN snapshots[n] \in SUBSET Keys
  BY <1>1 DEF Contents
<1>3. /\ current' = snapshots[n]
      /\ history' = [key \in DOMAIN snapshots[n] |-> <<snapshots[n][key]>>]
      /\ snapshots' = snapshots /\ plain' = plain
  BY DEF RestoreSnapshot
<1>4. \A key \in DOMAIN snapshots[n] :
        <<snapshots[n][key]>> \in Seq(Entries) /\ Unbroken(<<snapshots[n][key]>>, snapshots[n][key])
  BY <1>2, SingleUnbroken
<1>5. history' \in [DOMAIN snapshots[n] -> Seq(Entries)]
  BY <1>3, <1>4
<1>6. StateTyped'
  BY <1>1, <1>2, <1>3, <1>5 DEF StateInv, StateTyped
<1>. QED  BY <1>3, <1>4, <1>6 DEF StateInv, HistoryEndsInCurrent, Unbroken

(* The other steps take snapshots or write the plain store. *)
LEMMA OtherStepsKeep ==
  ASSUME StateInv,
         \/ CreateSnapshot
         \/ PlainSnapshot
         \/ \E object \in Objects, value \in Values :
              InitializeObject(object, value) \/ SetField(object, value)
         \/ UNCHANGED stateVars
  PROVE  StateInv'
<1>1. current' = current /\ history' = history
  BY DEF CreateSnapshot, PlainSnapshot, InitializeObject, SetField, stateVars
<1>2. plain \in [DOMAIN plain -> Values] /\ DOMAIN plain \in SUBSET Objects
  BY DEF StateInv, StateTyped
<1>3. snapshots' \in Seq(Contents)
  <2>1. CASE CreateSnapshot
    BY <2>1 DEF CreateSnapshot, StateInv, StateTyped
  <2>2. CASE PlainSnapshot
    <3> DEFINE keys == {"true_state"} \X DOMAIN plain
               seen == [key \in keys |-> StateEntry(1, plain[key[2]], Nobody)]
    <3>1. keys \in SUBSET Keys
      BY <1>2, StateAssumption DEF Keys
    <3>2. \A key \in keys : StateEntry(1, plain[key[2]], Nobody) \in Entries
      BY <1>2 DEF StateEntry, Entries
    <3>3. seen \in Contents
      <4>1. seen \in [keys -> Entries]  BY <3>2
      <4>2. \A K \in SUBSET Keys : [K -> Entries] \subseteq Contents  BY DEF Contents
      <4>. HIDE DEF keys, seen
      <4>. QED  BY <3>1, <4>1, <4>2
    <3>4. snapshots' = Append(snapshots, seen)
      BY <2>2 DEF PlainSnapshot
    <3>. QED  BY <3>3, <3>4 DEF StateInv, StateTyped
  <2>3. CASE snapshots' = snapshots
    BY <2>3 DEF StateInv, StateTyped
  <2>4. (\E object \in Objects, value \in Values : InitializeObject(object, value) \/ SetField(object, value))
        => snapshots' = snapshots
    BY DEF InitializeObject, SetField
  <2>5. UNCHANGED stateVars => snapshots' = snapshots
    BY DEF stateVars
  <2>. QED  BY <2>1, <2>2, <2>3, <2>4, <2>5
<1>4. plain' \in UNION {[objects -> Values] : objects \in SUBSET Objects}
  <2>1. ASSUME NEW object \in Objects, NEW value \in Values, InitializeObject(object, value)
        PROVE  plain' \in [{object} \cup DOMAIN plain -> Values]
    BY <1>2, <2>1 DEF InitializeObject, With
  <2>2. ASSUME NEW object \in Objects, NEW value \in Values, SetField(object, value)
        PROVE  plain' \in [DOMAIN plain -> Values]
    BY <1>2, <2>2 DEF SetField
  <2>3. CASE plain' = plain
    BY <2>3 DEF StateInv, StateTyped
  <2>4. \A object \in Objects : {object} \cup DOMAIN plain \in SUBSET Objects
    BY <1>2
  <2>. QED  BY <1>2, <2>1, <2>2, <2>3, <2>4 DEF CreateSnapshot, PlainSnapshot, stateVars
<1>. QED  BY <1>1, <1>3, <1>4 DEF StateInv, StateTyped, HistoryEndsInCurrent

(* Every history ends in the current entry, its versions follow each other,   *)
(* and no key has one without the other: StateStore.set_state() after any     *)
(* restore_snapshot() of any snapshot.                                     *)
THEOREM HistoryEndsInCurrentTheorem == StateSpec => []HistoryEndsInCurrent
<1>1. StateInit => StateInv
  BY InitState
<1>2. StateInv /\ [StateNext]_stateVars => StateInv'
  <2> SUFFICES ASSUME StateInv, [StateNext]_stateVars PROVE StateInv'
    OBVIOUS
  <2>1. ASSUME NEW layer \in Layers, NEW object \in Objects, NEW value \in Values,
               NEW owner \in Perceivers \cup {Nobody}, SetState(layer, object, value, owner)
        PROVE  StateInv'
    BY <2>1, SetStateKeeps
  <2>2. ASSUME NEW n \in DOMAIN snapshots, RestoreSnapshot(n)
        PROVE  StateInv'
    BY <2>2, RestoreKeeps
  <2>3. CASE \/ CreateSnapshot
             \/ PlainSnapshot
             \/ \E object \in Objects, value \in Values :
                  InitializeObject(object, value) \/ SetField(object, value)
             \/ UNCHANGED stateVars
    BY <2>3, OtherStepsKeep
  <2>. QED  BY <2>1, <2>2, <2>3 DEF StateNext
<1>3. StateInv => HistoryEndsInCurrent
  BY DEF StateInv
<1>. QED  BY <1>1, <1>2, <1>3, PTL DEF StateSpec

(***************************************************************************)
(* The record books: the ledger, the order of insertion and the indexes of   *)
(* one book, for each of the adders and all ids, subjects and dates.        *)
(***************************************************************************)
Tellers(id) == {n \in 1..Len(bookLog) : bookLog[n].id = id}
IsBookRecord(r) ==
  r = [subject |-> r.subject, date |-> r.date, level |-> r.level,
       visibility |-> r.visibility, viewers |-> r.viewers]
RecordTellers(id) == {n \in 1..Len(bookLog) : TellsRecord(bookLog[n], id)}

BookKinds ==
  /\ event \notin {"relationship_strength_updated", "signal_observed"}
  /\ IsLog(order) /\ IsLog(bookLog)
  /\ book = [id \in DOMAIN book |-> book[id]]
  /\ \A id \in DOMAIN book : IsBookRecord(book[id])
  /\ index = [s \in Subjects |-> index[s]]
BookKnows ==
  /\ \A n \in 1..Len(bookLog) : bookLog[n].id \in DOMAIN book
  /\ \A n \in 1..Len(order) : order[n] \in DOMAIN book
  /\ \A id \in DOMAIN book : \E n \in 1..Len(order) : order[n] = id

Ids == [n \in 1..Len(bookLog) |-> bookLog[n].id]
CreatedAt == {n \in 1..Len(bookLog) : bookLog[n].type = event}
ToldAt == {n \in 1..Len(order) : Tellers(order[n]) # {}}
OfSubject(s) == {n \in 1..Len(order) : book[order[n]].subject = s}

CreatedInOrder == EntriesAt(Ids, CreatedAt) = EntriesAt(order, ToldAt)
LastToldHolds ==
  \A id \in DOMAIN book :
    IF Tellers(id) # {} THEN /\ RecordTellers(id) # {}
                             /\ bookLog[Max(RecordTellers(id))].told = Logged(book[id])
    ELSE Adder.argued
StrengthsFollow ==
  \A n \in 1..Len(bookLog) : bookLog[n].type = "relationship_strength_updated" =>
    \E m \in 1..(n - 1) :
      /\ TellsRecord(bookLog[m], bookLog[n].id)
      /\ bookLog[m].told.level = bookLog[n].previous
      /\ \A k \in (m + 1)..(n - 1) : ~TellsRecord(bookLog[k], bookLog[n].id)
IndexesHold == Adder.indexed => \A s \in Subjects : index[s] = EntriesAt(order, OfSubject(s))

BookInv ==
  BookKinds /\ BookKnows /\ CreatedInOrder /\ LastToldHolds /\ StrengthsFollow /\ IndexesHold

(* The property and the invariant speak of the same entries.                *)
LEMMA BookInvTells == BookInv => LedgerTellsTheBook
<1>. SUFFICES ASSUME BookInv PROVE LedgerTellsTheBook
  OBVIOUS
<1>1. /\ DOMAIN bookLog = 1..Len(bookLog) /\ DOMAIN order = 1..Len(order)
      /\ Len(bookLog) \in Nat /\ Len(order) \in Nat
  BY DEF BookInv, BookKinds, IsLog
<1>2. \A id : Told(id) <=> Tellers(id) # {}
  BY <1>1 DEF Told, Tellers
<1>3. \A s, S : Picked(s, S) = EntriesAt(s, S)
  <2>. TAKE s, S
  <2>. DEFINE at(h) == CHOOSE n \in S : Cardinality({m \in S : m <= n}) = h
              by(h) == CHOOSE x \in S : Place(S, x) = h
  <2>1. \A h : at(h) = by(h)
    BY DEF Place
  <2>2. Picked(s, S) = [h \in 1..Cardinality(S) |-> s[at(h)]]
    BY DEF Picked
  <2>3. EntriesAt(s, S) = [h \in 1..Cardinality(S) |-> s[by(h)]]
    <3>1. \A h \in 1..Cardinality(S) : InOrder(S)[h] = by(h)
      BY DEF InOrder
    <3>. HIDE DEF by
    <3>. QED  BY <3>1 DEF EntriesAt
  <2>. HIDE DEF at, by
  <2>. QED  BY <2>1, <2>2, <2>3
<1>4. Created = CreatedAt
  BY <1>1 DEF Created, CreatedAt
<1>5. ToldPlaces = ToldAt
  BY <1>1, <1>2 DEF ToldPlaces, ToldAt
<1>6. \A s : PlacesOf(s) = OfSubject(s)
  BY <1>1 DEF PlacesOf, OfSubject
<1>7. [n \in DOMAIN bookLog |-> bookLog[n].id] = Ids
  BY <1>1 DEF Ids
<1>8. ToSet(order) = DOMAIN book
  BY <1>1 DEF ToSet, BookInv, BookKnows
<1>9. \A id : RecordTellers(id) # {} => LastTold(id) = bookLog[Max(RecordTellers(id))].told
  <2>. TAKE id
  <2>1. SelectLastInSeq(bookLog, LAMBDA e : TellsRecord(e, id)) =
          IF RecordTellers(id) # {} THEN Max(RecordTellers(id)) ELSE 0
    BY DEF SelectLastInSeq, RecordTellers
  <2>. QED  BY <2>1 DEF LastTold
<1>10. Picked([n \in DOMAIN bookLog |-> bookLog[n].id], Created) = Picked(order, ToldPlaces)
  BY <1>3, <1>4, <1>5, <1>7 DEF BookInv, CreatedInOrder
<1>11. \A id \in DOMAIN book :
         IF Told(id) THEN LastTold(id) = Logged(book[id]) ELSE Adder.argued
  BY <1>2, <1>9 DEF BookInv, LastToldHolds
<1>12. Adder.indexed => \A s \in Subjects : index[s] = Picked(order, PlacesOf(s))
  BY <1>3, <1>6 DEF BookInv, IndexesHold
<1>13. \A n \in DOMAIN bookLog : bookLog[n].type = "relationship_strength_updated" =>
         \E m \in 1..(n - 1) :
           /\ TellsRecord(bookLog[m], bookLog[n].id)
           /\ bookLog[m].told.level = bookLog[n].previous
           /\ \A k \in (m + 1)..(n - 1) : ~TellsRecord(bookLog[k], bookLog[n].id)
  BY <1>1 DEF BookInv, StrengthsFollow
<1>. QED  BY <1>8, <1>10, <1>11, <1>12, <1>13 DEF LedgerTellsTheBook

LEMMA BookInit == BooksInit => BookInv
<1>. SUFFICES ASSUME BooksInit PROVE BookInv
  OBVIOUS
<1>1. /\ Len(bookLog) = 0 /\ Len(order) = 0 /\ 1..0 = {} /\ IsLog(order) /\ IsLog(bookLog)
      /\ DOMAIN book = {}
  BY DEF BooksInit, IsLog
<1>2. CreatedInOrder
  <2>1. CreatedAt = {} /\ ToldAt = {}
    BY <1>1 DEF CreatedAt, ToldAt
  <2>2. \A s : EntriesAt(s, {}) = EntriesAt(<<>>, {})
    <3>1. 1..Cardinality({}) = {}
      BY FS_EmptySet
    <3>. QED  BY <3>1 DEF EntriesAt
  <2>. QED  BY <2>1, <2>2 DEF CreatedInOrder
<1>3. IndexesHold
  <2>1. \A s : OfSubject(s) = {}
    BY <1>1 DEF OfSubject
  <2>2. EntriesAt(order, {}) = <<>>
    <3>1. 1..Cardinality({}) = {} /\ Cardinality({}) = 0
      BY FS_EmptySet
    <3>2. DOMAIN EntriesAt(order, {}) = {} /\ EntriesAt(order, {}) = [h \in 1..0 |-> EntriesAt(order, {})[h]]
      BY <3>1 DEF EntriesAt
    <3>3. IsLog(EntriesAt(order, {})) /\ Len(EntriesAt(order, {})) = 0
      BY <3>2, LogOf
    <3>. QED  BY <3>3
  <2>. QED  BY <2>1, <2>2 DEF IndexesHold, BooksInit
<1>4. event \notin {"relationship_strength_updated", "signal_observed"}
  BY DEF BooksInit, Books
<1>. QED  BY <1>1, <1>2, <1>3, <1>4
          DEF BookInv, BookKinds, BookKnows, LastToldHolds, StrengthsFollow, BooksInit

(***************************************************************************)
(* The steps                                                               *)
(***************************************************************************)
LEMMA CandidatesTyped ==
  ASSUME NEW record \in Candidates
  PROVE  IsBookRecord(record) /\ (Adder.indexed => record.subject \in Subjects)
<1>. DEFINE subjects == IF Adder.indexed THEN Subjects ELSE {CHOOSE x \in Subjects : TRUE}
            dates == IF Adder.dated = "record" \/ event \in {"signal_added", "relationship_added"}
                     THEN BookDates ELSE {NoDate}
            levels == IF event = "relationship_added" THEN Levels ELSE {0}
            labels == IF event = "signal_added" THEN {"public", "restricted"} ELSE {"public"}
            viewers == IF event = "signal_added" THEN {{}} \cup {{viewer} : viewer \in Viewers} ELSE {{}}
<1>1. Candidates = {[subject |-> s, date |-> d, level |-> l, visibility |-> label, viewers |-> v] :
                      s \in subjects, d \in dates, l \in levels, label \in labels, v \in viewers}
  BY DEF Candidates
<1>. HIDE DEF dates, levels, labels, viewers
<1>2. PICK s \in subjects, d \in dates, l \in levels, label \in labels, v \in viewers :
        record = [subject |-> s, date |-> d, level |-> l, visibility |-> label, viewers |-> v]
  BY <1>1
<1>. QED  BY <1>2 DEF IsBookRecord

(* A new record: it comes last in the order and in the index of its subject.  *)
LEMMA StoreHolds ==
  ASSUME BookInv, NEW id, id \notin DOMAIN book, NEW record \in Candidates, Store(id, record),
         event' = event
  PROVE  /\ IsLog(order') /\ Len(order) \in Nat /\ Len(order') = Len(order) + 1
         /\ \A n \in 1..Len(order) : order'[n] = order[n]
         /\ order'[Len(order) + 1] = id
         /\ DOMAIN book' = DOMAIN book \cup {id}
         /\ book'[id] = record
         /\ \A x \in DOMAIN book : book'[x] = book[x]
         /\ BookKinds' <=> IsLog(bookLog')
         /\ IndexesHold'
<1>. DEFINE N == Len(order)
<1>1. /\ IsLog(order) /\ N \in Nat /\ order' = Append(order, id)
      /\ book' = [k \in {id} \cup DOMAIN book |-> IF k = id THEN record ELSE book[k]]
  BY DEF BookInv, BookKinds, Store, IsLog
<1>2. /\ IsLog(order') /\ Len(order') = N + 1
      /\ \A n \in 1..N : order'[n] = order[n]
      /\ order'[N + 1] = id
  BY <1>1, LogOfAppend
<1>3. /\ DOMAIN book' = DOMAIN book \cup {id} /\ book'[id] = record
      /\ \A x \in DOMAIN book : book'[x] = book[x]
      /\ book' = [x \in DOMAIN book' |-> book'[x]]
  BY <1>1
<1>4. IsBookRecord(record) /\ (Adder.indexed => record.subject \in Subjects)
  BY CandidatesTyped
<1>5. index' = [s \in Subjects |-> index'[s]]
  BY DEF BookInv, BookKinds, Store
<1>6. BookKinds' <=> IsLog(bookLog')
  BY <1>2, <1>3, <1>4, <1>5 DEF BookInv, BookKinds
<1>7. ASSUME Adder.indexed, NEW s \in Subjects PROVE index'[s] = EntriesAt(order', OfSubject(s)')
  <2>. DEFINE S == OfSubject(s)
  <2>0. /\ \A n \in 1..(N + 1) : n \in 1..N \/ n = N + 1
        /\ \A n \in 1..N : n \in 1..(N + 1) /\ n # N + 1
        /\ N + 1 \in 1..(N + 1)
    BY <1>1
  <2>1. \A n \in 1..N : order[n] \in DOMAIN book
    BY DEF BookInv, BookKnows
  <2>2. OfSubject(s)' = IF record.subject = s THEN S \cup {N + 1} ELSE S
    BY <1>2, <1>3, <2>0, <2>1 DEF OfSubject
  <2>3. S \subseteq 1..N
    BY DEF OfSubject
  <2>4. index[s] = EntriesAt(order, S)
    BY <1>7 DEF BookInv, IndexesHold
  <2>5. index'[s] = IF record.subject = s THEN Append(index[s], id) ELSE index[s]
    BY <1>4, <1>7 DEF BookInv, BookKinds, Store
  <2>. HIDE DEF S
  <2>6. MoreEntries(order, order', S, N + 1)
    BY <1>1, <1>2, <2>3, EntriesAtGrow
  <2>7. CASE record.subject = s
    BY <1>2, <2>2, <2>4, <2>5, <2>6, <2>7 DEF MoreEntries
  <2>8. CASE record.subject # s
    BY <2>2, <2>4, <2>5, <2>6, <2>8 DEF MoreEntries
  <2>. QED  BY <2>7, <2>8
<1>8. Adder' = Adder
  BY DEF Adder
<1>9. IndexesHold'
  BY <1>7, <1>8 DEF IndexesHold
<1>. QED  BY <1>1, <1>2, <1>3, <1>6, <1>9

(* One more ledger record.                                                  *)
LEMMA TellHolds ==
  ASSUME BookInv, NEW entry, Tell(entry)
  PROVE  /\ IsLog(bookLog') /\ Len(bookLog) \in Nat /\ Len(bookLog') = Len(bookLog) + 1
         /\ \A n \in 1..Len(bookLog) : bookLog'[n] = bookLog[n]
         /\ bookLog'[Len(bookLog) + 1] = entry
         /\ \A x : Tellers(x)' = IF x = entry.id THEN Tellers(x) \cup {Len(bookLog) + 1} ELSE Tellers(x)
         /\ \A x : RecordTellers(x)' = IF TellsRecord(entry, x)
                                       THEN RecordTellers(x) \cup {Len(bookLog) + 1}
                                       ELSE RecordTellers(x)
         /\ \A x : Max(RecordTellers(x) \cup {Len(bookLog) + 1}) = Len(bookLog) + 1
         /\ \A x : RecordTellers(x) # {} =>
                    bookLog'[Max(RecordTellers(x))] = bookLog[Max(RecordTellers(x))]
         /\ (entry.type = "relationship_strength_updated" =>
               /\ RecordTellers(entry.id) # {}
               /\ bookLog[Max(RecordTellers(entry.id))].told.level = entry.previous)
            => StrengthsFollow'
<1>. DEFINE M == Len(bookLog)
<1>1. IsLog(bookLog) /\ M \in Nat /\ bookLog' = Append(bookLog, entry)
  BY DEF BookInv, BookKinds, Tell, IsLog
<1>2. /\ IsLog(bookLog') /\ Len(bookLog') = M + 1
      /\ \A n \in 1..M : bookLog'[n] = bookLog[n]
      /\ bookLog'[M + 1] = entry
  BY <1>1, LogOfAppend
<1>3. /\ \A n \in 1..(M + 1) : n \in 1..M \/ n = M + 1
      /\ \A n \in 1..M : n \in 1..(M + 1) /\ n # M + 1
      /\ M + 1 \in 1..(M + 1)
  BY <1>1
<1>4. ASSUME NEW x
      PROVE  Tellers(x)' = IF x = entry.id THEN Tellers(x) \cup {M + 1} ELSE Tellers(x)
  BY <1>2, <1>3 DEF Tellers
<1>5. ASSUME NEW x
      PROVE  RecordTellers(x)' = IF TellsRecord(entry, x) THEN RecordTellers(x) \cup {M + 1}
                                 ELSE RecordTellers(x)
  BY <1>2, <1>3 DEF RecordTellers, TellsRecord
<1>6. ASSUME NEW x
      PROVE  /\ Max(RecordTellers(x) \cup {M + 1}) = M + 1
             /\ RecordTellers(x) # {} =>
                  /\ bookLog'[Max(RecordTellers(x))] = bookLog[Max(RecordTellers(x))]
                  /\ Max(RecordTellers(x)) \in RecordTellers(x)
                  /\ \A n \in RecordTellers(x) : n <= Max(RecordTellers(x))
  <2>. DEFINE S == RecordTellers(x)
  <2>1. S \subseteq 1..M
    BY DEF RecordTellers
  <2>. HIDE DEF S
  <2>2. /\ Max(S \cup {M + 1}) = M + 1
        /\ S \in SUBSET Nat /\ IsFiniteSet(S)
    BY <1>1, <2>1, LastOne
  <2>3. S # {} => Max(S) \in S /\ \A n \in S : n <= Max(S)
    BY <2>2, MaxIsGreatest
  <2>. QED  BY <1>2, <2>1, <2>2, <2>3 DEF S
<1>7. ASSUME entry.type = "relationship_strength_updated" =>
               /\ RecordTellers(entry.id) # {}
               /\ bookLog[Max(RecordTellers(entry.id))].told.level = entry.previous
      PROVE  StrengthsFollow'
  <2>. SUFFICES ASSUME NEW n \in 1..(M + 1), bookLog'[n].type = "relationship_strength_updated"
                PROVE  \E m \in 1..(n - 1) :
                         /\ TellsRecord(bookLog'[m], bookLog'[n].id)
                         /\ bookLog'[m].told.level = bookLog'[n].previous
                         /\ \A k \in (m + 1)..(n - 1) : ~TellsRecord(bookLog'[k], bookLog'[n].id)
    BY <1>2 DEF StrengthsFollow, TellsRecord
  <2>1. CASE n \in 1..M
    <3>1. PICK m \in 1..(n - 1) :
            /\ TellsRecord(bookLog[m], bookLog[n].id)
            /\ bookLog[m].told.level = bookLog[n].previous
            /\ \A k \in (m + 1)..(n - 1) : ~TellsRecord(bookLog[k], bookLog[n].id)
      BY <1>2, <2>1 DEF BookInv, StrengthsFollow
    <3>2. m \in 1..M /\ \A k \in (m + 1)..(n - 1) : k \in 1..M
      BY <1>1, <2>1
    <3>. QED  BY <1>2, <2>1, <3>1, <3>2
  <2>2. CASE n = M + 1
    <3>. DEFINE x == entry.id
                m == Max(RecordTellers(x))
    <3>1. RecordTellers(x) # {} /\ bookLog[m].told.level = entry.previous
      BY <1>2, <1>7, <2>2
    <3>2. m \in 1..M /\ TellsRecord(bookLog[m], x)
      BY <1>6, <3>1 DEF RecordTellers
    <3>3. ASSUME NEW k \in (m + 1)..M PROVE ~TellsRecord(bookLog'[k], x)
      <4>1. k \in 1..M /\ ~(k <= m)
        BY <1>1, <3>2
      <4>2. k \notin RecordTellers(x)
        BY <1>6, <3>1, <4>1
      <4>. QED  BY <1>2, <4>1, <4>2 DEF RecordTellers
    <3>4. bookLog'[m] = bookLog[m]
      BY <1>2, <3>2
    <3>. HIDE DEF m
    <3>5. m \in 1..(n - 1) /\ n - 1 = M
      BY <1>1, <2>2, <3>2
    <3>. QED  BY <1>2, <2>2, <3>1, <3>2, <3>3, <3>4, <3>5
  <2>. QED  BY <1>3, <2>1, <2>2
<1>. QED  BY <1>1, <1>2, <1>4, <1>5, <1>6, <1>7

(* An addition: the new record is told, and is the last created.             *)
LEMMA AddHolds ==
  ASSUME BookInv, NEW id, NEW record \in Candidates, NEW argument, Add(id, record, argument)
  PROVE  BookInv'
<1>. DEFINE N == Len(order)
            M == Len(bookLog)
            entry == Entry(event, id, LedgerDate(record, argument), Logged(record))
<1>1. id \notin DOMAIN book /\ Store(id, record) /\ Tell(entry) /\ event' = event
  BY DEF Add
<1>2. entry.id = id /\ entry.type = event /\ entry.told = Logged(record)
  BY DEF Entry
<1>. HIDE DEF entry
<1>3. /\ IsLog(order') /\ N \in Nat /\ Len(order') = N + 1
      /\ \A n \in 1..N : order'[n] = order[n]
      /\ order'[N + 1] = id
      /\ DOMAIN book' = DOMAIN book \cup {id}
      /\ book'[id] = record
      /\ \A x \in DOMAIN book : book'[x] = book[x]
      /\ BookKinds' <=> IsLog(bookLog')
      /\ IndexesHold'
  BY <1>1, StoreHolds
<1>4. /\ IsLog(bookLog') /\ M \in Nat /\ Len(bookLog') = M + 1
      /\ \A n \in 1..M : bookLog'[n] = bookLog[n]
      /\ bookLog'[M + 1] = entry
      /\ \A x : Tellers(x)' = IF x = id THEN Tellers(x) \cup {M + 1} ELSE Tellers(x)
      /\ \A x : RecordTellers(x)' = IF x = id THEN RecordTellers(x) \cup {M + 1}
                                    ELSE RecordTellers(x)
      /\ \A x : Max(RecordTellers(x) \cup {M + 1}) = M + 1
      /\ \A x : RecordTellers(x) # {} =>
                 bookLog'[Max(RecordTellers(x))] = bookLog[Max(RecordTellers(x))]
      /\ StrengthsFollow'
  <2>1. /\ entry.type # "relationship_strength_updated"
        /\ \A x : TellsRecord(entry, x) <=> x = id
    BY <1>2 DEF BookInv, BookKinds, TellsRecord
  <2>. QED  BY <1>1, <1>2, <2>1, TellHolds
<1>5. /\ \A n \in 1..(M + 1) : n \in 1..M \/ n = M + 1
      /\ \A n \in 1..M : n \in 1..(M + 1) /\ n # M + 1
      /\ M + 1 \in 1..(M + 1)
      /\ \A n \in 1..(N + 1) : n \in 1..N \/ n = N + 1
      /\ \A n \in 1..N : n \in 1..(N + 1) /\ n # N + 1
      /\ N + 1 \in 1..(N + 1)
  BY <1>3, <1>4
<1>6. BookKnows'
  <2>1. \A n \in 1..Len(bookLog') : bookLog'[n].id \in DOMAIN book'
    BY <1>2, <1>3, <1>4, <1>5 DEF BookInv, BookKnows
  <2>2. \A n \in 1..Len(order') : order'[n] \in DOMAIN book'
    BY <1>3, <1>5 DEF BookInv, BookKnows
  <2>3. \A x \in DOMAIN book' : \E n \in 1..Len(order') : order'[n] = x
    BY <1>3, <1>5 DEF BookInv, BookKnows
  <2>. QED  BY <2>1, <2>2, <2>3 DEF BookKnows
<1>7. CreatedInOrder'
  <2>. DEFINE C == CreatedAt
              T == ToldAt
  <2>1. CreatedAt' = C \cup {M + 1}
    BY <1>1, <1>2, <1>4, <1>5 DEF CreatedAt
  <2>2. \A n \in 1..N : order[n] # id
    BY <1>1 DEF BookInv, BookKnows
  <2>3. ToldAt' = T \cup {N + 1}
    BY <1>3, <1>4, <1>5, <2>2 DEF ToldAt
  <2>4. C \subseteq 1..M /\ T \subseteq 1..N
    BY DEF CreatedAt, ToldAt
  <2>5. (\A n \in 1..M : Ids'[n] = Ids[n]) /\ Ids'[M + 1] = id
    BY <1>2, <1>4, <1>5 DEF Ids
  <2>. HIDE DEF C, T
  <2>6. MoreEntries(Ids, Ids', C, M + 1)
    BY <1>4, <2>4, <2>5, EntriesAtGrow
  <2>7. MoreEntries(order, order', T, N + 1)
    BY <1>3, <2>4, EntriesAtGrow
  <2>8. EntriesAt(Ids, C) = EntriesAt(order, T)
    BY DEF BookInv, CreatedInOrder, C, T
  <2>. QED  BY <1>3, <2>1, <2>3, <2>5, <2>6, <2>7, <2>8 DEF CreatedInOrder, MoreEntries
<1>8. LastToldHolds'
  <2>0. Adder' = Adder
    BY <1>1 DEF Adder
  <2>1. ASSUME NEW x \in DOMAIN book'
        PROVE  IF Tellers(x)' # {} THEN /\ RecordTellers(x)' # {}
                                        /\ bookLog'[Max(RecordTellers(x)')].told = Logged(book'[x])
               ELSE Adder.argued
    <3>1. CASE x = id
      BY <1>2, <1>3, <1>4, <3>1
    <3>2. CASE x # id
      <4>1. /\ x \in DOMAIN book /\ book'[x] = book[x] /\ Tellers(x)' = Tellers(x)
            /\ RecordTellers(x)' = RecordTellers(x)
        BY <1>3, <1>4, <3>2
      <4>. QED  BY <1>4, <4>1 DEF BookInv, LastToldHolds
    <3>. QED  BY <3>1, <3>2
  <2>. QED  BY <2>0, <2>1 DEF LastToldHolds
<1>. QED  BY <1>3, <1>4, <1>6, <1>7, <1>8 DEF BookInv

(* The ledger raised: the record is there and is not told.                  *)
LEMMA AddWithBadDateHolds ==
  ASSUME BookInv, NEW id, NEW record \in Candidates, AddWithBadDate(id, record)
  PROVE  BookInv'
<1>. DEFINE N == Len(order)
<1>1. /\ id \notin DOMAIN book /\ Store(id, record) /\ event' = event /\ bookLog' = bookLog
      /\ Adder.argued
  BY DEF AddWithBadDate
<1>3. /\ IsLog(order') /\ N \in Nat /\ Len(order') = N + 1
      /\ \A n \in 1..N : order'[n] = order[n]
      /\ order'[N + 1] = id
      /\ DOMAIN book' = DOMAIN book \cup {id}
      /\ book'[id] = record
      /\ \A x \in DOMAIN book : book'[x] = book[x]
      /\ BookKinds' <=> IsLog(bookLog')
      /\ IndexesHold'
  BY <1>1, StoreHolds
<1>4. /\ \A n \in 1..(N + 1) : n \in 1..N \/ n = N + 1
      /\ \A n \in 1..N : n \in 1..(N + 1) /\ n # N + 1
      /\ N + 1 \in 1..(N + 1)
  BY <1>3
<1>5. BookKinds'
  BY <1>1, <1>3 DEF BookInv, BookKinds
<1>6. BookKnows'
  BY <1>1, <1>3, <1>4 DEF BookInv, BookKnows
<1>7. /\ Tellers(id) = {}
      /\ \A x : Tellers(x)' = Tellers(x) /\ RecordTellers(x)' = RecordTellers(x)
  BY <1>1 DEF Tellers, RecordTellers, TellsRecord, BookInv, BookKnows
<1>8. CreatedInOrder'
  <2>. DEFINE T == ToldAt
  <2>1. CreatedAt' = CreatedAt /\ Ids' = Ids
    BY <1>1 DEF CreatedAt, Ids
  <2>2. ToldAt' = T
    BY <1>3, <1>4, <1>7 DEF ToldAt
  <2>3. T \subseteq 1..N
    BY DEF ToldAt
  <2>. HIDE DEF T
  <2>4. MoreEntries(order, order', T, N + 1)
    BY <1>3, <2>3, EntriesAtGrow
  <2>5. EntriesAt(Ids, CreatedAt) = EntriesAt(order, T)
    BY DEF BookInv, CreatedInOrder, T
  <2>. QED  BY <2>1, <2>2, <2>4, <2>5 DEF CreatedInOrder, MoreEntries
<1>9. LastToldHolds'
  <2>0. Adder' = Adder
    BY <1>1 DEF Adder
  <2>. QED  BY <1>1, <1>3, <1>7, <2>0 DEF BookInv, LastToldHolds
<1>10. StrengthsFollow'
  BY <1>1 DEF BookInv, StrengthsFollow, TellsRecord
<1>. QED  BY <1>3, <1>5, <1>6, <1>8, <1>9, <1>10 DEF BookInv

(* A later record about an id the ledger knows.                              *)
LEMMA LaterHolds ==
  ASSUME BookInv, NEW entry, Tell(entry), entry.type # event, event' = event,
         entry.id \in DOMAIN book, ~Adder.argued,
         order' = order, index' = index,
         DOMAIN book' = DOMAIN book, book' = [x \in DOMAIN book' |-> book'[x]],
         IsBookRecord(book'[entry.id]), book'[entry.id].subject = book[entry.id].subject,
         IF entry.type = "signal_observed" THEN book'[entry.id] = book[entry.id]
         ELSE entry.told = Logged(book'[entry.id]),
         entry.type = "relationship_strength_updated" => entry.previous = book[entry.id].level,
         \A x \in DOMAIN book : x # entry.id => book'[x] = book[x]
  PROVE  BookInv'
<1>. DEFINE M == Len(bookLog)
<1>0. Adder' = Adder
  BY DEF Adder
<1>1. /\ IsLog(bookLog') /\ M \in Nat /\ Len(bookLog') = M + 1
      /\ \A n \in 1..M : bookLog'[n] = bookLog[n]
      /\ bookLog'[M + 1] = entry
      /\ \A x : Tellers(x)' = IF x = entry.id THEN Tellers(x) \cup {M + 1} ELSE Tellers(x)
      /\ \A x : RecordTellers(x)' = IF TellsRecord(entry, x) THEN RecordTellers(x) \cup {M + 1}
                                    ELSE RecordTellers(x)
      /\ \A x : Max(RecordTellers(x) \cup {M + 1}) = M + 1
      /\ \A x : RecordTellers(x) # {} =>
                 bookLog'[Max(RecordTellers(x))] = bookLog[Max(RecordTellers(x))]
      /\ (entry.type = "relationship_strength_updated" =>
            /\ RecordTellers(entry.id) # {}
            /\ bookLog[Max(RecordTellers(entry.id))].told.level = entry.previous)
         => StrengthsFollow'
  BY TellHolds
<1>2. /\ \A n \in 1..(M + 1) : n \in 1..M \/ n = M + 1
      /\ \A n \in 1..M : n \in 1..(M + 1) /\ n # M + 1
  BY <1>1
<1>3. /\ Tellers(entry.id) # {} /\ RecordTellers(entry.id) # {}
      /\ bookLog[Max(RecordTellers(entry.id))].told = Logged(book[entry.id])
  BY DEF BookInv, LastToldHolds
<1>4. BookKinds'
  BY <1>1 DEF BookInv, BookKinds
<1>5. BookKnows'
  BY <1>1, <1>2 DEF BookInv, BookKnows
<1>6. CreatedInOrder'
  <2>. DEFINE C == CreatedAt
  <2>1. CreatedAt' = C
    BY <1>1, <1>2 DEF CreatedAt
  <2>2. ToldAt' = ToldAt
    BY <1>1, <1>3 DEF ToldAt
  <2>3. C \subseteq 1..M /\ \A n \in 1..M : Ids'[n] = Ids[n]
    BY <1>1, <1>2 DEF CreatedAt, Ids
  <2>. HIDE DEF C
  <2>4. MoreEntries(Ids, Ids', C, M + 1)
    BY <1>1, <2>3, EntriesAtGrow
  <2>5. EntriesAt(Ids, C) = EntriesAt(order, ToldAt)
    BY DEF BookInv, CreatedInOrder, C
  <2>. QED  BY <2>1, <2>2, <2>4, <2>5 DEF CreatedInOrder, MoreEntries
<1>7. LastToldHolds'
  <2>1. ASSUME NEW x \in DOMAIN book'
        PROVE  IF Tellers(x)' # {} THEN /\ RecordTellers(x)' # {}
                                        /\ bookLog'[Max(RecordTellers(x)')].told = Logged(book'[x])
               ELSE Adder.argued
    <3>1. CASE x = entry.id
      <4>1. CASE entry.type = "signal_observed"
        BY <1>1, <1>3, <3>1, <4>1 DEF TellsRecord
      <4>2. CASE entry.type # "signal_observed"
        BY <1>1, <1>3, <3>1, <4>2 DEF TellsRecord
      <4>. QED  BY <4>1, <4>2
    <3>2. CASE x # entry.id
      <4>1. /\ x \in DOMAIN book /\ book'[x] = book[x] /\ Tellers(x)' = Tellers(x)
            /\ RecordTellers(x)' = RecordTellers(x)
        BY <1>1, <3>2 DEF TellsRecord
      <4>. QED  BY <1>1, <4>1 DEF BookInv, LastToldHolds
    <3>. QED  BY <3>1, <3>2
  <2>. QED  BY <1>0, <2>1 DEF LastToldHolds
<1>8. IndexesHold'
  <2>1. \A n \in 1..Len(order) : book'[order[n]].subject = book[order[n]].subject
    BY DEF BookInv, BookKnows
  <2>2. \A s : OfSubject(s)' = OfSubject(s)
    BY <2>1 DEF OfSubject
  <2>. QED  BY <1>0, <2>2 DEF BookInv, IndexesHold
<1>9. StrengthsFollow'
  BY <1>1, <1>3 DEF Logged
<1>. QED  BY <1>4, <1>5, <1>6, <1>7, <1>8, <1>9 DEF BookInv

(* A record of a book with a new level and date. *)
LEMMA Relevelled ==
  ASSUME NEW r, IsBookRecord(r), NEW level, NEW until
  PROVE  [r EXCEPT !.level = level, !.date = until]
           = [subject |-> r.subject, date |-> until, level |-> level,
              visibility |-> r.visibility, viewers |-> r.viewers]
<1>. DEFINE q(s, d, l, label, v) ==
              [subject |-> s, date |-> d, level |-> l, visibility |-> label, viewers |-> v]
<1>1. PICK s, d, l, label, v : r = q(s, d, l, label, v)
  BY DEF IsBookRecord
<1>2. [q(s, d, l, label, v) EXCEPT !.level = level, !.date = until] = q(s, until, level, label, v)
  <2>. DEFINE c == q(s, d, l, label, v)
  <2>1. /\ c.subject = s /\ c.visibility = label /\ c.viewers = v
        /\ DOMAIN c = {"subject", "date", "level", "visibility", "viewers"}
    OBVIOUS
  <2>2. [c EXCEPT !.level = level, !.date = until]
          = [f \in DOMAIN c |-> CASE f = "date" -> until [] f = "level" -> level [] OTHER -> c[f]]
    <3>. HIDE DEF c
    <3>. QED  BY <2>1
  <2>. QED  BY <2>1, <2>2
<1>3. r.subject = s /\ r.visibility = label /\ r.viewers = v
  BY <1>1
<1>. QED  BY ONLY <1>1, <1>2, <1>3

LEMMA UpdateStrengthHolds ==
  ASSUME BookInv, NEW id, NEW level, NEW date, UpdateStrength(id, level, date)
  PROVE  BookInv'
<1>. DEFINE updated == Restrengthened(id, level, date)
            entry == [type |-> "relationship_strength_updated", id |-> id, date |-> today,
                      told |-> Logged(updated), previous |-> book[id].level]
<1>1. /\ event = "relationship_added" /\ id \in DOMAIN book
      /\ book' = [book EXCEPT ![id] = updated]
      /\ Tell(entry) /\ UNCHANGED <<event, order, index, today>>
  BY DEF UpdateStrength, ToldStrength
<1>2. IsBookRecord(updated) /\ updated.subject = book[id].subject
  <2>1. IsBookRecord(book[id])
    BY <1>1 DEF BookInv, BookKinds
  <2>2. \A until : [book[id] EXCEPT !.level = level, !.date = until]
          = [subject |-> book[id].subject, date |-> until, level |-> level,
             visibility |-> book[id].visibility, viewers |-> book[id].viewers]
    BY <2>1, Relevelled
  <2>. QED  BY <2>2 DEF IsBookRecord, Restrengthened
<1>. HIDE DEF updated
<1>3. /\ entry.type = "relationship_strength_updated" /\ entry.id = id
      /\ entry.told = Logged(updated) /\ entry.previous = book[id].level
  OBVIOUS
<1>. HIDE DEF entry
<1>4. ~Adder.argued
  BY <1>1 DEF Adder, Books, RelationshipAdded, Indexed, DatedByClock
<1>5. /\ DOMAIN book' = DOMAIN book /\ book' = [x \in DOMAIN book' |-> book'[x]]
      /\ book'[id] = updated /\ \A x \in DOMAIN book : x # id => book'[x] = book[x]
  BY <1>1 DEF BookInv, BookKinds
<1>6. entry.type # event /\ entry.type # "signal_observed"
  BY <1>1, <1>3
<1>7. /\ IsBookRecord(book'[entry.id]) /\ book'[entry.id].subject = book[entry.id].subject
      /\ entry.told = Logged(book'[entry.id]) /\ entry.previous = book[entry.id].level
      /\ entry.id \in DOMAIN book /\ \A x \in DOMAIN book : x # entry.id => book'[x] = book[x]
      /\ Tell(entry) /\ event' = event /\ order' = order /\ index' = index
  BY <1>1, <1>2, <1>3, <1>5
<1>. QED  BY <1>4, <1>5, <1>6, <1>7, LaterHolds

LEMMA MarkObservedHolds ==
  ASSUME BookInv, NEW id, NEW viewer, NEW date, MarkObserved(id, viewer, date)
  PROVE  BookInv'
<1>. DEFINE told == [subject |-> book[id].subject, visibility |-> book[id].visibility,
                     viewer |-> viewer]
            entry == Entry("signal_observed", id, IF date = NoDate THEN today ELSE date, told)
<1>1. /\ event = "signal_added" /\ id \in DOMAIN book
      /\ Tell(entry) /\ UNCHANGED <<event, book, order, index, today>>
  BY DEF MarkObserved
<1>2. entry.type = "signal_observed" /\ entry.id = id
  BY DEF Entry
<1>. HIDE DEF entry
<1>3. ~Adder.argued
  BY <1>1 DEF Adder, Books, SignalAdded, DatedByClock
<1>4. /\ DOMAIN book' = DOMAIN book /\ book' = [x \in DOMAIN book' |-> book'[x]]
      /\ IsBookRecord(book[id])
  BY <1>1 DEF BookInv, BookKinds
<1>5. /\ event' = event /\ order' = order /\ index' = index
      /\ entry.id \in DOMAIN book /\ entry.type # event
      /\ entry.type # "relationship_strength_updated"
      /\ book'[entry.id] = book[entry.id] /\ IsBookRecord(book'[entry.id])
      /\ book'[entry.id].subject = book[entry.id].subject
      /\ \A x \in DOMAIN book : x # entry.id => book'[x] = book[x]
  BY <1>1, <1>2, <1>4
<1>. QED  BY <1>1, <1>2, <1>3, <1>4, <1>5, LaterHolds

LEMMA BookStep == BookInv /\ [BooksNext]_bookVars => BookInv'
<1>. SUFFICES ASSUME BookInv, [BooksNext]_bookVars PROVE BookInv'
  OBVIOUS
<1>1. ASSUME UNCHANGED <<event, book, order, index, bookLog>> PROVE BookInv'
  <2>1. event' = event /\ book' = book /\ order' = order /\ index' = index /\ bookLog' = bookLog
    BY <1>1
  <2>2. BookKinds' /\ BookKnows'
    BY <2>1 DEF BookInv, BookKinds, BookKnows
  <2>3. CreatedInOrder'
    BY <2>1 DEF BookInv, CreatedInOrder, Ids, CreatedAt, ToldAt, Tellers
  <2>4. LastToldHolds'
    BY <2>1 DEF BookInv, LastToldHolds, Tellers, RecordTellers, TellsRecord, Adder
  <2>5. IndexesHold'
    BY <2>1 DEF BookInv, IndexesHold, Adder, OfSubject
  <2>6. StrengthsFollow'
    BY <2>1 DEF BookInv, StrengthsFollow, TellsRecord
  <2>. QED  BY <2>2, <2>3, <2>4, <2>5, <2>6 DEF BookInv
<1>2. CASE NextDay
  BY <1>1, <1>2 DEF NextDay
<1>3. ASSUME NEW flaw, Refuse(flaw) PROVE BookInv'
  BY <1>1, <1>3 DEF Refuse
<1>4. ASSUME NEW id, Duplicate(id) PROVE BookInv'
  BY <1>1, <1>4 DEF Duplicate
<1>5. CASE UNCHANGED bookVars
  BY <1>1, <1>5 DEF bookVars
<1>. QED  BY <1>2, <1>3, <1>4, <1>5, AddHolds, AddWithBadDateHolds, UpdateStrengthHolds,
             MarkObservedHolds DEF BooksNext

(* LedgerTellsTheBook: for each of the 79 adders, the records a book was     *)
(* given are on the ledger, each once and in their order; the last told of    *)
(* each, its viewers apart, is what the book holds; an update names the       *)
(* strength told before it; the indexes list the records; and a record can    *)
(* be untold only in a book whose adder takes a date.                       *)
THEOREM LedgerTellsTheBookTheorem == BooksSpec => []LedgerTellsTheBook
  BY BookInvTells, BookInit, BookStep, PTL DEF BooksSpec

-----------------------------------------------------------------------------
(***************************************************************************)
(* Ownership, contracts, prices and what is derived from them              *)
(***************************************************************************)
(* A derived list has as many records as its set has elements.              *)
LEMMA InKeyOrderLog ==
  ASSUME NEW S, IsFiniteSet(S), NEW key
  PROVE  /\ Cardinality(S) \in Nat
         /\ DOMAIN InKeyOrder(S, key) = 1..Cardinality(S)
  BY FS_CardinalityType DEF InKeyOrder

(* sorted() of numbers is their list in order.                              *)
LEMMA InKeyOrderIsInOrder ==
  ASSUME NEW S
  PROVE  InKeyOrder(S, [m \in S |-> m]) = InOrder(S)
<1>. DEFINE key == [m \in S |-> m]
            by(h) == CHOOSE x \in S : Cardinality({y \in S : key[y] <= key[x]}) = h
            at(h) == CHOOSE x \in S : Place(S, x) = h
<1>1. \A x \in S : Cardinality({y \in S : key[y] <= key[x]}) = Place(S, x)
  BY DEF Place
<1>2. \A h : by(h) = at(h)
  BY <1>1
<1>3. InKeyOrder(S, key) = [h \in 1..Cardinality(S) |-> by(h)]
  BY DEF InKeyOrder
<1>. HIDE DEF by
<1>. QED  BY <1>2, <1>3 DEF InOrder


(***************************************************************************)
(* What a ledger tells of the books, part by part.                         *)
(***************************************************************************)
OnPosition(f, o, a) ==
  \/ f.type = "ownership_position_added" /\ f.owner = o /\ f.asset = a
  \/ f.type = "ownership_transferred" /\ f.asset = a /\ o \in {f.from, f.to}
OnContract(f, c) == f.type \in {"contract_created", "contract_status_updated"} /\ f.contract = c
OnPrice(f, a) == f.type = "price_updated" /\ f.asset = a

PositionSaid(f, o) ==
  CASE f.type = "ownership_position_added" -> {f.new}
    [] f.type = "ownership_transferred" /\ o = f.to -> {f.total}
    [] OTHER -> {f.left} \ {0}

OnPositionIn(pages, n, o, a) == {m \in 1..n : OnPosition(pages[m], o, a)}
OnContractIn(pages, n, c) == {m \in 1..n : OnContract(pages[m], c)}
OnPriceIn(pages, n, a) == {m \in 1..n : OnPrice(pages[m], a)}

TellPosition(pages, n, o, a) ==
  IF OnPositionIn(pages, n, o, a) = {} THEN {}
  ELSE PositionSaid(pages[Max(OnPositionIn(pages, n, o, a))], o)
TellContracts(pages, n) ==
  {pages[m].contract : m \in {i \in 1..n : pages[i].type = "contract_created"}}
TellStatus(pages, n, c) == pages[Max(OnContractIn(pages, n, c))].status
TellPrices(pages, n, a) ==
  [h \in 1..Cardinality(OnPriceIn(pages, n, a)) |-> pages[InOrder(OnPriceIn(pages, n, a))[h]].price]

ToldBooks(pages, n) ==
  [positions |-> [k \in {k \in Owners \X Assets : TellPosition(pages, n, k[1], k[2]) # {}} |->
                    CHOOSE q \in TellPosition(pages, n, k[1], k[2]) : TRUE],
   statuses |-> [c \in TellContracts(pages, n) |-> TellStatus(pages, n, c)],
   prices |-> [a \in Assets |-> TellPrices(pages, n, a)]]

SameTold(pages, n, more, m) ==
  /\ \A o, a : TellPosition(more, m, o, a) = TellPosition(pages, n, o, a)
  /\ TellContracts(more, m) = TellContracts(pages, n)
  /\ \A c \in TellContracts(pages, n) : TellStatus(more, m, c) = TellStatus(pages, n, c)
  /\ \A a : TellPrices(more, m, a) = TellPrices(pages, n, a)

(* Two tellings are equal part by part.                                     *)
LEMMA TellEqual ==
  ASSUME NEW pages, NEW n, NEW more, NEW m, SameTold(pages, n, more, m)
  PROVE  ToldBooks(more, m) = ToldBooks(pages, n)
<1>. DEFINE K(l, i) == {k \in Owners \X Assets : TellPosition(l, i, k[1], k[2]) # {}}
            P(l, i) == [k \in K(l, i) |-> CHOOSE q \in TellPosition(l, i, k[1], k[2]) : TRUE]
            S(l, i) == [c \in TellContracts(l, i) |-> TellStatus(l, i, c)]
            A(l, i) == [a \in Assets |-> TellPrices(l, i, a)]
<1>1. P(more, m) = P(pages, n)
  <2>1. K(more, m) = K(pages, n)
    BY DEF SameTold
  <2>. QED  BY <2>1 DEF SameTold
<1>2. S(more, m) = S(pages, n)
  BY DEF SameTold
<1>3. A(more, m) = A(pages, n)
  BY DEF SameTold
<1>4. \A l, i : ToldBooks(l, i) = [positions |-> P(l, i), statuses |-> S(l, i), prices |-> A(l, i)]
  BY DEF ToldBooks
<1>. HIDE DEF P, S, A
<1>. QED  BY <1>1, <1>2, <1>3, <1>4

(* The records the property reads, taken as values.                         *)
LEMMA ToldIsTell ==
  ASSUME NEW n \in Nat
  PROVE  Told3(n) = ToldBooks(facts, n)
<1>1. ASSUME NEW o, NEW a PROVE ToldPosition(n, o, a) = TellPosition(facts, n, o, a)
  <2>1. PositionFacts(n, o, a) = OnPositionIn(facts, n, o, a)
    BY DEF PositionFacts, OnPositionIn, OnPosition
  <2>. QED  BY <2>1 DEF ToldPosition, TellPosition, PositionSaid
<1>2. ASSUME NEW c PROVE facts[Max(StatusFacts(n, c))].status = TellStatus(facts, n, c)
  <2>1. StatusFacts(n, c) = OnContractIn(facts, n, c)
    BY DEF StatusFacts, OnContractIn, OnContract
  <2>. QED  BY <2>1 DEF TellStatus
<1>3. ASSUME NEW a PROVE ToldPrices(n, a) = TellPrices(facts, n, a)
  <2>. DEFINE S == OnPriceIn(facts, n, a)
  <2>1. PriceFacts(n, a) = S
    BY DEF PriceFacts, OnPriceIn, OnPrice
  <2>2. S \in SUBSET Nat /\ IsFiniteSet(S)
    <3>1. S \subseteq 1..n /\ IsFiniteSet(1..n)
      BY FS_Interval DEF OnPriceIn
    <3>. QED  BY <3>1, FS_Subset
  <2>3. DOMAIN InOrder(S) = 1..Cardinality(S)
    BY <2>2, InOrderIs
  <2>4. ToldPrices(n, a) = [h \in DOMAIN InOrder(S) |-> facts[InOrder(S)[h]].price]
    BY <2>1, InKeyOrderIsInOrder DEF ToldPrices
  <2>. QED  BY <2>3, <2>4 DEF TellPrices
<1>4. ToldContracts(n) = TellContracts(facts, n)
  BY DEF ToldContracts, TellContracts
<1>. DEFINE K == {k \in Owners \X Assets : ToldPosition(n, k[1], k[2]) # {}}
            J == {k \in Owners \X Assets : TellPosition(facts, n, k[1], k[2]) # {}}
<1>5. [k \in K |-> CHOOSE q \in ToldPosition(n, k[1], k[2]) : TRUE]
        = [k \in J |-> CHOOSE q \in TellPosition(facts, n, k[1], k[2]) : TRUE]
  <2>1. K = J
    BY <1>1
  <2>. QED  BY <1>1, <2>1
<1>6. [c \in ToldContracts(n) |-> facts[Max(StatusFacts(n, c))].status]
        = [c \in TellContracts(facts, n) |-> TellStatus(facts, n, c)]
  BY <1>2, <1>4
<1>7. [a \in Assets |-> ToldPrices(n, a)] = [a \in Assets |-> TellPrices(facts, n, a)]
  BY <1>3
<1>. QED  BY <1>5, <1>6, <1>7 DEF Told3, ToldBooks

(* Records of other types change nothing of what is told.                   *)
BookTypes == {"ownership_position_added", "ownership_transferred", "contract_created",
              "contract_status_updated", "price_updated"}

LEMMA TellSame ==
  ASSUME NEW pages, NEW more, NEW n \in Nat, NEW m \in Nat, n <= m,
         \A i \in 1..n : more[i] = pages[i],
         \A i \in 1..m : i \in 1..n \/ more[i].type \notin BookTypes
  PROVE  SameTold(pages, n, more, m) /\ ToldBooks(more, m) = ToldBooks(pages, n)
<1>0. \A i \in 1..n : i \in 1..m
  OBVIOUS
<1>1. ASSUME NEW o, NEW a PROVE TellPosition(more, m, o, a) = TellPosition(pages, n, o, a)
  <2>. DEFINE S == OnPositionIn(pages, n, o, a)
  <2>0. \A i \in 1..m : OnPosition(more[i], o, a) => i \in 1..n
    BY DEF OnPosition, BookTypes
  <2>1. OnPositionIn(more, m, o, a) = S
    BY <1>0, <2>0 DEF OnPositionIn
  <2>2. S \subseteq 1..n
    BY DEF OnPositionIn
  <2>. HIDE DEF S
  <2>3. S # {} => more[Max(S)] = pages[Max(S)]
    BY <2>2, LastOne
  <2>. QED  BY <2>1, <2>3 DEF TellPosition, S
<1>2. TellContracts(more, m) = TellContracts(pages, n)
  <2>1. {i \in 1..m : more[i].type = "contract_created"} = {i \in 1..n : pages[i].type = "contract_created"}
    BY <1>0 DEF BookTypes
  <2>. QED  BY <2>1 DEF TellContracts
<1>3. ASSUME NEW c \in TellContracts(pages, n) PROVE TellStatus(more, m, c) = TellStatus(pages, n, c)
  <2>. DEFINE S == OnContractIn(pages, n, c)
  <2>0. \A i \in 1..m : OnContract(more[i], c) => i \in 1..n
    BY DEF OnContract, BookTypes
  <2>1. OnContractIn(more, m, c) = S
    BY <1>0, <2>0 DEF OnContractIn
  <2>2. S \subseteq 1..n /\ S # {}
    BY DEF OnContractIn, OnContract, TellContracts
  <2>. HIDE DEF S
  <2>3. more[Max(S)] = pages[Max(S)]
    BY <2>2, LastOne
  <2>. QED  BY <2>1, <2>3 DEF TellStatus, S
<1>4. ASSUME NEW a PROVE TellPrices(more, m, a) = TellPrices(pages, n, a)
  <2>. DEFINE S == OnPriceIn(pages, n, a)
  <2>0. \A i \in 1..m : OnPrice(more[i], a) => i \in 1..n
    BY DEF OnPrice, BookTypes
  <2>1. OnPriceIn(more, m, a) = S
    BY <1>0, <2>0 DEF OnPriceIn
  <2>2. S \subseteq 1..n
    BY DEF OnPriceIn
  <2>. HIDE DEF S
  <2>3. S \in SUBSET Nat /\ IsFiniteSet(S)
    BY <2>2, LastOne
  <2>4. \A h \in 1..Cardinality(S) : InOrder(S)[h] \in S
    BY <2>3, InOrderIs
  <2>5. \A h \in 1..Cardinality(S) : more[InOrder(S)[h]].price = pages[InOrder(S)[h]].price
    BY <2>2, <2>4
  <2>. QED  BY <2>1, <2>5 DEF TellPrices, S
<1>5. SameTold(pages, n, more, m)
  BY <1>1, <1>2, <1>3, <1>4 DEF SameTold
<1>. QED  BY <1>5, TellEqual

(* What one more record tells.                                              *)
NextTold(pages, n, more, f) ==
  /\ \A o, a : TellPosition(more, n + 1, o, a) =
                IF OnPosition(f, o, a) THEN PositionSaid(f, o) ELSE TellPosition(pages, n, o, a)
  /\ TellContracts(more, n + 1) =
       IF f.type = "contract_created" THEN TellContracts(pages, n) \cup {f.contract}
       ELSE TellContracts(pages, n)
  /\ \A c : OnContract(f, c) => TellStatus(more, n + 1, c) = f.status
  /\ \A c \in TellContracts(pages, n) :
       ~OnContract(f, c) => TellStatus(more, n + 1, c) = TellStatus(pages, n, c)
  /\ \A a : LET k == Cardinality(OnPriceIn(pages, n, a)) IN
       IF OnPrice(f, a)
         THEN /\ Cardinality(OnPriceIn(more, n + 1, a)) = k + 1
              /\ TellPrices(more, n + 1, a) =
                   [h \in 1..(k + 1) |-> IF h = k + 1 THEN f.price ELSE TellPrices(pages, n, a)[h]]
         ELSE /\ Cardinality(OnPriceIn(more, n + 1, a)) = k
              /\ TellPrices(more, n + 1, a) = TellPrices(pages, n, a)

LEMMA TellNext ==
  ASSUME NEW pages, NEW more, NEW n \in Nat, \A i \in 1..n : more[i] = pages[i], NEW f, more[n + 1] = f
  PROVE  NextTold(pages, n, more, f)
<1>0. /\ \A i \in 1..n : i \in 1..(n + 1) /\ i # n + 1
      /\ \A i \in 1..(n + 1) : i \in 1..n \/ i = n + 1
      /\ n + 1 \in 1..(n + 1)
  OBVIOUS
<1>1. ASSUME NEW o, NEW a
      PROVE  TellPosition(more, n + 1, o, a) =
               IF OnPosition(f, o, a) THEN PositionSaid(f, o) ELSE TellPosition(pages, n, o, a)
  <2>. DEFINE S == OnPositionIn(pages, n, o, a)
  <2>1. OnPositionIn(more, n + 1, o, a) = IF OnPosition(f, o, a) THEN S \cup {n + 1} ELSE S
    BY <1>0 DEF OnPositionIn
  <2>2. S \subseteq 1..n
    BY DEF OnPositionIn
  <2>. HIDE DEF S
  <2>3. S # {} => more[Max(S)] = pages[Max(S)]
    BY <2>2, LastOne
  <2>4. more[Max(S \cup {n + 1})] = f
    BY <2>2, LastOne
  <2>5. CASE OnPosition(f, o, a)
    BY <2>1, <2>4, <2>5 DEF TellPosition
  <2>6. CASE ~OnPosition(f, o, a)
    BY <2>1, <2>3, <2>6 DEF TellPosition, S
  <2>. QED  BY <2>5, <2>6
<1>2. TellContracts(more, n + 1) =
        IF f.type = "contract_created" THEN TellContracts(pages, n) \cup {f.contract}
        ELSE TellContracts(pages, n)
  <2>. DEFINE S == {i \in 1..n : pages[i].type = "contract_created"}
  <2>1. {i \in 1..(n + 1) : more[i].type = "contract_created"} =
          IF f.type = "contract_created" THEN S \cup {n + 1} ELSE S
    BY <1>0
  <2>2. \A i \in S : more[i] = pages[i]
    OBVIOUS
  <2>. HIDE DEF S
  <2>. QED  BY <2>1, <2>2 DEF TellContracts, S
<1>3. ASSUME NEW c, OnContract(f, c) PROVE TellStatus(more, n + 1, c) = f.status
  <2>. DEFINE S == OnContractIn(pages, n, c)
  <2>1. OnContractIn(more, n + 1, c) = S \cup {n + 1}
    BY <1>0, <1>3 DEF OnContractIn
  <2>2. S \subseteq 1..n
    BY DEF OnContractIn
  <2>. HIDE DEF S
  <2>3. more[Max(S \cup {n + 1})] = f
    BY <2>2, LastOne
  <2>. QED  BY <2>1, <2>3 DEF TellStatus
<1>4. ASSUME NEW c \in TellContracts(pages, n), ~OnContract(f, c)
      PROVE  TellStatus(more, n + 1, c) = TellStatus(pages, n, c)
  <2>. DEFINE S == OnContractIn(pages, n, c)
  <2>1. OnContractIn(more, n + 1, c) = S
    BY <1>0, <1>4 DEF OnContractIn
  <2>2. S \subseteq 1..n /\ S # {}
    BY DEF OnContractIn, OnContract, TellContracts
  <2>. HIDE DEF S
  <2>3. more[Max(S)] = pages[Max(S)]
    BY <2>2, LastOne
  <2>. QED  BY <2>1, <2>3 DEF TellStatus, S
<1>5. ASSUME NEW a
      PROVE  IF OnPrice(f, a)
               THEN /\ Cardinality(OnPriceIn(more, n + 1, a)) = Cardinality(OnPriceIn(pages, n, a)) + 1
                    /\ TellPrices(more, n + 1, a) =
                         [h \in 1..(Cardinality(OnPriceIn(pages, n, a)) + 1) |->
                            IF h = Cardinality(OnPriceIn(pages, n, a)) + 1 THEN f.price
                            ELSE TellPrices(pages, n, a)[h]]
               ELSE /\ Cardinality(OnPriceIn(more, n + 1, a)) = Cardinality(OnPriceIn(pages, n, a))
                    /\ TellPrices(more, n + 1, a) = TellPrices(pages, n, a)
  <2>. DEFINE S == OnPriceIn(pages, n, a)
              T == S \cup {n + 1}
              k == Cardinality(S)
  <2>1. OnPriceIn(more, n + 1, a) = IF OnPrice(f, a) THEN T ELSE S
    BY <1>0 DEF OnPriceIn
  <2>2. S \subseteq 1..n
    BY DEF OnPriceIn
  <2>3. \A x \in S : x < n + 1
    BY <2>2
  <2>4. TellPrices(pages, n, a) = [h \in 1..k |-> pages[InOrder(S)[h]].price]
    BY DEF TellPrices
  <2>. HIDE DEF S
  <2>5. S \in SUBSET Nat /\ IsFiniteSet(S)
    BY <2>2, LastOne
  <2>6. \A h \in 1..k : InOrder(S)[h] \in S
    BY <2>5, InOrderIs
  <2>7. \A h \in 1..k : more[InOrder(S)[h]].price = pages[InOrder(S)[h]].price
    BY <2>2, <2>6
  <2>8. CASE ~OnPrice(f, a)
    <3>1. TellPrices(more, n + 1, a) = TellPrices(pages, n, a)
      BY <2>1, <2>4, <2>7, <2>8 DEF TellPrices
    <3>. QED  BY <2>1, <2>8, <3>1 DEF S
  <2>9. CASE OnPrice(f, a)
    <3>0. n + 1 \in Nat
      OBVIOUS
    <3>1. /\ k \in Nat /\ Cardinality(T) = k + 1
          /\ \A h \in 1..k : InOrder(T)[h] = InOrder(S)[h]
          /\ InOrder(T)[k + 1] = n + 1
      BY <2>3, <2>5, <3>0, InOrderGrows
    <3>2. TellPrices(more, n + 1, a) = [h \in 1..(k + 1) |-> more[InOrder(T)[h]].price]
      BY <2>1, <2>9, <3>1 DEF TellPrices
    <3>. HIDE DEF T, k
    <3>3. ASSUME NEW h \in 1..(k + 1)
          PROVE  more[InOrder(T)[h]].price =
                   IF h = k + 1 THEN f.price ELSE TellPrices(pages, n, a)[h]
      <4>1. CASE h = k + 1
        BY <3>1, <4>1
      <4>2. CASE h # k + 1
        <5>1. h \in 1..k
          BY <3>1, <4>2
        <5>2. TellPrices(pages, n, a)[h] = pages[InOrder(S)[h]].price
          BY <2>4, <5>1
        <5>. QED  BY <2>7, <3>1, <4>2, <5>1, <5>2
      <4>. QED  BY <4>1, <4>2
    <3>4. TellPrices(more, n + 1, a) =
            [h \in 1..(k + 1) |-> IF h = k + 1 THEN f.price ELSE TellPrices(pages, n, a)[h]]
      BY <3>2, <3>3
    <3>5. Cardinality(OnPriceIn(more, n + 1, a)) = k + 1
      BY <2>1, <2>9, <3>1
    <3>. QED  BY <2>9, <3>4, <3>5 DEF k, S
  <2>. QED  BY <2>8, <2>9
<1>. QED  BY <1>1, <1>2, <1>3, <1>4, <1>5 DEF NextTold

(***************************************************************************)
(* The invariant: the books and the parts of them the ledger tells.         *)
(***************************************************************************)
WorldTypes ==
  /\ IsLog(facts)
  /\ positions = [k \in DOMAIN positions |-> positions[k]]
  /\ DOMAIN positions \subseteq Owners \X Assets
  /\ statuses = [c \in DOMAIN statuses |-> statuses[c]]
  /\ prices = [a \in Assets |-> prices[a]]
  /\ \A a \in Assets : IsLog(prices[a])
  /\ IsLog(rules)
  /\ IsLog(valuations)

PositionsTold ==
  \A o \in Owners, a \in Assets :
    TellPosition(facts, Len(facts), o, a) =
      IF <<o, a>> \in DOMAIN positions THEN {positions[<<o, a>>]} ELSE {}
StatusesTold ==
  /\ TellContracts(facts, Len(facts)) = DOMAIN statuses
  /\ \A c \in DOMAIN statuses : TellStatus(facts, Len(facts), c) = statuses[c]
PricesTold ==
  \A a \in Assets : /\ TellPrices(facts, Len(facts), a) = ValuesOf(prices[a])
                    /\ Cardinality(OnPriceIn(facts, Len(facts), a)) = Len(prices[a])

Replays == PositionsTold /\ StatusesTold /\ PricesTold
ReplayInv == WorldTypes /\ Replays

(* The parts make the whole.                                                *)
LEMMA ReplaysIsTell ==
  ASSUME ReplayInv
  PROVE  ToldBooks(facts, Len(facts)) = Books3
<1>. DEFINE n == Len(facts)
            K == {k \in Owners \X Assets : TellPosition(facts, n, k[1], k[2]) # {}}
<1>1. \A k \in Owners \X Assets :
        TellPosition(facts, n, k[1], k[2]) = IF k \in DOMAIN positions THEN {positions[k]} ELSE {}
  <2>1. \A k \in Owners \X Assets : k[1] \in Owners /\ k[2] \in Assets /\ k = <<k[1], k[2]>>
    OBVIOUS
  <2>. QED  BY <2>1 DEF ReplayInv, Replays, PositionsTold
<1>2. K = DOMAIN positions
  BY <1>1 DEF ReplayInv, WorldTypes
<1>3. \A k \in K : (CHOOSE q \in TellPosition(facts, n, k[1], k[2]) : TRUE) = positions[k]
  <2>1. \A x : (CHOOSE q \in {x} : TRUE) = x
    OBVIOUS
  <2>2. \A k \in K : TellPosition(facts, n, k[1], k[2]) = {positions[k]}
    BY <1>1, <1>2
  <2>. QED  BY <2>1, <2>2
<1>4. [k \in K |-> CHOOSE q \in TellPosition(facts, n, k[1], k[2]) : TRUE] = positions
  <2>1. [k \in K |-> CHOOSE q \in TellPosition(facts, n, k[1], k[2]) : TRUE] = [k \in K |-> positions[k]]
    BY <1>3
  <2>. QED  BY <1>2, <2>1 DEF ReplayInv, WorldTypes
<1>5. [c \in TellContracts(facts, n) |-> TellStatus(facts, n, c)] = statuses
  <2>1. TellContracts(facts, n) = DOMAIN statuses /\ \A c \in DOMAIN statuses : TellStatus(facts, n, c) = statuses[c]
    BY DEF ReplayInv, Replays, StatusesTold, PricesTold
  <2>2. [c \in DOMAIN statuses |-> TellStatus(facts, n, c)] = [c \in DOMAIN statuses |-> statuses[c]]
    BY <2>1
  <2>. QED  BY <2>1, <2>2 DEF ReplayInv, WorldTypes
<1>6. [a \in Assets |-> TellPrices(facts, n, a)] = [a \in Assets |-> ValuesOf(prices[a])]
  <2>1. \A a \in Assets : TellPrices(facts, n, a) = ValuesOf(prices[a])
    BY DEF ReplayInv, Replays, StatusesTold, PricesTold
  <2>. QED  BY <2>1
<1>. QED  BY <1>4, <1>5, <1>6 DEF ToldBooks, Books3

(* What the call told is at the end of the ledger.                          *)
LEMMA Telling ==
  ASSUME ReplayInv, NEW told, IsLog(told), Tells(told)
  PROVE  /\ IsLog(facts') /\ Len(facts) \in Nat /\ Len(told) \in Nat
         /\ Len(facts') = Len(facts) + Len(told)
         /\ \A i \in 1..Len(facts) : facts'[i] = facts[i]
         /\ \A i \in 1..Len(told) : facts'[Len(facts) + i] = told[i]
<1>1. IsLog(facts) /\ facts' = facts \o told
  BY DEF ReplayInv, WorldTypes, Tells
<1>2. Len(facts) \in Nat /\ Len(told) \in Nat
  BY <1>1 DEF IsLog
<1>. QED  BY <1>1, <1>2, LogExtended

(* Steps that leave the three books alone.                                  *)
LEMMA QuietTelling ==
  ASSUME ReplayInv, NEW told, IsLog(told), Tells(told),
         \A i \in 1..Len(told) : told[i].type \notin BookTypes,
         UNCHANGED <<positions, statuses, prices>>
  PROVE  /\ IsLog(facts') /\ Replays'
         /\ \A n \in Len(facts)..Len(facts') : ToldBooks(facts', n) = Books3
<1>. DEFINE N == Len(facts)
            M == Len(facts')
<1>1. /\ IsLog(facts') /\ N \in Nat /\ Len(told) \in Nat /\ M = N + Len(told)
      /\ \A i \in 1..N : facts'[i] = facts[i]
      /\ \A i \in 1..Len(told) : facts'[N + i] = told[i]
  BY Telling
<1>2. \A i \in 1..M : i \in 1..N \/ facts'[i].type \notin BookTypes
  <2>1. ASSUME NEW i \in 1..M, i \notin 1..N PROVE facts'[i].type \notin BookTypes
    <3>1. i - N \in 1..Len(told) /\ N + (i - N) = i
      BY <1>1, <2>1
    <3>2. facts'[i] = told[i - N]
      BY <1>1, <3>1
    <3>. QED  BY <3>1, <3>2
  <2>. QED  BY <2>1
<1>3. M \in Nat /\ N <= M
  BY <1>1
<1>. HIDE DEF N, M
<1>4. SameTold(facts, N, facts', M)
  BY <1>1, <1>2, <1>3, TellSame
<1>5. \A a : OnPriceIn(facts', M, a) = OnPriceIn(facts, N, a)
  <2>1. \A a : \A i \in 1..M : OnPrice(facts'[i], a) => i \in 1..N
    BY <1>2 DEF OnPrice, BookTypes
  <2>2. \A i \in 1..N : i \in 1..M
    BY <1>1, <1>3
  <2>. QED  BY <1>1, <2>1, <2>2 DEF OnPriceIn
<1>6. Replays'
  BY <1>4, <1>5 DEF ReplayInv, Replays, PositionsTold, StatusesTold, PricesTold, SameTold, N, M
<1>7. ASSUME NEW n \in N..M PROVE ToldBooks(facts', n) = Books3
  <2>1. n \in Nat /\ N <= n /\ \A i \in 1..n : i \in 1..M
    BY <1>1, <1>3
  <2>2. \A i \in 1..n : i \in 1..N \/ facts'[i].type \notin BookTypes
    BY <1>2, <2>1
  <2>3. ToldBooks(facts', n) = ToldBooks(facts, N)
    BY <1>1, <2>1, <2>2, TellSame
  <2>. QED  BY <2>3, ReplaysIsTell DEF N
<1>. QED  BY <1>1, <1>6, <1>7 DEF N, M

(***************************************************************************)
(* Steps that change a book tell one record.                               *)
(***************************************************************************)
LEMMA OneTelling ==
  ASSUME ReplayInv, NEW f, Tells(<<f>>)
  PROVE  /\ IsLog(facts') /\ Len(facts) \in Nat /\ Len(facts') = Len(facts) + 1
         /\ \A i \in 1..Len(facts) : facts'[i] = facts[i]
         /\ facts'[Len(facts) + 1] = f
         /\ NextTold(facts, Len(facts), facts', f)
         /\ ToldBooks(facts', Len(facts)) = Books3
<1>. DEFINE told == <<f>>
<1>1. IsLog(told) /\ Len(told) = 1 /\ told[1] = f
  BY LogOfOne
<1>2. Tells(told)
  OBVIOUS
<1>. HIDE DEF told
<1>a. /\ IsLog(facts') /\ Len(facts) \in Nat
      /\ Len(facts') = Len(facts) + Len(told)
      /\ \A i \in 1..Len(facts) : facts'[i] = facts[i]
      /\ \A i \in 1..Len(told) : facts'[Len(facts) + i] = told[i]
  BY <1>1, <1>2, Telling
<1>b. Len(facts') = Len(facts) + 1
  BY <1>1, <1>a
<1>c. facts'[Len(facts) + 1] = f
  <2>1. 1 \in 1..Len(told)
    BY <1>1
  <2>. QED  BY <1>1, <1>a, <2>1
<1>3. /\ IsLog(facts') /\ Len(facts) \in Nat /\ Len(facts') = Len(facts) + 1
      /\ \A i \in 1..Len(facts) : facts'[i] = facts[i]
      /\ facts'[Len(facts) + 1] = f
  BY <1>a, <1>b, <1>c
<1>4. NextTold(facts, Len(facts), facts', f)
  BY <1>3, TellNext
<1>5. ToldBooks(facts', Len(facts)) = ToldBooks(facts, Len(facts))
  <2>1. Len(facts) <= Len(facts) /\ \A i \in 1..Len(facts) : i \in 1..Len(facts)
    BY <1>3
  <2>. QED  BY <1>3, <2>1, TellSame
<1>. QED  BY <1>3, <1>4, <1>5, ReplaysIsTell

(* A record about something else leaves a part of the books as told.        *)
LEMMA OthersTold ==
  ASSUME ReplayInv, NEW f, Tells(<<f>>)
  PROVE  /\ (\A o, a : ~OnPosition(f, o, a)) /\ positions' = positions => PositionsTold'
         /\ (\A c : ~OnContract(f, c)) /\ statuses' = statuses => StatusesTold'
         /\ (\A a : ~OnPrice(f, a)) /\ prices' = prices => PricesTold'
<1>. DEFINE N == Len(facts)
<1>1. Len(facts') = N + 1 /\ NextTold(facts, N, facts', f)
  BY OneTelling
<1>2. ASSUME \A o, a : ~OnPosition(f, o, a), positions' = positions PROVE PositionsTold'
  <2>1. \A o, a : TellPosition(facts', N + 1, o, a) = TellPosition(facts, N, o, a)
    BY <1>1, <1>2 DEF NextTold
  <2>. QED  BY <1>1, <1>2, <2>1 DEF ReplayInv, Replays, PositionsTold
<1>3. ASSUME \A c : ~OnContract(f, c), statuses' = statuses PROVE StatusesTold'
  <2>0. f.type # "contract_created"
    <3>1. f.type = "contract_created" => OnContract(f, f.contract)
      BY DEF OnContract
    <3>. QED  BY <1>3, <3>1
  <2>1. TellContracts(facts', N + 1) = TellContracts(facts, N)
    BY <1>1, <2>0 DEF NextTold
  <2>2. \A c \in TellContracts(facts, N) : TellStatus(facts', N + 1, c) = TellStatus(facts, N, c)
    BY <1>1, <1>3 DEF NextTold
  <2>. QED  BY <1>1, <1>3, <2>1, <2>2 DEF ReplayInv, Replays, StatusesTold
<1>4. ASSUME \A a : ~OnPrice(f, a), prices' = prices PROVE PricesTold'
  <2>1. \A a : /\ TellPrices(facts', N + 1, a) = TellPrices(facts, N, a)
               /\ Cardinality(OnPriceIn(facts', N + 1, a)) = Cardinality(OnPriceIn(facts, N, a))
    BY <1>1, <1>4 DEF NextTold
  <2>. QED  BY <1>1, <1>4, <2>1 DEF ReplayInv, Replays, PricesTold
<1>. QED  BY <1>2, <1>3, <1>4

(* A position added to: the record says what it is now.                     *)
LEMMA AddPositionReplays ==
  ASSUME ReplayInv, NEW o \in Owners, NEW a \in Assets, NEW q, AddPosition(o, a, q)
  PROVE  ReplayInv'
<1>. DEFINE new == Float(Quantity(o, a) + q)
            f == [type |-> "ownership_position_added", owner |-> o, asset |-> a,
                  delta |-> q, new |-> new]
<1>1. /\ positions' = Entered(positions, <<o, a>>, new) /\ Tells(<<f>>)
      /\ UNCHANGED <<statuses, prices, rules, valuations>>
  BY DEF AddPosition
<1>2. /\ \A p, b : OnPosition(f, p, b) <=> p = o /\ b = a
      /\ \A p : PositionSaid(f, p) = {new}
      /\ \A c : ~OnContract(f, c)
      /\ \A b : ~OnPrice(f, b)
  BY DEF OnPosition, PositionSaid, OnContract, OnPrice
<1>. HIDE DEF new, f
<1>3. StatusesTold' /\ PricesTold'
  BY <1>1, <1>2, OthersTold
<1>4. PositionsTold'
  <2>1. Len(facts') = Len(facts) + 1 /\ NextTold(facts, Len(facts), facts', f)
    BY <1>1, OneTelling
  <2>2. \A p, b : TellPosition(facts', Len(facts) + 1, p, b) =
                    IF p = o /\ b = a THEN {new} ELSE TellPosition(facts, Len(facts), p, b)
    BY <1>2, <2>1 DEF NextTold
  <2>3. \A p, b : /\ <<p, b>> \in DOMAIN positions' <=> <<p, b>> \in DOMAIN positions \/ (p = o /\ b = a)
                  /\ p = o /\ b = a => positions'[<<p, b>>] = new
                  /\ <<p, b>> \in DOMAIN positions /\ ~(p = o /\ b = a) =>
                       positions'[<<p, b>>] = positions[<<p, b>>]
    BY <1>1 DEF Entered
  <2>4. ASSUME NEW p \in Owners, NEW b \in Assets
        PROVE  TellPosition(facts', Len(facts'), p, b) =
                 IF <<p, b>> \in DOMAIN positions' THEN {positions'[<<p, b>>]} ELSE {}
    <3>1. CASE p = o /\ b = a
      BY <2>1, <2>2, <2>3, <3>1
    <3>2. CASE ~(p = o /\ b = a)
      <4>1. TellPosition(facts', Len(facts'), p, b) = TellPosition(facts, Len(facts), p, b)
        BY <2>1, <2>2, <3>2
      <4>2. /\ <<p, b>> \in DOMAIN positions' <=> <<p, b>> \in DOMAIN positions
            /\ <<p, b>> \in DOMAIN positions => positions'[<<p, b>>] = positions[<<p, b>>]
        BY <2>3, <3>2
      <4>. QED  BY <4>1, <4>2 DEF ReplayInv, Replays, PositionsTold
    <3>. QED  BY <3>1, <3>2
  <2>. QED  BY <2>4 DEF PositionsTold
<1>5. WorldTypes'
  <2>1. /\ positions' = [k \in DOMAIN positions' |-> positions'[k]]
        /\ DOMAIN positions' \subseteq Owners \X Assets
    BY <1>1 DEF Entered, ReplayInv, WorldTypes
  <2>2. IsLog(facts')
    BY <1>1, OneTelling
  <2>. QED  BY <1>1, <2>1, <2>2 DEF ReplayInv, WorldTypes
<1>. QED  BY <1>3, <1>4, <1>5 DEF ReplayInv, Replays

(* A transfer: its record says what both positions are now, or that one went. *)
LEMMA TransferReplays ==
  ASSUME ReplayInv, NEW from \in Owners, NEW to \in Owners, NEW a \in Assets, NEW q,
         Transfer(a, from, to, q)
  PROVE  ReplayInv'
<1>. DEFINE left == Float(positions[<<from, a>>] - q)
            total == Float(Quantity(to, a) + q)
            rest == IF left = 0 THEN Without(positions, <<from, a>>)
                    ELSE [positions EXCEPT ![<<from, a>>] = left]
            f == [type |-> "ownership_transferred", asset |-> a, from |-> from, to |-> to,
                  quantity |-> q, left |-> left, total |-> total]
<1>1. /\ from # to /\ <<from, a>> \in DOMAIN positions
      /\ positions' = Entered(rest, <<to, a>>, total) /\ Tells(<<f>>)
      /\ UNCHANGED <<statuses, prices, rules, valuations>>
  BY DEF Transfer
<1>2. /\ \A p, b : OnPosition(f, p, b) <=> (p = from \/ p = to) /\ b = a
      /\ PositionSaid(f, to) = {total}
      /\ PositionSaid(f, from) = {left} \ {0}
      /\ \A c : ~OnContract(f, c)
      /\ \A b : ~OnPrice(f, b)
  BY <1>1 DEF OnPosition, PositionSaid, OnContract, OnPrice
<1>a. positions = [k \in DOMAIN positions |-> positions[k]] /\ DOMAIN positions \subseteq Owners \X Assets
  BY DEF ReplayInv, WorldTypes
<1>. HIDE DEF left, total, f
<1>3. StatusesTold' /\ PricesTold'
  BY <1>1, <1>2, OthersTold
<1>b. \A p, b : /\ <<p, b>> \in DOMAIN rest <=> <<p, b>> \in DOMAIN positions
                                              /\ ~(p = from /\ b = a /\ left = 0)
                /\ <<p, b>> \in DOMAIN rest =>
                     rest[<<p, b>>] = IF p = from /\ b = a THEN left ELSE positions[<<p, b>>]
  BY <1>1, <1>a DEF Without
<1>c. DOMAIN rest \subseteq DOMAIN positions
  BY <1>a DEF Without
<1>. HIDE DEF rest
<1>4. PositionsTold'
  <2>1. Len(facts') = Len(facts) + 1 /\ NextTold(facts, Len(facts), facts', f)
    BY <1>1, OneTelling
  <2>2. \A p, b : TellPosition(facts', Len(facts) + 1, p, b) =
                    IF (p = from \/ p = to) /\ b = a THEN PositionSaid(f, p)
                    ELSE TellPosition(facts, Len(facts), p, b)
    BY <1>2, <2>1 DEF NextTold
  <2>3. \A p, b : /\ <<p, b>> \in DOMAIN positions' <=> <<p, b>> \in DOMAIN rest \/ (p = to /\ b = a)
                  /\ p = to /\ b = a => positions'[<<p, b>>] = total
                  /\ <<p, b>> \in DOMAIN rest /\ ~(p = to /\ b = a) =>
                       positions'[<<p, b>>] = rest[<<p, b>>]
    BY <1>1 DEF Entered
  <2>4. ASSUME NEW p \in Owners, NEW b \in Assets
        PROVE  TellPosition(facts', Len(facts'), p, b) =
                 IF <<p, b>> \in DOMAIN positions' THEN {positions'[<<p, b>>]} ELSE {}
    <3>1. CASE p = to /\ b = a
      BY <1>1, <1>2, <2>1, <2>2, <2>3, <3>1
    <3>2. CASE p = from /\ b = a
      <4>1. TellPosition(facts', Len(facts'), p, b) = {left} \ {0}
        BY <1>2, <2>1, <2>2, <3>2
      <4>2. CASE left = 0
        BY <1>1, <1>b, <2>3, <3>2, <4>1, <4>2
      <4>3. CASE left # 0
        <5>1. <<p, b>> \in DOMAIN positions' /\ positions'[<<p, b>>] = left
          BY <1>1, <1>b, <2>3, <3>2, <4>3
        <5>. QED  BY <4>1, <4>3, <5>1
      <4>. QED  BY <4>2, <4>3
    <3>3. CASE ~(p = to /\ b = a) /\ ~(p = from /\ b = a)
      <4>1. TellPosition(facts', Len(facts'), p, b) = TellPosition(facts, Len(facts), p, b)
        BY <2>1, <2>2, <3>3
      <4>2. /\ <<p, b>> \in DOMAIN positions' <=> <<p, b>> \in DOMAIN positions
            /\ <<p, b>> \in DOMAIN positions => positions'[<<p, b>>] = positions[<<p, b>>]
        BY <1>b, <2>3, <3>3
      <4>. QED  BY <4>1, <4>2 DEF ReplayInv, Replays, PositionsTold
    <3>. QED  BY <3>1, <3>2, <3>3
  <2>. QED  BY <2>4 DEF PositionsTold
<1>5. WorldTypes'
  <2>1. /\ positions' = [k \in DOMAIN positions' |-> positions'[k]]
        /\ DOMAIN positions' \subseteq Owners \X Assets
    BY <1>1, <1>a, <1>c DEF Entered
  <2>2. IsLog(facts')
    BY <1>1, OneTelling
  <2>. QED  BY <1>1, <2>1, <2>2 DEF ReplayInv, WorldTypes
<1>. QED  BY <1>3, <1>4, <1>5 DEF ReplayInv, Replays

(* A contract, or its status: the record says the status there is now.      *)
LEMMA ContractReplays ==
  ASSUME ReplayInv, NEW c, AddContract(c) \/ \E status \in NewStatuses : UpdateStatus(c, status)
  PROVE  ReplayInv'
<1>1. ASSUME NEW f, NEW s, f.type \in {"contract_created", "contract_status_updated"},
             f.contract = c, f.status = s,
             f.type = "contract_created" \/ c \in DOMAIN statuses,
             statuses' = Entered(statuses, c, s), Tells(<<f>>),
             UNCHANGED <<positions, prices, rules, valuations>>
      PROVE  ReplayInv'
  <2>1. /\ \A o, a : ~OnPosition(f, o, a)
        /\ \A a : ~OnPrice(f, a)
        /\ \A d : OnContract(f, d) <=> d = c
    BY <1>1 DEF OnPosition, OnPrice, OnContract
  <2>2. PositionsTold' /\ PricesTold'
    BY <1>1, <2>1, OthersTold
  <2>3. /\ IsLog(facts') /\ Len(facts') = Len(facts) + 1 /\ NextTold(facts, Len(facts), facts', f)
    BY <1>1, OneTelling
  <2>4. StatusesTold'
    <3>1. TellContracts(facts, Len(facts)) = DOMAIN statuses
      BY DEF ReplayInv, Replays, StatusesTold
    <3>2. TellContracts(facts', Len(facts')) = DOMAIN statuses \cup {c}
      BY <1>1, <2>3, <3>1 DEF NextTold
    <3>3. DOMAIN statuses' = DOMAIN statuses \cup {c}
      BY <1>1 DEF Entered
    <3>4. ASSUME NEW d \in DOMAIN statuses' PROVE TellStatus(facts', Len(facts'), d) = statuses'[d]
      <4>1. CASE d = c
        <5>1. TellStatus(facts', Len(facts'), d) = s
          BY <1>1, <2>1, <2>3, <4>1 DEF NextTold
        <5>2. statuses'[d] = s
          BY <1>1, <4>1 DEF Entered
        <5>. QED  BY <5>1, <5>2
      <4>2. CASE d # c
        <5>1. TellStatus(facts', Len(facts'), d) = TellStatus(facts, Len(facts), d)
          BY <2>1, <2>3, <3>1, <3>3, <4>2 DEF NextTold
        <5>2. d \in DOMAIN statuses /\ statuses'[d] = statuses[d]
          BY <1>1, <3>3, <4>2 DEF Entered
        <5>. QED  BY <5>1, <5>2 DEF ReplayInv, Replays, StatusesTold
      <4>. QED  BY <4>1, <4>2
    <3>. QED  BY <3>2, <3>3, <3>4 DEF StatusesTold
  <2>5. WorldTypes'
    <3>1. statuses' = [d \in DOMAIN statuses' |-> statuses'[d]]
      BY <1>1 DEF Entered
    <3>. QED  BY <1>1, <2>3, <3>1 DEF ReplayInv, WorldTypes
  <2>. QED  BY <2>2, <2>4, <2>5 DEF ReplayInv, Replays
<1>2. CASE AddContract(c)
  <2>. DEFINE f == [type |-> "contract_created", contract |-> c, status |-> Contracts[c].status]
  <2>1. /\ statuses' = Entered(statuses, c, Contracts[c].status) /\ Tells(<<f>>)
        /\ UNCHANGED <<positions, prices, rules, valuations>>
    BY <1>2 DEF AddContract
  <2>2. f.type = "contract_created" /\ f.contract = c /\ f.status = Contracts[c].status
    OBVIOUS
  <2>. HIDE DEF f
  <2>. QED  BY <1>1, <2>1, <2>2
<1>3. ASSUME NEW status \in NewStatuses, UpdateStatus(c, status) PROVE ReplayInv'
  <2>. DEFINE f == [type |-> "contract_status_updated", contract |-> c,
                    previous |-> statuses[c], status |-> status]
  <2>1. /\ c \in DOMAIN statuses /\ statuses' = [statuses EXCEPT ![c] = status] /\ Tells(<<f>>)
        /\ UNCHANGED <<positions, prices, rules, valuations>>
    BY <1>3 DEF UpdateStatus
  <2>2. f.type = "contract_status_updated" /\ f.contract = c /\ f.status = status
    OBVIOUS
  <2>. HIDE DEF f
  <2>3. statuses' = Entered(statuses, c, status)
    BY <2>1 DEF Entered
  <2>. QED  BY <1>1, <2>1, <2>2, <2>3
<1>. QED  BY <1>2, <1>3

(* A price set: the record is one more entry of the asset's history.        *)
LEMMA SetPriceReplays ==
  ASSUME ReplayInv, NEW a \in Assets, NEW price, SetPrice(a, price)
  PROVE  ReplayInv'
<1>. DEFINE f == [type |-> "price_updated", asset |-> a, price |-> price.value,
                  historyLength |-> Len(prices[a]) + 1]
<1>1. /\ prices' = [prices EXCEPT ![a] = Append(prices[a], price)] /\ Tells(<<f>>)
      /\ UNCHANGED <<positions, statuses, rules, valuations>>
  BY DEF SetPrice
<1>2. /\ \A o, b : ~OnPosition(f, o, b)
      /\ \A c : ~OnContract(f, c)
      /\ \A b : OnPrice(f, b) <=> b = a
      /\ f.price = price.value
  BY DEF OnPosition, OnPrice, OnContract
<1>. HIDE DEF f
<1>3. PositionsTold' /\ StatusesTold'
  BY <1>1, <1>2, OthersTold
<1>4. IsLog(facts') /\ Len(facts') = Len(facts) + 1 /\ NextTold(facts, Len(facts), facts', f)
  BY <1>1, OneTelling
<1>5. /\ IsLog(prices[a]) /\ prices = [b \in Assets |-> prices[b]]
      /\ TellPrices(facts, Len(facts), a) = ValuesOf(prices[a])
      /\ Cardinality(OnPriceIn(facts, Len(facts), a)) = Len(prices[a])
  BY DEF ReplayInv, WorldTypes, Replays, PricesTold
<1>6. /\ prices'[a] = Append(prices[a], price)
      /\ \A b \in Assets : b # a => prices'[b] = prices[b]
      /\ prices' = [b \in Assets |-> prices'[b]]
  BY <1>1, <1>5
<1>7. /\ IsLog(prices'[a]) /\ Len(prices'[a]) = Len(prices[a]) + 1
      /\ prices'[a] = [i \in 1..(Len(prices[a]) + 1) |->
                         IF i = Len(prices[a]) + 1 THEN price ELSE prices[a][i]]
  BY <1>5, <1>6, LogOfAppend
<1>8. PricesTold'
  <2>1. ASSUME NEW b \in Assets
        PROVE  /\ TellPrices(facts', Len(facts'), b) = ValuesOf(prices'[b])
               /\ Cardinality(OnPriceIn(facts', Len(facts'), b)) = Len(prices'[b])
    <3>1. CASE b = a
      <4>. DEFINE k == Cardinality(OnPriceIn(facts, Len(facts), a))
      <4>1. /\ Cardinality(OnPriceIn(facts', Len(facts'), a)) = k + 1
            /\ TellPrices(facts', Len(facts'), a) =
                 [h \in 1..(k + 1) |->
                    IF h = k + 1 THEN price.value ELSE TellPrices(facts, Len(facts), a)[h]]
        BY <1>2, <1>4 DEF NextTold
      <4>2. k = Len(prices[a]) /\ k \in Nat /\ DOMAIN prices[a] = 1..k
        BY <1>5 DEF IsLog
      <4>3. DOMAIN prices'[a] = 1..(k + 1)
        BY <1>7, <4>2
      <4>. HIDE DEF k
      <4>4. \A h \in 1..(k + 1) :
              prices'[a][h].value =
                IF h = k + 1 THEN price.value ELSE TellPrices(facts, Len(facts), a)[h]
        <5>1. ASSUME NEW h \in 1..(k + 1), h # k + 1
              PROVE  prices'[a][h].value = TellPrices(facts, Len(facts), a)[h]
          <6>1. h \in DOMAIN prices[a]
            BY <4>2, <5>1
          <6>2. TellPrices(facts, Len(facts), a)[h] = prices[a][h].value
            BY <1>5, <6>1 DEF ValuesOf
          <6>. QED  BY <1>7, <4>2, <5>1, <6>2
        <5>2. prices'[a][k + 1] = price
          BY <1>7, <4>2
        <5>. QED  BY <5>1, <5>2
      <4>5. ValuesOf(prices'[a]) = [h \in 1..(k + 1) |-> prices'[a][h].value]
        BY <4>3 DEF ValuesOf
      <4>6. ValuesOf(prices'[a]) = TellPrices(facts', Len(facts'), a)
        BY <4>1, <4>4, <4>5
      <4>. QED  BY <1>7, <3>1, <4>1, <4>2, <4>6
    <3>2. CASE b # a
      <4>1. /\ Cardinality(OnPriceIn(facts', Len(facts'), b)) = Cardinality(OnPriceIn(facts, Len(facts), b))
            /\ TellPrices(facts', Len(facts'), b) = TellPrices(facts, Len(facts), b)
        BY <1>2, <1>4, <3>2 DEF NextTold
      <4>. QED  BY <1>6, <3>2, <4>1 DEF ReplayInv, Replays, PricesTold
    <3>. QED  BY <3>1, <3>2
  <2>. QED  BY <2>1 DEF PricesTold
<1>9. WorldTypes'
  BY <1>1, <1>4, <1>6, <1>7 DEF ReplayInv, WorldTypes
<1>. QED  BY <1>3, <1>8, <1>9 DEF ReplayInv, Replays

(***************************************************************************)
(* Steps that read the books.                                              *)
(***************************************************************************)

(* One record about none of the books.                                      *)
LEMMA QuietOne ==
  ASSUME ReplayInv, NEW f, f.type \notin BookTypes, Tells(<<f>>),
         UNCHANGED <<positions, statuses, prices>>, IsLog(rules'), IsLog(valuations')
  PROVE  ReplayInv'
<1>. DEFINE told == <<f>>
<1>1. /\ IsLog(told) /\ Tells(told)
      /\ \A i \in 1..Len(told) : told[i].type \notin BookTypes
  BY LogOfOne
<1>. HIDE DEF told
<1>2. IsLog(facts') /\ Replays'
  BY <1>1, QuietTelling
<1>. QED  BY <1>2 DEF ReplayInv, WorldTypes

(* Positions of a list of constraints are finitely many.                    *)
LEMMA RulesFinite ==
  ASSUME ReplayInv, NEW S, S \subseteq DOMAIN rules
  PROVE  IsFiniteSet(S)
<1>1. DOMAIN rules = 1..Len(rules) /\ Len(rules) \in Nat
  BY DEF ReplayInv, WorldTypes, IsLog
<1>2. IsFiniteSet(1..Len(rules))
  BY <1>1, FS_Interval
<1>. QED  BY <1>1, <1>2, FS_Subset

(* A list of evaluations tells of nothing else.                             *)
LEMMA EvaluationsLog ==
  ASSUME NEW S, IsFiniteSet(S), NEW key
  PROVE  /\ IsLog(Evaluations(S, key))
         /\ \A i \in 1..Len(Evaluations(S, key)) :
              Evaluations(S, key)[i] = Evaluation(Books3, rules[InKeyOrder(S, key)[i]])
<1>. DEFINE told == Evaluations(S, key)
            k == Cardinality(S)
<1>1. k \in Nat /\ DOMAIN InKeyOrder(S, key) = 1..k
  BY InKeyOrderLog
<1>2. told = [n \in 1..k |-> Evaluation(Books3, rules[InKeyOrder(S, key)[n]])]
  BY <1>1 DEF Evaluations
<1>3. told = [n \in 1..k |-> told[n]] /\ \A n \in 1..k : told[n] = Evaluation(Books3, rules[InKeyOrder(S, key)[n]])
  BY <1>2
<1>. HIDE DEF told
<1>4. IsLog(told) /\ Len(told) = k
  BY <1>1, <1>3, LogOf
<1>. QED  BY <1>3, <1>4 DEF told

(* The views of a snapshot, as a list.                                      *)
SnapshotTold ==
  LET found == InKeyOrder(Discovered, [n \in Discovered |-> n]) IN
    [n \in DOMAIN found |->
       LET view == View(Books3, OwnerOrder[found[n]]) IN
         [type |-> "balance_sheet_view_created", agent |-> OwnerOrder[found[n]],
          assets |-> view.assets, liabilities |-> view.liabilities]]

LEMMA SnapshotLog ==
  /\ IsLog(SnapshotTold)
  /\ \A i \in 1..Len(SnapshotTold) : \E o :
       SnapshotTold[i] = [type |-> "balance_sheet_view_created", agent |-> o,
                          assets |-> View(Books3, o).assets,
                          liabilities |-> View(Books3, o).liabilities]
<1>. DEFINE found == InKeyOrder(Discovered, [n \in Discovered |-> n])
            k == Cardinality(Discovered)
            told == SnapshotTold
            said(o) == [type |-> "balance_sheet_view_created", agent |-> o,
                        assets |-> View(Books3, o).assets,
                        liabilities |-> View(Books3, o).liabilities]
<1>1. IsFiniteSet(Discovered)
  <2>1. DOMAIN OwnerOrder = 1..Len(OwnerOrder) /\ Len(OwnerOrder) \in Nat
    BY WorldBooksAssumption
  <2>2. IsFiniteSet(1..Len(OwnerOrder))
    BY <2>1, FS_Interval
  <2>. QED  BY <2>1, <2>2, FS_Subset DEF Discovered
<1>2. k \in Nat /\ DOMAIN found = 1..k
  BY <1>1, InKeyOrderLog
<1>3. told = [n \in 1..k |-> said(OwnerOrder[found[n]])]
  BY <1>2 DEF SnapshotTold
<1>. HIDE DEF told, said, found
<1>4. told = [n \in 1..k |-> told[n]] /\ \A n \in 1..k : told[n] = said(OwnerOrder[found[n]])
  BY <1>3
<1>5. IsLog(told) /\ Len(told) = k
  BY <1>2, <1>4, LogOf
<1>6. \A i \in 1..Len(told) : \E o : told[i] = said(o)
  BY <1>4, <1>5
<1>. QED  BY <1>5, <1>6 DEF told, said

(* What a step tells that leaves the books alone: evaluations or views of    *)
(* the books that are, a claim, a constraint or a comparison.               *)
EvaluationTold(f) == f = Evaluation(Books3, f.constraint) /\ f.type = "constraint_evaluated"
ViewTold(f) == /\ f.type = "balance_sheet_view_created"
               /\ f.assets = View(Books3, f.agent).assets
               /\ f.liabilities = View(Books3, f.agent).liabilities

LEMMA DerivingSteps ==
  ASSUME ReplayInv, (\E o \in Owners : EvaluateOwner(o)) \/ EvaluateAll \/ SnapshotViews
  PROVE  /\ UNCHANGED <<positions, statuses, prices, rules, valuations>>
         /\ \E told : /\ IsLog(told) /\ Tells(told)
                      /\ \A i \in 1..Len(told) : EvaluationTold(told[i]) \/ ViewTold(told[i])
<1>1. ASSUME NEW S, IsFiniteSet(S), NEW key, Tells(Evaluations(S, key))
      PROVE  \E told : /\ IsLog(told) /\ Tells(told)
                       /\ \A i \in 1..Len(told) : EvaluationTold(told[i]) \/ ViewTold(told[i])
  <2>. DEFINE told == Evaluations(S, key)
  <2>1. IsLog(told) /\ \A i \in 1..Len(told) : told[i] = Evaluation(Books3, rules[InKeyOrder(S, key)[i]])
    BY <1>1, EvaluationsLog
  <2>2. \A k : EvaluationTold(Evaluation(Books3, k))
    BY DEF EvaluationTold, Evaluation
  <2>3. Tells(told)
    BY <1>1
  <2>. HIDE DEF told
  <2>4. \A i \in 1..Len(told) : EvaluationTold(told[i])
    BY <2>1, <2>2
  <2>. QED  BY <2>1, <2>3, <2>4
<1>2. ASSUME NEW o \in Owners, EvaluateOwner(o)
      PROVE  /\ UNCHANGED <<positions, statuses, prices, rules, valuations>>
             /\ \E told : /\ IsLog(told) /\ Tells(told)
                          /\ \A i \in 1..Len(told) : EvaluationTold(told[i]) \/ ViewTold(told[i])
  <2>. DEFINE S == RulesOf(o)
              key == [n \in S |-> n]
  <2>1. Tells(Evaluations(S, key)) /\ UNCHANGED <<positions, statuses, prices, rules, valuations>>
    BY <1>2 DEF EvaluateOwner
  <2>2. S \subseteq DOMAIN rules
    BY DEF RulesOf
  <2>3. IsFiniteSet(S)
    BY <2>2, RulesFinite
  <2>. HIDE DEF S, key
  <2>. QED  BY <1>1, <2>1, <2>3
<1>3. CASE EvaluateAll
  <2>. DEFINE S == UNION {RulesOf(o) : o \in Owners}
              place(n) == CHOOSE i \in DOMAIN OwnerOrder : OwnerOrder[i] = Constraints[rules[n]].owner
              key == [n \in S |-> place(n) * Len(rules) + n]
  <2>1. Tells(Evaluations(S, key)) /\ UNCHANGED <<positions, statuses, prices, rules, valuations>>
    BY <1>3 DEF EvaluateAll
  <2>2. S \subseteq DOMAIN rules
    BY DEF RulesOf
  <2>3. IsFiniteSet(S)
    BY <2>2, RulesFinite
  <2>. HIDE DEF S, key
  <2>. QED  BY <1>1, <2>1, <2>3
<1>4. CASE SnapshotViews
  <2>1. Tells(SnapshotTold) /\ UNCHANGED <<positions, statuses, prices, rules, valuations>>
    BY <1>4 DEF SnapshotViews, SnapshotTold
  <2>2. \A f, o : f = [type |-> "balance_sheet_view_created", agent |-> o,
                       assets |-> View(Books3, o).assets,
                       liabilities |-> View(Books3, o).liabilities] => ViewTold(f)
    BY DEF ViewTold
  <2>3. \A i \in 1..Len(SnapshotTold) : ViewTold(SnapshotTold[i])
    BY <2>2, SnapshotLog
  <2>. QED  BY <2>1, <2>3, SnapshotLog
<1>. QED  BY <1>2, <1>3, <1>4

(* The other steps that leave the books alone tell one record.              *)
Cited(v) == SelectInSeq(facts, LAMBDA f : f.type = "valuation_added" /\ f.claim = v)

LEMMA ReadingSteps ==
  ASSUME ReplayInv, NEW v,
         Compare(v) \/ AddClaim(v) \/ AddConstraint(v)
  PROVE  /\ UNCHANGED <<positions, statuses, prices>>
         /\ IsLog(rules') /\ IsLog(valuations')
         /\ \E f : Tells(<<f>>) /\ f.type \in {"valuation_compared", "valuation_added", "constraint_added"}
<1>0. IsLog(rules) /\ IsLog(valuations)
  BY DEF ReplayInv, WorldTypes
<1>1. CASE Compare(v)
  <2>. DEFINE f == [type |-> "valuation_compared", claim |-> v,
                    gap |-> Gap(Books3, v, PriceCurrency(Books3, Claims[v].subject)),
                    parent |-> Cited(v)]
  <2>1. Tells(<<f>>) /\ UNCHANGED <<positions, statuses, prices, rules, valuations>>
    BY <1>1 DEF Compare, Cited
  <2>2. f.type = "valuation_compared"
    OBVIOUS
  <2>. QED  BY <1>0, <2>1, <2>2
<1>2. CASE AddClaim(v)
  <2>. DEFINE f == [type |-> "valuation_added", claim |-> v]
  <2>1. /\ Tells(<<f>>) /\ UNCHANGED <<positions, statuses, prices, rules>>
        /\ valuations' = Append(valuations, v)
    BY <1>2 DEF AddClaim
  <2>2. f.type = "valuation_added" /\ IsLog(valuations')
    BY <1>0, <2>1, LogOfAppend
  <2>. QED  BY <1>0, <2>1, <2>2
<1>3. CASE AddConstraint(v)
  <2>. DEFINE f == [type |-> "constraint_added", constraint |-> v]
  <2>1. /\ Tells(<<f>>) /\ UNCHANGED <<positions, statuses, prices, valuations>>
        /\ rules' = Append(rules, v)
    BY <1>3 DEF AddConstraint
  <2>2. f.type = "constraint_added" /\ IsLog(rules')
    BY <1>0, <2>1, LogOfAppend
  <2>. QED  BY <1>0, <2>1, <2>2
<1>. QED  BY <1>1, <1>2, <1>3

(***************************************************************************)
(* The ledger tells the books.                                              *)
(***************************************************************************)
LEMMA ReplayInit == WorldInit => ReplayInv
<1>. SUFFICES ASSUME WorldInit PROVE ReplayInv
  OBVIOUS
<1>0. facts = <<>> /\ Len(facts) = 0 /\ 1..0 = {}
  BY DEF WorldInit
<1>1. IsLog(<<>>)
  BY DEF IsLog
<1>2. WorldTypes
  BY <1>1 DEF WorldTypes, WorldInit
<1>3. PositionsTold
  <2>1. \A o, a : OnPositionIn(facts, 0, o, a) = {}
    BY <1>0 DEF OnPositionIn
  <2>. QED  BY <1>0, <2>1 DEF PositionsTold, TellPosition, WorldInit
<1>4. StatusesTold
  BY <1>0 DEF StatusesTold, TellContracts, WorldInit
<1>5. PricesTold
  <2>1. \A a : OnPriceIn(facts, 0, a) = {}
    BY <1>0 DEF OnPriceIn
  <2>2. Cardinality({}) = 0
    BY FS_EmptySet
  <2>3. ASSUME NEW a PROVE TellPrices(facts, 0, a) = <<>>
    <3>1. 1..Cardinality(OnPriceIn(facts, 0, a)) = {}
      BY <1>0, <2>1, <2>2
    <3>2. DOMAIN TellPrices(facts, 0, a) = {}
      BY <3>1 DEF TellPrices
    <3>3. TellPrices(facts, 0, a) = [h \in 1..0 |-> TellPrices(facts, 0, a)[h]]
      BY <1>0, <3>1 DEF TellPrices
    <3>. HIDE DEF TellPrices
    <3>4. IsLog(TellPrices(facts, 0, a)) /\ Len(TellPrices(facts, 0, a)) = 0
      BY <3>3, LogOf
    <3>. QED  BY <3>2, <3>3, <3>4
  <2>4. ValuesOf(<<>>) = <<>>
    <3>1. DOMAIN ValuesOf(<<>>) = {} /\ 1..0 = {}
      BY DEF ValuesOf
    <3>2. ValuesOf(<<>>) = [h \in 1..0 |-> ValuesOf(<<>>)[h]]
      BY <3>1 DEF ValuesOf
    <3>. HIDE DEF ValuesOf
    <3>3. IsLog(ValuesOf(<<>>)) /\ Len(ValuesOf(<<>>)) = 0
      BY <3>2, LogOf
    <3>. QED  BY <3>1, <3>3
  <2>. QED  BY <1>0, <2>1, <2>2, <2>3, <2>4 DEF PricesTold, WorldInit
<1>. QED  BY <1>2, <1>3, <1>4, <1>5 DEF ReplayInv, Replays

LEMMA ReplayStep == ReplayInv /\ [WorldNext]_worldVars => ReplayInv'
<1>. SUFFICES ASSUME ReplayInv, [WorldNext]_worldVars PROVE ReplayInv'
  OBVIOUS
<1>1. ASSUME NEW a \in Assets, NEW o \in Owners, NEW q \in Quantities, AddPosition(o, a, q)
      PROVE  ReplayInv'
  BY <1>1, AddPositionReplays
<1>2. ASSUME NEW a \in Assets, NEW from \in Owners, NEW to \in Owners, NEW q \in Quantities,
             Transfer(a, from, to, q)
      PROVE  ReplayInv'
  BY <1>2, TransferReplays
<1>3. ASSUME NEW a \in Assets, NEW price \in PriceRecords, SetPrice(a, price)
      PROVE  ReplayInv'
  BY <1>3, SetPriceReplays
<1>4. ASSUME NEW c, AddContract(c) \/ \E status \in NewStatuses : UpdateStatus(c, status)
      PROVE  ReplayInv'
  BY <1>4, ContractReplays
<1>5. ASSUME NEW v, Compare(v) \/ AddClaim(v) \/ AddConstraint(v)
      PROVE  ReplayInv'
  <2>1. {"valuation_compared", "valuation_added", "constraint_added"} \cap BookTypes = {}
    BY DEF BookTypes
  <2>2. /\ UNCHANGED <<positions, statuses, prices>> /\ IsLog(rules') /\ IsLog(valuations')
        /\ \E f : Tells(<<f>>) /\ f.type \in {"valuation_compared", "valuation_added", "constraint_added"}
    BY <1>5, ReadingSteps
  <2>3. PICK f : Tells(<<f>>) /\ f.type \in {"valuation_compared", "valuation_added", "constraint_added"}
    BY <2>2
  <2>4. f.type \notin BookTypes
    BY <2>1, <2>3
  <2>. QED  BY <2>2, <2>3, <2>4, QuietOne
<1>6. ASSUME (\E o \in Owners : EvaluateOwner(o)) \/ EvaluateAll \/ SnapshotViews
      PROVE  ReplayInv'
  <2>1. /\ UNCHANGED <<positions, statuses, prices, rules, valuations>>
        /\ \E told : /\ IsLog(told) /\ Tells(told)
                     /\ \A i \in 1..Len(told) : EvaluationTold(told[i]) \/ ViewTold(told[i])
    BY <1>6, DerivingSteps
  <2>2. PICK told : /\ IsLog(told) /\ Tells(told)
                    /\ \A i \in 1..Len(told) : EvaluationTold(told[i]) \/ ViewTold(told[i])
    BY <2>1
  <2>3. \A i \in 1..Len(told) : told[i].type \notin BookTypes
    BY <2>2 DEF EvaluationTold, ViewTold, BookTypes
  <2>4. IsLog(facts') /\ Replays'
    BY <2>1, <2>2, <2>3, QuietTelling
  <2>. QED  BY <2>1, <2>4 DEF ReplayInv, WorldTypes
<1>7. CASE UNCHANGED worldVars
  BY <1>7 DEF worldVars, ReplayInv, WorldTypes, Replays, PositionsTold, StatusesTold, PricesTold
<1>. QED  BY <1>1, <1>2, <1>3, <1>4, <1>5, <1>6, <1>7 DEF WorldNext, CompareSubjectLatest

(* LedgerReplaysBooks: positions, statuses and the values of the price        *)
(* histories after any run of calls are what the ledger's records say, each   *)
(* key by the last record that names it and each history by all of them.     *)
THEOREM LedgerReplaysBooksTheorem == WorldSpec => []LedgerReplaysBooks
<1>1. ReplayInv => LedgerReplaysBooks
  <2>. SUFFICES ASSUME ReplayInv PROVE LedgerReplaysBooks
    OBVIOUS
  <2>1. Len(facts) \in Nat
    BY DEF ReplayInv, WorldTypes, IsLog
  <2>. QED  BY <2>1, ReplaysIsTell, ToldIsTell DEF LedgerReplaysBooks
<1>. QED  BY <1>1, ReplayInit, ReplayStep, PTL DEF WorldSpec

-----------------------------------------------------------------------------
(***************************************************************************)
(* Rounding.                                                               *)
(***************************************************************************)
UlpLevel(n, ulp) == ulp = [m \in 0..n |-> IF m < Exact THEN 1 ELSE 2 * ulp[m \div 2]]

(* From Exact on, half a number is a smaller one. *)
LEMMA HalfIsSmaller ==
  ASSUME NEW m \in Nat, ~(m < Exact)
  PROVE  m \div 2 \in Nat /\ m \div 2 \in 1..(m - 1) /\ 2 * (m \div 2) <= m
<1>1. Exact \in Nat /\ Exact >= 2
  BY WorldBooksAssumption
<1>2. m >= 2
  BY <1>1
<1>. QED  BY <1>2

(* The units of all numbers up to n can be computed. *)
LEMMA UlpsExist ==
  ASSUME NEW n \in Nat
  PROVE  \E ulp : UlpLevel(n, ulp)
<1>. DEFINE Unit(ulp, m) == ulp[m] = IF m < Exact THEN 1 ELSE 2 * ulp[m \div 2]
            T == {m \in 0..n : \E ulp \in [0..m -> Nat] : \A k \in 0..m : Unit(ulp, k)}
<1>0. Exact \in Nat /\ Exact >= 2
  BY WorldBooksAssumption
<1>1. 0 \in T
  <2>. DEFINE ulp == [k \in 0..0 |-> 1]
  <2>1. ulp \in [0..0 -> Nat] /\ \A k \in 0..0 : k < Exact /\ ulp[k] = 1
    BY <1>0
  <2>2. \A k \in 0..0 : Unit(ulp, k)
    BY <2>1
  <2>3. 0 \in 0..n
    OBVIOUS
  <2>. HIDE DEF ulp
  <2>. QED  BY <2>1, <2>2, <2>3
<1>2. ASSUME NEW m \in 1..n, m - 1 \in T PROVE m \in T
  <2>1. PICK ulp \in [0..(m - 1) -> Nat] : \A k \in 0..(m - 1) : Unit(ulp, k)
    BY <1>2
  <2>. DEFINE next == IF m < Exact THEN 1 ELSE 2 * ulp[m \div 2]
              more == [k \in 0..m |-> IF k = m THEN next ELSE ulp[k]]
  <2>2. next \in Nat
    <3>1. CASE m < Exact
      BY <3>1
    <3>2. CASE ~(m < Exact)
      <4>1. m \div 2 \in 0..(m - 1)
        BY <3>2, HalfIsSmaller
      <4>2. ulp[m \div 2] \in Nat
        BY <2>1, <4>1
      <4>. QED  BY <3>2, <4>2
    <3>. QED  BY <3>1, <3>2
  <2>3. \A k \in 0..m : k = m \/ k \in 0..(m - 1)
    OBVIOUS
  <2>4. more \in [0..m -> Nat]
    <3>. HIDE DEF next
    <3>. QED  BY <2>1, <2>2, <2>3
  <2>5. m \in 0..m /\ m \notin 0..(m - 1) /\ \A k \in 0..(m - 1) : k \in 0..m /\ k # m
    OBVIOUS
  <2>6. more[m] = next /\ \A k \in 0..(m - 1) : more[k] = ulp[k]
    <3>. HIDE DEF next
    <3>. QED  BY <2>5
  <2>7. \A k \in 0..m : ~(k < Exact) => k \div 2 \in 0..(m - 1)
    <3>1. ASSUME NEW k \in 0..m, ~(k < Exact) PROVE k \div 2 \in 0..(m - 1)
      <4>1. k \div 2 \in 1..(k - 1)
        BY <3>1, HalfIsSmaller
      <4>. QED  BY <4>1
    <3>. QED  BY <3>1
  <2>8. \A k \in 0..m : Unit(more, k)
    <3>. HIDE DEF more
    <3>1. \A k \in 0..(m - 1) : Unit(more, k)
      BY <2>1, <2>5, <2>6, <2>7
    <3>2. Unit(more, m)
      BY <2>5, <2>6, <2>7
    <3>. QED  BY <2>3, <3>1, <3>2
  <2>9. m \in 0..n
    OBVIOUS
  <2>. HIDE DEF more, Unit
  <2>. QED  BY <2>4, <2>8, <2>9
<1>3. n \in T
  <2>. HIDE DEF T
  <2>1. n \in 0..n
    OBVIOUS
  <2>. QED  BY <1>1, <1>2, <2>1, Climb
<1>4. PICK ulp \in [0..n -> Nat] : \A k \in 0..n : Unit(ulp, k)
  BY <1>3
<1>5. ulp = [m \in 0..n |-> IF m < Exact THEN 1 ELSE 2 * ulp[m \div 2]]
  BY <1>4
<1>. QED  BY <1>5 DEF UlpLevel

(* The unit of a number is positive, and no larger than the number. *)
LEMMA UlpIs ==
  ASSUME NEW n \in Nat
  PROVE  Ulp(n) \in Nat /\ Ulp(n) >= 1 /\ (n >= 1 => Ulp(n) <= n)
<1>. DEFINE ulp == CHOOSE u : UlpLevel(n, u)
            Fits(m) == ulp[m] \in Nat /\ ulp[m] >= 1 /\ (m >= 1 => ulp[m] <= m)
            T == {m \in 0..n : \A k \in 0..m : Fits(k)}
<1>0. Exact \in Nat /\ Exact >= 2
  BY WorldBooksAssumption
<1>1. UlpLevel(n, ulp)
  BY UlpsExist
<1>2. Ulp(n) = ulp[n]
  BY DEF Ulp, UlpLevel
<1>. HIDE DEF ulp
<1>3. \A m \in 0..n : ulp[m] = IF m < Exact THEN 1 ELSE 2 * ulp[m \div 2]
  BY <1>1 DEF UlpLevel
<1>4. 0 \in T
  <2>1. ulp[0] = 1
    BY <1>0, <1>3
  <2>2. Fits(0)
    BY <2>1
  <2>3. 0 \in 0..n /\ \A k \in 0..0 : k = 0
    OBVIOUS
  <2>. HIDE DEF Fits
  <2>. QED  BY <2>2, <2>3
<1>5. ASSUME NEW m \in 1..n, m - 1 \in T PROVE m \in T
  <2>1. \A k \in 0..(m - 1) : Fits(k)
    BY <1>5
  <2>2. Fits(m)
    <3>1. CASE m < Exact
      <4>1. ulp[m] = 1
        BY <1>3, <3>1
      <4>. QED  BY <4>1
    <3>2. CASE ~(m < Exact)
      <4>1. m \div 2 \in 1..(m - 1) /\ 2 * (m \div 2) <= m
        BY <3>2, HalfIsSmaller
      <4>2. Fits(m \div 2)
        BY <2>1, <4>1
      <4>3. ulp[m] = 2 * ulp[m \div 2]
        BY <1>3, <3>2
      <4>. DEFINE h == m \div 2
                  u == ulp[h]
      <4>4. h \in Int /\ h >= 1 /\ 2 * h <= m /\ u \in Nat /\ u >= 1 /\ u <= h /\ ulp[m] = 2 * u
        BY <4>1, <4>2, <4>3
      <4>. HIDE DEF h, u
      <4>. QED  BY <4>4
    <3>. QED  BY <3>1, <3>2
  <2>3. \A k \in 0..m : k = m \/ k \in 0..(m - 1)
    OBVIOUS
  <2>4. m \in 0..n
    OBVIOUS
  <2>. HIDE DEF Fits
  <2>. QED  BY <2>1, <2>2, <2>3, <2>4
<1>6. n \in T
  <2>. HIDE DEF T
  <2>1. n \in 0..n
    OBVIOUS
  <2>. QED  BY <1>4, <1>5, <2>1, Climb
<1>7. Fits(n)
  <2>1. n \in 0..n
    OBVIOUS
  <2>. HIDE DEF Fits
  <2>. QED  BY <1>6, <2>1
<1>. QED  BY <1>2, <1>7

(* A float is within half a unit of the number, and zero for zero only. *)
LEMMA FloatIs ==
  ASSUME NEW n \in Nat
  PROVE  /\ Float(n) \in Nat
         /\ 2 * (Float(n) - n) <= Ulp(n) /\ 2 * (n - Float(n)) <= Ulp(n)
         /\ Float(n) = 0 <=> n = 0
<1>. DEFINE u == Ulp(n)
            r == n % u
            x == Float(n)
<1>1. u \in Nat /\ u >= 1 /\ (n >= 1 => u <= n)
  BY UlpIs
<1>. HIDE DEF u
<1>2. r \in Int /\ 0 <= r /\ r < u /\ r <= n
  BY <1>1
<1>3. \/ 2 * r <= u /\ x = n - r
      \/ 2 * r >= u /\ x = n - r + u
  <2>1. \/ (2 * r < u \/ 2 * r = u) /\ x = n - r
        \/ ~(2 * r < u) /\ x = n - r + u
    <3>. DEFINE even == (n \div u) % 2 = 0
    <3>1. x = IF 2 * r < u \/ (2 * r = u /\ even) THEN n - r ELSE n - r + u
      BY DEF Float, u
    <3>. HIDE DEF even, r, x
    <3>. QED  BY <3>1
  <2>. HIDE DEF r, x
  <2>. QED  BY <1>1, <1>2, <2>1
<1>4. n = 0 => r = 0 /\ u >= 1
  BY <1>1, <1>2
<1>. HIDE DEF r, x
<1>5. x \in Nat
  BY <1>1, <1>2, <1>3
<1>6. 2 * (x - n) <= u /\ 2 * (n - x) <= u
  BY <1>1, <1>2, <1>3
<1>7. n = 0 => x = 0
  BY <1>1, <1>3, <1>4
<1>8. n # 0 => x # 0
  BY <1>1, <1>2, <1>3
<1>. QED  BY <1>5, <1>6, <1>7, <1>8 DEF x, u

(***************************************************************************)
(* The total of an asset: owner by owner.                                   *)
(***************************************************************************)
Summed(held, a, sum) ==
  /\ sum[0] = 0
  /\ \A n \in 1..Len(OwnerOrder) : sum[n] = sum[n - 1] + Amount(held, OwnerOrder[n], a)

Whole == Int

(* The total is the last of its partial sums. *)
LEMMA TotalIs ==
  ASSUME NEW held, NEW a, \A o \in Owners : Amount(held, o, a) \in Int
  PROVE  \E sum : /\ Summed(held, a, sum)
                  /\ TotalOf(held, a) = sum[Len(OwnerOrder)]
<1>. DEFINE N == Len(OwnerOrder)
            g == [n \in 1..N |-> [x \in Whole |-> x + Amount(held, OwnerOrder[n], a)]]
            start == 0
<1>1. N \in Nat /\ \A n \in 1..N : OwnerOrder[n] \in Owners
  BY WorldBooksAssumption DEF Owners
<1>2. \A n \in 1..N : Amount(held, OwnerOrder[n], a) \in Int
  BY <1>1
<1>3. g \in [1..N -> [Whole -> Whole]] /\ start \in Whole
  BY <1>2 DEF Whole
<1>4. PICK h \in [0..N -> Whole] : h[0] = start /\ \A n \in 1..N : h[n] = g[n][h[n - 1]]
  <2>. HIDE DEF g, N, start
  <2>1. Walks(Whole, start, N, g)
    BY <1>1, <1>3, WalkExists
  <2>. QED  BY <2>1 DEF Walks
<1>5. \A n \in 1..N : n - 1 \in 0..N /\ n # 0 /\ n \in 0..N
  BY <1>1
<1>6. \A n \in 1..N : h[n] = h[n - 1] + Amount(held, OwnerOrder[n], a)
  BY <1>4, <1>5
<1>. DEFINE Level(sum) ==
              sum = [n \in 0..N |-> IF n = 0 THEN 0 ELSE sum[n - 1] + Amount(held, OwnerOrder[n], a)]
            f == CHOOSE sum : Level(sum)
<1>7. Level(h)
  <2>1. \A n \in 0..N : n = 0 \/ n \in 1..N
    BY <1>1
  <2>2. \A n \in 0..N : h[n] = IF n = 0 THEN 0 ELSE h[n - 1] + Amount(held, OwnerOrder[n], a)
    <3>. HIDE DEF N, g
    <3>. QED  BY <1>4, <1>6, <2>1
  <2>. HIDE DEF N, g
  <2>. QED  BY <1>4, <2>2
<1>8. Level(f)
  <2>. HIDE DEF Level
  <2>. QED  BY <1>7
<1>9. TotalOf(held, a) = f[N]
  BY DEF TotalOf
<1>10. Summed(held, a, f)
  <2>. HIDE DEF f
  <2>1. \A n \in 0..N : f[n] = IF n = 0 THEN 0 ELSE f[n - 1] + Amount(held, OwnerOrder[n], a)
    <3>. HIDE DEF N
    <3>. QED  BY <1>8
  <2>2. 0 \in 0..N
    BY <1>1
  <2>. QED  BY <1>5, <2>1, <2>2 DEF Summed
<1>. QED  BY <1>9, <1>10

(* Two positions move: the total moves by as much.                          *)
LEMMA TotalMoves ==
  ASSUME NEW held, NEW later, NEW a, NEW from \in Owners, NEW to \in Owners, from # to,
         \A o \in Owners : Amount(held, o, a) \in Int /\ Amount(later, o, a) \in Int,
         \A o \in Owners \ {from, to} : Amount(later, o, a) = Amount(held, o, a)
  PROVE  /\ TotalOf(later, a) \in Int /\ TotalOf(held, a) \in Int
         /\ TotalOf(later, a) - TotalOf(held, a)
              = (Amount(later, from, a) - Amount(held, from, a))
                + (Amount(later, to, a) - Amount(held, to, a))
<1>. DEFINE N == Len(OwnerOrder)
            d(o) == Amount(later, o, a) - Amount(held, o, a)
            c(o, p, n) == IF p <= n THEN d(o) ELSE 0
<1>1. /\ N \in Nat /\ DOMAIN OwnerOrder = 1..N /\ \A n \in 1..N : OwnerOrder[n] \in Owners
      /\ \A m, n \in 1..N : OwnerOrder[m] = OwnerOrder[n] => m = n
  BY WorldBooksAssumption DEF Owners, IsInjective
<1>2. PICK i \in 1..N, j \in 1..N : OwnerOrder[i] = from /\ OwnerOrder[j] = to
  BY <1>1 DEF Owners, ToSet
<1>3. PICK s : Summed(held, a, s) /\ TotalOf(held, a) = s[N]
  BY TotalIs
<1>4. PICK t : Summed(later, a, t) /\ TotalOf(later, a) = t[N]
  BY TotalIs
<1>5. i # j /\ \A n \in 1..N : n # i /\ n # j => OwnerOrder[n] \in Owners \ {from, to}
  BY <1>1, <1>2
<1>6. d(from) \in Int /\ d(to) \in Int
  OBVIOUS
<1>. DEFINE Moved(n) == /\ s[n] \in Int /\ t[n] \in Int
                        /\ t[n] - s[n] = c(from, i, n) + c(to, j, n)
            T == {n \in 0..N : Moved(n)}
<1>7. 0 \in T
  <2>1. s[0] = 0 /\ t[0] = 0
    BY <1>3, <1>4 DEF Summed
  <2>2. ~(i <= 0) /\ ~(j <= 0) /\ 0 \in 0..N
    BY <1>1
  <2>. QED  BY <2>1, <2>2
<1>8. ASSUME NEW n \in 1..N, n - 1 \in T PROVE n \in T
  <2>. DEFINE o == OwnerOrder[n]
  <2>1. /\ s[n] = s[n - 1] + Amount(held, o, a)
        /\ t[n] = t[n - 1] + Amount(later, o, a)
    BY <1>3, <1>4 DEF Summed
  <2>2. Amount(held, o, a) \in Int /\ Amount(later, o, a) \in Int
    BY <1>1
  <2>3. /\ s[n - 1] \in Int /\ t[n - 1] \in Int
        /\ t[n - 1] - s[n - 1] = c(from, i, n - 1) + c(to, j, n - 1)
    BY <1>8
  <2>4. /\ s[n] \in Int /\ t[n] \in Int
        /\ t[n] - s[n] = c(from, i, n - 1) + c(to, j, n - 1) + d(o)
    <3>. DEFINE x == Amount(held, o, a)
                y == Amount(later, o, a)
                before == c(from, i, n - 1) + c(to, j, n - 1)
                s0 == s[n - 1]
                t0 == t[n - 1]
    <3>1. before \in Int /\ x \in Int /\ y \in Int /\ d(o) = y - x
      BY <1>6, <2>2
    <3>2. s[n] = s0 + x /\ t[n] = t0 + y /\ t0 - s0 = before
      BY <2>1, <2>3
    <3>3. s0 \in Int /\ t0 \in Int
      BY <2>3
    <3>. HIDE DEF x, y, before, s0, t0, d
    <3>4. /\ s0 + x \in Int /\ t0 + y \in Int
          /\ (t0 + y) - (s0 + x) = before + (y - x)
      BY <3>1, <3>2, <3>3
    <3>. QED  BY <3>1, <3>2, <3>4 DEF before
  <2>5. c(from, i, n) + c(to, j, n) = c(from, i, n - 1) + c(to, j, n - 1) + d(o)
    <3>1. CASE n = i
      <4>1. i <= n /\ ~(i <= n - 1) /\ (j <= n <=> j <= n - 1) /\ o = from
        BY <1>2, <1>5, <3>1
      <4>. HIDE DEF d, o
      <4>. QED  BY <1>6, <4>1
    <3>2. CASE n = j
      <4>1. j <= n /\ ~(j <= n - 1) /\ (i <= n <=> i <= n - 1) /\ o = to
        BY <1>2, <1>5, <3>2
      <4>. HIDE DEF d, o
      <4>. QED  BY <1>6, <4>1
    <3>3. CASE n # i /\ n # j
      <4>1. (j <= n <=> j <= n - 1) /\ (i <= n <=> i <= n - 1)
        BY <3>3
      <4>2. d(o) = 0
        BY <1>5, <2>2, <3>3
      <4>. HIDE DEF d, o
      <4>. QED  BY <1>6, <4>1, <4>2
    <3>. QED  BY <3>1, <3>2, <3>3
  <2>6. n \in 0..N
    OBVIOUS
  <2>. HIDE DEF c, o
  <2>. QED  BY <2>4, <2>5, <2>6
<1>9. Moved(N)
  <2>1. N \in 0..N
    BY <1>1
  <2>2. \A n \in 0..N : n \in T
    <3>. HIDE DEF T, N
    <3>. QED  BY <1>1, <1>7, <1>8, Climb
  <2>. HIDE DEF Moved
  <2>. QED  BY <2>1, <2>2
<1>10. i <= N /\ j <= N
  OBVIOUS
<1>. QED  BY <1>3, <1>4, <1>9, <1>10

(***************************************************************************)
(* What a transfer keeps.                                                   *)
(***************************************************************************)
PositionsHeld == \A k \in DOMAIN positions : positions[k] \in Nat \ {0}

Conserved(f) ==
  LET giver == <<f.from, f.asset>>
      taker == <<f.to, f.asset>>
  IN /\ 2 * Abs(TotalOf(positions', f.asset) - TotalOf(positions, f.asset))
          <= Ulp(positions[giver] - f.quantity) + Ulp(Quantity(f.to, f.asset) + f.quantity)
     /\ giver \notin DOMAIN positions' <=> f.quantity = positions[giver]
     /\ \A k \in (DOMAIN positions \cup DOMAIN positions') \ {giver, taker} :
          k \in DOMAIN positions \cap DOMAIN positions' /\ positions'[k] = positions[k]

TransfersConserved ==
  \A n \in Len(facts) + 1..Len(facts') :
    facts'[n].type = "ownership_transferred" => Conserved(facts'[n])

(* What there is of an asset is a number, held or not. *)
LEMMA AmountIs ==
  ASSUME NEW held, \A k \in DOMAIN held : held[k] \in Nat
  PROVE  \A o, a : Amount(held, o, a) \in Nat
BY DEF Amount

(* A transfer rounds twice, and moves nothing else.                         *)
LEMMA TransferConserves ==
  ASSUME ReplayInv, PositionsHeld, NEW from \in Owners, NEW to \in Owners, NEW a \in Assets,
         NEW q \in Quantities, Transfer(a, from, to, q)
  PROVE  PositionsHeld' /\ TransfersConserved
<1>. DEFINE giver == <<from, a>>
            taker == <<to, a>>
            p == positions[giver]
            s == Quantity(to, a)
            left == Float(p - q)
            total == Float(s + q)
            rest == IF left = 0 THEN Without(positions, giver)
                    ELSE [positions EXCEPT ![giver] = left]
            f == [type |-> "ownership_transferred", asset |-> a, from |-> from, to |-> to,
                  quantity |-> q, left |-> left, total |-> total]
<1>1. /\ from # to /\ giver \in DOMAIN positions /\ q <= p
      /\ positions' = Entered(rest, taker, total) /\ Tells(<<f>>)
  BY DEF Transfer
<1>2. giver # taker
  BY <1>1
<1>3. /\ p \in Nat /\ q \in Nat /\ q # 0 /\ s \in Nat
      /\ p - q \in Nat /\ s + q \in Nat /\ s + q # 0 /\ (p - q = 0 <=> q = p)
  <2>1. p \in Nat \ {0}
    BY <1>1 DEF PositionsHeld
  <2>2. q \in Nat \ {0}
    BY WorldBooksAssumption
  <2>3. s \in Nat
    BY AmountIs DEF PositionsHeld, Quantity
  <2>. HIDE DEF p, s
  <2>. QED  BY <1>1, <2>1, <2>2, <2>3
<1>4. /\ left \in Nat /\ (left = 0 <=> q = p)
      /\ 2 * (left - (p - q)) <= Ulp(p - q) /\ 2 * ((p - q) - left) <= Ulp(p - q)
  BY <1>3, FloatIs
<1>5. /\ total \in Nat \ {0}
      /\ 2 * (total - (s + q)) <= Ulp(s + q) /\ 2 * ((s + q) - total) <= Ulp(s + q)
  BY <1>3, FloatIs
<1>6. positions = [k \in DOMAIN positions |-> positions[k]] /\ DOMAIN positions \subseteq Owners \X Assets
  BY DEF ReplayInv, WorldTypes
<1>7. /\ DOMAIN rest = IF left = 0 THEN DOMAIN positions \ {giver} ELSE DOMAIN positions
      /\ \A k \in DOMAIN rest : rest[k] = IF k = giver THEN left ELSE positions[k]
  <2>. HIDE DEF left, giver
  <2>. QED  BY <1>1, <1>6 DEF Without
<1>8. f.type = "ownership_transferred" /\ f.asset = a /\ f.from = from /\ f.to = to /\ f.quantity = q
  OBVIOUS
<1>. HIDE DEF rest, left, total, f, giver, taker, p, s
<1>9. /\ DOMAIN positions' = DOMAIN rest \cup {taker}
      /\ positions'[taker] = total
      /\ \A k \in DOMAIN rest : k # taker => positions'[k] = rest[k]
  BY <1>1 DEF Entered
<1>10. \A k : k # giver /\ k # taker =>
              /\ k \in DOMAIN positions' <=> k \in DOMAIN positions
              /\ k \in DOMAIN positions => positions'[k] = positions[k]
  BY <1>7, <1>9
<1>11. /\ giver \in DOMAIN positions' <=> left # 0
       /\ giver \in DOMAIN positions' => positions'[giver] = left
  BY <1>1, <1>2, <1>7, <1>9
<1>12. PositionsHeld'
  <2>1. ASSUME NEW k \in DOMAIN positions' PROVE positions'[k] \in Nat \ {0}
    <3>1. CASE k = taker
      BY <1>5, <1>9, <3>1
    <3>2. CASE k = giver
      BY <1>4, <1>11, <3>2
    <3>3. CASE k # giver /\ k # taker
      BY <1>10, <3>3 DEF PositionsHeld
    <3>. QED  BY <3>1, <3>2, <3>3
  <2>. QED  BY <2>1 DEF PositionsHeld
<1>13. /\ Amount(positions, from, a) = p /\ Amount(positions, to, a) = s
       /\ Amount(positions', from, a) = left /\ Amount(positions', to, a) = total
       /\ \A o \in Owners \ {from, to} : Amount(positions', o, a) = Amount(positions, o, a)
  <2>1. Amount(positions, from, a) = p /\ Amount(positions, to, a) = s
    BY <1>1 DEF Amount, Quantity, giver, p, s
  <2>2. Amount(positions', from, a) = left
    BY <1>11 DEF Amount, giver
  <2>3. Amount(positions', to, a) = total
    BY <1>9 DEF Amount, taker
  <2>4. ASSUME NEW o \in Owners \ {from, to} PROVE Amount(positions', o, a) = Amount(positions, o, a)
    <3>1. <<o, a>> # giver /\ <<o, a>> # taker
      BY DEF giver, taker
    <3>. QED  BY <1>10, <3>1 DEF Amount
  <2>. QED  BY <2>1, <2>2, <2>3, <2>4
<1>14. /\ TotalOf(positions', a) \in Int /\ TotalOf(positions, a) \in Int
       /\ TotalOf(positions', a) - TotalOf(positions, a) = (left - p) + (total - s)
  <2>1. \A o \in Owners : Amount(positions, o, a) \in Int /\ Amount(positions', o, a) \in Int
    <3>1. \A o : Amount(positions, o, a) \in Nat
      BY AmountIs DEF PositionsHeld
    <3>2. \A o : Amount(positions', o, a) \in Nat
      BY <1>12, AmountIs DEF PositionsHeld
    <3>. QED  BY <3>1, <3>2
  <2>2. /\ TotalOf(positions', a) \in Int /\ TotalOf(positions, a) \in Int
        /\ TotalOf(positions', a) - TotalOf(positions, a)
              = (Amount(positions', from, a) - Amount(positions, from, a))
                + (Amount(positions', to, a) - Amount(positions, to, a))
    BY <1>1, <1>13, <2>1, TotalMoves
  <2>. QED  BY <1>13, <2>2
<1>15. 2 * Abs(TotalOf(positions', a) - TotalOf(positions, a)) <= Ulp(p - q) + Ulp(s + q)
  <2>. DEFINE d == TotalOf(positions', a) - TotalOf(positions, a)
              u == Ulp(p - q)
              v == Ulp(s + q)
  <2>1. d = (left - p) + (total - s)
    BY <1>14
  <2>2. u \in Nat /\ v \in Nat
    BY <1>3, UlpIs
  <2>3. /\ 2 * (left - (p - q)) <= u /\ 2 * ((p - q) - left) <= u
        /\ 2 * (total - (s + q)) <= v /\ 2 * ((s + q) - total) <= v
    BY <1>4, <1>5
  <2>. SUFFICES 2 * Abs(d) <= u + v
    OBVIOUS
  <2>. HIDE DEF d, u, v
  <2>4. d \in Int /\ 2 * d <= u + v /\ 2 * (-d) <= u + v
    BY <1>3, <1>4, <1>5, <2>1, <2>2, <2>3
  <2>. QED  BY <2>4 DEF Abs
<1>16. Conserved(f)
  <2>1. <<f.from, f.asset>> = giver /\ <<f.to, f.asset>> = taker
    BY <1>8 DEF giver, taker
  <2>2. giver \notin DOMAIN positions' <=> q = p
    BY <1>4, <1>11
  <2>3. \A k \in (DOMAIN positions \cup DOMAIN positions') \ {giver, taker} :
          k \in DOMAIN positions \cap DOMAIN positions' /\ positions'[k] = positions[k]
    BY <1>10
  <2>. QED  BY <1>8, <1>15, <2>1, <2>2, <2>3 DEF Conserved, p, s
<1>17. TransfersConserved
  <2>1. Len(facts') = Len(facts) + 1 /\ facts'[Len(facts) + 1] = f /\ Len(facts) \in Nat
    BY <1>1, OneTelling
  <2>2. \A n \in Len(facts) + 1..Len(facts') : n = Len(facts) + 1
    BY <2>1
  <2>. QED  BY <1>16, <2>1, <2>2 DEF TransfersConserved
<1>. QED  BY <1>12, <1>17

(* The other calls transfer nothing.                                        *)
LEMMA NoTransfer ==
  ASSUME ReplayInv, NEW told, IsLog(told), Tells(told),
         \A i \in 1..Len(told) : told[i].type # "ownership_transferred"
  PROVE  TransfersConserved
<1>1. /\ Len(facts) \in Nat /\ Len(told) \in Nat /\ Len(facts') = Len(facts) + Len(told)
      /\ \A i \in 1..Len(told) : facts'[Len(facts) + i] = told[i]
  BY Telling
<1>2. ASSUME NEW n \in Len(facts) + 1..Len(facts') PROVE facts'[n].type # "ownership_transferred"
  <2>1. n - Len(facts) \in 1..Len(told) /\ Len(facts) + (n - Len(facts)) = n
    BY <1>1
  <2>2. facts'[n] = told[n - Len(facts)]
    BY <1>1, <2>1
  <2>. QED  BY <2>1, <2>2
<1>. QED  BY <1>2 DEF TransfersConserved

(* Nor does a call that tells one record of another type. *)
LEMMA NoTransferOne ==
  ASSUME ReplayInv, NEW f, Tells(<<f>>), f.type # "ownership_transferred"
  PROVE  TransfersConserved
<1>. DEFINE told == <<f>>
<1>1. IsLog(told) /\ Len(told) = 1 /\ told[1] = f
  BY LogOfOne
<1>2. Tells(told)
  OBVIOUS
<1>. HIDE DEF told
<1>3. \A i \in 1..Len(told) : told[i].type # "ownership_transferred"
  BY <1>1
<1>. QED  BY <1>1, <1>2, <1>3, NoTransfer

(* An addition keeps positions positive.                                    *)
LEMMA AddPositionHolds ==
  ASSUME PositionsHeld, NEW o, NEW a, NEW q \in Quantities, AddPosition(o, a, q)
  PROVE  PositionsHeld'
<1>. DEFINE new == Float(Quantity(o, a) + q)
<1>1. new \in Nat \ {0}
  <2>1. q \in Nat \ {0} /\ Quantity(o, a) \in Nat
    BY WorldBooksAssumption, AmountIs DEF PositionsHeld, Quantity
  <2>2. Quantity(o, a) + q \in Nat /\ Quantity(o, a) + q # 0
    BY <2>1
  <2>. QED  BY <2>2, FloatIs
<1>2. positions' = Entered(positions, <<o, a>>, new)
  BY DEF AddPosition
<1>. HIDE DEF new
<1>. QED  BY <1>1, <1>2 DEF Entered, PositionsHeld

(* Every step. *)
LEMMA ConserveStep ==
  ASSUME ReplayInv, PositionsHeld, [WorldNext]_worldVars
  PROVE  PositionsHeld' /\ TransfersConserved
<1>1. ASSUME NEW a \in Assets, NEW o \in Owners, NEW q \in Quantities, AddPosition(o, a, q)
      PROVE  PositionsHeld' /\ TransfersConserved
  <2>. DEFINE f == [type |-> "ownership_position_added", owner |-> o, asset |-> a,
                    delta |-> q, new |-> Float(Quantity(o, a) + q)]
  <2>1. Tells(<<f>>) /\ f.type # "ownership_transferred"
    BY <1>1 DEF AddPosition
  <2>. HIDE DEF f
  <2>. QED  BY <1>1, <2>1, AddPositionHolds, NoTransferOne
<1>2. ASSUME NEW a \in Assets, NEW from \in Owners, NEW to \in Owners, NEW q \in Quantities,
             Transfer(a, from, to, q)
      PROVE  PositionsHeld' /\ TransfersConserved
  BY <1>2, TransferConserves
<1>3. ASSUME NEW f, Tells(<<f>>), f.type # "ownership_transferred", UNCHANGED positions
      PROVE  PositionsHeld' /\ TransfersConserved
  BY <1>3, NoTransferOne DEF PositionsHeld
<1>4. ASSUME NEW a \in Assets, NEW price \in PriceRecords, SetPrice(a, price)
      PROVE  PositionsHeld' /\ TransfersConserved
  <2>. DEFINE f == [type |-> "price_updated", asset |-> a, price |-> price.value,
                    historyLength |-> Len(prices[a]) + 1]
  <2>1. Tells(<<f>>) /\ f.type # "ownership_transferred" /\ UNCHANGED positions
    BY <1>4 DEF SetPrice
  <2>. HIDE DEF f
  <2>. QED  BY <1>3, <2>1
<1>5. ASSUME NEW c, AddContract(c)
      PROVE  PositionsHeld' /\ TransfersConserved
  <2>. DEFINE f == [type |-> "contract_created", contract |-> c, status |-> Contracts[c].status]
  <2>1. Tells(<<f>>) /\ f.type # "ownership_transferred" /\ UNCHANGED positions
    BY <1>5 DEF AddContract
  <2>. HIDE DEF f
  <2>. QED  BY <1>3, <2>1
<1>6. ASSUME NEW c, NEW status, UpdateStatus(c, status)
      PROVE  PositionsHeld' /\ TransfersConserved
  <2>. DEFINE f == [type |-> "contract_status_updated", contract |-> c,
                    previous |-> statuses[c], status |-> status]
  <2>1. Tells(<<f>>) /\ f.type # "ownership_transferred" /\ UNCHANGED positions
    BY <1>6 DEF UpdateStatus
  <2>. HIDE DEF f
  <2>. QED  BY <1>3, <2>1
<1>7. ASSUME NEW v, Compare(v) \/ AddClaim(v) \/ AddConstraint(v)
      PROVE  PositionsHeld' /\ TransfersConserved
  <2>1. /\ UNCHANGED positions
        /\ \E f : Tells(<<f>>) /\ f.type \in {"valuation_compared", "valuation_added", "constraint_added"}
    BY <1>7, ReadingSteps
  <2>. QED  BY <1>3, <2>1
<1>8. ASSUME (\E o \in Owners : EvaluateOwner(o)) \/ EvaluateAll \/ SnapshotViews
      PROVE  PositionsHeld' /\ TransfersConserved
  <2>1. /\ UNCHANGED positions
        /\ \E told : /\ IsLog(told) /\ Tells(told)
                     /\ \A i \in 1..Len(told) : EvaluationTold(told[i]) \/ ViewTold(told[i])
    BY <1>8, DerivingSteps
  <2>2. PICK told : /\ IsLog(told) /\ Tells(told)
                    /\ \A i \in 1..Len(told) : EvaluationTold(told[i]) \/ ViewTold(told[i])
    BY <2>1
  <2>3. \A i \in 1..Len(told) : told[i].type # "ownership_transferred"
    BY <2>2 DEF EvaluationTold, ViewTold
  <2>. QED  BY <2>1, <2>2, <2>3, NoTransfer DEF PositionsHeld
<1>9. CASE UNCHANGED worldVars
  <2>1. PositionsHeld' /\ facts' = facts
    BY <1>9 DEF worldVars, PositionsHeld
  <2>2. Len(facts) \in Nat
    BY DEF ReplayInv, WorldTypes, IsLog
  <2>3. ~ \E n \in Len(facts) + 1..Len(facts') : TRUE
    BY <2>1, <2>2
  <2>. QED  BY <2>1, <2>3 DEF TransfersConserved
<1>. QED  BY <1>1, <1>2, <1>4, <1>5, <1>6, <1>7, <1>8, <1>9 DEF WorldNext, CompareSubjectLatest

(* OwnershipBook.transfer(): for every run of calls, whatever the sizes of    *)
(* positions and the gaps between floats, a transfer changes the total of an  *)
(* asset by no more than half a unit of each of the two positions it rounds,  *)
(* touches no other, and removes the giver's exactly when all of it went.    *)
THEOREM TransfersConserveTheorem == WorldSpec => TransfersConserve
<1>1. WorldInit => PositionsHeld
  BY DEF WorldInit, PositionsHeld
<1>. QED  BY <1>1, ReplayInit, ReplayStep, ConserveStep, PTL DEF WorldSpec, TransfersConserve, TransfersConserved, Conserved

-----------------------------------------------------------------------------
(***************************************************************************)
(* The invariant of the derived records: each is what the books said when it *)
(* was told, and the ledger has the record of every claim there is.         *)
(***************************************************************************)
ReadRight(b, f) ==
  /\ f.type = "constraint_evaluated" => f = Evaluation(b, f.constraint)
  /\ f.type = "balance_sheet_view_created" =>
       /\ f.assets = View(b, f.agent).assets
       /\ f.liabilities = View(b, f.agent).liabilities
CitesClaim(pages, n, f) ==
  f.type = "valuation_compared" =>
    /\ f.parent \in 1..n
    /\ pages[f.parent] = [type |-> "valuation_added", claim |-> f.claim]
ClaimRecord(f) == f.type = "valuation_added" => f = [type |-> "valuation_added", claim |-> f.claim]

DerivedAt(pages, n) ==
  /\ ReadRight(ToldBooks(pages, n - 1), pages[n])
  /\ CitesClaim(pages, n - 1, pages[n])
  /\ ClaimRecord(pages[n])
ClaimsTold ==
  \A v \in ToSet(valuations) :
    \E m \in 1..Len(facts) : facts[m].type = "valuation_added" /\ facts[m].claim = v

DerivedInv ==
  /\ ReplayInv
  /\ \A n \in 1..Len(facts) : DerivedAt(facts, n)
  /\ ClaimsTold

(* What was derived stays so when the ledger grows.                         *)
LEMMA DerivedStays ==
  ASSUME NEW pages, NEW more, NEW n \in Nat, DerivedAt(pages, n), n >= 1,
         \A i \in 1..n : more[i] = pages[i]
  PROVE  DerivedAt(more, n)
<1>1. n - 1 \in Nat /\ n \in 1..n /\ \A i \in 1..(n - 1) : i \in 1..n
  OBVIOUS
<1>2. n - 1 <= n - 1
  OBVIOUS
<1>3. ToldBooks(more, n - 1) = ToldBooks(pages, n - 1)
  BY <1>1, <1>2, TellSame
<1>4. more[n] = pages[n] /\ \A i \in 1..(n - 1) : more[i] = pages[i]
  BY <1>1
<1>5. CitesClaim(more, n - 1, more[n])
  BY <1>4 DEF DerivedAt, CitesClaim
<1>. QED  BY <1>3, <1>4, <1>5 DEF DerivedAt

(* One record more.                                                         *)
LEMMA OneDerived ==
  ASSUME DerivedInv, ReplayInv', NEW f, Tells(<<f>>),
         ReadRight(Books3, f), CitesClaim(facts, Len(facts), f), ClaimRecord(f),
         \A v \in ToSet(valuations') :
           v \in ToSet(valuations) \/ (f.type = "valuation_added" /\ f.claim = v)
  PROVE  DerivedInv'
<1>. DEFINE N == Len(facts)
<1>1. /\ N \in Nat /\ Len(facts') = N + 1
      /\ \A i \in 1..N : facts'[i] = facts[i]
      /\ facts'[N + 1] = f
      /\ ToldBooks(facts', N) = Books3
  BY OneTelling DEF DerivedInv
<1>2. ASSUME NEW n \in 1..N PROVE DerivedAt(facts', n)
  <2>1. n \in Nat /\ n >= 1 /\ \A i \in 1..n : i \in 1..N
    BY <1>1
  <2>2. DerivedAt(facts, n)
    BY DEF DerivedInv
  <2>. QED  BY <1>1, <2>1, <2>2, DerivedStays
<1>3. DerivedAt(facts', N + 1)
  <2>1. (N + 1) - 1 = N
    BY <1>1
  <2>2. CitesClaim(facts', N, f)
    BY <1>1 DEF CitesClaim
  <2>. HIDE DEF N
  <2>. QED  BY <1>1, <2>1, <2>2 DEF DerivedAt
<1>4. \A n \in 1..Len(facts') : n \in 1..N \/ n = N + 1
  BY <1>1
<1>5. ClaimsTold'
  <2>1. \A i \in 1..N : i \in 1..Len(facts')
    BY <1>1
  <2>2. N + 1 \in 1..Len(facts')
    BY <1>1
  <2>3. ASSUME NEW v \in ToSet(valuations')
        PROVE  \E m \in 1..Len(facts') : facts'[m].type = "valuation_added" /\ facts'[m].claim = v
    <3>1. CASE v \in ToSet(valuations)
      BY <1>1, <2>1, <3>1 DEF DerivedInv, ClaimsTold
    <3>2. CASE f.type = "valuation_added" /\ f.claim = v
      BY <1>1, <2>2, <3>2
    <3>. QED  BY <3>1, <3>2
  <2>. QED  BY <2>3 DEF ClaimsTold
<1>. HIDE DEF N
<1>. QED  BY <1>2, <1>3, <1>4, <1>5 DEF DerivedInv

(* A record that is not derived.                                            *)
DerivedTypes == {"constraint_evaluated", "balance_sheet_view_created", "valuation_compared"}

LEMMA OtherDerived ==
  ASSUME DerivedInv, ReplayInv', NEW f, Tells(<<f>>), f.type \notin DerivedTypes,
         f.type # "valuation_added", valuations' = valuations
  PROVE  DerivedInv'
<1>1. ReadRight(Books3, f) /\ CitesClaim(facts, Len(facts), f) /\ ClaimRecord(f)
  BY DEF DerivedTypes, ReadRight, CitesClaim, ClaimRecord
<1>. QED  BY <1>1, OneDerived

(* The claim compared has its record, and the comparison finds one.         *)
LEMMA CitedIsThere ==
  ASSUME DerivedInv, NEW v \in ToSet(valuations)
  PROVE  /\ Cited(v) \in 1..Len(facts)
         /\ facts[Cited(v)] = [type |-> "valuation_added", claim |-> v]
<1>. DEFINE I == {i \in 1..Len(facts) : facts[i].type = "valuation_added" /\ facts[i].claim = v}
<1>1. Len(facts) \in Nat
  BY DEF DerivedInv, ReplayInv, WorldTypes, IsLog
<1>2. I # {}
  BY DEF DerivedInv, ClaimsTold
<1>3. I \subseteq 1..Len(facts)
  OBVIOUS
<1>4. Cited(v) = IF I # {} THEN Min(I) ELSE 0
  BY DEF Cited, SelectInSeq
<1>5. \A i \in I : facts[i].type = "valuation_added" /\ facts[i].claim = v
  OBVIOUS
<1>. HIDE DEF I
<1>6. I \in SUBSET Nat /\ IsFiniteSet(I)
  BY <1>1, <1>3, LastOne
<1>7. Min(I) \in I
  BY <1>2, <1>6, MinIsLeast
<1>8. Cited(v) \in I
  BY <1>2, <1>4, <1>7
<1>9. DerivedAt(facts, Cited(v))
  BY <1>3, <1>8 DEF DerivedInv
<1>. QED  BY <1>3, <1>5, <1>8, <1>9 DEF DerivedAt, ClaimRecord

(* What a list longer by one holds.                                         *)
LEMMA AppendedOne ==
  ASSUME NEW s, IsLog(s), NEW x
  PROVE  \A w \in ToSet(Append(s, x)) : w \in ToSet(s) \/ w = x
<1>1. /\ IsLog(Append(s, x)) /\ Len(Append(s, x)) = Len(s) + 1
      /\ \A i \in 1..Len(s) : Append(s, x)[i] = s[i]
      /\ Append(s, x)[Len(s) + 1] = x
      /\ DOMAIN s = 1..Len(s)
  BY LogOfAppend
<1>2. DOMAIN Append(s, x) = 1..(Len(s) + 1) /\ Len(s) \in Nat
  BY <1>1 DEF IsLog
<1>3. \A i \in 1..(Len(s) + 1) : i \in 1..Len(s) \/ i = Len(s) + 1
  BY <1>2
<1>. QED  BY <1>1, <1>2, <1>3 DEF ToSet

LEMMA DerivedInit == WorldInit => DerivedInv
<1>. SUFFICES ASSUME WorldInit PROVE DerivedInv
  OBVIOUS
<1>1. facts = <<>> /\ valuations = <<>> /\ 1..Len(facts) = {} /\ DOMAIN valuations = {}
  BY DEF WorldInit
<1>2. ToSet(valuations) = {}
  BY <1>1 DEF ToSet
<1>. QED  BY <1>1, <1>2, ReplayInit DEF DerivedInv, ClaimsTold

LEMMA DerivedStep == DerivedInv /\ [WorldNext]_worldVars => DerivedInv'
<1>. SUFFICES ASSUME DerivedInv, [WorldNext]_worldVars PROVE DerivedInv'
  OBVIOUS
<1>0. ReplayInv /\ ReplayInv'
  BY ReplayStep DEF DerivedInv
<1>1. ASSUME NEW a \in Assets, NEW o \in Owners, NEW q \in Quantities, AddPosition(o, a, q)
      PROVE  DerivedInv'
  <2>. DEFINE f == [type |-> "ownership_position_added", owner |-> o, asset |-> a,
                    delta |-> q, new |-> Float(Quantity(o, a) + q)]
  <2>1. Tells(<<f>>) /\ valuations' = valuations
    BY <1>1 DEF AddPosition
  <2>2. f.type \notin DerivedTypes /\ f.type # "valuation_added"
    BY DEF DerivedTypes
  <2>. HIDE DEF f
  <2>. QED  BY <1>0, <2>1, <2>2, OtherDerived
<1>2. ASSUME NEW a \in Assets, NEW from \in Owners, NEW to \in Owners, NEW q \in Quantities,
             Transfer(a, from, to, q)
      PROVE  DerivedInv'
  <2>. DEFINE f == [type |-> "ownership_transferred", asset |-> a, from |-> from, to |-> to,
                    quantity |-> q, left |-> Float(positions[<<from, a>>] - q),
                    total |-> Float(Quantity(to, a) + q)]
  <2>1. Tells(<<f>>) /\ valuations' = valuations
    BY <1>2 DEF Transfer
  <2>2. f.type \notin DerivedTypes /\ f.type # "valuation_added"
    BY DEF DerivedTypes
  <2>. HIDE DEF f
  <2>. QED  BY <1>0, <2>1, <2>2, OtherDerived
<1>3. ASSUME NEW a \in Assets, NEW price \in PriceRecords, SetPrice(a, price)
      PROVE  DerivedInv'
  <2>. DEFINE f == [type |-> "price_updated", asset |-> a, price |-> price.value,
                    historyLength |-> Len(prices[a]) + 1]
  <2>1. Tells(<<f>>) /\ valuations' = valuations
    BY <1>3 DEF SetPrice
  <2>2. f.type \notin DerivedTypes /\ f.type # "valuation_added"
    BY DEF DerivedTypes
  <2>. HIDE DEF f
  <2>. QED  BY <1>0, <2>1, <2>2, OtherDerived
<1>4. ASSUME NEW c, AddContract(c) PROVE DerivedInv'
  <2>. DEFINE f == [type |-> "contract_created", contract |-> c, status |-> Contracts[c].status]
  <2>1. Tells(<<f>>) /\ valuations' = valuations
    BY <1>4 DEF AddContract
  <2>2. f.type \notin DerivedTypes /\ f.type # "valuation_added"
    BY DEF DerivedTypes
  <2>. HIDE DEF f
  <2>. QED  BY <1>0, <2>1, <2>2, OtherDerived
<1>5. ASSUME NEW c, NEW status \in NewStatuses, UpdateStatus(c, status) PROVE DerivedInv'
  <2>. DEFINE f == [type |-> "contract_status_updated", contract |-> c,
                    previous |-> statuses[c], status |-> status]
  <2>1. Tells(<<f>>) /\ valuations' = valuations
    BY <1>5 DEF UpdateStatus
  <2>2. f.type \notin DerivedTypes /\ f.type # "valuation_added"
    BY DEF DerivedTypes
  <2>. HIDE DEF f
  <2>. QED  BY <1>0, <2>1, <2>2, OtherDerived
<1>6. ASSUME NEW k, AddConstraint(k) PROVE DerivedInv'
  <2>. DEFINE f == [type |-> "constraint_added", constraint |-> k]
  <2>1. Tells(<<f>>) /\ valuations' = valuations
    BY <1>6 DEF AddConstraint
  <2>2. f.type \notin DerivedTypes /\ f.type # "valuation_added"
    BY DEF DerivedTypes
  <2>. HIDE DEF f
  <2>. QED  BY <1>0, <2>1, <2>2, OtherDerived
<1>7. ASSUME NEW v, AddClaim(v) PROVE DerivedInv'
  <2>. DEFINE f == [type |-> "valuation_added", claim |-> v]
  <2>1. Tells(<<f>>) /\ valuations' = Append(valuations, v)
    BY <1>7 DEF AddClaim
  <2>2. f.type = "valuation_added" /\ f.claim = v /\ ClaimRecord(f)
    BY DEF ClaimRecord
  <2>. HIDE DEF f
  <2>3. ReadRight(Books3, f) /\ CitesClaim(facts, Len(facts), f)
    BY <2>2 DEF ReadRight, CitesClaim
  <2>4. \A w \in ToSet(valuations') : w \in ToSet(valuations) \/ w = v
    BY <1>0, <2>1, AppendedOne DEF ReplayInv, WorldTypes
  <2>. QED  BY <1>0, <2>1, <2>2, <2>3, <2>4, OneDerived
<1>8. ASSUME NEW v, Compare(v) PROVE DerivedInv'
  <2>. DEFINE f == [type |-> "valuation_compared", claim |-> v,
                    gap |-> Gap(Books3, v, PriceCurrency(Books3, Claims[v].subject)),
                    parent |-> Cited(v)]
  <2>1. Tells(<<f>>) /\ valuations' = valuations /\ v \in ToSet(valuations)
    BY <1>8 DEF Compare, Cited
  <2>2. f.type = "valuation_compared" /\ f.claim = v /\ f.parent = Cited(v)
    OBVIOUS
  <2>. HIDE DEF f
  <2>3. CitesClaim(facts, Len(facts), f)
    BY <2>1, <2>2, CitedIsThere DEF CitesClaim
  <2>4. ReadRight(Books3, f) /\ ClaimRecord(f)
    BY <2>2 DEF ReadRight, ClaimRecord
  <2>. QED  BY <1>0, <2>1, <2>3, <2>4, OneDerived
<1>9. ASSUME (\E o \in Owners : EvaluateOwner(o)) \/ EvaluateAll \/ SnapshotViews
      PROVE  DerivedInv'
  <2>1. /\ UNCHANGED <<positions, statuses, prices, rules, valuations>>
        /\ \E told : /\ IsLog(told) /\ Tells(told)
                     /\ \A i \in 1..Len(told) : EvaluationTold(told[i]) \/ ViewTold(told[i])
    BY <1>0, <1>9, DerivingSteps
  <2>2. PICK told : /\ IsLog(told) /\ Tells(told)
                    /\ \A i \in 1..Len(told) : EvaluationTold(told[i]) \/ ViewTold(told[i])
    BY <2>1
  <2>3. \A i \in 1..Len(told) : told[i].type \notin BookTypes
    BY <2>2 DEF EvaluationTold, ViewTold, BookTypes
  <2>4. \A n \in Len(facts)..Len(facts') : ToldBooks(facts', n) = Books3
    BY <1>0, <2>1, <2>2, <2>3, QuietTelling
  <2>5. /\ Len(facts) \in Nat /\ Len(told) \in Nat
        /\ Len(facts') = Len(facts) + Len(told)
        /\ \A i \in 1..Len(facts) : facts'[i] = facts[i]
        /\ \A i \in 1..Len(told) : facts'[Len(facts) + i] = told[i]
    BY <1>0, <2>2, Telling
  <2>6. ASSUME NEW n \in 1..Len(facts') PROVE DerivedAt(facts', n)
    <3>1. CASE n \in 1..Len(facts)
      <4>1. n \in Nat /\ n >= 1 /\ \A i \in 1..n : i \in 1..Len(facts)
        BY <2>5, <3>1
      <4>2. DerivedAt(facts, n)
        BY <3>1 DEF DerivedInv
      <4>. QED  BY <2>5, <4>1, <4>2, DerivedStays
    <3>2. CASE n \notin 1..Len(facts)
      <4>1. /\ n - Len(facts) \in 1..Len(told) /\ Len(facts) + (n - Len(facts)) = n
            /\ n - 1 \in Len(facts)..Len(facts')
        BY <2>5, <3>2
      <4>2. ToldBooks(facts', n - 1) = Books3
        BY <2>4, <4>1
      <4>3. facts'[n] = told[n - Len(facts)]
        BY <2>5, <4>1
      <4>4. EvaluationTold(facts'[n]) \/ ViewTold(facts'[n])
        BY <2>2, <4>1, <4>3
      <4>5. ReadRight(Books3, facts'[n])
        BY <4>4 DEF EvaluationTold, ViewTold, ReadRight
      <4>6. CitesClaim(facts', n - 1, facts'[n]) /\ ClaimRecord(facts'[n])
        BY <4>4 DEF EvaluationTold, ViewTold, CitesClaim, ClaimRecord
      <4>. QED  BY <4>2, <4>5, <4>6 DEF DerivedAt
    <3>. QED  BY <3>1, <3>2
  <2>7. ClaimsTold'
    <3>1. \A i \in 1..Len(facts) : i \in 1..Len(facts')
      BY <2>5
    <3>. QED  BY <2>1, <2>5, <3>1 DEF DerivedInv, ClaimsTold
  <2>. QED  BY <1>0, <2>6, <2>7 DEF DerivedInv
<1>10. CASE UNCHANGED worldVars
  <2>1. facts' = facts /\ valuations' = valuations
    BY <1>10 DEF worldVars
  <2>2. \A n \in 1..Len(facts') : DerivedAt(facts', n)
    BY <2>1 DEF DerivedInv
  <2>. QED  BY <1>0, <2>1, <2>2 DEF DerivedInv, ClaimsTold
<1>. QED  BY <1>1, <1>2, <1>3, <1>4, <1>5, <1>6, <1>7, <1>8, <1>9, <1>10
          DEF WorldNext, CompareSubjectLatest

(***************************************************************************)
(* The gaps: what the ledger tells of the prices, with the currency the      *)
(* price book holds for the last price told.                                *)
(***************************************************************************)
CurrencyIn(histories, b, a) == {histories[a][h].currency : h \in {Len(b.prices[a])} \ {0}}

GapRight(histories, b, f) ==
  f.type = "valuation_compared" =>
    /\ f.claim \in DOMAIN Claims
    /\ f.gap = Gap(b, f.claim, CurrencyIn(histories, b, Claims[f.claim].subject))

GapInv ==
  /\ ReplayInv
  /\ \A v \in ToSet(valuations) : v \in DOMAIN Claims
  /\ \A n \in 1..Len(facts) : GapRight(prices, ToldBooks(facts, n - 1), facts[n])

(* The book keeps the prices it had.                                        *)
Grown(histories) ==
  \A a \in Assets : \A h \in 1..Len(prices[a]) : histories[a][h] = prices[a][h]

(* The ledger tells of no more prices than the book has, and the currency of *)
(* one it tells of stays.                                                   *)
LEMMA CurrencyStays ==
  ASSUME ReplayInv, NEW n \in 0..Len(facts), NEW a \in Assets, NEW histories, Grown(histories)
  PROVE  CurrencyIn(histories, ToldBooks(facts, n), a) = CurrencyIn(prices, ToldBooks(facts, n), a)
<1>. DEFINE S == OnPriceIn(facts, n, a)
            T == OnPriceIn(facts, Len(facts), a)
            k == Cardinality(S)
            t == TellPrices(facts, n, a)
<1>1. Len(facts) \in Nat
  BY DEF ReplayInv, WorldTypes, IsLog
<1>2. S \subseteq T /\ IsFiniteSet(T)
  <2>1. \A i \in 1..n : i \in 1..Len(facts)
    BY <1>1
  <2>2. S \subseteq T
    BY <2>1 DEF OnPriceIn
  <2>3. T \subseteq 1..Len(facts)
    BY DEF OnPriceIn
  <2>4. IsFiniteSet(1..Len(facts))
    BY <1>1, FS_Interval
  <2>. HIDE DEF S, T
  <2>. QED  BY <2>2, <2>3, <2>4, FS_Subset
<1>3. Cardinality(T) = Len(prices[a])
  BY DEF ReplayInv, Replays, PricesTold
<1>. HIDE DEF S, T
<1>4. k \in Nat /\ k <= Len(prices[a]) /\ Len(prices[a]) \in Nat
  BY <1>2, <1>3, FS_Subset, FS_CardinalityType
<1>5. Len(t) = k
  <2>1. t = [h \in 1..k |-> facts[InOrder(S)[h]].price]
    BY DEF TellPrices, S
  <2>. HIDE DEF t, k
  <2>2. t = [h \in 1..k |-> t[h]]
    BY <2>1
  <2>. QED  BY <1>4, <2>2, LogOf
<1>6. ToldBooks(facts, n).prices[a] = t
  BY DEF ToldBooks
<1>7. \A h \in {k} \ {0} : histories[a][h] = prices[a][h]
  <2>. HIDE DEF k
  <2>1. \A h \in {k} \ {0} : h \in 1..Len(prices[a])
    BY <1>4
  <2>. QED  BY <2>1 DEF Grown
<1>. HIDE DEF k, t
<1>. QED  BY <1>5, <1>6, <1>7 DEF CurrencyIn

(* What was compared stays right when the ledger and the book grow.         *)
LEMMA GapsStay ==
  ASSUME GapInv, Grown(prices'), NEW n \in 1..Len(facts),
         \A i \in 1..Len(facts) : facts'[i] = facts[i]
  PROVE  GapRight(prices', ToldBooks(facts', n - 1), facts'[n])
<1>. DEFINE b == ToldBooks(facts, n - 1)
<1>1. Len(facts) \in Nat
  BY DEF GapInv, ReplayInv, WorldTypes, IsLog
<1>2. n - 1 \in Nat /\ n - 1 \in 0..Len(facts) /\ n - 1 <= n - 1 /\ \A i \in 1..(n - 1) : i \in 1..Len(facts)
  BY <1>1
<1>3. ToldBooks(facts', n - 1) = b
  BY <1>2, TellSame
<1>4. facts'[n] = facts[n]
  OBVIOUS
<1>5. GapRight(prices, b, facts[n])
  BY DEF GapInv
<1>. HIDE DEF b
<1>6. SUFFICES ASSUME facts[n].type = "valuation_compared"
               PROVE  GapRight(prices', b, facts[n])
  BY <1>3, <1>4 DEF GapRight
<1>7. facts[n].claim \in DOMAIN Claims /\ Claims[facts[n].claim].subject \in Assets
  BY <1>5, <1>6, WorldBooksAssumption DEF GapRight
<1>8. CurrencyIn(prices', b, Claims[facts[n].claim].subject)
        = CurrencyIn(prices, b, Claims[facts[n].claim].subject)
  BY <1>2, <1>7, CurrencyStays DEF GapInv, b
<1>. QED  BY <1>5, <1>6, <1>7, <1>8 DEF GapRight

(* Records that are no comparison.                                          *)
LEMMA GapsQuiet ==
  ASSUME GapInv, ReplayInv', Grown(prices'), NEW told, IsLog(told), Tells(told),
         \A i \in 1..Len(told) : told[i].type # "valuation_compared",
         \A v \in ToSet(valuations') : v \in DOMAIN Claims
  PROVE  GapInv'
<1>1. /\ Len(facts) \in Nat /\ Len(told) \in Nat
      /\ Len(facts') = Len(facts) + Len(told)
      /\ \A i \in 1..Len(facts) : facts'[i] = facts[i]
      /\ \A i \in 1..Len(told) : facts'[Len(facts) + i] = told[i]
  BY Telling DEF GapInv
<1>2. ASSUME NEW n \in 1..Len(facts') PROVE GapRight(prices', ToldBooks(facts', n - 1), facts'[n])
  <2>1. CASE n \in 1..Len(facts)
    BY <1>1, <2>1, GapsStay
  <2>2. CASE n \notin 1..Len(facts)
    <3>1. n - Len(facts) \in 1..Len(told) /\ Len(facts) + (n - Len(facts)) = n
      BY <1>1, <2>2
    <3>2. facts'[n].type # "valuation_compared"
      BY <1>1, <3>1
    <3>. QED  BY <3>2 DEF GapRight
  <2>. QED  BY <2>1, <2>2
<1>. QED  BY <1>2 DEF GapInv

LEMMA GapsQuietOne ==
  ASSUME GapInv, ReplayInv', Grown(prices'), NEW f, Tells(<<f>>), f.type # "valuation_compared",
         \A v \in ToSet(valuations') : v \in DOMAIN Claims
  PROVE  GapInv'
<1>. DEFINE told == <<f>>
<1>1. /\ IsLog(told) /\ Tells(told)
      /\ \A i \in 1..Len(told) : told[i].type # "valuation_compared"
  BY LogOfOne
<1>. HIDE DEF told
<1>. QED  BY <1>1, GapsQuiet

LEMMA GapStep == GapInv /\ [WorldNext]_worldVars => GapInv'
<1>. SUFFICES ASSUME GapInv, [WorldNext]_worldVars PROVE GapInv'
  OBVIOUS
<1>0. ReplayInv /\ ReplayInv' /\ \A v \in ToSet(valuations) : v \in DOMAIN Claims
  BY ReplayStep DEF GapInv
<1>a. prices' = prices => Grown(prices')
  BY DEF Grown
<1>1. ASSUME NEW a \in Assets, NEW o \in Owners, NEW q \in Quantities, AddPosition(o, a, q)
      PROVE  GapInv'
  <2>. DEFINE f == [type |-> "ownership_position_added", owner |-> o, asset |-> a,
                    delta |-> q, new |-> Float(Quantity(o, a) + q)]
  <2>1. Tells(<<f>>) /\ valuations' = valuations /\ prices' = prices /\ f.type # "valuation_compared"
    BY <1>1 DEF AddPosition
  <2>. HIDE DEF f
  <2>. QED  BY <1>0, <1>a, <2>1, GapsQuietOne
<1>2. ASSUME NEW a \in Assets, NEW from \in Owners, NEW to \in Owners, NEW q \in Quantities,
             Transfer(a, from, to, q)
      PROVE  GapInv'
  <2>. DEFINE f == [type |-> "ownership_transferred", asset |-> a, from |-> from, to |-> to,
                    quantity |-> q, left |-> Float(positions[<<from, a>>] - q),
                    total |-> Float(Quantity(to, a) + q)]
  <2>1. Tells(<<f>>) /\ valuations' = valuations /\ prices' = prices /\ f.type # "valuation_compared"
    BY <1>2 DEF Transfer
  <2>. HIDE DEF f
  <2>. QED  BY <1>0, <1>a, <2>1, GapsQuietOne
<1>3. ASSUME NEW a \in Assets, NEW price \in PriceRecords, SetPrice(a, price)
      PROVE  GapInv'
  <2>. DEFINE f == [type |-> "price_updated", asset |-> a, price |-> price.value,
                    historyLength |-> Len(prices[a]) + 1]
  <2>1. /\ Tells(<<f>>) /\ valuations' = valuations /\ f.type # "valuation_compared"
        /\ prices' = [prices EXCEPT ![a] = Append(prices[a], price)]
    BY <1>3 DEF SetPrice
  <2>. HIDE DEF f
  <2>2. prices = [b \in Assets |-> prices[b]] /\ \A b \in Assets : IsLog(prices[b])
    BY <1>0 DEF ReplayInv, WorldTypes
  <2>3. /\ prices'[a] = Append(prices[a], price)
        /\ \A b \in Assets : b # a => prices'[b] = prices[b]
    BY <2>1, <2>2
  <2>4. \A h \in 1..Len(prices[a]) : prices'[a][h] = prices[a][h]
    BY <2>2, <2>3, LogOfAppend
  <2>5. Grown(prices')
    BY <2>3, <2>4 DEF Grown
  <2>. QED  BY <1>0, <2>1, <2>5, GapsQuietOne
<1>4. ASSUME NEW c, AddContract(c) PROVE GapInv'
  <2>. DEFINE f == [type |-> "contract_created", contract |-> c, status |-> Contracts[c].status]
  <2>1. Tells(<<f>>) /\ valuations' = valuations /\ prices' = prices /\ f.type # "valuation_compared"
    BY <1>4 DEF AddContract
  <2>. HIDE DEF f
  <2>. QED  BY <1>0, <1>a, <2>1, GapsQuietOne
<1>5. ASSUME NEW c, NEW status \in NewStatuses, UpdateStatus(c, status) PROVE GapInv'
  <2>. DEFINE f == [type |-> "contract_status_updated", contract |-> c,
                    previous |-> statuses[c], status |-> status]
  <2>1. Tells(<<f>>) /\ valuations' = valuations /\ prices' = prices /\ f.type # "valuation_compared"
    BY <1>5 DEF UpdateStatus
  <2>. HIDE DEF f
  <2>. QED  BY <1>0, <1>a, <2>1, GapsQuietOne
<1>6. ASSUME NEW k, AddConstraint(k) PROVE GapInv'
  <2>. DEFINE f == [type |-> "constraint_added", constraint |-> k]
  <2>1. Tells(<<f>>) /\ valuations' = valuations /\ prices' = prices /\ f.type # "valuation_compared"
    BY <1>6 DEF AddConstraint
  <2>. HIDE DEF f
  <2>. QED  BY <1>0, <1>a, <2>1, GapsQuietOne
<1>7. ASSUME NEW v \in DOMAIN Claims, AddClaim(v) PROVE GapInv'
  <2>. DEFINE f == [type |-> "valuation_added", claim |-> v]
  <2>1. /\ Tells(<<f>>) /\ valuations' = Append(valuations, v) /\ prices' = prices
        /\ f.type # "valuation_compared"
    BY <1>7 DEF AddClaim
  <2>. HIDE DEF f
  <2>2. \A w \in ToSet(valuations') : w \in ToSet(valuations) \/ w = v
    BY <1>0, <2>1, AppendedOne DEF ReplayInv, WorldTypes
  <2>. QED  BY <1>0, <1>a, <2>1, <2>2, GapsQuietOne
<1>8. ASSUME NEW v, Compare(v) PROVE GapInv'
  <2>. DEFINE f == [type |-> "valuation_compared", claim |-> v,
                    gap |-> Gap(Books3, v, PriceCurrency(Books3, Claims[v].subject)),
                    parent |-> Cited(v)]
  <2>1. Tells(<<f>>) /\ valuations' = valuations /\ prices' = prices /\ v \in ToSet(valuations)
    BY <1>8 DEF Compare, Cited
  <2>2. f.claim = v /\ f.gap = Gap(Books3, v, CurrencyIn(prices, Books3, Claims[v].subject))
    BY DEF PriceCurrency, CurrencyIn
  <2>. HIDE DEF f
  <2>3. GapRight(prices', Books3, f)
    BY <1>0, <2>1, <2>2 DEF GapRight
  <2>4. /\ Len(facts) \in Nat /\ Len(facts') = Len(facts) + 1
        /\ \A i \in 1..Len(facts) : facts'[i] = facts[i]
        /\ facts'[Len(facts) + 1] = f
        /\ ToldBooks(facts', Len(facts)) = Books3
    BY <1>0, <2>1, OneTelling
  <2>5. ASSUME NEW n \in 1..Len(facts') PROVE GapRight(prices', ToldBooks(facts', n - 1), facts'[n])
    <3>1. CASE n \in 1..Len(facts)
      BY <1>a, <2>1, <2>4, <3>1, GapsStay
    <3>2. CASE n \notin 1..Len(facts)
      <4>1. n = Len(facts) + 1 /\ n - 1 = Len(facts)
        BY <2>4, <3>2
      <4>. QED  BY <2>3, <2>4, <4>1
    <3>. QED  BY <3>1, <3>2
  <2>. QED  BY <1>0, <2>1, <2>5 DEF GapInv
<1>9. ASSUME (\E o \in Owners : EvaluateOwner(o)) \/ EvaluateAll \/ SnapshotViews
      PROVE  GapInv'
  <2>1. /\ UNCHANGED <<positions, statuses, prices, rules, valuations>>
        /\ \E told : /\ IsLog(told) /\ Tells(told)
                     /\ \A i \in 1..Len(told) : EvaluationTold(told[i]) \/ ViewTold(told[i])
    BY <1>0, <1>9, DerivingSteps
  <2>2. PICK told : /\ IsLog(told) /\ Tells(told)
                    /\ \A i \in 1..Len(told) : EvaluationTold(told[i]) \/ ViewTold(told[i])
    BY <2>1
  <2>3. \A i \in 1..Len(told) : told[i].type # "valuation_compared"
    BY <2>2 DEF EvaluationTold, ViewTold
  <2>. QED  BY <1>0, <1>a, <2>1, <2>2, <2>3, GapsQuiet
<1>10. CASE UNCHANGED worldVars
  <2>1. facts' = facts /\ valuations' = valuations /\ prices' = prices
    BY <1>10 DEF worldVars
  <2>2. \A n \in 1..Len(facts') : GapRight(prices', ToldBooks(facts', n - 1), facts'[n])
    BY <2>1 DEF GapInv
  <2>. QED  BY <1>0, <2>1, <2>2 DEF GapInv
<1>. QED  BY <1>1, <1>2, <1>3, <1>4, <1>5, <1>6, <1>7, <1>8, <1>9, <1>10
          DEF WorldNext, CompareSubjectLatest

LEMMA GapInit == WorldInit => GapInv
<1>. SUFFICES ASSUME WorldInit PROVE GapInv
  OBVIOUS
<1>1. facts = <<>> /\ valuations = <<>> /\ 1..Len(facts) = {} /\ DOMAIN valuations = {}
  BY DEF WorldInit
<1>2. ToSet(valuations) = {}
  BY <1>1 DEF ToSet
<1>. QED  BY <1>1, <1>2, ReplayInit DEF GapInv

(* DerivedFromLedger: every evaluation and view on the ledger is what the    *)
(* records before it say, whatever else was called in between; so is every   *)
(* gap, together with the currency the price book holds for the last price    *)
(* they tell of; and every comparison cites the record of its claim.         *)
THEOREM DerivedFromLedgerTheorem == WorldSpec => []DerivedFromLedger
<1>1. DerivedInv /\ GapInv => DerivedFromLedger
  <2>. SUFFICES ASSUME DerivedInv, GapInv, NEW n \in DOMAIN facts
       PROVE  LET b == Told3(n - 1) f == facts[n] IN
                /\ f.type = "constraint_evaluated" => f = Evaluation(b, f.constraint)
                /\ f.type = "balance_sheet_view_created" =>
                     /\ f.assets = View(b, f.agent).assets
                     /\ f.liabilities = View(b, f.agent).liabilities
                /\ f.type = "valuation_compared" =>
                     /\ f.gap = Gap(b, f.claim, PriceCurrency(b, Claims[f.claim].subject))
                     /\ f.parent \in 1..(n - 1)
                     /\ facts[f.parent] = [type |-> "valuation_added", claim |-> f.claim]
    BY DEF DerivedFromLedger
  <2>1. DOMAIN facts = 1..Len(facts) /\ Len(facts) \in Nat
    BY DEF DerivedInv, ReplayInv, WorldTypes, IsLog
  <2>2. n \in 1..Len(facts) /\ n - 1 \in Nat
    BY <2>1
  <2>3. Told3(n - 1) = ToldBooks(facts, n - 1)
    BY <2>2, ToldIsTell
  <2>4. DerivedAt(facts, n)
    BY <2>2 DEF DerivedInv
  <2>5. GapRight(prices, Told3(n - 1), facts[n])
    BY <2>2, <2>3 DEF GapInv
  <2>6. \A b, a : PriceCurrency(b, a) = CurrencyIn(prices, b, a)
    BY DEF PriceCurrency, CurrencyIn
  <2>. QED  BY <2>3, <2>4, <2>5, <2>6 DEF DerivedAt, ReadRight, CitesClaim, GapRight
<1>. QED  BY <1>1, DerivedInit, DerivedStep, GapInit, GapStep, PTL DEF WorldSpec

(* The part files hold lists of edges. *)
PartFile(f) == f.edges \in Seq(Edges) /\ IsLog(f.edges)
PartFiles(files) == IsLog(files) /\ \A n \in DOMAIN files : PartFile(files[n])
TraceInv == PartFiles(traceParts)

LEMMA EdgesSorted ==
  ASSUME NEW s \in Seq(Edges)
  PROVE  ByRank(s) \in Seq(Edges) /\ IsLog(ByRank(s))
<1>1. IsLog(s) /\ DOMAIN s = 1..Len(s) /\ EntriesOf(s) \subseteq Edges
  BY ListsAreLogs
<1>2. \A i \in DOMAIN s : EdgeRank[s[i]] \in Int
  BY <1>1, EdgeRankAssumption DEF EntriesOf
<1>3. IsLog(ByRank(s)) /\ Permuted(ByRank(s), s)
  BY <1>1, <1>2, SortedIs DEF ByRank
<1>4. EntriesOf(ByRank(s)) = EntriesOf(s)
  BY <1>1, <1>3, PermutedSame
<1>. QED  BY <1>1, <1>3, <1>4, LogsAreLists

LEMMA FileAdded ==
  ASSUME NEW files, PartFiles(files), NEW f, PartFile(f)
  PROVE  PartFiles(Append(files, f))
<1>. DEFINE t == Append(files, f)
<1>1. /\ IsLog(t) /\ Len(t) = Len(files) + 1 /\ DOMAIN files = 1..Len(files)
      /\ \A i \in 1..Len(files) : t[i] = files[i]
      /\ t[Len(files) + 1] = f
  BY LogOfAppend DEF PartFiles
<1>. HIDE DEF t
<1>2. DOMAIN t = 1..(Len(files) + 1) /\ Len(files) \in Nat
  BY <1>1 DEF IsLog, PartFiles
<1>3. \A n \in DOMAIN t : n \in 1..Len(files) \/ n = Len(files) + 1
  BY <1>2
<1>4. \A n \in DOMAIN t : PartFile(t[n])
  BY <1>1, <1>3 DEF PartFiles
<1>. QED  BY <1>1, <1>4 DEF PartFiles, t

(* Type correctness of the part files, in every behaviour. *)
LEMMA TraceInvariant == TraceSpec => []TraceInv
<1>1. TraceInit => TraceInv
  BY LogOf DEF TraceInit, TraceInv, PartFiles, IsLog
<1>2. TraceInv /\ [TraceNext]_traceVars => TraceInv'
  <2>. SUFFICES ASSUME TraceInv, [TraceNext]_traceVars PROVE TraceInv'
    OBVIOUS
  <2>1. ASSUME NEW partition \in Partitions, NEW batch \in EdgeBatches, NEW m \in TraceManifests,
               AppendEdges(partition, batch, m)
        PROVE  TraceInv'
    <3>. DEFINE f == [partition |-> partition, edges |-> ByRank(batch)]
    <3>1. ByRank(batch) \in Seq(Edges) /\ IsLog(ByRank(batch))
      BY TraceAssumption, EdgesSorted
    <3>2. PartFile(f)
      BY <3>1 DEF PartFile
    <3>3. traceParts' = Append(traceParts, f)
      BY <2>1 DEF AppendEdges
    <3>. HIDE DEF f
    <3>4. PartFiles(Append(traceParts, f))
      BY <3>2, FileAdded DEF TraceInv
    <3>. QED  BY <3>3, <3>4 DEF TraceInv
  <2>2. CASE UNCHANGED traceParts
    BY <2>2 DEF TraceInv
  <2>. QED  BY <2>1, <2>2 DEF TraceNext, traceVars, SealEdges
<1>. QED  BY <1>1, <1>2, PTL DEF TraceSpec

(* The edges of two lists of part files that are permutations of each other. *)
EdgeLists(s) == IsLog(s) /\ EntriesOf(s) \subseteq Edges

LEMMA EdgesOfFiles ==
  ASSUME NEW files, PartFiles(files)
  PROVE  EdgeLists(EdgesOf(files))
<1>. DEFINE ss == [n \in DOMAIN files |-> files[n].edges]
<1>1. AllLogs(ss) /\ \A n \in DOMAIN ss : EntriesOf(ss[n]) \subseteq Edges
  <2>1. Len(files) \in Nat /\ DOMAIN files = 1..Len(files)
    BY DEF PartFiles, IsLog
  <2>2. ss = [n \in 1..Len(files) |-> ss[n]]
    BY <2>1
  <2>. HIDE DEF ss
  <2>3. IsLog(ss)
    BY <2>1, <2>2, LogOf
  <2>4. \A n \in DOMAIN files : ss[n] = files[n].edges
    BY DEF ss
  <2>5. DOMAIN ss = DOMAIN files
    BY DEF ss
  <2>6. \A n \in DOMAIN files : IsLog(ss[n]) /\ EntriesOf(ss[n]) \subseteq Edges
    BY <2>4, ListsAreLogs DEF PartFiles, PartFile
  <2>. QED  BY <2>3, <2>5, <2>6 DEF AllLogs
<1>2. EdgesOf(files) = Flattened(ss)
  BY DEF EdgesOf
<1>. HIDE DEF ss
<1>. QED  BY <1>1, <1>2, FlattenedIs DEF EdgeLists

LEMMA EdgesOfPermute ==
  ASSUME NEW files, PartFiles(files), NEW parts, PartFiles(parts), Permuted(files, parts)
  PROVE  Permuted(EdgesOf(files), EdgesOf(parts))
<1>. DEFINE ss == [n \in DOMAIN files |-> files[n].edges]
            tt == [n \in DOMAIN parts |-> parts[n].edges]
<1>1. ASSUME NEW g, PartFiles(g) PROVE AllLogs([n \in DOMAIN g |-> g[n].edges])
  <2>. DEFINE gg == [n \in DOMAIN g |-> g[n].edges]
  <2>1. Len(g) \in Nat /\ DOMAIN g = 1..Len(g)
    BY <1>1 DEF PartFiles, IsLog
  <2>2. gg = [n \in 1..Len(g) |-> gg[n]] /\ DOMAIN gg = DOMAIN g
    BY <2>1
  <2>3. \A n \in DOMAIN g : IsLog(gg[n])
    BY <1>1 DEF PartFiles, PartFile
  <2>. HIDE DEF gg
  <2>4. IsLog(gg)
    BY <2>1, <2>2, LogOf
  <2>. QED  BY <2>2, <2>3, <2>4 DEF AllLogs, gg
<1>2. AllLogs(ss) /\ AllLogs(tt)
  BY <1>1
<1>3. Permuted(ss, tt)
  <2>1. PICK p \in Bijection(DOMAIN files, DOMAIN parts) : \A i \in DOMAIN files : files[i] = parts[p[i]]
    BY DEF Permuted
  <2>2. p \in [DOMAIN files -> DOMAIN parts]
    BY <2>1, Fun_BijectionProperties
  <2>3. \A i \in DOMAIN files : ss[i] = tt[p[i]]
    BY <2>1, <2>2
  <2>4. DOMAIN ss = DOMAIN files /\ DOMAIN tt = DOMAIN parts
    OBVIOUS
  <2>. HIDE DEF ss, tt
  <2>. QED  BY <2>1, <2>3, <2>4 DEF Permuted
<1>4. EdgesOf(files) = Flattened(ss) /\ EdgesOf(parts) = Flattened(tt)
  BY DEF EdgesOf
<1>. HIDE DEF ss, tt
<1>. QED  BY <1>2, <1>3, <1>4, FlattenedPermutes

LEMMA RankedSame ==
  ASSUME NEW s, EdgeLists(s), NEW t, EdgeLists(t), Permuted(s, t)
  PROVE  ByRank(s) = ByRank(t)
<1>1. /\ \A x \in EntriesOf(s) : EdgeRank[x] \in Int
      /\ \A x, y \in EntriesOf(s) : EdgeRank[x] = EdgeRank[y] => x = y
  BY EdgeRankAssumption DEF EdgeLists
<1>. QED  BY <1>1, SortedSame DEF ByRank, EdgeLists

ListedIn(s, V) == ByRank(Picked(s, {n \in DOMAIN s : s[n] \in V}))

LEMMA ListedSame ==
  ASSUME NEW s, EdgeLists(s), NEW t, EdgeLists(t), Permuted(s, t), NEW V
  PROVE  ListedIn(s, V) = ListedIn(t, V)
<1>. DEFINE Kept(u) == Picked(u, {n \in DOMAIN u : u[n] \in V})
<1>1. ASSUME NEW u, EdgeLists(u) PROVE EdgeLists(Kept(u))
  <2>. DEFINE P == {n \in DOMAIN u : u[n] \in V}
  <2>1. P \subseteq DOMAIN u /\ IsLog(u)
    BY <1>1 DEF EdgeLists
  <2>. HIDE DEF P
  <2>2. PickedFrom(u, P, Picked(u, P))
    BY <2>1, PickedIs
  <2>3. IsLog(Picked(u, P)) /\ EntriesOf(Picked(u, P)) = {u[n] : n \in P}
    BY <2>2 DEF PickedFrom
  <2>4. \A n \in P : u[n] \in Edges
    BY <1>1, <2>1 DEF EdgeLists, EntriesOf
  <2>. QED  BY <2>3, <2>4 DEF EdgeLists, P
<1>2. Permuted(Kept(s), Kept(t))
  BY PickedPermutes DEF EdgeLists
<1>3. EdgeLists(Kept(s)) /\ EdgeLists(Kept(t))
  BY <1>1
<1>. HIDE DEF Kept
<1>4. ByRank(Kept(s)) = ByRank(Kept(t))
  BY <1>2, <1>3, RankedSame
<1>. QED  BY <1>4 DEF Kept, ListedIn

(* What is listed for an event, an actor or of a category. *)
LEMMA AnswersSame ==
  ASSUME NEW s, EdgeLists(s), NEW t, EdgeLists(t), Permuted(s, t), NEW id, NEW a
  PROVE  /\ EdgesForEvent(s, id) = EdgesForEvent(t, id)
         /\ EdgesByActor(s, a) = EdgesByActor(t, a)
         /\ PropagationEdges(s) = PropagationEdges(t)
<1>1. EdgesForEvent(s, id) = EdgesForEvent(t, id)
  <2>. DEFINE V == {e \in Edges : id \in {Edge[e].source, Edge[e].target}}
  <2>1. ASSUME NEW u, EdgeLists(u)
        PROVE  EdgesForEvent(u, id) = ListedIn(u, V)
    <3>1. {n \in DOMAIN u : id \in {Edge[u[n]].source, Edge[u[n]].target}} = {n \in DOMAIN u : u[n] \in V}
      BY <2>1 DEF EdgeLists, EntriesOf
    <3>. QED  BY <3>1 DEF EdgesForEvent, ListEdges, ListedIn
  <2>. HIDE DEF V
  <2>. QED  BY <2>1, ListedSame
<1>2. EdgesByActor(s, a) = EdgesByActor(t, a)
  <2>. DEFINE V == {e \in Edges : Edge[e].actor = a}
  <2>1. ASSUME NEW u, EdgeLists(u)
        PROVE  EdgesByActor(u, a) = ListedIn(u, V)
    <3>1. {n \in DOMAIN u : Edge[u[n]].actor = a} = {n \in DOMAIN u : u[n] \in V}
      BY <2>1 DEF EdgeLists, EntriesOf
    <3>. QED  BY <3>1 DEF EdgesByActor, ListEdges, ListedIn
  <2>. HIDE DEF V
  <2>. QED  BY <2>1, ListedSame
<1>3. PropagationEdges(s) = PropagationEdges(t)
  <2>. DEFINE V == {e \in Edges : Edge[e].label \in PropagationLabels \/ Edge[e].category = "propagation"}
  <2>1. ASSUME NEW u, EdgeLists(u)
        PROVE  PropagationEdges(u) = ListedIn(u, V)
    <3>1. {n \in DOMAIN u : Edge[u[n]].label \in PropagationLabels \/ Edge[u[n]].category = "propagation"}
            = {n \in DOMAIN u : u[n] \in V}
      BY <2>1 DEF EdgeLists, EntriesOf
    <3>. QED  BY <3>1 DEF PropagationEdges, ListEdges, ListedIn
  <2>. HIDE DEF V
  <2>. QED  BY <2>1, ListedSame
<1>. QED  BY <1>1, <1>2, <1>3

(* What only the set of the edges tells. *)
LineageIn(E, id, depth) ==
  LET walk[d \in 0..depth] ==
        IF d = 0 THEN [visited |-> {id}, frontier |-> {id}]
        ELSE LET before == walk[d - 1]
                 met == (UNION {{Edge[e].source : e \in {f \in E : Edge[f].target = v /\ Edge[f].label \in LineageLabels}} : v \in before.frontier}) \ before.visited
             IN [visited |-> before.visited \cup met, frontier |-> met]
  IN walk[depth].visited \ {id}

LEMMA LineageInSet == \A s, id, depth : Lineage(s, id, depth) = LineageIn(ToSet(s), id, depth)
BY DEF Lineage, LineageIn, Parents

LEMMA SetAnswersSame ==
  ASSUME NEW s, NEW t, ToSet(s) = ToSet(t), NEW id
  PROVE  /\ EvidenceFor(s, id) = EvidenceFor(t, id)
         /\ ContradictionPairs(s) = ContradictionPairs(t)
         /\ \A depth \in Nat : Lineage(s, id, depth) = Lineage(t, id, depth)
<1>1. EvidenceFor(s, id) = EvidenceFor(t, id)
  BY DEF EvidenceFor
<1>2. ContradictionPairs(s) = ContradictionPairs(t)
  BY DEF ContradictionPairs
<1>3. \A v : Parents(s, v) = Parents(t, v)
  BY DEF Parents
<1>4. \A depth \in Nat : Lineage(s, id, depth) = Lineage(t, id, depth)
  BY LineageInSet
<1>. QED  BY <1>1, <1>2, <1>4

(* Writing the part files in another order permutes them. *)
LEMMA ReorderedFiles ==
  ASSUME NEW files, PartFiles(files), NEW o \in [DOMAIN files -> DOMAIN files], IsInjective(o)
  PROVE  /\ PartFiles([n \in DOMAIN files |-> files[o[n]]])
         /\ Permuted([n \in DOMAIN files |-> files[o[n]]], files)
<1>. DEFINE D == DOMAIN files
            new == [n \in D |-> files[o[n]]]
<1>1. Len(files) \in Nat /\ D = 1..Len(files)
  BY DEF PartFiles, IsLog
<1>2. IsFiniteSet(D)
  BY <1>1, FirstNumbers
<1>3. \A a, b \in D : o[a] = o[b] => a = b
  BY DEF IsInjective
<1>. HIDE DEF D
<1>4. o \in [D -> D]
  BY DEF D
<1>5. o \in Injection(D, D)
  BY <1>3, <1>4, Fun_IsInj
<1>6. o \in Surjection(D, D)
  BY <1>2, <1>5, FS_Injection
<1>7. o \in Bijection(D, D)
  BY <1>5, <1>6 DEF Bijection
<1>8. new = [n \in 1..Len(files) |-> new[n]]
  BY <1>1
<1>9. DOMAIN new = D /\ \A n \in D : new[n] = files[o[n]]
  OBVIOUS
<1>. HIDE DEF new
<1>10. IsLog(new) /\ DOMAIN new = 1..Len(files)
  BY <1>1, <1>8, LogOf
<1>11. \A n \in D : PartFile(new[n])
  BY <1>4, <1>9 DEF PartFiles, D
<1>12. PartFiles(new)
  BY <1>9, <1>10, <1>11 DEF PartFiles
<1>13. Permuted(new, files)
  BY <1>7, <1>9 DEF Permuted, D
<1>. QED  BY <1>12, <1>13 DEF new, D

LEMMA FilesOfSame ==
  ASSUME NEW files, PartFiles(files), NEW parts, PartFiles(parts), Permuted(files, parts), NEW p
  PROVE  PartitionDigest(files, p) = PartitionDigest(parts, p)
<1>. DEFINE V == {f \in EntriesOf(files) : f.partition = p}
<1>1. IsLog(files) /\ IsLog(parts) /\ EntriesOf(files) = EntriesOf(parts)
  BY PermutedSame DEF PartFiles
<1>2. ASSUME NEW g, PartFiles(g), EntriesOf(g) = EntriesOf(files)
      PROVE  /\ PartFilesOf(g, p) = Picked(g, {n \in DOMAIN g : g[n] \in V})
             /\ PartFiles(PartFilesOf(g, p))
  <2>. DEFINE P == {n \in DOMAIN g : g[n].partition = p}
  <2>1. P = {n \in DOMAIN g : g[n] \in V}
    BY <1>2 DEF EntriesOf
  <2>2. P \subseteq DOMAIN g /\ IsLog(g)
    BY <1>2 DEF PartFiles
  <2>3. PartFilesOf(g, p) = Picked(g, P)
    BY DEF PartFilesOf
  <2>. HIDE DEF P, V
  <2>. DEFINE kept == Picked(g, P)
  <2>4. PickedFrom(g, P, kept)
    BY <2>2, PickedIs
  <2>. HIDE DEF kept
  <2>5. IsLog(kept) /\ DOMAIN kept = 1..Cardinality(P)
        /\ \A h \in 1..Cardinality(P) : InOrder(P)[h] \in P /\ kept[h] = g[InOrder(P)[h]]
    BY <2>4 DEF PickedFrom
  <2>6. \A h \in DOMAIN kept : PartFile(kept[h])
    BY <1>2, <2>2, <2>5 DEF PartFiles
  <2>7. PartFiles(kept)
    BY <2>5, <2>6 DEF PartFiles
  <2>. QED  BY <2>1, <2>3, <2>7 DEF kept
<1>. HIDE DEF V
<1>3. Permuted(Picked(files, {n \in DOMAIN files : files[n] \in V}),
               Picked(parts, {n \in DOMAIN parts : parts[n] \in V}))
  BY <1>1, PickedPermutes
<1>4. Permuted(PartFilesOf(files, p), PartFilesOf(parts, p))
  BY <1>1, <1>2, <1>3
<1>. DEFINE s == EdgesOf(PartFilesOf(files, p))
            t == EdgesOf(PartFilesOf(parts, p))
<1>5. EdgeLists(s) /\ EdgeLists(t) /\ Permuted(s, t)
  BY <1>1, <1>2, <1>4, EdgesOfFiles, EdgesOfPermute
<1>. HIDE DEF s, t
<1>6. ByRank(s) = ByRank(t)
  BY <1>5, RankedSame
<1>. QED  BY <1>6 DEF PartitionDigest, LeafDigest, s, t

(* The digests, the projection and the answers do not show the order in       *)
(* which part files were written.                                          *)
THEOREM AnswersSameInAnyOrder == TraceSpec => []AnswersIgnoreArrival
<1>1. ASSUME TraceInv PROVE AnswersIgnoreArrival
  <2>. SUFFICES ASSUME NEW o \in Reorderings
                PROVE  LET files == [n \in DOMAIN traceParts |-> traceParts[o[n]]]
                           now == EdgesOf(traceParts)
                           then == EdgesOf(files)
                       IN /\ \A p \in Partitions : PartitionDigest(files, p) = PartitionDigest(traceParts, p)
                          /\ CombinedDigest(then, recorded) = CombinedDigest(now, recorded)
                          /\ \A id \in EventIds, a \in {""} \cup {Edge[e].actor : e \in Edges} :
                               Summary(then, id, a, 2) = Summary(now, id, a, 2)
    BY DEF AnswersIgnoreArrival
  <2>. DEFINE files == [n \in DOMAIN traceParts |-> traceParts[o[n]]]
              now == EdgesOf(traceParts)
              then == EdgesOf(files)
  <2>1. PartFiles(traceParts) /\ PartFiles(files) /\ Permuted(files, traceParts)
    BY <1>1, ReorderedFiles DEF Reorderings, TraceInv
  <2>. HIDE DEF files
  <2>2. EdgeLists(now) /\ EdgeLists(then) /\ Permuted(then, now)
    BY <2>1, EdgesOfFiles, EdgesOfPermute
  <2>. HIDE DEF now, then
  <2>3. ByRank(then) = ByRank(now)
    BY <2>2, RankedSame
  <2>4. CombinedDigest(then, recorded) = CombinedDigest(now, recorded)
    BY <2>3 DEF CombinedDigest, LeafDigest, Projection
  <2>5. ToSet(then) = ToSet(now)
    <3>1. EntriesOf(then) = EntriesOf(now)
      BY <2>2, PermutedSame DEF EdgeLists
    <3>. QED  BY <3>1 DEF EntriesOf, ToSet
  <2>6. ASSUME NEW id, NEW a PROVE Summary(then, id, a, 2) = Summary(now, id, a, 2)
    <3>1. /\ EdgesForEvent(then, id) = EdgesForEvent(now, id)
          /\ EdgesByActor(then, a) = EdgesByActor(now, a)
          /\ PropagationEdges(then) = PropagationEdges(now)
      BY <2>2, AnswersSame
    <3>2. /\ EvidenceFor(then, id) = EvidenceFor(now, id)
          /\ ContradictionPairs(then) = ContradictionPairs(now)
          /\ Lineage(then, id, 2) = Lineage(now, id, 2)
      BY <2>5, SetAnswersSame
    <3>. QED  BY <3>1, <3>2 DEF Summary
  <2>7. \A p : PartitionDigest(files, p) = PartitionDigest(traceParts, p)
    BY <2>1, FilesOfSame
  <2>. QED  BY <2>4, <2>6, <2>7 DEF files, now, then
<1>. QED  BY <1>1, TraceInvariant, PTL

(* What a walk starts from and what it can meet. *)
Met(s, A) == UNION {Parents(s, v) : v \in A}
Around(s, id) == {id} \cup {Edge[e].source : e \in ToSet(s)}

Backward(s, id, depth, back) ==
  back[0] = {id} /\ \A d \in 1..depth : back[d] = Met(s, back[d - 1])

LEMMA BackGoes ==
  ASSUME NEW s, NEW id, NEW depth \in Nat
  PROVE  Backward(s, id, depth, Back(s, id, depth))
<1>. DEFINE X == SUBSET Around(s, id)
            Level(f) == [d \in 0..depth |->
                           IF d = 0 THEN {id} ELSE UNION {Parents(s, v) : v \in f[d - 1]}]
            g == [d \in 1..depth |-> [A \in X |-> Met(s, A)]]
            start == {id}
<1>1. \A A : Met(s, A) \in X
  BY DEF Met, Parents, Around
<1>2. g \in [1..depth -> [X -> X]] /\ start \in X
  BY <1>1 DEF Around
<1>3. PICK f \in [0..depth -> X] : f[0] = {id} /\ \A d \in 1..depth : f[d] = g[d][f[d - 1]]
  <2>. HIDE DEF g, X, start
  <2>1. \E f \in [0..depth -> X] : f[0] = start /\ \A d \in 1..depth : f[d] = g[d][f[d - 1]]
    BY <1>2, Stepwise
  <2>. QED  BY <2>1 DEF start
<1>4. \A d \in 1..depth : d - 1 \in 0..depth /\ d \in 0..depth /\ d # 0
  OBVIOUS
<1>5. \A d \in 1..depth : f[d] = Met(s, f[d - 1])
  BY <1>3, <1>4
<1>6. \A d \in 0..depth : d = 0 \/ d \in 1..depth
  OBVIOUS
<1>7. f = Level(f)
  <2>1. f = [d \in 0..depth |-> f[d]]
    BY <1>3
  <2>2. \A d \in 0..depth : f[d] = IF d = 0 THEN {id} ELSE UNION {Parents(s, v) : v \in f[d - 1]}
    BY <1>3, <1>5, <1>6 DEF Met
  <2>. QED  BY <2>1, <2>2
<1>8. Back(s, id, depth) = Level(Back(s, id, depth))
  <2>1. Back(s, id, depth) = CHOOSE back : back = Level(back)
    BY DEF Back
  <2>. HIDE DEF Level
  <2>. QED  BY <1>7, <2>1
<1>. DEFINE b == Back(s, id, depth)
<1>. HIDE DEF b
<1>9. b[0] = {id} /\ \A d \in 1..depth : b[d] = Met(s, b[d - 1])
  <2>1. b = Level(b) /\ 0 \in 0..depth
    <3>. HIDE DEF Level
    <3>. QED  BY <1>8 DEF b
  <2>. QED  BY <1>4, <2>1 DEF Met
<1>. QED  BY <1>9 DEF b, Backward

Onward(s, id, depth, walk) ==
  /\ walk[0] = [visited |-> {id}, frontier |-> {id}]
  /\ \A d \in 1..depth :
       walk[d] = [visited |-> walk[d - 1].visited \cup
                                (Met(s, walk[d - 1].frontier) \ walk[d - 1].visited),
                  frontier |-> Met(s, walk[d - 1].frontier) \ walk[d - 1].visited]

LEMMA LineageGoes ==
  ASSUME NEW s, NEW id, NEW depth \in Nat
  PROVE  \E walk : /\ Onward(s, id, depth, walk)
                   /\ Lineage(s, id, depth) = walk[depth].visited \ {id}
<1>. DEFINE X == [visited : SUBSET Around(s, id), frontier : SUBSET Around(s, id)]
            Next1(r) == [visited |-> r.visited \cup (Met(s, r.frontier) \ r.visited),
                         frontier |-> Met(s, r.frontier) \ r.visited]
            Level(f) == [d \in 0..depth |->
                           IF d = 0 THEN [visited |-> {id}, frontier |-> {id}]
                           ELSE LET before == f[d - 1]
                                    met == (UNION {Parents(s, v) : v \in before.frontier})
                                             \ before.visited
                                IN [visited |-> before.visited \cup met, frontier |-> met]]
            g == [d \in 1..depth |-> [r \in X |-> Next1(r)]]
            start == [visited |-> {id}, frontier |-> {id}]
<1>1. \A A : Met(s, A) \in SUBSET Around(s, id)
  BY DEF Met, Parents, Around
<1>2. g \in [1..depth -> [X -> X]] /\ start \in X
  <2>1. \A r \in X : Next1(r) \in X
    BY <1>1
  <2>2. start \in X
    BY DEF Around
  <2>. HIDE DEF X, Next1, start
  <2>. QED  BY <2>1, <2>2
<1>3. PICK f \in [0..depth -> X] : f[0] = start /\ \A d \in 1..depth : f[d] = g[d][f[d - 1]]
  <2>. HIDE DEF g, X, start
  <2>. QED  BY <1>2, Stepwise
<1>4. \A d \in 1..depth : d - 1 \in 0..depth /\ d \in 0..depth /\ d # 0
  OBVIOUS
<1>5. \A d \in 1..depth : f[d] = Next1(f[d - 1])
  <2>. HIDE DEF X, Next1
  <2>. QED  BY <1>3, <1>4
<1>6. \A d \in 0..depth : d = 0 \/ d \in 1..depth
  OBVIOUS
<1>7. f = Level(f)
  <2>1. f = [d \in 0..depth |-> f[d]]
    BY <1>3
  <2>2. \A d \in 1..depth : f[d] = Level(f)[d]
    BY <1>4, <1>5 DEF Met
  <2>3. f[0] = Level(f)[0]
    BY <1>3
  <2>4. \A d \in 0..depth : f[d] = Level(f)[d]
    <3>. HIDE DEF Level
    <3>. QED  BY <1>6, <2>2, <2>3
  <2>5. Level(f) = [d \in 0..depth |-> Level(f)[d]]
    OBVIOUS
  <2>. HIDE DEF Level
  <2>. QED  BY <2>1, <2>4, <2>5
<1>8. PICK w : w = Level(w) /\ Lineage(s, id, depth) = w[depth].visited \ {id}
  <2>. DEFINE w == CHOOSE walk : walk = Level(walk)
  <2>1. Lineage(s, id, depth) = w[depth].visited \ {id}
    BY DEF Lineage
  <2>2. w = Level(w)
    <3>. HIDE DEF Level
    <3>. QED  BY <1>7
  <2>. HIDE DEF w, Level
  <2>. QED  BY <2>1, <2>2
<1>9. w[0] = start
  <2>1. 0 \in 0..depth
    OBVIOUS
  <2>. QED  BY <1>8, <2>1
<1>10. ASSUME NEW d \in 1..depth PROVE w[d] = Next1(w[d - 1])
  BY <1>4, <1>8 DEF Met
<1>11. Onward(s, id, depth, w)
  BY <1>9, <1>10 DEF Onward
<1>. QED  BY <1>8, <1>11

(* By n levels what was visited is what n ways back lead to, and the frontier *)
(* is what was met last. *)
LEMMA WalkIsBack ==
  ASSUME NEW s, NEW id, NEW depth \in Nat, NEW walk, NEW back,
         Onward(s, id, depth, walk), Backward(s, id, depth, back)
  PROVE  walk[depth].visited = UNION {back[d] : d \in 0..depth}
<1>. DEFINE Reached(n) == UNION {back[d] : d \in 0..n}
            T == {n \in 0..depth :
                    /\ walk[n].visited = Reached(n)
                    /\ back[n] \subseteq walk[n].visited
                    /\ walk[n].frontier \subseteq walk[n].visited
                    /\ walk[n].frontier \subseteq back[n]
                    /\ n > 0 => Met(s, walk[n].visited \ walk[n].frontier)
                                  \subseteq walk[n].visited
                    /\ n = 0 => walk[n].frontier = walk[n].visited}
<1>1. 0 \in T
  <2>1. 0..0 = {0} /\ 0 \in 0..depth
    OBVIOUS
  <2>2. Reached(0) = back[0]
    BY <2>1
  <2>. HIDE DEF Reached
  <2>. QED  BY <2>1, <2>2 DEF Onward, Backward
<1>2. ASSUME NEW n \in 1..depth, n - 1 \in T PROVE n \in T
  <2>. DEFINE v == walk[n - 1].visited
              w == walk[n - 1].frontier
              b == back[n - 1]
              m == Met(s, w) \ v
  <2>1. walk[n].visited = v \cup m /\ walk[n].frontier = m
    <3>1. walk[n] = [visited |-> v \cup m, frontier |-> m]
      BY DEF Onward
    <3>. HIDE DEF m, v
    <3>. QED  BY <3>1
  <2>2. back[n] = Met(s, b)
    BY DEF Backward
  <2>3. n \in 0..depth /\ n - 1 \in 0..depth /\ n > 0 /\ n # 0
    OBVIOUS
  <2>4. Reached(n) = Reached(n - 1) \cup back[n]
    <3>1. \A d : d \in 0..n <=> d \in 0..(n - 1) \/ d = n
      BY <2>3
    <3>. QED  BY <3>1
  <2>5. v = Reached(n - 1) /\ b \subseteq v /\ w \subseteq v /\ w \subseteq b
    BY <1>2
  <2>6. Met(s, v \ w) \subseteq v
    <3>1. CASE n - 1 > 0
      BY <1>2, <3>1
    <3>2. CASE n - 1 = 0
      <4>1. v \ w = {}
        BY <1>2, <3>2
      <4>. HIDE DEF v, w
      <4>. QED  BY <4>1 DEF Met
    <3>. QED  BY <2>3, <3>1, <3>2
  <2>. HIDE DEF v, w, b, Reached
  <2>7. \A A, B : Met(s, A \cup B) = Met(s, A) \cup Met(s, B)
    BY DEF Met
  <2>8. \A A, B : A \subseteq B => Met(s, A) \subseteq Met(s, B)
    BY DEF Met
  <2>9. Met(s, v) \subseteq v \cup m
    <3>1. v = (v \ w) \cup w
      BY <2>5
    <3>2. Met(s, v) = Met(s, v \ w) \cup Met(s, w)
      BY <2>7, <3>1
    <3>. QED  BY <2>6, <3>2
  <2>10. Met(s, w) \subseteq Met(s, b) /\ Met(s, b) \subseteq Met(s, v)
    BY <2>5, <2>8
  <2>11. v \cup m = v \cup Met(s, b)
    BY <2>9, <2>10
  <2>12. (v \cup m) \ m = v
    OBVIOUS
  <2>13. /\ walk[n].visited = Reached(n)
         /\ back[n] \subseteq walk[n].visited
         /\ walk[n].frontier \subseteq walk[n].visited
         /\ walk[n].frontier \subseteq back[n]
    BY <2>1, <2>2, <2>4, <2>5, <2>10, <2>11
  <2>14. walk[n].visited \ walk[n].frontier = v
    BY <2>1, <2>12
  <2>15. Met(s, walk[n].visited \ walk[n].frontier) \subseteq walk[n].visited
    <3>. HIDE DEF m
    <3>. QED  BY <2>1, <2>9, <2>14
  <2>. HIDE DEF m
  <2>. QED  BY <2>3, <2>13, <2>15
<1>3. depth \in T
  <2>. HIDE DEF T
  <2>1. depth \in 0..depth
    OBVIOUS
  <2>. QED  BY <1>1, <1>2, <2>1, Climb
<1>. QED  BY <1>3

(* The answer of the walk, for every graph, event and depth. *)
LEMMA LineageIs ==
  ASSUME NEW s, NEW id, NEW depth \in Nat
  PROVE  Lineage(s, id, depth) = (UNION {Back(s, id, depth)[d] : d \in 1..depth}) \ {id}
<1>. DEFINE back == Back(s, id, depth)
<1>1. PICK walk : /\ Onward(s, id, depth, walk)
                  /\ Lineage(s, id, depth) = walk[depth].visited \ {id}
  BY LineageGoes
<1>2. Backward(s, id, depth, back)
  BY BackGoes
<1>. HIDE DEF back
<1>3. walk[depth].visited = UNION {back[d] : d \in 0..depth}
  BY <1>1, <1>2, WalkIsBack
<1>4. back[0] = {id}
  BY <1>2 DEF Backward
<1>5. \A d : d \in 0..depth <=> d = 0 \/ d \in 1..depth
  OBVIOUS
<1>6. (UNION {back[d] : d \in 0..depth}) \ {id} = (UNION {back[d] : d \in 1..depth}) \ {id}
  BY <1>4, <1>5
<1>. QED  BY <1>1, <1>3, <1>6 DEF back

(* A lineage holds every event that a chain of at most `depth` edges leads    *)
(* back to, whatever cycles the graph has and however it was recorded.       *)
THEOREM LineageFound == TraceSpec => []LineageWithinDepth
<1>1. LineageWithinDepth
  <2>1. \A depth \in Depths : depth \in Nat
    BY TraceAssumption
  <2>. QED  BY <2>1, LineageIs DEF LineageWithinDepth
<1>. QED  BY <1>1, PTL
=============================================================================
