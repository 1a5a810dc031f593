----------------------------- MODULE StateStore -----------------------------
(***************************************************************************)
(* world/state.py: the layered StateStore with its versions, histories and   *)
(* snapshots, and State, the plain store of the kernel, whose snapshots have  *)
(* the same shape and may be restored into a StateStore.  The rules of who   *)
(* may read what change nothing and are left out.                          *)
(***************************************************************************)
EXTENDS Naturals, Sequences, TLC

CONSTANTS
  Layers,         \* of true_state, published_state, market_state, perceived_state
  Objects, Values, Perceivers,
  MaxVersion,     \* bound: versions of an entry
  MaxSnapshots    \* bound

ASSUME StateAssumption == "true_state" \in Layers /\ {MaxVersion, MaxSnapshots} \subseteq Nat

VARIABLES
  current,      \* [<<layer, object>> -> entry]
  history,      \* [<<layer, object>> -> sequence of entries]
  snapshots,    \* sequence of [<<layer, object>> -> entry]
  plain         \* [object -> value]: the store of State

stateVars == <<current, history, snapshots, plain>>

StateEntry(version, value, owner) == [version |-> version, value |-> value, owner |-> owner]
Nobody == ""

StateInit ==
  /\ current = <<>>
  /\ history = <<>>
  /\ snapshots = <<>>
  /\ plain = <<>>

(* A dictionary after entries[key] = entry. *)
With(entries, key, entry) ==
  [k \in {key} \cup DOMAIN entries |-> IF k = key THEN entry ELSE entries[k]]

HistoryOf(key) == IF key \in DOMAIN history THEN history[key] ELSE <<>>

(* set_state(): the version counts on from the current entry, not from the   *)
(* history; a perceived state needs an owner.                              *)
SetState(layer, object, value, owner) ==
  LET key == <<layer, object>>
      version == IF key \in DOMAIN current THEN current[key].version + 1 ELSE 1
      entry == StateEntry(version, value, owner)
  IN /\ layer = "perceived_state" <=> owner # Nobody
     /\ version <= MaxVersion
     /\ current' = With(current, key, entry)
     /\ history' = With(history, key, Append(HistoryOf(key), entry))
     /\ UNCHANGED <<snapshots, plain>>

CreateSnapshot ==
  /\ Len(snapshots) < MaxSnapshots
  /\ snapshots' = Append(snapshots, current)
  /\ UNCHANGED <<current, history, plain>>

(* Plausible bug: the histories are kept. *)
RestoreSnapshotKeepingHistory(n) ==
  /\ current' = snapshots[n]
  /\ history' = [key \in DOMAIN snapshots[n] |-> Append(HistoryOf(key), snapshots[n][key])] @@ history
  /\ UNCHANGED <<snapshots, plain>>

(* restore_snapshot(): every history starts over with the restored entry. *)
RestoreSnapshot(n) ==
  /\ current' = snapshots[n]
  /\ history' = [key \in DOMAIN snapshots[n] |-> <<snapshots[n][key]>>]
  /\ UNCHANGED <<snapshots, plain>>

InitializeObject(object, value) ==
  /\ object \notin DOMAIN plain
  /\ plain' = With(plain, object, value)
  /\ UNCHANGED <<current, history, snapshots>>

SetField(object, value) ==
  /\ object \in DOMAIN plain
  /\ plain' = [plain EXCEPT ![object] = value]
  /\ UNCHANGED <<current, history, snapshots>>

(* State.snapshot(): every entry has version 1 and is of the true layer. *)
PlainSnapshot ==
  /\ Len(snapshots) < MaxSnapshots
  /\ snapshots' = Append(snapshots,
       [key \in {"true_state"} \X DOMAIN plain |-> StateEntry(1, plain[key[2]], Nobody)])
  /\ UNCHANGED <<current, history, plain>>

StateNext ==
  \/ \E layer \in Layers, object \in Objects, value \in Values, owner \in Perceivers \cup {Nobody} :
       SetState(layer, object, value, owner)
  \/ CreateSnapshot
  \/ \E n \in DOMAIN snapshots : RestoreSnapshot(n)
  \/ \E object \in Objects, value \in Values :
       InitializeObject(object, value) \/ SetField(object, value)
  \/ PlainSnapshot

StateSpec == StateInit /\ [][StateNext]_stateVars

(* A history is an unbroken run of versions that ends in the current entry,  *)
(* and there is none without a current entry, whatever snapshots were        *)
(* restored in between: versions count on from the restored entry, so a      *)
(* number may be given twice, but never in one history.                     *)
HistoryEndsInCurrent ==
  /\ DOMAIN history = DOMAIN current
  /\ \A key \in DOMAIN current :
       /\ history[key] # <<>>
       /\ history[key][Len(history[key])] = current[key]
       /\ \A n \in 2..Len(history[key]) : history[key][n].version = history[key][n - 1].version + 1
=============================================================================
