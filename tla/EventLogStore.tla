---------------------------- MODULE EventLogStore ----------------------------
(***************************************************************************)
(* The on-disk event log: world/event_log_writer.py (a part-file writer per *)
(* partition, a manifest sidecar per root, a seal marker per partition) and *)
(* the digest readers of world/event_log_merkle.py.                        *)
(* world/trace_edge_store.py mirrors it line by line for trace edges.      *)
(*                                                                         *)
(* The only coordination is the file system: exists(), mkdir(), exclusive   *)
(* creation and the contents of files.  One action per file-system call, so *)
(* calls of several processes interleave between any two of them, a process *)
(* can die between them, and a file that is being written is visible.      *)
(***************************************************************************)
EXTENDS Lists, Naturals, Sequences, FiniteSets

CONSTANTS
  Roots,       \* event-log roots
  Cells,       \* partition directories
  Root,        \* [Cells -> Roots]
  Manifests,   \* EventLogManifest values
  Writers,     \* processes that use an EventLogPartitionWriter
  Records,     \* EventLogRecord values
  Key,         \* [Records -> Nat]: rank of canonical_sort_key
  Batches,     \* the sequences of records handed to append()
  MaxAppends,  \* bound: no append() is called once so many have returned
  MaxCrashes   \* bound: how many processes die

ASSUME RootAssumption == Root \in [Cells -> Roots]
ASSUME KeyAssumption == Key \in [Records -> Nat]
ASSUME BatchAssumption == Batches \subseteq Seq(Records) \ {<<>>}
ASSUME BoundAssumption == MaxAppends \in Nat /\ MaxCrashes \in Nat

VARIABLES
  sidecar,    \* per root: no file, a torn file, or the manifest it holds
  dirs,       \* partition directories that exist
  parts,      \* part files
  sealed,     \* partitions with a _SEALED marker
  pc,         \* per writer: the file-system call it makes next
  cell,       \* per writer: partition_key (with its root)
  manifest,   \* per writer: the manifest it was constructed with
  batch,      \* per writer: records of the running append(), sorted
  target,     \* per writer: part-file index it chose
  acked,      \* <<cell, index>> of the appends that returned a result
  atSeal,     \* per partition: part files, and writers inside append(), when it was sealed
  reader,     \* a process that computes a root digest
  crashes

writerVars == <<pc, cell, manifest, batch, target>>
diskVars == <<sidecar, dirs, parts, sealed>>
vars == <<diskVars, writerVars, acked, atSeal, reader, crashes>>

Absent == "absent"
Torn == "torn"

ASSUME ManifestAssumption == Absent \notin Manifests /\ Torn \notin Manifests

(* written counts the whole lines on disk; cut: a torn line follows them. *)
PartFile == [cell : Cells, index : Nat, owner : Writers, manifest : Manifests,
             batch : Seq(Records), written : Nat, cut : BOOLEAN]

PartsOf(c) == {f \in parts : f.cell = c}
Indexes(c) == {f.index : f \in PartsOf(c)}
Whole(f) == f.written = Len(f.batch)
Lines(f) == SubSeq(f.batch, 1, f.written)
PartAt(c, i) == CHOOSE f \in parts : f.cell = c /\ f.index = i

AppendSteps == {"mkdir", "manifest", "new_sidecar", "write_sidecar", "list", "create", "write"}
SealSteps == {"seal_mkdir", "seal"}

(* Plausible bug: the order of arrival is kept. *)
SortByArrival(s) == s

(* sorted(..., key=canonical_sort_key): equal keys keep their order. *)
SortByKey(s) == SortedBy(Key, s)

IdleReader == [pc |-> "idle", todo |-> {}, cell |-> "-", files |-> {}, read |-> {},
               owed |-> {}]

Init ==
  /\ sidecar = [r \in Roots |-> Absent]
  /\ dirs = {}
  /\ parts = {}
  /\ sealed = {}
  /\ pc = [w \in Writers |-> "new"]
  /\ cell \in [Writers -> Cells]
  /\ manifest \in [Writers -> Manifests]
  /\ batch = [w \in Writers |-> <<>>]
  /\ target = [w \in Writers |-> 0]
  /\ acked = {}
  /\ atSeal = [c \in Cells |-> [indexes |-> {}, inFlight |-> {}]]
  /\ reader = IdleReader
  /\ crashes = 0

Goto(w, step) == pc' = [pc EXCEPT ![w] = step]

(* A raise leaves whatever is on disk; the writer can be called again. *)
Raise(w) == Goto(w, "ready") /\ UNCHANGED diskVars

(* __post_init__: an existing sidecar must parse and compare equal. *)
Construct(w) ==
  /\ pc[w] = "new"
  /\ Goto(w, IF sidecar[Root[cell[w]]] \in {Absent, manifest[w]} THEN "ready" ELSE "refused")
  /\ UNCHANGED <<diskVars, cell, manifest, batch, target, acked, atSeal, reader, crashes>>

(***************************************************************************)
(* append()                                                                *)
(***************************************************************************)
(* Plausible bug: the seal is not looked for. *)
BeginAppendSealed(w) ==
  /\ pc[w] = "ready"
  /\ Cardinality(acked) < MaxAppends
  /\ \E b \in Batches : batch' = [batch EXCEPT ![w] = SortByKey(b)]
  /\ Goto(w, "mkdir")
  /\ UNCHANGED <<diskVars, cell, manifest, target, acked, atSeal, reader, crashes>>

(* A sealed partition raises; so do records of another partition. *)
BeginAppend(w) ==
  /\ pc[w] = "ready"
  /\ Cardinality(acked) < MaxAppends
  /\ cell[w] \notin sealed
  /\ \E b \in Batches : batch' = [batch EXCEPT ![w] = SortByKey(b)]
  /\ Goto(w, "mkdir")
  /\ UNCHANGED <<diskVars, cell, manifest, target, acked, atSeal, reader, crashes>>

MakeDir(w) ==
  /\ pc[w] = "mkdir"
  /\ dirs' = dirs \cup {cell[w]}
  /\ Goto(w, "manifest")
  /\ UNCHANGED <<sidecar, parts, sealed, cell, manifest, batch, target, acked, atSeal, reader,
                 crashes>>

(* Plausible bug: a sidecar that parses is good enough. *)
CheckManifestParses(w) ==
  LET found == sidecar[Root[cell[w]]] IN
  /\ pc[w] = "manifest"
  /\ \/ found = Absent /\ Goto(w, "new_sidecar") /\ UNCHANGED diskVars
     \/ found \in Manifests /\ Goto(w, "list") /\ UNCHANGED diskVars
     \/ found = Torn /\ Raise(w)
  /\ UNCHANGED <<cell, manifest, batch, target, acked, atSeal, reader, crashes>>

(* ensure_manifest_sidecar(): verify what is there, or go and write it. *)
CheckManifest(w) ==
  LET found == sidecar[Root[cell[w]]] IN
  /\ pc[w] = "manifest"
  /\ \/ found = Absent /\ Goto(w, "new_sidecar") /\ UNCHANGED diskVars
     \/ found = manifest[w] /\ Goto(w, "list") /\ UNCHANGED diskVars
     \/ found \notin {Absent, manifest[w]} /\ Raise(w)
  /\ UNCHANGED <<cell, manifest, batch, target, acked, atSeal, reader, crashes>>

(* write_manifest_sidecar(): exclusive creation, then the body. *)
CreateSidecar(w) ==
  LET r == Root[cell[w]] IN
  /\ pc[w] = "new_sidecar"
  /\ \/ /\ sidecar[r] = Absent
        /\ sidecar' = [sidecar EXCEPT ![r] = Torn]
        /\ Goto(w, "write_sidecar")
        /\ UNCHANGED <<dirs, parts, sealed>>
     \/ sidecar[r] # Absent /\ Raise(w)
  /\ UNCHANGED <<cell, manifest, batch, target, acked, atSeal, reader, crashes>>

WriteSidecar(w) ==
  /\ pc[w] = "write_sidecar"
  /\ sidecar' = [sidecar EXCEPT ![Root[cell[w]]] = manifest[w]]
  /\ Goto(w, "list")
  /\ UNCHANGED <<dirs, parts, sealed, cell, manifest, batch, target, acked, atSeal, reader,
                 crashes>>

(* Plausible bug: the complete part files are counted. *)
ListPartsByCount(w) ==
  /\ pc[w] = "list"
  /\ target' = [target EXCEPT ![w] = Cardinality({f \in PartsOf(cell[w]) : Whole(f)}) + 1]
  /\ Goto(w, "create")
  /\ UNCHANGED <<diskVars, cell, manifest, batch, acked, atSeal, reader, crashes>>

(* _next_part_file_path(): one more than the largest index in the listing. *)
ListParts(w) ==
  /\ pc[w] = "list"
  /\ \E n \in {0} \cup Indexes(cell[w]) :
       /\ \A i \in Indexes(cell[w]) : i <= n
       /\ target' = [target EXCEPT ![w] = n + 1]
  /\ Goto(w, "create")
  /\ UNCHANGED <<diskVars, cell, manifest, batch, acked, atSeal, reader, crashes>>

(* Plausible bugs: open("ab") and open("wb") instead of open("xb"). *)
CreatePartShared(w) ==
  /\ pc[w] = "create"
  /\ parts' = parts \cup {[cell |-> cell[w], index |-> target[w], owner |-> w,
                           manifest |-> manifest[w], batch |-> batch[w],
                           written |-> 0, cut |-> FALSE]}
  /\ Goto(w, "write")
  /\ UNCHANGED <<sidecar, dirs, sealed, cell, manifest, batch, target, acked, atSeal, reader,
                 crashes>>

CreatePartTruncating(w) ==
  /\ pc[w] = "create"
  /\ parts' = {f \in parts : f.cell # cell[w] \/ f.index # target[w]}
                 \cup {[cell |-> cell[w], index |-> target[w], owner |-> w,
                        manifest |-> manifest[w], batch |-> batch[w],
                        written |-> 0, cut |-> FALSE]}
  /\ Goto(w, "write")
  /\ UNCHANGED <<sidecar, dirs, sealed, cell, manifest, batch, target, acked, atSeal, reader,
                 crashes>>

(* exists() and then open("xb"): either refuses a name that is taken. *)
CreatePart(w) ==
  /\ pc[w] = "create"
  /\ \/ /\ target[w] \notin Indexes(cell[w])
        /\ parts' = parts \cup {[cell |-> cell[w], index |-> target[w], owner |-> w,
                                 manifest |-> manifest[w], batch |-> batch[w],
                                 written |-> 0, cut |-> FALSE]}
        /\ Goto(w, "write")
        /\ UNCHANGED <<sidecar, dirs, sealed>>
     \/ target[w] \in Indexes(cell[w]) /\ Raise(w)
  /\ UNCHANGED <<cell, manifest, batch, target, acked, atSeal, reader, crashes>>

OpenPart(w) == PartAt(cell[w], target[w])

(* A buffer reaches the disk: any longer prefix of the body, a line torn or not. *)
WritePart(w) ==
  /\ pc[w] = "write"
  /\ ~Whole(OpenPart(w))
  /\ \E n \in OpenPart(w).written..Len(batch[w]), torn \in BOOLEAN :
       /\ n = Len(batch[w]) => ~torn
       /\ n > OpenPart(w).written \/ (torn /\ ~OpenPart(w).cut)
       /\ parts' = (parts \ {OpenPart(w)})
                     \cup {[OpenPart(w) EXCEPT !.written = n, !.cut = torn]}
  /\ UNCHANGED <<sidecar, dirs, sealed, writerVars, acked, atSeal, reader, crashes>>

(* Plausible bug: the result is returned before the file is closed. *)
ReturnResultEarly(w) ==
  /\ pc[w] = "write"
  /\ acked' = acked \cup {<<cell[w], target[w]>>}
  /\ Goto(w, "ready")
  /\ UNCHANGED <<diskVars, cell, manifest, batch, target, atSeal, reader, crashes>>

ReturnResult(w) ==
  /\ pc[w] = "write"
  /\ Whole(OpenPart(w))
  /\ acked' = acked \cup {<<cell[w], target[w]>>}
  /\ Goto(w, "ready")
  /\ UNCHANGED <<diskVars, cell, manifest, batch, target, atSeal, reader, crashes>>

(***************************************************************************)
(* seal()                                                                  *)
(***************************************************************************)
BeginSeal(w) ==
  /\ pc[w] = "ready"
  /\ cell[w] \notin sealed
  /\ Goto(w, IF cell[w] \in dirs THEN "seal" ELSE "seal_mkdir")
  /\ UNCHANGED <<diskVars, cell, manifest, batch, target, acked, atSeal, reader, crashes>>

MakeSealDir(w) ==
  /\ pc[w] = "seal_mkdir"
  /\ dirs' = dirs \cup {cell[w]}
  /\ Goto(w, "seal")
  /\ UNCHANGED <<sidecar, parts, sealed, cell, manifest, batch, target, acked, atSeal, reader,
                 crashes>>

InAppend(c) == {w \in Writers : cell[w] = c /\ pc[w] \in AppendSteps}

CreateMarker(w) ==
  /\ pc[w] = "seal"
  /\ \/ /\ cell[w] \notin sealed
        /\ sealed' = sealed \cup {cell[w]}
        /\ atSeal' = [atSeal EXCEPT ![cell[w]] = [indexes |-> Indexes(cell[w]),
                                                  inFlight |-> InAppend(cell[w])]]
        /\ Goto(w, "ready")
        /\ UNCHANGED <<sidecar, dirs, parts>>
     \/ cell[w] \in sealed /\ Raise(w) /\ UNCHANGED atSeal
  /\ UNCHANGED <<cell, manifest, batch, target, acked, reader, crashes>>

(***************************************************************************)
(* A process dies where it stands; another one takes its place, and may be  *)
(* about another partition or manifest.                                     *)
(***************************************************************************)
Crash(w) ==
  /\ pc[w] \in AppendSteps \cup SealSteps
  /\ crashes < MaxCrashes
  /\ crashes' = crashes + 1
  /\ Goto(w, "new")
  /\ \E c \in Cells : cell' = [cell EXCEPT ![w] = c]
  /\ \E m \in Manifests : manifest' = [manifest EXCEPT ![w] = m]
  /\ batch' = [batch EXCEPT ![w] = <<>>]
  /\ target' = [target EXCEPT ![w] = 0]
  /\ UNCHANGED <<diskVars, acked, atSeal, reader>>

(***************************************************************************)
(* compute_event_log_root_digest(): the sidecar, the partitions, then the   *)
(* part files of one partition after the other, while writers go on.        *)
(***************************************************************************)
StartDigest(r) ==
  /\ reader.pc = "idle"
  /\ sidecar[r] \notin {Absent, Torn}
  /\ reader' = [IdleReader EXCEPT !.pc = "partition",
                                  !.todo = {c \in dirs : Root[c] = r},
                                  !.owed = {a \in acked : Root[a[1]] = r}]
  /\ UNCHANGED <<diskVars, writerVars, acked, atSeal, crashes>>

(* Plausible bug: the last part file is taken to be open still. *)
ListPartitionButLast ==
  /\ reader.pc = "partition"
  /\ \E c \in reader.todo :
       reader' = [reader EXCEPT !.pc = "file", !.todo = @ \ {c}, !.cell = c,
                                !.files = {i \in Indexes(c) : i + 1 \in Indexes(c)}]
  /\ UNCHANGED <<diskVars, writerVars, acked, atSeal, crashes>>

ListPartition ==
  /\ reader.pc = "partition"
  /\ \E c \in reader.todo :
       reader' = [reader EXCEPT !.pc = "file", !.todo = @ \ {c}, !.cell = c,
                                !.files = Indexes(c)]
  /\ UNCHANGED <<diskVars, writerVars, acked, atSeal, crashes>>

(* read_partition_part_file(): a torn last line is not JSON, and raises. *)
ReadPart ==
  /\ reader.pc = "file"
  /\ \E i \in reader.files :
       /\ \A j \in reader.files : i <= j
       /\ LET f == PartAt(reader.cell, i) IN
          reader' = IF f.cut THEN IdleReader
                    ELSE [reader EXCEPT !.files = @ \ {i},
                            !.read = @ \cup {[cell |-> f.cell, index |-> i, lines |-> Lines(f)]}]
  /\ UNCHANGED <<diskVars, writerVars, acked, atSeal, crashes>>

FinishPartition ==
  /\ reader.pc = "file"
  /\ reader.files = {}
  /\ reader' = [reader EXCEPT !.pc = IF reader.todo = {} THEN "done" ELSE "partition"]
  /\ UNCHANGED <<diskVars, writerVars, acked, atSeal, crashes>>

WriterStep(w) ==
  \/ Construct(w) \/ MakeDir(w) \/ CheckManifest(w) \/ CreateSidecar(w) \/ WriteSidecar(w)
  \/ ListParts(w) \/ CreatePart(w) \/ WritePart(w) \/ ReturnResult(w)
  \/ MakeSealDir(w) \/ CreateMarker(w)

WriteNext == \E w \in Writers : WriterStep(w) \/ BeginAppend(w) \/ BeginSeal(w) \/ Crash(w)
DigestNext == (\E r \in Roots : StartDigest(r)) \/ ListPartition \/ ReadPart \/ FinishPartition

Next == WriteNext \/ DigestNext

Spec == Init /\ [][Next]_vars
-----------------------------------------------------------------------------
(* Writers only.  Every call is a straight line of file-system calls, and a  *)
(* host that wants to append keeps calling append() after a raise.          *)
RetrySpec ==
  Init /\ [][WriteNext]_vars
       /\ \A w \in Writers : WF_vars(WriterStep(w)) /\ WF_vars(BeginAppend(w))

(***************************************************************************)
(* Types.                                                                  *)
(***************************************************************************)
Steps == {"new", "refused", "ready"} \cup AppendSteps \cup SealSteps

TypeOK ==
  /\ sidecar \in [Roots -> Manifests \cup {Absent, Torn}]
  /\ dirs \subseteq Cells
  /\ parts \subseteq PartFile
  /\ \A f \in parts : f.written <= Len(f.batch)
  /\ sealed \subseteq Cells
  /\ pc \in [Writers -> Steps]
  /\ cell \in [Writers -> Cells]
  /\ manifest \in [Writers -> Manifests]
  /\ batch \in [Writers -> Seq(Records)]
  /\ target \in [Writers -> Nat]
  /\ acked \subseteq Cells \X Nat
  /\ atSeal \in [Cells -> [indexes : SUBSET Nat, inFlight : SUBSET Writers]]
  /\ reader.pc \in {"idle", "partition", "file", "done"}
  /\ reader.todo \subseteq Cells
  /\ crashes \in 0..MaxCrashes

(***************************************************************************)
(* Safety.                                                                 *)
(***************************************************************************)
(* Whoever races for the next index, and whatever a crash left behind, the  *)
(* part files of a partition are numbered 1, 2, ... with one file each.     *)
IndexesContiguous ==
  \A c \in Cells : Indexes(c) = 1..Cardinality(PartsOf(c))

(* "Existing part files are never rewritten": a file only grows, in the      *)
(* hands of the append() that created it, and never after that returned.    *)
NeverRewritten ==
  [][\A f \in parts :
       \/ f \in parts'
       \/ /\ <<f.cell, f.index>> \notin acked
          /\ pc[f.owner] = "write" /\ OpenPart(f.owner) = f
          /\ \E g \in parts' : /\ g.written >= f.written
                               /\ [g EXCEPT !.written = f.written, !.cut = f.cut] = f]_vars

(* An append() that returned a result has its records on disk, all of them. *)
AckedIsWhole ==
  \A a \in acked : \E f \in parts : f.cell = a[1] /\ f.index = a[2] /\ Whole(f) /\ ~f.cut

(* All part files under one root were serialised with the manifest of its    *)
(* sidecar, also when several first appends race to write it.               *)
OneManifestPerRoot == \A f \in parts : sidecar[Root[f.cell]] = f.manifest

(* A part file that appears after the seal belongs to an append() that had   *)
(* passed is_sealed() before, and each such append() leaves one at most.    *)
LateAppendsWereInFlight ==
  \A c \in sealed :
    LET new == {f \in PartsOf(c) : f.index \notin atSeal[c].indexes} IN
    /\ \A f \in new : f.owner \in atSeal[c].inFlight
    /\ Cardinality({f.owner : f \in new}) = Cardinality(new)

(* event_log_writer.py:42, of the seal marker: "Once present in a partition  *)
(* directory, that partition refuses further appends."                      *)
SealedRefusesAppends ==
  \A c \in sealed : Indexes(c) = atSeal[c].indexes

(* A root digest that is returned covers every append() that had returned    *)
(* when the computation began, in full, whatever was written meanwhile.     *)
DigestCoversAcked ==
  reader.pc = "done" =>
    \A a \in reader.owed : \E p \in reader.read :
      p.cell = a[1] /\ p.index = a[2] /\ p.lines = PartAt(a[1], a[2]).batch

(***************************************************************************)
(* The leaf digest.                                                        *)
(***************************************************************************)
(* compute_partition_leaf_digest(): the lines in the order of the part       *)
(* files, sorted by key; hashing is taken to be injective.                  *)
LeafMaterial(c) ==
  SortByKey(Flattened([n \in 1..Cardinality(PartsOf(c)) |-> Lines(PartAt(c, n))]))

Copies(s, r) == Cardinality({i \in DOMAIN s : s[i] = r})
SameRecords(s, t) == \A r \in Records : Copies(s, r) = Copies(t, r)

(* compute_leaf_digest(): "insertion order is irrelevant".  Two partitions    *)
(* with the same records, split over appends in any way and in any order,   *)
(* have the same leaf digest, if no two records share a sort key.           *)
DigestIgnoresInsertionOrder ==
  (\A r, s \in Records : Key[r] = Key[s] => r = s) =>
    \A c, d \in Cells :
      SameRecords(LeafMaterial(c), LeafMaterial(d)) => LeafMaterial(c) = LeafMaterial(d)

(***************************************************************************)
(* Progress.                                                               *)
(***************************************************************************)
(* Collisions on an index or on the sidecar, and crashes, never wear the     *)
(* writers out: appends go on until each writer is shut out by a seal, or by *)
(* a sidecar that is torn or holds another manifest.                        *)
ShutOut(w) ==
  \/ pc[w] = "refused"
  \/ cell[w] \in sealed
  \/ sidecar[Root[cell[w]]] \notin {Absent, manifest[w]}

KeepsAppending ==
  <>(Cardinality(acked) >= MaxAppends) \/ <>[](\A w \in Writers : ShutOut(w))
=============================================================================
