------------------------- MODULE EventLogStoreProofs -------------------------
(***************************************************************************)
(* Proofs about EventLogStore, for any number of roots, partitions, writers, *)
(* manifests and records, and without a bound on appends and crashes.      *)
(***************************************************************************)
EXTENDS EventLogStore, RankLemmas

(***************************************************************************)
(* Sorting by key returns a sequence of the same records.                   *)
(***************************************************************************)
LEMMA RecordLists ==
  ASSUME NEW s \in Seq(Records)
  PROVE  IsLog(s) /\ DOMAIN s = 1..Len(s) /\ \A i \in DOMAIN s : s[i] \in Records /\ Key[s[i]] \in Int
<1>1. Len(s) \in Nat /\ DOMAIN s = 1..Len(s) /\ \A i \in 1..Len(s) : s[i] \in Records
  OBVIOUS
<1>2. s = [i \in 1..Len(s) |-> s[i]]
  OBVIOUS
<1>. QED  BY <1>1, <1>2, KeyAssumption DEF IsLog

(* sorted(batch, key=canonical_sort_key) returns as many records as it is given. *)
LEMMA SortByKeyType ==
  ASSUME NEW s \in Seq(Records)
  PROVE  SortByKey(s) \in Seq(Records) /\ Len(SortByKey(s)) = Len(s)
<1>. DEFINE t == SortByKey(s)
<1>1. IsLog(s) /\ \A i \in DOMAIN s : s[i] \in Records /\ Key[s[i]] \in Int
  BY RecordLists
<1>2. IsLog(t) /\ Permuted(t, s)
  BY <1>1, SortedIs DEF SortByKey
<1>. HIDE DEF t
<1>3. Len(t) = Len(s) /\ EntriesOf(t) = EntriesOf(s)
  BY <1>1, <1>2, PermutedSame
<1>4. DOMAIN t = 1..Len(t) /\ Len(t) \in Nat
  BY <1>2 DEF IsLog
<1>5. \A i \in 1..Len(t) : t[i] \in Records
  BY <1>1, <1>3, <1>4 DEF EntriesOf
<1>6. t \in [1..Len(t) -> Records]
  BY <1>2, <1>5 DEF IsLog
<1>7. t \in Seq(Records)
  BY <1>4, <1>6, IsASeq
<1>. QED  BY <1>3, <1>7 DEF t

(***************************************************************************)
(* Types and the part files.                                               *)
(***************************************************************************)
ReaderShape ==
  reader = [pc |-> reader.pc, todo |-> reader.todo, cell |-> reader.cell,
            files |-> reader.files, read |-> reader.read, owed |-> reader.owed]

OneFilePerName ==
  \A f, g \in parts : f.cell = g.cell /\ f.index = g.index => f = g

(* f is the file the running append() of w has created. *)
IsOpenFile(w, f) ==
  /\ f.cell = cell[w] /\ f.index = target[w] /\ f.owner = w
  /\ f.manifest = manifest[w] /\ f.batch = batch[w]

(* A writer that writes has a file of its own open, not acknowledged yet. *)
OpenFiles ==
  \A w \in Writers : pc[w] = "write" =>
    /\ \E f \in parts : IsOpenFile(w, f)
    /\ <<cell[w], target[w]>> \notin acked

CutFilesAreShort == \A f \in parts : Whole(f) => ~f.cut

DiskInv ==
  /\ TypeOK /\ ReaderShape
  /\ OneFilePerName /\ OpenFiles /\ CutFilesAreShort /\ AckedIsWhole

(* The file append() writes to is the one it created: no other file has its name. *)
LEMMA OpenPartIsOpen ==
  ASSUME OneFilePerName, OpenFiles, NEW w \in Writers, pc[w] = "write"
  PROVE  OpenPart(w) \in parts /\ IsOpenFile(w, OpenPart(w))
<1>1. PICK f \in parts : IsOpenFile(w, f)
  BY DEF OpenFiles
<1>2. OpenPart(w) \in parts /\ OpenPart(w).cell = cell[w] /\ OpenPart(w).index = target[w]
  BY <1>1 DEF OpenPart, PartAt, IsOpenFile
<1>3. OpenPart(w) = f
  BY <1>1, <1>2 DEF OneFilePerName, IsOpenFile
<1>. QED  BY <1>1, <1>3

(***************************************************************************)
(* What a step does to the part files: nothing, a new file, more of an open  *)
(* one, or the acknowledgement of a finished one.                          *)
(***************************************************************************)
Quiet ==
  /\ parts' = parts /\ acked' = acked
  /\ \A w \in Writers : pc'[w] = "write" =>
       /\ pc[w] = "write" /\ cell'[w] = cell[w] /\ target'[w] = target[w]
       /\ manifest'[w] = manifest[w] /\ batch'[w] = batch[w]

NewPart(w) ==
  [cell |-> cell[w], index |-> target[w], owner |-> w, manifest |-> manifest[w],
   batch |-> batch[w], written |-> 0, cut |-> FALSE]

Creates(w) ==
  /\ pc[w] = "create" /\ target[w] \notin Indexes(cell[w])
  /\ parts' = parts \cup {NewPart(w)}
  /\ pc' = [pc EXCEPT ![w] = "write"]
  /\ UNCHANGED <<sidecar, dirs, sealed, cell, manifest, batch, target, acked, atSeal, reader,
                 crashes>>

(* Seen from the part files there are four kinds of step: those that leave the *)
(* files, the results and the open files alone, creation, writing and return. *)
LEMMA StepKinds ==
  ASSUME TypeOK, [Next]_vars
  PROVE  Quiet \/ \E w \in Writers : Creates(w) \/ WritePart(w) \/ ReturnResult(w)
<1> USE DEF diskVars, writerVars, Goto, Raise
<1>0. pc \in [Writers -> Steps] /\ target \in [Writers -> Nat]
      /\ batch \in [Writers -> Seq(Records)] /\ cell \in [Writers -> Cells]
      /\ manifest \in [Writers -> Manifests]
  BY DEF TypeOK
<1>1. ASSUME NEW w \in Writers, Construct(w) \/ MakeDir(w) \/ CheckManifest(w)
             \/ CreateSidecar(w) \/ WriteSidecar(w)
      PROVE  Quiet
  BY <1>0, <1>1 DEF Quiet, Construct, MakeDir, CheckManifest, CreateSidecar, WriteSidecar
<1>2. ASSUME NEW w \in Writers, ListParts(w) \/ MakeSealDir(w) \/ CreateMarker(w)
             \/ BeginAppend(w) \/ BeginSeal(w) \/ Crash(w)
      PROVE  Quiet
  BY <1>0, <1>2 DEF Quiet, ListParts, MakeSealDir, CreateMarker, BeginAppend, BeginSeal, Crash
<1>3. ASSUME NEW w \in Writers, CreatePart(w) PROVE Quiet \/ Creates(w)
  BY <1>0, <1>3 DEF Quiet, CreatePart, Creates, NewPart
<1>4. ASSUME DigestNext PROVE Quiet
  BY <1>4 DEF Quiet, DigestNext, StartDigest, ListPartition, ReadPart, FinishPartition
<1>5. CASE UNCHANGED vars
  BY <1>5 DEF Quiet, vars
<1>. QED  BY <1>1, <1>2, <1>3, <1>4, <1>5 DEF Next, WriteNext, WriterStep

(* The invariant holds on an empty disk. *)
LEMMA DiskInit == Init => DiskInv
<1> SUFFICES ASSUME Init PROVE DiskInv
  OBVIOUS
<1>1. TypeOK
  <2>1. <<>> \in Seq(Records)
    OBVIOUS
  <2>. QED
    BY <2>1, BoundAssumption, RootAssumption
       DEF Init, TypeOK, Steps, IdleReader, PartFile, AppendSteps
<1>2. ReaderShape
  BY DEF Init, ReaderShape, IdleReader
<1>3. OneFilePerName /\ OpenFiles /\ CutFilesAreShort /\ AckedIsWhole
  BY DEF Init, OneFilePerName, OpenFiles, CutFilesAreShort, AckedIsWhole
<1>. QED  BY <1>1, <1>2, <1>3 DEF DiskInv

(* What WritePart puts in the place of the open file. *)
LEMMA WritingGrows ==
  ASSUME DiskInv, NEW w \in Writers, WritePart(w)
  PROVE  \E f, g \in PartFile :
           /\ f \in parts /\ IsOpenFile(w, f) /\ f = OpenPart(w) /\ ~Whole(f)
           /\ parts' = (parts \ {f}) \cup {g}
           /\ g.cell = f.cell /\ g.index = f.index /\ g.owner = f.owner
           /\ g.manifest = f.manifest /\ g.batch = f.batch
           /\ g.written >= f.written /\ g.written <= Len(g.batch)
           /\ Whole(g) => ~g.cut
           /\ [g EXCEPT !.written = f.written, !.cut = f.cut] = f
<1> DEFINE f == OpenPart(w)
<1>1. pc[w] = "write" /\ ~Whole(f)
  BY DEF WritePart
<1>2. f \in parts /\ IsOpenFile(w, f) /\ f \in PartFile /\ batch[w] \in Seq(Records)
      /\ f.written \in Nat /\ f.written <= Len(f.batch)
  BY <1>1, OpenPartIsOpen DEF DiskInv, TypeOK, PartFile
<1>3. PICK n \in f.written..Len(batch[w]), torn \in BOOLEAN :
        /\ n = Len(batch[w]) => ~torn
        /\ parts' = (parts \ {f}) \cup {[f EXCEPT !.written = n, !.cut = torn]}
  BY DEF WritePart
<1> DEFINE g == [f EXCEPT !.written = n, !.cut = torn]
<1> HIDE DEF f
<1>4. n \in Nat /\ n >= f.written /\ n <= Len(batch[w])
  BY <1>2, <1>3
<1>5. /\ g \in PartFile /\ g.cell = f.cell /\ g.index = f.index /\ g.owner = f.owner
      /\ g.manifest = f.manifest /\ g.batch = f.batch /\ g.written = n /\ g.cut = torn
  BY <1>2, <1>4 DEF PartFile
<1>6. [g EXCEPT !.written = f.written, !.cut = f.cut] = f
  BY <1>2 DEF PartFile
<1> HIDE DEF g
<1>7. Whole(g) => ~g.cut
  BY <1>2, <1>3, <1>5 DEF Whole, IsOpenFile
<1>8. g.written >= f.written /\ g.written <= Len(g.batch)
  BY <1>2, <1>4, <1>5 DEF IsOpenFile
<1>9. parts' = (parts \ {f}) \cup {g}
  BY <1>3 DEF g
<1>10. f = OpenPart(w)
  BY DEF f
<1>. QED  BY <1>1, <1>2, <1>5, <1>6, <1>7, <1>8, <1>9, <1>10 DEF f

(* The types survive every step. *)
LEMMA PartTypes ==
  ASSUME DiskInv, [Next]_vars
  PROVE  parts' \subseteq PartFile /\ \A f \in parts' : f.written <= Len(f.batch)
<1>1. TypeOK
  BY DEF DiskInv
<1>2. CASE Quiet
  BY <1>1, <1>2 DEF Quiet, TypeOK
<1>3. ASSUME NEW w \in Writers, Creates(w)
      PROVE  parts' \subseteq PartFile /\ \A f \in parts' : f.written <= Len(f.batch)
  <2>1. NewPart(w) \in PartFile /\ NewPart(w).written = 0 /\ NewPart(w).batch = batch[w]
    BY <1>1 DEF NewPart, PartFile, TypeOK
  <2>2. 0 <= Len(batch[w])
    BY <1>1 DEF TypeOK
  <2> HIDE DEF NewPart
  <2>. QED  BY <1>1, <1>3, <2>1, <2>2 DEF Creates, TypeOK
<1>4. ASSUME NEW w \in Writers, WritePart(w)
      PROVE  parts' \subseteq PartFile /\ \A f \in parts' : f.written <= Len(f.batch)
  BY <1>1, <1>4, WritingGrows DEF TypeOK
<1>5. ASSUME NEW w \in Writers, ReturnResult(w)
      PROVE  parts' \subseteq PartFile /\ \A f \in parts' : f.written <= Len(f.batch)
  BY <1>1, <1>5 DEF TypeOK, ReturnResult, diskVars
<1>. QED  BY <1>1, <1>2, <1>3, <1>4, <1>5, StepKinds

(* Every step keeps the types and the shape of the digest reader.           *)
LEMMA TypesKept ==
  ASSUME DiskInv, [Next]_vars
  PROVE  TypeOK' /\ ReaderShape'
<1> USE DEF diskVars, writerVars, Goto, Raise
<1> DEFINE
     Rest == /\ sidecar \in [Roots -> Manifests \cup {Absent, Torn}]
             /\ dirs \subseteq Cells /\ sealed \subseteq Cells
             /\ pc \in [Writers -> Steps]
             /\ cell \in [Writers -> Cells] /\ manifest \in [Writers -> Manifests]
             /\ batch \in [Writers -> Seq(Records)] /\ target \in [Writers -> Nat]
             /\ acked \subseteq Cells \X Nat
             /\ atSeal \in [Cells -> [indexes : SUBSET Nat, inFlight : SUBSET Writers]]
             /\ crashes \in 0..MaxCrashes
     Reader == /\ reader.pc \in {"idle", "partition", "file", "done"}
               /\ reader.todo \subseteq Cells /\ ReaderShape
<1>0. /\ TypeOK /\ Rest /\ Reader
      /\ \A w \in Writers : Root[cell[w]] \in Roots
      /\ \A c \in Cells : Indexes(c) \in SUBSET Nat
  BY RootAssumption DEF DiskInv, TypeOK, Indexes, PartsOf, PartFile
<1>1. Rest'
  <2> USE DEF Steps, AppendSteps, SealSteps
  <2>1. ASSUME NEW w \in Writers, Construct(w) \/ MakeDir(w) \/ CheckManifest(w) PROVE Rest'
    BY <1>0, <2>1 DEF Construct, MakeDir, CheckManifest
  <2>2. ASSUME NEW w \in Writers, CreateSidecar(w) \/ WriteSidecar(w) PROVE Rest'
    BY <1>0, <2>2 DEF CreateSidecar, WriteSidecar
  <2>3. ASSUME NEW w \in Writers, ListParts(w) PROVE Rest'
    BY <1>0, <2>3 DEF ListParts
  <2>4. ASSUME NEW w \in Writers, CreatePart(w) \/ WritePart(w) \/ ReturnResult(w) PROVE Rest'
    <3>1. CASE CreatePart(w)
      <4>1. /\ sidecar' = sidecar /\ dirs' = dirs /\ sealed' = sealed /\ cell' = cell
            /\ manifest' = manifest /\ batch' = batch /\ target' = target /\ acked' = acked
            /\ atSeal' = atSeal /\ crashes' = crashes
            /\ pc' = [pc EXCEPT ![w] = "write"] \/ pc' = [pc EXCEPT ![w] = "ready"]
        BY <3>1 DEF CreatePart
      <4>. QED  BY <1>0, <4>1
    <3>2. CASE WritePart(w)
      BY <1>0, <3>2 DEF WritePart
    <3>3. CASE ReturnResult(w)
      BY <1>0, <3>3 DEF ReturnResult
    <3>. QED  BY <2>4, <3>1, <3>2, <3>3
  <2>5. ASSUME NEW w \in Writers, MakeSealDir(w) \/ BeginSeal(w) PROVE Rest'
    BY <1>0, <2>5 DEF MakeSealDir, BeginSeal
  <2>6. ASSUME NEW w \in Writers, CreateMarker(w) PROVE Rest'
    <3>1. InAppend(cell[w]) \in SUBSET Writers
      BY DEF InAppend
    <3>2. [indexes |-> Indexes(cell[w]), inFlight |-> InAppend(cell[w])]
            \in [indexes : SUBSET Nat, inFlight : SUBSET Writers]
      BY <1>0, <3>1
    <3>3. /\ sidecar' = sidecar /\ dirs' = dirs /\ cell' = cell /\ manifest' = manifest
          /\ batch' = batch /\ target' = target /\ acked' = acked /\ crashes' = crashes
          /\ pc' = [pc EXCEPT ![w] = "ready"]
          /\ sealed' = sealed \/ sealed' = sealed \cup {cell[w]}
          /\ \/ atSeal' = atSeal
             \/ atSeal' = [atSeal EXCEPT ![cell[w]] =
                             [indexes |-> Indexes(cell[w]), inFlight |-> InAppend(cell[w])]]
      BY <2>6 DEF CreateMarker
    <3>4. atSeal' \in [Cells -> [indexes : SUBSET Nat, inFlight : SUBSET Writers]]
      BY <1>0, <3>2, <3>3
    <3>. QED  BY <1>0, <3>3, <3>4
  <2>7. ASSUME NEW w \in Writers, BeginAppend(w) PROVE Rest'
    <3>1. \A b \in Batches : SortByKey(b) \in Seq(Records)
      BY BatchAssumption, SortByKeyType
    <3>. QED  BY <1>0, <2>7, <3>1 DEF BeginAppend
  <2>8. ASSUME NEW w \in Writers, Crash(w) PROVE Rest'
    BY <1>0, <2>8, BoundAssumption DEF Crash
  <2>9. ASSUME DigestNext PROVE Rest'
    BY <1>0, <2>9 DEF DigestNext, StartDigest, ListPartition, ReadPart, FinishPartition
  <2>10. CASE UNCHANGED vars
    BY <1>0, <2>10 DEF vars
  <2>. QED
    BY <2>1, <2>2, <2>3, <2>4, <2>5, <2>6, <2>7, <2>8, <2>9, <2>10
       DEF Next, WriteNext, WriterStep
<1>2. Reader'
  <2>1. ASSUME NEW r \in Roots, StartDigest(r) PROVE Reader'
    BY <1>0, <2>1 DEF StartDigest, IdleReader, ReaderShape
  <2>2. CASE ListPartition
    BY <1>0, <2>2 DEF ListPartition, ReaderShape
  <2>3. CASE ReadPart
    <3>1. reader.pc = "file" /\ (reader' = IdleReader \/ \E files, read :
             reader' = [reader EXCEPT !.files = files, !.read = read])
      BY <2>3 DEF ReadPart
    <3>2. CASE reader' = IdleReader
      BY <3>2 DEF IdleReader, ReaderShape
    <3>3. ASSUME NEW files, NEW read,
                 reader' = [reader EXCEPT !.files = files, !.read = read]
          PROVE  Reader'
      BY <1>0, <3>3 DEF ReaderShape
    <3>. QED  BY <3>1, <3>2, <3>3
  <2>4. CASE FinishPartition
    BY <1>0, <2>4 DEF FinishPartition, ReaderShape
  <2>5. ASSUME NEW w \in Writers, WriterStep(w) \/ BeginAppend(w) \/ BeginSeal(w) \/ Crash(w)
        PROVE  reader' = reader
    BY <2>5 DEF WriterStep, Construct, MakeDir, CheckManifest, CreateSidecar, WriteSidecar,
                ListParts, CreatePart, WritePart, ReturnResult, MakeSealDir, CreateMarker,
                BeginAppend, BeginSeal, Crash
  <2>6. CASE UNCHANGED vars
    BY <1>0, <2>6 DEF vars, ReaderShape
  <2>7. reader' = reader => Reader'
    BY <1>0 DEF ReaderShape
  <2>. QED  BY <2>1, <2>2, <2>3, <2>4, <2>5, <2>6, <2>7 DEF Next, WriteNext, DigestNext
<1>. QED  BY <1>1, <1>2, PartTypes DEF TypeOK

(* The part files stay as they should be. *)
LEMMA FilesKept ==
  ASSUME DiskInv, [Next]_vars
  PROVE  (OneFilePerName /\ OpenFiles /\ CutFilesAreShort /\ AckedIsWhole)'
<1> DEFINE Files == OneFilePerName /\ OpenFiles /\ CutFilesAreShort /\ AckedIsWhole
<1>0. TypeOK /\ Files
  BY DEF DiskInv
<1>1. CASE Quiet
  <2>1. OneFilePerName' /\ CutFilesAreShort' /\ AckedIsWhole'
    BY <1>0, <1>1 DEF Quiet, OneFilePerName, CutFilesAreShort, AckedIsWhole, Whole
  <2>2. OpenFiles'
    BY <1>0, <1>1 DEF Quiet, OpenFiles, IsOpenFile
  <2>. QED  BY <2>1, <2>2
<1>2. ASSUME NEW w \in Writers, Creates(w) PROVE Files'
  <2> DEFINE new == NewPart(w)
  <2>1. /\ new.cell = cell[w] /\ new.index = target[w] /\ new.owner = w
        /\ new.manifest = manifest[w] /\ new.batch = batch[w] /\ new.cut = FALSE
    BY DEF NewPart
  <2> HIDE DEF new
  <2>2. /\ parts' = parts \cup {new} /\ acked' = acked
        /\ cell' = cell /\ target' = target /\ manifest' = manifest /\ batch' = batch
        /\ \A v \in Writers : pc'[v] = "write" => v = w \/ pc[v] = "write"
    BY <1>0, <1>2 DEF Creates, new, TypeOK
  <2>3. \A f \in parts : ~(f.cell = cell[w] /\ f.index = target[w])
    BY <1>2 DEF Creates, Indexes, PartsOf
  <2>4. <<cell[w], target[w]>> \notin acked
    BY <1>0, <2>3 DEF AckedIsWhole
  <2>5. OneFilePerName'
    BY <1>0, <2>1, <2>2, <2>3 DEF OneFilePerName
  <2>6. CutFilesAreShort' /\ AckedIsWhole'
    BY <1>0, <2>1, <2>2 DEF CutFilesAreShort, AckedIsWhole, Whole
  <2>7. OpenFiles'
    <3> SUFFICES ASSUME NEW v \in Writers, pc'[v] = "write"
                 PROVE  /\ \E f \in parts' : IsOpenFile(v, f)'
                        /\ <<cell'[v], target'[v]>> \notin acked'
      BY DEF OpenFiles, IsOpenFile
    <3>1. CASE v = w
      BY <2>1, <2>2, <2>4, <3>1 DEF IsOpenFile
    <3>2. CASE v # w
      BY <1>0, <2>2, <3>2 DEF IsOpenFile, OpenFiles
    <3>. QED  BY <3>1, <3>2
  <2>. QED  BY <2>5, <2>6, <2>7
<1>3. ASSUME NEW w \in Writers, WritePart(w) PROVE Files'
  <2>1. PICK f, g \in PartFile :
           /\ f \in parts /\ IsOpenFile(w, f) /\ f = OpenPart(w) /\ ~Whole(f)
           /\ parts' = (parts \ {f}) \cup {g}
           /\ g.cell = f.cell /\ g.index = f.index /\ g.owner = f.owner
           /\ g.manifest = f.manifest /\ g.batch = f.batch
           /\ g.written >= f.written /\ g.written <= Len(g.batch)
           /\ Whole(g) => ~g.cut
    BY <1>3, WritingGrows
  <2>2. /\ acked' = acked /\ cell' = cell /\ target' = target
        /\ manifest' = manifest /\ batch' = batch /\ pc' = pc /\ pc[w] = "write"
    BY <1>3 DEF WritePart, writerVars
  <2>3. OneFilePerName'
    BY <1>0, <2>1 DEF OneFilePerName
  <2>4. CutFilesAreShort'
    BY <1>0, <2>1 DEF CutFilesAreShort, Whole
  <2>5. AckedIsWhole'
    <3>1. \A a \in acked : ~(f.cell = a[1] /\ f.index = a[2])
      <4>1. \A a \in acked : a = <<a[1], a[2]>>
        BY <1>0 DEF TypeOK
      <4>2. <<f.cell, f.index>> \notin acked
        BY <1>0, <2>1, <2>2 DEF OpenFiles, IsOpenFile
      <4>. QED  BY <4>1, <4>2
    <3>. QED  BY <1>0, <2>1, <2>2, <3>1 DEF AckedIsWhole, Whole
  <2>6. OpenFiles'
    <3> SUFFICES ASSUME NEW v \in Writers, pc[v] = "write"
                 PROVE  \E h \in parts' : IsOpenFile(v, h)'
      BY <1>0, <2>2 DEF OpenFiles, IsOpenFile
    <3>1. PICK h \in parts : IsOpenFile(v, h)
      BY <1>0 DEF OpenFiles
    <3>2. CASE h = f
      BY <2>1, <2>2, <3>1, <3>2 DEF IsOpenFile
    <3>3. CASE h # f
      BY <2>1, <2>2, <3>1, <3>3 DEF IsOpenFile
    <3>. QED  BY <3>2, <3>3
  <2>. QED  BY <2>3, <2>4, <2>5, <2>6
<1>4. ASSUME NEW w \in Writers, ReturnResult(w) PROVE Files'
  <2>1. /\ pc[w] = "write" /\ Whole(OpenPart(w)) /\ parts' = parts
        /\ acked' = acked \cup {<<cell[w], target[w]>>}
        /\ cell' = cell /\ target' = target /\ manifest' = manifest /\ batch' = batch
        /\ \A v \in Writers : pc'[v] = "write" => v # w /\ pc[v] = "write"
    BY <1>0, <1>4 DEF ReturnResult, Goto, diskVars, TypeOK
  <2>2. OpenPart(w) \in parts /\ IsOpenFile(w, OpenPart(w))
    BY <1>0, <2>1, OpenPartIsOpen
  <2>3. OneFilePerName' /\ CutFilesAreShort'
    BY <1>0, <2>1 DEF OneFilePerName, CutFilesAreShort, Whole
  <2>4. AckedIsWhole'
    <3> DEFINE f == OpenPart(w)
               b == <<cell[w], target[w]>>
    <3>1. f.cell = b[1] /\ f.index = b[2] /\ Whole(f) /\ ~f.cut /\ f \in parts
      BY <1>0, <2>1, <2>2 DEF CutFilesAreShort, IsOpenFile
    <3> HIDE DEF f, b
    <3>2. acked' = acked \cup {b}
      BY <2>1 DEF b
    <3>. QED  BY <1>0, <2>1, <3>1, <3>2 DEF AckedIsWhole, Whole
  <2>5. OpenFiles'
    <3> SUFFICES ASSUME NEW v \in Writers, v # w, pc[v] = "write"
                 PROVE  <<cell[v], target[v]>> # <<cell[w], target[w]>>
      BY <1>0, <2>1 DEF OpenFiles, IsOpenFile
    <3>1. PICK h \in parts : IsOpenFile(v, h)
      BY <1>0 DEF OpenFiles
    <3>2. h # OpenPart(w)
      BY <2>2, <3>1 DEF IsOpenFile
    <3>. QED  BY <1>0, <2>2, <3>1, <3>2 DEF OneFilePerName, IsOpenFile
  <2>. QED  BY <2>3, <2>4, <2>5
<1>. QED  BY <1>0, <1>1, <1>2, <1>3, <1>4, StepKinds

(* What the file-system calls keep true of the part files, on which the other *)
(* invariants rest.                                                         *)
LEMMA DiskInvariant == Spec => []DiskInv
<1>1. DiskInv /\ [Next]_vars => DiskInv'
  BY TypesKept, FilesKept DEF DiskInv
<1>. QED  BY <1>1, DiskInit, PTL DEF Spec

(* The variables have their types in every reachable state. *)
THEOREM EventLogTyping == Spec => []TypeOK
<1>1. DiskInv => TypeOK
  BY DEF DiskInv
<1>. QED  BY <1>1, DiskInvariant, PTL

(* An append() that returned has all its records on disk, whatever other     *)
(* writers do and whoever crashes.                                         *)
THEOREM AckedIsWholeTheorem == Spec => []AckedIsWhole
<1>1. DiskInv => AckedIsWhole
  BY DEF DiskInv
<1>. QED  BY <1>1, DiskInvariant, PTL

(* No step changes a part file but the append() that holds it open, and that *)
(* one only adds to it.                                                    *)
THEOREM NeverRewrittenTheorem == Spec => NeverRewritten
<1> DEFINE
     Kept(f) ==
       \/ f \in parts'
       \/ /\ <<f.cell, f.index>> \notin acked
          /\ pc[f.owner] = "write" /\ OpenPart(f.owner) = f
          /\ \E g \in parts' : /\ g.written >= f.written
                               /\ [g EXCEPT !.written = f.written, !.cut = f.cut] = f
<1>1. ASSUME DiskInv, [Next]_vars, NEW h \in parts PROVE Kept(h)
  <2>1. CASE Quiet
    BY <1>1, <2>1 DEF Quiet
  <2>2. ASSUME NEW w \in Writers, Creates(w) PROVE Kept(h)
    BY <1>1, <2>2 DEF Creates
  <2>3. ASSUME NEW w \in Writers, ReturnResult(w) PROVE Kept(h)
    BY <1>1, <2>3 DEF ReturnResult, diskVars
  <2>4. ASSUME NEW w \in Writers, WritePart(w) PROVE Kept(h)
    <3>1. PICK f, g \in PartFile :
             /\ f \in parts /\ IsOpenFile(w, f) /\ f = OpenPart(w) /\ ~Whole(f)
             /\ parts' = (parts \ {f}) \cup {g}
             /\ g.written >= f.written
             /\ [g EXCEPT !.written = f.written, !.cut = f.cut] = f
      BY <1>1, <2>4, WritingGrows
    <3>2. pc[w] = "write" /\ <<f.cell, f.index>> \notin acked /\ f.owner = w
      BY <1>1, <2>4, <3>1 DEF WritePart, DiskInv, OpenFiles, IsOpenFile
    <3>3. CASE h = f
      <4>1. /\ <<h.cell, h.index>> \notin acked
            /\ pc[h.owner] = "write" /\ OpenPart(h.owner) = h
        BY <3>1, <3>2, <3>3
      <4>2. g \in parts' /\ g.written >= h.written
            /\ [g EXCEPT !.written = h.written, !.cut = h.cut] = h
        BY <3>1, <3>3
      <4>. QED  BY <4>1, <4>2
    <3>4. CASE h # f
      BY <1>1, <3>1, <3>4
    <3>. QED  BY <3>3, <3>4
  <2>5. TypeOK
    BY <1>1 DEF DiskInv
  <2>. QED  BY <1>1, <2>1, <2>2, <2>3, <2>4, <2>5, StepKinds
<1>2. DiskInv /\ [Next]_vars => [\A f \in parts : Kept(f)]_vars
  BY <1>1
<1>. QED  BY <1>2, DiskInvariant, PTL DEF Spec, NeverRewritten

(***************************************************************************)
(* Numbering.  A writer about to create a file chose 1 or the successor of   *)
(* an index that exists, and indexes are never taken away.                 *)
(***************************************************************************)
Numbered ==
  /\ \A c \in Cells : \E n \in Nat : Indexes(c) = 1..n
  /\ \A w \in Writers, c \in Cells : pc[w] = "create" /\ cell[w] = c =>
       target[w] = 1 \/ \E i \in Indexes(c) : target[w] = i + 1

(* What a step does to the set of indexes of each partition. *)
LEMMA IndexSteps ==
  ASSUME DiskInv, [Next]_vars
  PROVE  \/ \A c \in Cells : Indexes(c)' = Indexes(c)
         \/ \E w \in Writers :
              /\ Creates(w)
              /\ \A c \in Cells :
                   Indexes(c)' = IF c = cell[w] THEN Indexes(c) \cup {target[w]} ELSE Indexes(c)
<1>1. TypeOK
  BY DEF DiskInv
<1>2. CASE Quiet
  BY <1>2 DEF Quiet, Indexes, PartsOf
<1>3. ASSUME NEW w \in Writers, Creates(w)
      PROVE  \A c \in Cells :
               Indexes(c)' = IF c = cell[w] THEN Indexes(c) \cup {target[w]} ELSE Indexes(c)
  <2>1. parts' = parts \cup {NewPart(w)} /\ NewPart(w).cell = cell[w]
        /\ NewPart(w).index = target[w]
    BY <1>3 DEF Creates, NewPart
  <2> HIDE DEF NewPart
  <2>. QED  BY <2>1 DEF Indexes, PartsOf
<1>4. ASSUME NEW w \in Writers, WritePart(w) PROVE \A c \in Cells : Indexes(c)' = Indexes(c)
  <2>1. PICK f, g \in PartFile :
          /\ f \in parts /\ parts' = (parts \ {f}) \cup {g}
          /\ g.cell = f.cell /\ g.index = f.index
    BY <1>4, WritingGrows
  <2>. QED  BY <2>1 DEF Indexes, PartsOf
<1>5. ASSUME NEW w \in Writers, ReturnResult(w) PROVE \A c \in Cells : Indexes(c)' = Indexes(c)
  BY <1>5 DEF ReturnResult, diskVars, Indexes, PartsOf
<1>. QED  BY <1>1, <1>2, <1>3, <1>4, <1>5, StepKinds

(* A target is chosen by ListParts and by nothing else. *)
LEMMA TargetSteps ==
  ASSUME TypeOK, [Next]_vars, NEW w \in Writers, pc'[w] = "create"
  PROVE  \/ pc[w] = "create" /\ cell'[w] = cell[w] /\ target'[w] = target[w]
         \/ ListParts(w)
<1> USE DEF diskVars, writerVars, Goto, Raise, TypeOK
<1>1. ASSUME NEW v \in Writers, Construct(v) \/ MakeDir(v) \/ CheckManifest(v)
             \/ CreateSidecar(v) \/ WriteSidecar(v)
      PROVE  pc[w] = "create" /\ cell'[w] = cell[w] /\ target'[w] = target[w]
  BY <1>1 DEF Construct, MakeDir, CheckManifest, CreateSidecar, WriteSidecar
<1>2. ASSUME NEW v \in Writers, CreatePart(v) \/ WritePart(v) \/ ReturnResult(v)
             \/ MakeSealDir(v) \/ CreateMarker(v)
      PROVE  pc[w] = "create" /\ cell'[w] = cell[w] /\ target'[w] = target[w]
  BY <1>2 DEF CreatePart, WritePart, ReturnResult, MakeSealDir, CreateMarker
<1>3. ASSUME NEW v \in Writers, BeginAppend(v) \/ BeginSeal(v) \/ Crash(v)
      PROVE  pc[w] = "create" /\ cell'[w] = cell[w] /\ target'[w] = target[w]
  BY <1>3 DEF BeginAppend, BeginSeal, Crash
<1>4. ASSUME NEW v \in Writers, v # w, ListParts(v)
      PROVE  pc[w] = "create" /\ cell'[w] = cell[w] /\ target'[w] = target[w]
  BY <1>4 DEF ListParts
<1>5. ASSUME DigestNext
      PROVE  pc[w] = "create" /\ cell'[w] = cell[w] /\ target'[w] = target[w]
  BY <1>5 DEF DigestNext, StartDigest, ListPartition, ReadPart, FinishPartition
<1>6. CASE UNCHANGED vars
  BY <1>6 DEF vars
<1>. QED  BY <1>1, <1>2, <1>3, <1>4, <1>5, <1>6 DEF Next, WriteNext, WriterStep

(* A new part file takes the index after the largest one, however stale the *)
(* listing it was chosen from.                                              *)
LEMMA NumberedKept ==
  ASSUME DiskInv, Numbered, [Next]_vars
  PROVE  Numbered'
<1>0. TypeOK /\ \A w \in Writers : cell[w] \in Cells /\ target[w] \in Nat
  BY DEF DiskInv, TypeOK
<1>1. \A c \in Cells : Indexes(c) \subseteq Indexes(c)'
  BY IndexSteps
<1>2. ASSUME NEW c \in Cells PROVE \E n \in Nat : Indexes(c)' = 1..n
  <2>1. PICK n \in Nat : Indexes(c) = 1..n
    BY DEF Numbered
  <2>2. ASSUME NEW w \in Writers, Creates(w), c = cell[w],
               Indexes(c)' = Indexes(c) \cup {target[w]}
        PROVE  \E m \in Nat : Indexes(c)' = 1..m
    <3>1. pc[w] = "create" /\ target[w] \notin 1..n
      BY <2>1, <2>2 DEF Creates
    <3>2. target[w] = n + 1
      <4>1. target[w] = 1 \/ \E i \in 1..n : target[w] = i + 1
        BY <1>0, <2>1, <2>2, <3>1 DEF Numbered
      <4>. QED  BY <3>1, <4>1
    <3>3. Indexes(c)' = 1..(n + 1)
      BY <2>1, <2>2, <3>2
    <3>. QED  BY <3>3
  <2>. QED  BY <2>1, <2>2, IndexSteps
<1>3. ASSUME NEW w \in Writers, NEW c \in Cells, pc'[w] = "create", cell'[w] = c
      PROVE  target'[w] = 1 \/ \E i \in Indexes(c)' : target'[w] = i + 1
  <2>1. CASE pc[w] = "create" /\ cell'[w] = cell[w] /\ target'[w] = target[w]
    BY <1>1, <1>3, <2>1 DEF Numbered
  <2>2. CASE ListParts(w)
    <3>1. /\ cell' = cell /\ parts' = parts
          /\ \E n \in {0} \cup Indexes(cell[w]) : target'[w] = n + 1
      BY <1>0, <2>2 DEF ListParts, TypeOK, diskVars
    <3>2. Indexes(c)' = Indexes(c)
      BY <3>1 DEF Indexes, PartsOf
    <3>. QED  BY <1>3, <3>1, <3>2
  <2>. QED  BY <1>0, <1>3, <2>1, <2>2, TargetSteps
<1>. QED  BY <1>2, <1>3 DEF Numbered

(* The indexes of a partition are always an initial segment of 1, 2, ...    *)
LEMMA NumberedInvariant == Spec => []Numbered
<1>1. Init => Numbered
  <2> SUFFICES ASSUME Init PROVE Numbered
    OBVIOUS
  <2>1. \A c \in Cells : Indexes(c) = 1..0
    BY DEF Init, Indexes, PartsOf
  <2>2. \A w \in Writers : pc[w] # "create"
    BY DEF Init
  <2>. QED  BY <2>1, <2>2 DEF Numbered
<1>2. DiskInv /\ Numbered /\ [Next]_vars => Numbered'
  BY NumberedKept
<1>. QED  BY <1>1, <1>2, DiskInvariant, PTL DEF Spec

(* Indexes and files of a partition are in bijection. *)
LEMMA FilesOfPartition ==
  ASSUME DiskInv, Numbered, NEW c \in Cells
  PROVE  IsFiniteSet(PartsOf(c)) /\ Indexes(c) = 1..Cardinality(PartsOf(c))
<1>1. PICK n \in Nat : Indexes(c) = 1..n
  BY DEF Numbered
<1> DEFINE file == [i \in 1..n |-> CHOOSE f \in PartsOf(c) : f.index = i]
<1>2. \A i \in 1..n : file[i] \in PartsOf(c) /\ file[i].index = i
  BY <1>1 DEF Indexes
<1>3. \A f \in PartsOf(c) : f.index \in 1..n /\ file[f.index] = f
  <2> TAKE f \in PartsOf(c)
  <2>1. f.index \in 1..n
    BY <1>1 DEF Indexes
  <2>2. file[f.index] \in PartsOf(c) /\ file[f.index].index = f.index
    BY <1>2, <2>1
  <2>. QED  BY <2>1, <2>2 DEF DiskInv, OneFilePerName, PartsOf
<1>4. file \in Bijection(1..n, PartsOf(c))
  <2>1. file \in [1..n -> PartsOf(c)]
    BY <1>2
  <2> HIDE DEF file
  <2>2. IsInjective(file)
    BY <1>2, <2>1 DEF IsInjective
  <2>3. \A f \in PartsOf(c) : \E i \in 1..n : file[i] = f
    BY <1>3
  <2>. QED  BY <2>1, <2>2, <2>3 DEF Bijection, Injection, Surjection
<1>5. IsFiniteSet(1..n) /\ Cardinality(1..n) = n
  BY FS_Interval
<1>6. IsFiniteSet(PartsOf(c)) /\ Cardinality(PartsOf(c)) = n
  BY <1>4, <1>5, FS_Bijection DEF ExistsBijection
<1>. QED  BY <1>1, <1>6

(* The part files of a partition are 1, 2, ... with one file for each. *)
THEOREM IndexesContiguousTheorem == Spec => []IndexesContiguous
<1>1. DiskInv /\ Numbered => IndexesContiguous
  BY FilesOfPartition DEF IndexesContiguous
<1>. QED  BY <1>1, DiskInvariant, NumberedInvariant, PTL

(***************************************************************************)
(* The manifest.  Once a sidecar holds a manifest it holds it for ever, and   *)
(* a writer goes past it only with an equal one; while it is torn, the one  *)
(* process that created it is the only one that can be past it.            *)
(***************************************************************************)
ManifestsAgree ==
  /\ \A f \in parts : sidecar[Root[f.cell]] = f.manifest
  /\ \A w \in Writers :
       pc[w] \in {"list", "create", "write"} => sidecar[Root[cell[w]]] = manifest[w]
  /\ \A w \in Writers : pc[w] = "write_sidecar" => sidecar[Root[cell[w]]] = Torn
  /\ \A v, w \in Writers :
       pc[v] = "write_sidecar" /\ pc[w] = "write_sidecar" /\ Root[cell[v]] = Root[cell[w]]
         => v = w

(* Which step takes a writer past the sidecar, and which keeps it there. *)
PastSidecar == {"list", "create", "write"}

(* A step that leaves the sidecar alone and adds only files of writers that have *)
(* verified it keeps the manifests in agreement.                            *)
LEMMA ManifestQuiet ==
  ASSUME DiskInv, ManifestsAgree, sidecar' = sidecar,
         \A f \in parts' : f \in parts \/
           \E w \in Writers : pc[w] \in PastSidecar /\ f.cell = cell[w]
                            /\ f.manifest = manifest[w],
         \A w \in Writers : pc'[w] \in PastSidecar =>
           /\ cell'[w] = cell[w] /\ manifest'[w] = manifest[w]
           /\ pc[w] \in PastSidecar \/ sidecar[Root[cell[w]]] = manifest[w],
         \A w \in Writers : pc'[w] = "write_sidecar" =>
           pc[w] = "write_sidecar" /\ cell'[w] = cell[w]
  PROVE  ManifestsAgree'
  BY DEF ManifestsAgree, PastSidecar

(* No step of ensure_manifest_sidecar() or append() brings a file with a manifest *)
(* other than the sidecar's.                                                *)
LEMMA ManifestsAgreeKept ==
  ASSUME DiskInv, ManifestsAgree, [Next]_vars
  PROVE  ManifestsAgree'
<1> USE DEF diskVars, writerVars, Goto, Raise
<1>0. /\ TypeOK
      /\ pc \in [Writers -> Steps] /\ cell \in [Writers -> Cells]
      /\ manifest \in [Writers -> Manifests]
      /\ sidecar \in [Roots -> Manifests \cup {Absent, Torn}]
      /\ \A w \in Writers : Root[cell[w]] \in Roots
      /\ \A f \in parts : Root[f.cell] \in Roots /\ f.manifest \in Manifests
  BY RootAssumption DEF DiskInv, TypeOK, PartFile
<1>1. ASSUME NEW w \in Writers, Construct(w) \/ MakeDir(w) \/ CheckManifest(w)
      PROVE  ManifestsAgree'
  BY <1>0, <1>1, ManifestQuiet DEF Construct, MakeDir, CheckManifest, PastSidecar
<1>2. ASSUME NEW w \in Writers, ListParts(w) \/ MakeSealDir(w) \/ CreateMarker(w)
      PROVE  ManifestsAgree'
  BY <1>0, <1>2, ManifestQuiet DEF ListParts, MakeSealDir, CreateMarker, PastSidecar
<1>3. ASSUME NEW w \in Writers, BeginAppend(w) \/ BeginSeal(w) \/ Crash(w)
      PROVE  ManifestsAgree'
  BY <1>0, <1>3, ManifestQuiet DEF BeginAppend, BeginSeal, Crash, PastSidecar
<1>4. ASSUME NEW w \in Writers, CreatePart(w) \/ ReturnResult(w) PROVE ManifestsAgree'
  <2>1. \A f \in parts' : f \in parts \/
          (pc[w] \in PastSidecar /\ f.cell = cell[w] /\ f.manifest = manifest[w])
    BY <1>4 DEF CreatePart, ReturnResult, PastSidecar
  <2>2. /\ sidecar' = sidecar /\ cell' = cell /\ manifest' = manifest
        /\ \A v \in Writers : pc'[v] \in PastSidecar => pc[v] \in PastSidecar
        /\ \A v \in Writers : pc'[v] = "write_sidecar" => pc[v] = "write_sidecar"
    BY <1>0, <1>4 DEF CreatePart, ReturnResult, PastSidecar
  <2>. QED  BY <2>1, <2>2, ManifestQuiet
<1>5. ASSUME NEW w \in Writers, WritePart(w) PROVE ManifestsAgree'
  <2>1. PICK f, g \in PartFile :
           /\ f \in parts /\ parts' = (parts \ {f}) \cup {g}
           /\ g.cell = f.cell /\ g.manifest = f.manifest
    BY <1>5, WritingGrows
  <2>2. /\ sidecar' = sidecar /\ cell' = cell /\ manifest' = manifest /\ pc' = pc
    BY <1>5 DEF WritePart
  <2>. QED  BY <2>1, <2>2 DEF ManifestsAgree
<1>6. ASSUME NEW w \in Writers, CreateSidecar(w) PROVE ManifestsAgree'
  <2> DEFINE r == Root[cell[w]]
  <2>1. CASE sidecar' = sidecar
    <3>1. /\ pc' = [pc EXCEPT ![w] = "ready"] /\ parts' = parts
          /\ cell' = cell /\ manifest' = manifest
      BY <1>0, <1>6, <2>1 DEF CreateSidecar, Absent, Torn
    <3>2. \A v \in Writers : pc'[v] \in PastSidecar \cup {"write_sidecar"} => pc'[v] = pc[v]
      BY <1>0, <3>1 DEF PastSidecar
    <3>. QED  BY <2>1, <3>1, <3>2, ManifestQuiet DEF PastSidecar
  <2>2. CASE sidecar' # sidecar
    <3>1. /\ sidecar[r] = Absent /\ sidecar' = [sidecar EXCEPT ![r] = Torn]
          /\ pc' = [pc EXCEPT ![w] = "write_sidecar"] /\ parts' = parts
          /\ cell' = cell /\ manifest' = manifest
      BY <1>6, <2>2 DEF CreateSidecar
    <3>2. \A f \in parts : Root[f.cell] # r
      BY <1>0, <3>1, ManifestAssumption DEF ManifestsAgree
    <3>3. \A v \in Writers : pc[v] \in PastSidecar \cup {"write_sidecar"} => Root[cell[v]] # r
      BY <1>0, <3>1, ManifestAssumption DEF ManifestsAgree, PastSidecar, Absent, Torn
    <3> HIDE DEF r
    <3>4. r \in Roots
      BY <1>0 DEF r
    <3>5. Root[cell[w]] = r
      BY DEF r
    <3>. QED  BY <1>0, <3>1, <3>2, <3>3, <3>4, <3>5 DEF ManifestsAgree, PastSidecar
  <2>. QED  BY <2>1, <2>2
<1>7. ASSUME NEW w \in Writers, WriteSidecar(w) PROVE ManifestsAgree'
  <2> DEFINE r == Root[cell[w]]
  <2>1. /\ pc[w] = "write_sidecar" /\ sidecar' = [sidecar EXCEPT ![r] = manifest[w]]
        /\ pc' = [pc EXCEPT ![w] = "list"] /\ parts' = parts
        /\ cell' = cell /\ manifest' = manifest
    BY <1>7 DEF WriteSidecar
  <2>2. sidecar[r] = Torn
    BY <2>1 DEF ManifestsAgree
  <2>3. \A f \in parts : Root[f.cell] # r
    BY <1>0, <2>2, ManifestAssumption DEF ManifestsAgree
  <2>4. \A v \in Writers : v # w /\ pc[v] \in PastSidecar \cup {"write_sidecar"} =>
          Root[cell[v]] # r
    BY <1>0, <2>1, <2>2, ManifestAssumption DEF ManifestsAgree, PastSidecar
  <2> HIDE DEF r
  <2>5. r \in Roots
    BY <1>0 DEF r
  <2>6. Root[cell[w]] = r
    BY DEF r
  <2>. QED  BY <1>0, <2>1, <2>3, <2>4, <2>5, <2>6 DEF ManifestsAgree, PastSidecar
<1>8. ASSUME DigestNext PROVE ManifestsAgree'
  BY <1>8 DEF DigestNext, StartDigest, ListPartition, ReadPart, FinishPartition, ManifestsAgree
<1>9. CASE UNCHANGED vars
  BY <1>9 DEF vars, ManifestsAgree
<1>. QED
  BY <1>1, <1>2, <1>3, <1>4, <1>5, <1>6, <1>7, <1>8, <1>9 DEF Next, WriteNext, WriterStep

(* All part files under a root carry the manifest of its sidecar. *)
THEOREM OneManifestPerRootTheorem == Spec => []OneManifestPerRoot
<1>1. Init => ManifestsAgree
  BY DEF Init, ManifestsAgree
<1>2. DiskInv /\ ManifestsAgree /\ [Next]_vars => ManifestsAgree'
  BY ManifestsAgreeKept
<1>3. ManifestsAgree => OneManifestPerRoot
  BY DEF ManifestsAgree, OneManifestPerRoot
<1>. QED  BY <1>1, <1>2, <1>3, DiskInvariant, PTL DEF Spec

(***************************************************************************)
(* Seals.  A writer that is inside append() on a sealed partition was there  *)
(* when it was sealed, and until it creates its file it has none since.    *)
(***************************************************************************)
IsLate(c, f) == f.cell = c /\ f.index \notin atSeal[c].indexes

LateInv ==
  \A c \in sealed :
    /\ \A w \in Writers : cell[w] = c /\ pc[w] \in AppendSteps =>
         /\ w \in atSeal[c].inFlight
         /\ pc[w] # "write" => \A f \in parts : IsLate(c, f) => f.owner # w
    /\ \A f \in parts : IsLate(c, f) => f.owner \in atSeal[c].inFlight
    /\ \A f, g \in parts : IsLate(c, f) /\ IsLate(c, g) /\ f.owner = g.owner => f = g

(* A step that adds no file, and brings no writer into append() on a sealed *)
(* partition, keeps the count of late files.                                *)
LEMMA LateQuiet ==
  ASSUME LateInv, parts' = parts, sealed' = sealed, atSeal' = atSeal,
         \A w \in Writers : pc'[w] \in AppendSteps =>
           \/ cell'[w] \notin sealed
           \/ /\ cell'[w] = cell[w] /\ pc[w] \in AppendSteps
              /\ pc'[w] # "write" => pc[w] # "write"
  PROVE  LateInv'
  BY DEF LateInv, IsLate

(* Every step keeps late files with the appends that were running at the seal. *)
LEMMA LateKept ==
  ASSUME DiskInv, LateInv, [Next]_vars
  PROVE  LateInv'
<1> USE DEF diskVars, writerVars, Goto, Raise
<1>0. /\ TypeOK
      /\ pc \in [Writers -> Steps] /\ cell \in [Writers -> Cells]
      /\ atSeal \in [Cells -> [indexes : SUBSET Nat, inFlight : SUBSET Writers]]
      /\ sealed \subseteq Cells
  BY DEF DiskInv, TypeOK
<1>1. ASSUME NEW w \in Writers, Construct(w) \/ MakeDir(w) \/ CheckManifest(w)
             \/ CreateSidecar(w) \/ WriteSidecar(w)
      PROVE  LateInv'
  BY <1>0, <1>1, LateQuiet
     DEF Construct, MakeDir, CheckManifest, CreateSidecar, WriteSidecar, AppendSteps
<1>2. ASSUME NEW w \in Writers, ListParts(w) \/ MakeSealDir(w) \/ ReturnResult(w)
      PROVE  LateInv'
  BY <1>0, <1>2, LateQuiet DEF ListParts, MakeSealDir, ReturnResult, AppendSteps
<1>3. ASSUME NEW w \in Writers, BeginAppend(w) \/ BeginSeal(w) \/ Crash(w)
      PROVE  LateInv'
  BY <1>0, <1>3, LateQuiet DEF BeginAppend, BeginSeal, Crash, AppendSteps
<1>4. ASSUME NEW w \in Writers, CreatePart(w) PROVE LateInv'
  <2>1. CASE parts' = parts
    <3>1. /\ cell' = cell /\ sealed' = sealed /\ atSeal' = atSeal
          /\ \A v \in Writers : pc'[v] # "write" => pc'[v] = pc[v] \/ pc'[v] = "ready"
          /\ \A v \in Writers : pc'[v] \in AppendSteps => pc[v] \in AppendSteps
      BY <1>0, <1>4 DEF CreatePart, AppendSteps
    <3>. QED  BY <2>1, <3>1, LateQuiet DEF AppendSteps
  <2>2. CASE parts' # parts
    <3> DEFINE new == NewPart(w)
    <3>1. /\ pc[w] = "create" /\ target[w] \notin Indexes(cell[w])
          /\ parts' = parts \cup {new} /\ pc' = [pc EXCEPT ![w] = "write"]
          /\ cell' = cell /\ sealed' = sealed /\ atSeal' = atSeal
      BY <1>4, <2>2 DEF CreatePart, NewPart
    <3>2. new.cell = cell[w] /\ new.index = target[w] /\ new.owner = w
      BY DEF NewPart
    <3> HIDE DEF new
    <3> SUFFICES ASSUME NEW c \in sealed
                 PROVE
          /\ \A v \in Writers : cell[v] = c /\ pc'[v] \in AppendSteps =>
               /\ v \in atSeal[c].inFlight
               /\ pc'[v] # "write" => \A f \in parts' : IsLate(c, f) => f.owner # v
          /\ \A f \in parts' : IsLate(c, f) => f.owner \in atSeal[c].inFlight
          /\ \A f, g \in parts' : IsLate(c, f) /\ IsLate(c, g) /\ f.owner = g.owner => f = g
      BY <3>1 DEF LateInv, IsLate
    <3>3. cell[w] = c => /\ w \in atSeal[c].inFlight
                         /\ \A f \in parts : IsLate(c, f) => f.owner # w
      BY <3>1 DEF LateInv, AppendSteps
    <3>4. \A v \in Writers : pc'[v] # "write" => v # w /\ pc'[v] = pc[v]
      BY <1>0, <3>1
    <3>5. \A v \in Writers : pc'[v] \in AppendSteps => pc[v] \in AppendSteps
      BY <1>0, <3>1 DEF AppendSteps
    <3>6. \A v \in Writers : cell[v] = c /\ pc'[v] \in AppendSteps =>
            /\ v \in atSeal[c].inFlight
            /\ pc'[v] # "write" => \A f \in parts' : IsLate(c, f) => f.owner # v
      BY <3>1, <3>2, <3>4, <3>5 DEF LateInv
    <3>7. /\ \A f \in parts' : IsLate(c, f) => f.owner \in atSeal[c].inFlight
          /\ \A f, g \in parts' : IsLate(c, f) /\ IsLate(c, g) /\ f.owner = g.owner => f = g
      BY <3>1, <3>2, <3>3 DEF LateInv, IsLate
    <3>. QED  BY <3>6, <3>7
  <2>. QED  BY <2>1, <2>2
<1>5. ASSUME NEW w \in Writers, WritePart(w) PROVE LateInv'
  <2>1. PICK f, g \in PartFile :
           /\ f \in parts /\ parts' = (parts \ {f}) \cup {g}
           /\ g.cell = f.cell /\ g.index = f.index /\ g.owner = f.owner
    BY <1>5, WritingGrows
  <2>2. /\ cell' = cell /\ pc' = pc /\ sealed' = sealed /\ atSeal' = atSeal
    BY <1>5 DEF WritePart
  <2> SUFFICES ASSUME NEW c \in sealed
               PROVE
        /\ \A v \in Writers : cell[v] = c /\ pc[v] \in AppendSteps =>
             /\ v \in atSeal[c].inFlight
             /\ pc[v] # "write" => \A h \in parts' : IsLate(c, h) => h.owner # v
        /\ \A h \in parts' : IsLate(c, h) => h.owner \in atSeal[c].inFlight
        /\ \A h, k \in parts' : IsLate(c, h) /\ IsLate(c, k) /\ h.owner = k.owner => h = k
    BY <2>2 DEF LateInv, IsLate
  <2>3. IsLate(c, g) <=> IsLate(c, f)
    BY <2>1 DEF IsLate
  <2>. QED  BY <2>1, <2>3 DEF LateInv
<1>6. ASSUME NEW w \in Writers, CreateMarker(w) PROVE LateInv'
  <2>1. /\ parts' = parts /\ cell' = cell /\ pc[w] = "seal"
        /\ pc' = [pc EXCEPT ![w] = "ready"]
    BY <1>6 DEF CreateMarker
  <2>2. CASE cell[w] \in sealed
    <3>1. sealed' = sealed /\ atSeal' = atSeal
      BY <1>6, <2>2 DEF CreateMarker
    <3>. QED  BY <1>0, <2>1, <3>1, LateQuiet DEF AppendSteps
  <2>3. CASE cell[w] \notin sealed
    <3> DEFINE s == [indexes |-> Indexes(cell[w]), inFlight |-> InAppend(cell[w])]
    <3>1. sealed' = sealed \cup {cell[w]} /\ atSeal' = [atSeal EXCEPT ![cell[w]] = s]
      BY <1>6, <2>3 DEF CreateMarker
    <3>2. \A c \in sealed : atSeal'[c] = atSeal[c] /\ c # cell[w]
      BY <1>0, <2>3, <3>1
    <3>3. atSeal'[cell[w]] = s
      BY <1>0, <3>1
    <3>4. \A f \in parts : f.cell = cell[w] => f.index \in s.indexes
      BY DEF Indexes, PartsOf
    <3>5. \A v \in Writers : cell[v] = cell[w] /\ pc[v] \in AppendSteps => v \in s.inFlight
      BY DEF InAppend
    <3> HIDE DEF s
    <3>6. \A v \in Writers : pc'[v] \in AppendSteps => pc'[v] = pc[v]
      BY <1>0, <2>1 DEF AppendSteps
    <3>7. ASSUME NEW c \in sealed
          PROVE  /\ \A v \in Writers : cell'[v] = c /\ pc'[v] \in AppendSteps =>
                      /\ v \in atSeal'[c].inFlight
                      /\ pc'[v] # "write" => \A f \in parts' : IsLate(c, f)' => f.owner # v
                 /\ \A f \in parts' : IsLate(c, f)' => f.owner \in atSeal'[c].inFlight
                 /\ \A f, g \in parts' :
                      IsLate(c, f)' /\ IsLate(c, g)' /\ f.owner = g.owner => f = g
      BY <2>1, <3>2, <3>6 DEF LateInv, IsLate
    <3>8. \A f \in parts' : ~(f.cell = cell[w] /\ f.index \notin atSeal'[cell[w]].indexes)
      BY <2>1, <3>3, <3>4
    <3>9. \A v \in Writers : cell'[v] = cell[w] /\ pc'[v] \in AppendSteps =>
            v \in atSeal'[cell[w]].inFlight
      BY <2>1, <3>3, <3>5, <3>6
    <3>. QED  BY <3>1, <3>7, <3>8, <3>9 DEF LateInv, IsLate
  <2>. QED  BY <2>2, <2>3
<1>7. ASSUME DigestNext PROVE LateInv'
  BY <1>7, LateQuiet DEF DigestNext, StartDigest, ListPartition, ReadPart, FinishPartition
<1>8. CASE UNCHANGED vars
  BY <1>8, LateQuiet DEF vars
<1>. QED
  BY <1>1, <1>2, <1>3, <1>4, <1>5, <1>6, <1>7, <1>8 DEF Next, WriteNext, WriterStep

(* After the seal a partition gains at most one part file per append() that  *)
(* had passed is_sealed() before it.                                       *)
THEOREM LateAppendsWereInFlightTheorem == Spec => []LateAppendsWereInFlight
<1>1. Init => LateInv
  BY DEF Init, LateInv
<1>2. DiskInv /\ LateInv /\ [Next]_vars => LateInv'
  BY LateKept
<1>3. ASSUME DiskInv, LateInv, Numbered PROVE LateAppendsWereInFlight
  <2> SUFFICES ASSUME NEW c \in sealed
               PROVE  LET new == {f \in PartsOf(c) : f.index \notin atSeal[c].indexes} IN
                      /\ \A f \in new : f.owner \in atSeal[c].inFlight
                      /\ Cardinality({f.owner : f \in new}) = Cardinality(new)
    BY DEF LateAppendsWereInFlight
  <2> DEFINE new == {f \in PartsOf(c) : f.index \notin atSeal[c].indexes}
             own == [f \in new |-> f.owner]
             owners == {f.owner : f \in new}
  <2>1. /\ \A f \in new : f.owner \in atSeal[c].inFlight
        /\ \A f, g \in new : f.owner = g.owner => f = g
    BY <1>3 DEF LateInv, IsLate, PartsOf
  <2>2. IsFiniteSet(PartsOf(c))
    BY <1>3, FilesOfPartition DEF DiskInv, TypeOK
  <2>3. IsFiniteSet(new)
    BY <2>2, FS_Subset
  <2>4. own \in Bijection(new, owners)
    <3>1. own \in [new -> owners]
      OBVIOUS
    <3>2. \A f, g \in new : own[f] = own[g] => f = g
      BY <2>1
    <3>3. \A x \in owners : \E f \in new : own[f] = x
      OBVIOUS
    <3>. QED  BY <3>1, <3>2, <3>3 DEF Bijection, Injection, Surjection, IsInjective
  <2> HIDE DEF new, own, owners
  <2>5. Cardinality(owners) = Cardinality(new)
    BY <2>3, <2>4, FS_Bijection DEF ExistsBijection
  <2>. QED  BY <2>1, <2>5 DEF new, owners
<1>. QED
  BY <1>1, <1>2, <1>3, DiskInvariant, NumberedInvariant, PTL DEF Spec

(***************************************************************************)
(* The root digest.  Every append() it owes is still to be listed, to be     *)
(* read, or read in full.                                                  *)
(***************************************************************************)
IsRead(a) ==
  \E p \in reader.read :
    p.cell = a[1] /\ p.index = a[2] /\ p.lines = PartAt(a[1], a[2]).batch

DirsHoldParts ==
  /\ \A f \in parts : f.cell \in dirs
  /\ \A w \in Writers : pc[w] \in AppendSteps \ {"mkdir"} => cell[w] \in dirs

DigestInv ==
  reader.pc # "idle" =>
    /\ reader.owed \subseteq acked
    /\ \A a \in reader.owed :
         \/ reader.pc # "done" /\ a[1] \in reader.todo
         \/ reader.pc = "file" /\ a[1] = reader.cell /\ a[2] \in reader.files
         \/ IsRead(a)

(* The file of an acknowledged append(), now and after any step. *)
LEMMA AckedPart ==
  ASSUME DiskInv, NEW a \in acked
  PROVE  /\ PartAt(a[1], a[2]) \in parts
         /\ PartAt(a[1], a[2]).cell = a[1] /\ PartAt(a[1], a[2]).index = a[2]
         /\ Lines(PartAt(a[1], a[2])) = PartAt(a[1], a[2]).batch
<1>1. PICK f \in parts : f.cell = a[1] /\ f.index = a[2] /\ Whole(f)
  BY DEF DiskInv, AckedIsWhole
<1>2. /\ PartAt(a[1], a[2]) \in parts
      /\ PartAt(a[1], a[2]).cell = a[1] /\ PartAt(a[1], a[2]).index = a[2]
  BY <1>1 DEF PartAt
<1>3. PartAt(a[1], a[2]) = f
  BY <1>1, <1>2 DEF DiskInv, OneFilePerName
<1>4. f.batch \in Seq(Records) /\ Lines(f) = SubSeq(f.batch, 1, Len(f.batch))
  BY <1>1 DEF DiskInv, TypeOK, PartFile, Lines, Whole
<1>5. Lines(f) = f.batch
  BY <1>4
<1>. QED  BY <1>2, <1>3, <1>5

(* The file of an append() that returned is the same file after every step. *)
LEMMA AckedPartStays ==
  ASSUME DiskInv, [Next]_vars, NEW a \in acked
  PROVE  a \in acked' /\ PartAt(a[1], a[2])' = PartAt(a[1], a[2])
<1> DEFINE f == PartAt(a[1], a[2])
<1>0. TypeOK /\ a = <<a[1], a[2]>>
  BY DEF DiskInv, TypeOK
<1>1. f \in parts /\ f.cell = a[1] /\ f.index = a[2]
  BY AckedPart
<1> HIDE DEF f
<1>2. a \in acked' /\ f \in parts'
  <2>1. CASE Quiet
    BY <1>1, <2>1 DEF Quiet
  <2>2. ASSUME NEW w \in Writers, Creates(w) PROVE a \in acked' /\ f \in parts'
    BY <1>1, <2>2 DEF Creates
  <2>3. ASSUME NEW w \in Writers, ReturnResult(w) PROVE a \in acked' /\ f \in parts'
    BY <1>1, <2>3 DEF ReturnResult, diskVars
  <2>4. ASSUME NEW w \in Writers, WritePart(w) PROVE a \in acked' /\ f \in parts'
    <3>1. PICK h, g \in PartFile :
             h \in parts /\ IsOpenFile(w, h) /\ parts' = (parts \ {h}) \cup {g}
      BY <2>4, WritingGrows
    <3>2. <<h.cell, h.index>> \notin acked /\ acked' = acked
      BY <2>4, <3>1 DEF WritePart, DiskInv, OpenFiles, IsOpenFile
    <3>3. h # f
      BY <1>0, <1>1, <3>2
    <3>. QED  BY <1>1, <3>1, <3>2, <3>3
  <2>. QED  BY <1>0, <2>1, <2>2, <2>3, <2>4, StepKinds
<1>3. OneFilePerName'
  BY FilesKept
<1>4. (CHOOSE g \in parts' : g.cell = a[1] /\ g.index = a[2]) = f
  BY <1>1, <1>2, <1>3 DEF OneFilePerName
<1>. QED  BY <1>2, <1>4 DEF PartAt, f

(* Directories are never removed, and part files are only made inside them. *)
LEMMA DirsKept ==
  ASSUME DiskInv, DirsHoldParts, [Next]_vars
  PROVE  DirsHoldParts'
<1> USE DEF diskVars, writerVars, Goto, Raise
<1>0. TypeOK /\ pc \in [Writers -> Steps] /\ cell \in [Writers -> Cells]
  BY DEF DiskInv, TypeOK
<1>1. dirs \subseteq dirs'
  <2>1. ASSUME NEW w \in Writers, WriterStep(w) \/ BeginAppend(w) \/ BeginSeal(w) \/ Crash(w)
        PROVE  dirs \subseteq dirs'
    BY <2>1 DEF WriterStep, Construct, MakeDir, CheckManifest, CreateSidecar, WriteSidecar,
                ListParts, CreatePart, WritePart, ReturnResult, MakeSealDir, CreateMarker,
                BeginAppend, BeginSeal, Crash
  <2>2. CASE DigestNext
    BY <2>2 DEF DigestNext, StartDigest, ListPartition, ReadPart, FinishPartition
  <2>. QED  BY <2>1, <2>2 DEF Next, WriteNext, vars
<1>2. \A f \in parts' : f.cell \in dirs'
  <2>1. CASE Quiet
    BY <1>1, <2>1 DEF Quiet, DirsHoldParts
  <2>2. ASSUME NEW w \in Writers, Creates(w) PROVE \A f \in parts' : f.cell \in dirs'
    <3>1. /\ NewPart(w).cell = cell[w] /\ parts' = parts \cup {NewPart(w)}
          /\ pc[w] = "create"
      BY <2>2 DEF NewPart, Creates
    <3> HIDE DEF NewPart
    <3>. QED  BY <1>1, <3>1 DEF DirsHoldParts, AppendSteps
  <2>3. ASSUME NEW w \in Writers, ReturnResult(w) PROVE \A f \in parts' : f.cell \in dirs'
    BY <1>1, <2>3 DEF ReturnResult, DirsHoldParts
  <2>4. ASSUME NEW w \in Writers, WritePart(w) PROVE \A f \in parts' : f.cell \in dirs'
    BY <1>1, <2>4, WritingGrows DEF DirsHoldParts
  <2>. QED  BY <1>0, <2>1, <2>2, <2>3, <2>4, StepKinds
<1>3. \A w \in Writers : pc'[w] \in AppendSteps \ {"mkdir"} => cell'[w] \in dirs'
  <2> DEFINE P == \A w \in Writers : pc'[w] \in AppendSteps \ {"mkdir"} => cell'[w] \in dirs'
  <2>1. ASSUME NEW w \in Writers, Construct(w) \/ MakeDir(w) \/ CheckManifest(w)
               \/ CreateSidecar(w) \/ WriteSidecar(w)
        PROVE  P
    BY <1>0, <2>1 DEF Construct, MakeDir, CheckManifest, CreateSidecar, WriteSidecar,
                      AppendSteps, DirsHoldParts
  <2>2. ASSUME NEW w \in Writers, ListParts(w) \/ CreatePart(w) \/ WritePart(w)
               \/ ReturnResult(w)
        PROVE  P
    BY <1>0, <2>2 DEF ListParts, CreatePart, WritePart, ReturnResult, AppendSteps,
                      DirsHoldParts
  <2>3. ASSUME NEW w \in Writers, MakeSealDir(w) \/ CreateMarker(w) \/ BeginAppend(w)
               \/ BeginSeal(w) \/ Crash(w)
        PROVE  P
    BY <1>0, <2>3 DEF MakeSealDir, CreateMarker, BeginAppend, BeginSeal, Crash, AppendSteps,
                      DirsHoldParts
  <2>4. ASSUME DigestNext PROVE P
    BY <2>4 DEF DigestNext, StartDigest, ListPartition, ReadPart, FinishPartition, DirsHoldParts
  <2>5. CASE UNCHANGED vars
    BY <2>5 DEF vars, DirsHoldParts
  <2>. QED  BY <2>1, <2>2, <2>3, <2>4, <2>5 DEF Next, WriteNext, WriterStep
<1>. QED  BY <1>2, <1>3 DEF DirsHoldParts

(* Every step keeps what the running root digest owes reachable: in what it has *)
(* read, in the files it has listed, or in the partitions it has to list.   *)
LEMMA DigestKept ==
  ASSUME DiskInv, DirsHoldParts, DigestInv, [Next]_vars
  PROVE  DigestInv'
<1>0. /\ ReaderShape
      /\ \A a \in acked : a \in acked' /\ PartAt(a[1], a[2])' = PartAt(a[1], a[2])
  BY AckedPartStays DEF DiskInv
<1>1. CASE reader' = reader
  BY <1>0, <1>1 DEF DigestInv, IsRead
<1>2. ASSUME NEW r \in Roots, StartDigest(r) PROVE DigestInv'
  <2>1. /\ reader'.pc = "partition" /\ acked' = acked
        /\ reader'.todo = {c \in dirs : Root[c] = r}
        /\ reader'.owed = {a \in acked : Root[a[1]] = r}
    BY <1>2 DEF StartDigest, IdleReader
  <2>2. \A a \in acked : a[1] \in dirs
    BY AckedPart DEF DirsHoldParts
  <2>. QED  BY <2>1, <2>2 DEF DigestInv
<1>3. CASE ListPartition
  <2>1. PICK c \in reader.todo :
          reader' = [reader EXCEPT !.pc = "file", !.todo = @ \ {c}, !.cell = c,
                                   !.files = Indexes(c)]
    BY <1>3 DEF ListPartition
  <2>2. /\ reader.pc = "partition" /\ reader'.pc = "file"
        /\ reader'.todo = reader.todo \ {c} /\ reader'.cell = c
        /\ reader'.files = Indexes(c) /\ reader'.read = reader.read
        /\ reader'.owed = reader.owed /\ acked' = acked
    BY <1>0, <1>3, <2>1 DEF ListPartition, ReaderShape
  <2>3. reader.owed \subseteq acked
    BY <2>2 DEF DigestInv
  <2>4. ASSUME NEW a \in reader.owed
        PROVE  a[1] \in reader'.todo \/ (a[1] = c /\ a[2] \in Indexes(c)) \/ IsRead(a)'
    <3>1. CASE a[1] \in reader.todo
      <4>1. a[1] = c => a[2] \in Indexes(c)
        BY <2>3, <2>4, AckedPart DEF Indexes, PartsOf
      <4>. QED  BY <2>2, <3>1, <4>1
    <3>2. CASE IsRead(a)
      BY <1>0, <2>2, <2>3, <2>4, <3>2 DEF IsRead
    <3>. QED  BY <2>2, <2>4, <3>1, <3>2 DEF DigestInv
  <2>. QED  BY <1>0, <2>2, <2>3, <2>4 DEF DigestInv
<1>4. CASE ReadPart
  <2>1. PICK i \in reader.files :
          reader' = IF PartAt(reader.cell, i).cut THEN IdleReader
                    ELSE [reader EXCEPT !.files = @ \ {i},
                            !.read = @ \cup {[cell |-> PartAt(reader.cell, i).cell, index |-> i,
                                             lines |-> Lines(PartAt(reader.cell, i))]}]
    BY <1>4 DEF ReadPart
  <2>2. reader.pc = "file" /\ acked' = acked
    BY <1>4 DEF ReadPart
  <2>3. CASE PartAt(reader.cell, i).cut
    BY <2>1, <2>3 DEF IdleReader, DigestInv
  <2>4. CASE ~PartAt(reader.cell, i).cut
    <3> DEFINE q == [cell |-> PartAt(reader.cell, i).cell, index |-> i,
                     lines |-> Lines(PartAt(reader.cell, i))]
    <3>1. /\ reader'.pc = "file" /\ reader'.todo = reader.todo
          /\ reader'.cell = reader.cell /\ reader'.files = reader.files \ {i}
          /\ reader'.read = reader.read \cup {q} /\ reader'.owed = reader.owed
      BY <1>0, <2>1, <2>2, <2>4 DEF ReaderShape
    <3>2. q.cell = PartAt(reader.cell, i).cell /\ q.index = i
          /\ q.lines = Lines(PartAt(reader.cell, i))
      OBVIOUS
    <3> HIDE DEF q
    <3>3. reader.owed \subseteq acked
      BY <2>2 DEF DigestInv
    <3>4. ASSUME NEW a \in reader.owed
          PROVE  \/ a[1] \in reader.todo
                 \/ a[1] = reader.cell /\ a[2] \in reader.files \ {i}
                 \/ IsRead(a)'
      <4>1. CASE a[1] = reader.cell /\ a[2] = i
        <5>1. q.cell = a[1] /\ q.index = a[2] /\ q.lines = PartAt(a[1], a[2]).batch
          BY <3>2, <3>3, <3>4, <4>1, AckedPart
        <5>. QED  BY <1>0, <3>1, <3>3, <3>4, <5>1 DEF IsRead
      <4>2. CASE IsRead(a)
        BY <1>0, <3>1, <3>3, <3>4, <4>2 DEF IsRead
      <4>. QED  BY <2>2, <3>4, <4>1, <4>2 DEF DigestInv
    <3>. QED  BY <2>2, <3>1, <3>3, <3>4 DEF DigestInv
  <2>. QED  BY <2>3, <2>4
<1>5. CASE FinishPartition
  <2>1. /\ reader.pc = "file" /\ reader.files = {} /\ acked' = acked
        /\ reader'.pc = (IF reader.todo = {} THEN "done" ELSE "partition")
        /\ reader'.todo = reader.todo /\ reader'.read = reader.read
        /\ reader'.owed = reader.owed
    BY <1>0, <1>5 DEF FinishPartition, ReaderShape
  <2>2. ASSUME NEW a \in reader.owed PROVE a[1] \in reader.todo \/ IsRead(a)'
    <3>1. a \in acked /\ (a[1] \in reader.todo \/ IsRead(a))
      BY <2>1, <2>2 DEF DigestInv
    <3>. QED  BY <1>0, <2>1, <3>1 DEF IsRead
  <2>. QED  BY <2>1, <2>2 DEF DigestInv
<1>6. ASSUME NEW w \in Writers, WriterStep(w) \/ BeginAppend(w) \/ BeginSeal(w) \/ Crash(w)
      PROVE  reader' = reader
  BY <1>6 DEF WriterStep, Construct, MakeDir, CheckManifest, CreateSidecar, WriteSidecar,
              ListParts, CreatePart, WritePart, ReturnResult, MakeSealDir, CreateMarker,
              BeginAppend, BeginSeal, Crash
<1>7. UNCHANGED vars => reader' = reader
  BY DEF vars
<1>. QED  BY <1>1, <1>2, <1>3, <1>4, <1>5, <1>6, <1>7 DEF Next, WriteNext, DigestNext

(* A root digest covers every append() that had returned when it began, in    *)
(* full, although writers go on while it reads.                            *)
THEOREM DigestCoversAckedTheorem == Spec => []DigestCoversAcked
<1>1. Init => DirsHoldParts /\ DigestInv
  BY DEF Init, DirsHoldParts, DigestInv, IdleReader, AppendSteps
<1>2. DiskInv /\ DirsHoldParts /\ [Next]_vars => DirsHoldParts'
  BY DirsKept
<1>3. DiskInv /\ DirsHoldParts /\ DigestInv /\ [Next]_vars => DigestInv'
  BY DigestKept
<1>4. DigestInv => DigestCoversAcked
  BY DEF DigestInv, DigestCoversAcked, IsRead
<1>. QED  BY <1>1, <1>2, <1>3, <1>4, DiskInvariant, PTL DEF Spec

-----------------------------------------------------------------------------
(***************************************************************************)
(* The leaf digest.                                                        *)
(***************************************************************************)
(* The part files of a partition are lists of records, one after the other.  *)
LEMMA LeafIsSorted ==
  ASSUME DiskInv, Numbered, NEW c \in Cells
  PROVE  LeafMaterial(c) \in Seq(Records) /\ Rising(Key, LeafMaterial(c))
<1>. DEFINE k == Cardinality(PartsOf(c))
            lines == [n \in 1..k |-> Lines(PartAt(c, n))]
            x == Flattened(lines)
<1>1. k \in Nat /\ Indexes(c) = 1..k
  BY FilesOfPartition, FS_CardinalityType
<1>2. ASSUME NEW n \in 1..k PROVE lines[n] \in Seq(Records)
  <2>1. \E f \in parts : f.cell = c /\ f.index = n
    BY <1>1 DEF Indexes, PartsOf
  <2>2. PartAt(c, n) \in parts
    BY <2>1 DEF PartAt
  <2>3. PartAt(c, n).batch \in Seq(Records)
    BY <2>2 DEF DiskInv, TypeOK, PartFile
  <2>4. PartAt(c, n).written \in Nat /\ PartAt(c, n).written <= Len(PartAt(c, n).batch)
    BY <2>2 DEF DiskInv, TypeOK, PartFile
  <2>5. \A b \in Seq(Records), w \in Nat : w <= Len(b) => SubSeq(b, 1, w) \in Seq(Records)
    OBVIOUS
  <2>6. Lines(PartAt(c, n)) \in Seq(Records)
    BY <2>3, <2>4, <2>5 DEF Lines
  <2>. QED  BY <2>6
<1>3. DOMAIN lines = 1..k /\ lines = [n \in 1..k |-> lines[n]]
  OBVIOUS
<1>4. LeafMaterial(c) = SortByKey(x)
  BY DEF LeafMaterial
<1>. HIDE DEF lines, k, x
<1>5. AllLogs(lines)
  <2>1. IsLog(lines)
    BY <1>1, <1>3, LogOf
  <2>. QED  BY <1>2, <1>3, <2>1, RecordLists DEF AllLogs
<1>6. IsLog(x) /\ EntriesOf(x) = UNION {EntriesOf(lines[n]) : n \in DOMAIN lines}
  BY <1>5, FlattenedIs DEF x
<1>7. \A i \in DOMAIN x : x[i] \in Records
  <2>1. \A n \in DOMAIN lines : EntriesOf(lines[n]) \subseteq Records
    BY <1>2, <1>3, RecordLists DEF EntriesOf
  <2>2. \A i \in DOMAIN x : x[i] \in EntriesOf(x)
    BY DEF EntriesOf
  <2>. QED  BY <1>6, <2>1, <2>2
<1>8. x \in Seq(Records)
  <2>1. DOMAIN x = 1..Len(x) /\ Len(x) \in Nat
    BY <1>6 DEF IsLog
  <2>2. x \in [1..Len(x) -> Records]
    BY <1>6, <1>7, <2>1 DEF IsLog
  <2>. QED  BY <2>1, <2>2, IsASeq
<1>9. SortByKey(x) \in Seq(Records)
  BY <1>8, SortByKeyType
<1>10. Rising(Key, SortByKey(x))
  <2>1. \A i \in DOMAIN x : Key[x[i]] \in Int
    BY <1>8, RecordLists
  <2>. QED  BY <1>6, <2>1, SortedIs DEF SortByKey
<1>. QED  BY <1>4, <1>9, <1>10

(* A leaf digest does not tell how the records of a partition were split over *)
(* appends, nor in which order these came, when no two records share a key.  *)
THEOREM DigestIgnoresInsertionOrderTheorem == Spec => []DigestIgnoresInsertionOrder
<1>1. ASSUME DiskInv, Numbered PROVE DigestIgnoresInsertionOrder
  <2>. SUFFICES ASSUME \A r, s \in Records : Key[r] = Key[s] => r = s,
                       NEW c \in Cells, NEW d \in Cells,
                       SameRecords(LeafMaterial(c), LeafMaterial(d))
                PROVE  LeafMaterial(c) = LeafMaterial(d)
    BY DEF DigestIgnoresInsertionOrder
  <2>. DEFINE a == LeafMaterial(c)
              b == LeafMaterial(d)
  <2>1. a \in Seq(Records) /\ Rising(Key, a) /\ b \in Seq(Records) /\ Rising(Key, b)
    BY <1>1, LeafIsSorted
  <2>2. \A r \in Records : Cardinality({i \in DOMAIN a : a[i] = r}) = Cardinality({i \in DOMAIN b : b[i] = r})
    BY DEF SameRecords, Copies
  <2>. HIDE DEF a, b
  <2>3. /\ IsLog(a) /\ DOMAIN a = 1..Len(a) /\ \A i \in DOMAIN a : a[i] \in Records /\ Key[a[i]] \in Int
        /\ IsLog(b) /\ DOMAIN b = 1..Len(b) /\ \A i \in DOMAIN b : b[i] \in Records /\ Key[b[i]] \in Int
    BY <2>1, RecordLists
  <2>4. EntriesOf(a) \cup EntriesOf(b) \subseteq Records
    BY <2>3 DEF EntriesOf
  <2>5. Permuted(a, b)
    BY <2>2, <2>3, <2>4, SameCountsPermute
  <2>6. Len(a) = Len(b) /\ \A k \in DOMAIN a : Key[a[k]] = Key[b[k]]
    <3>1. IsLog(a) /\ IsLog(b)
      BY <2>3
    <3>2. (\A i \in DOMAIN a : Key[a[i]] \in Int) /\ (\A i \in DOMAIN b : Key[b[i]] \in Int)
      BY <2>3
    <3>3. Rising(Key, a) /\ Rising(Key, b)
      BY <2>1
    <3>. QED  BY <2>5, <3>1, <3>2, <3>3, RisingSame
  <2>7. \A k \in 1..Len(a) : a[k] = b[k]
    BY <2>3, <2>6
  <2>8. a = [k \in 1..Len(a) |-> a[k]] /\ b = [k \in 1..Len(a) |-> b[k]]
    BY <2>3, <2>6 DEF IsLog
  <2>9. [k \in 1..Len(a) |-> a[k]] = [k \in 1..Len(a) |-> b[k]]
    BY <2>7
  <2>10. a = b
    BY <2>8, <2>9
  <2>. QED  BY <2>10 DEF a, b
<1>. QED  BY <1>1, DiskInvariant, NumberedInvariant, PTL
=============================================================================
