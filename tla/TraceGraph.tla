----------------------------- MODULE TraceGraph -----------------------------
(***************************************************************************)
(* Trace edges between events: world/trace_edges.py, the partitions of       *)
(* world/trace_edge_store.py, the projection of                            *)
(* world/citation_graph_projection.py, the walks and lists of               *)
(* world/audit_trace_queries.py and the digests of world/trace_digest.py.   *)
(*                                                                         *)
(* One process appends here: the store's file-system calls and their races   *)
(* are those of EventLogStore.  What matters here is that edges arrive in    *)
(* batches of any order, and that what is computed from them must not show   *)
(* it.  A digest is the canonical value that is hashed.                     *)
(***************************************************************************)
EXTENDS Lists, Naturals, Sequences, FiniteSets, SequencesExt, FiniteSetsExt

CONSTANTS
  Edges,          \* edge ids
  Edge,           \* [Edges -> [source, target, label, period, category, evidence, citations, actor]]
  EdgeRank,       \* [Edges -> Nat]: order of canonical_sort_key
  EventIds,       \* event ids, recorded or not
  Recordings,     \* the sets of event ids with an event-log record to consider
  TraceManifests, \* TraceEdgeManifest values
  EdgeBatches,    \* the sequences of edges handed to append()
  MaxParts,       \* bound: part files
  Depths          \* max_depth values that are asked for

(* The default sort key ends in the edge id. *)
ASSUME EdgeRankAssumption ==
  /\ \A e \in Edges : EdgeRank[e] \in Nat
  /\ \A e, f \in Edges : EdgeRank[e] = EdgeRank[f] => e = f
ASSUME TraceAssumption == MaxParts \in Nat /\ Depths \subseteq Nat /\ EdgeBatches \subseteq Seq(Edges)

VARIABLES
  recorded,       \* event ids that have an event-log record
  traceSidecar,   \* the manifest on disk, if any
  traceParts,     \* part files in order of their names: [partition, edges]
  traceSealed     \* sealed partitions

traceVars == <<recorded, traceSidecar, traceParts, traceSealed>>

LineageLabels == {"cited_as_evidence", "derived_from", "reviewed_under", "constrained_by"}
PropagationLabels == {"propagated_to"}
ContradictionLabels == {"contradicted_by"}

(* TraceEdgePartitionKey.from_record(): no period goes by the name unknown. *)
PartitionKey(e) ==
  [period |-> IF Edge[e].period = "" THEN "unknown" ELSE Edge[e].period,
   category |-> Edge[e].category]
Partitions == {PartitionKey(e) : e \in Edges}

(* Plausible bug: part files are taken as sorted already. *)
ByFile(s) == s

ByRank(s) == SortedBy(EdgeRank, s)

TraceInit ==
  /\ recorded \in Recordings
  /\ traceSidecar = {}
  /\ traceParts = <<>>
  /\ traceSealed = {}

(* append(): a sealed partition, an edge of another partition and a sidecar  *)
(* with another manifest raise, in this order.                             *)
AppendEdges(partition, batch, m) ==
  /\ partition \notin traceSealed
  /\ \A e \in ToSet(batch) : PartitionKey(e) = partition
  /\ traceSidecar \subseteq {m}
  /\ Len(traceParts) < MaxParts
  /\ traceSidecar' = {m}
  /\ traceParts' = Append(traceParts, [partition |-> partition, edges |-> ByRank(batch)])
  /\ UNCHANGED <<recorded, traceSealed>>

SealEdges(partition) ==
  /\ partition \notin traceSealed
  /\ traceSealed' = traceSealed \cup {partition}
  /\ UNCHANGED <<recorded, traceSidecar, traceParts>>

TraceNext ==
  \E partition \in Partitions :
    \/ \E batch \in EdgeBatches, m \in TraceManifests : AppendEdges(partition, batch, m)
    \/ SealEdges(partition)

TraceSpec == TraceInit /\ [][TraceNext]_traceVars

(***************************************************************************)
(* Reading back                                                            *)
(***************************************************************************)
PartFilesOf(files, partition) == Picked(files, {n \in DOMAIN files : files[n].partition = partition})
EdgesOf(files) == Flattened([n \in DOMAIN files |-> files[n].edges])

(* compute_trace_edge_leaf_digest() sorts what it is given. *)
LeafDigest(s) == ByRank(s)
PartitionDigest(files, partition) == LeafDigest(EdgesOf(PartFilesOf(files, partition)))

(***************************************************************************)
(* The projection: counts of what edges carry, and where they lead nowhere   *)
(***************************************************************************)
CountPairs(s) == {<<x, Cardinality({n \in DOMAIN s : s[n] = x})>> : x \in ToSet(s)}

ProjectionOf(edges, events) ==
  LET of(Field(_)) == Flattened([n \in DOMAIN edges |-> Field(Edge[edges[n]])])
      sources == {Edge[e].source : e \in ToSet(edges)}
      targets == {Edge[e].target : e \in ToSet(edges)}
  IN [edges            |-> edges,
      nodes            |-> events,
      byType           |-> CountPairs(of(LAMBDA e : <<e.label>>)),
      byCategory       |-> CountPairs(of(LAMBDA e : <<e.category>>)),
      evidence         |-> CountPairs(of(LAMBDA e : e.evidence)),
      citations        |-> CountPairs(of(LAMBDA e : e.citations)),
      actors           |-> CountPairs(of(LAMBDA e : IF e.actor = "" THEN <<>> ELSE <<e.actor>>)),
      disconnected     |-> events \ (sources \cup targets),
      danglingSources  |-> sources \ events,
      danglingTargets  |-> targets \ events]
Projection(s, events) == ProjectionOf(ByRank(s), events)

(* compute_event_log_trace_combined_digest() *)
CombinedDigest(s, events) == [edges |-> LeafDigest(s), projection |-> Projection(s, events)]

(***************************************************************************)
(* The audit queries                                                       *)
(***************************************************************************)
ListEdges(s, Wanted(_)) == ByRank(Picked(s, {n \in DOMAIN s : Wanted(Edge[s[n]])}))

EdgesForEvent(s, id) == ListEdges(s, LAMBDA e : id \in {e.source, e.target})
EdgesByActor(s, actor) == ListEdges(s, LAMBDA e : e.actor = actor)
PropagationEdges(s) ==
  ListEdges(s, LAMBDA e : e.label \in PropagationLabels \/ e.category = "propagation")
EvidenceFor(s, id) ==
  UNION {ToSet(Edge[e].evidence) : e \in {f \in ToSet(s) : Edge[f].target = id}}
EventsCiting(s, ref) ==
  {Edge[e].target : e \in {f \in ToSet(s) : ref \in ToSet(Edge[f].evidence \o Edge[f].citations)}}
ContradictionPairs(s) ==
  {<<Edge[e].source, Edge[e].target>> : e \in {f \in ToSet(s) : Edge[f].label \in ContradictionLabels}}

Parents(s, id) ==
  {Edge[e].source : e \in {f \in ToSet(s) : Edge[f].target = id /\ Edge[f].label \in LineageLabels}}

(* Plausible bug: depth first.  An event first met at the end of a long way   *)
(* is not walked again from where a shorter way meets it.                   *)
LineageDepthFirst(s, id, depth) ==
  LET seen[d \in 0..depth] ==
        [v \in EventIds, visited \in SUBSET EventIds |->
           IF d = 0 THEN visited
           ELSE FoldSet(LAMBDA p, got : IF p \in got THEN got ELSE seen[d - 1][p, got \cup {p}],
                        visited, Parents(s, v))]
  IN seen[depth][id, {id}] \ {id}

(* trace_lineage_to_origin(): level by level; an event is met once, and the   *)
(* walk stops at max_depth without saying so.                              *)
Lineage(s, id, depth) ==
  LET walk[d \in 0..depth] ==
        IF d = 0 THEN [visited |-> {id}, frontier |-> {id}]
        ELSE LET before == walk[d - 1]
                 met == (UNION {Parents(s, v) : v \in before.frontier}) \ before.visited
             IN [visited |-> before.visited \cup met, frontier |-> met]
  IN walk[depth].visited \ {id}

Summary(s, id, actor, depth) ==
  [edges |-> EdgesForEvent(s, id), evidence |-> EvidenceFor(s, id),
   byActor |-> IF actor = "" THEN <<>> ELSE EdgesByActor(s, actor),
   propagation |-> PropagationEdges(s), contradictions |-> ContradictionPairs(s),
   ancestors |-> Lineage(s, id, depth)]

(***************************************************************************)
(* Properties                                                              *)
(***************************************************************************)

(* What is computed from the edges - the partition digests, the projection    *)
(* and its digest, the answers to the audit questions - is the same whatever   *)
(* the order in which the part files were written.                          *)
Reorderings ==
  {o \in [DOMAIN traceParts -> DOMAIN traceParts] : IsInjective(o) /\ \E n \in DOMAIN o : o[n] # n}

AnswersIgnoreArrival ==
  \A o \in Reorderings :
    LET files == [n \in DOMAIN traceParts |-> traceParts[o[n]]]
        now == EdgesOf(traceParts)
        then == EdgesOf(files)
    IN /\ \A p \in Partitions : PartitionDigest(files, p) = PartitionDigest(traceParts, p)
       /\ CombinedDigest(then, recorded) = CombinedDigest(now, recorded)
       /\ \A id \in EventIds, a \in {""} \cup {Edge[e].actor : e \in Edges} :
            Summary(then, id, a, 2) = Summary(now, id, a, 2)

(* The ancestor walk finds exactly the events that a way of at most          *)
(* max_depth lineage edges leads back to, through cycles, shared ancestors    *)
(* and ways of different length, and never the event itself.                *)
Back(s, id, depth) ==
  LET back[d \in 0..depth] ==
        IF d = 0 THEN {id} ELSE UNION {Parents(s, v) : v \in back[d - 1]}
  IN back

LineageWithinDepth ==
  LET s == EdgesOf(traceParts) IN
    \A id \in EventIds, depth \in Depths :
      Lineage(s, id, depth) = (UNION {Back(s, id, depth)[d] : d \in 1..depth}) \ {id}
=============================================================================
