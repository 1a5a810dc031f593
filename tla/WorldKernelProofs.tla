-------------------------- MODULE WorldKernelProofs --------------------------
(***************************************************************************)
(* Proofs about WorldKernel, for every set of spaces, events and tasks,    *)
(* every calendar and every number of days, failures and rewinds.          *)
(***************************************************************************)
EXTENDS WorldKernel, TLAPS, SequenceTheorems, FiniteSetTheorems

LedgerRecord ==
  [type : RecordTypes, date : Nat,
   subject : Spaces \cup Tasks \cup Events \cup {"world"},
   space : Spaces \cup {"world"}, path : Paths \cup {"-"}]

(* A record of the kernel is well formed when its parts are. *)
LEMMA RecordType ==
  ASSUME today \in Nat,
         NEW type \in RecordTypes,
         NEW subject \in Spaces \cup Tasks \cup Events \cup {"world"},
         NEW space \in Spaces \cup {"world"}
  PROVE  Record(type, subject, space) \in LedgerRecord
  BY DEF Record, LedgerRecord

(* A running task belongs to a space.                                        *)
LEMMA CurrentSpaceType ==
  ASSUME TypeOK, current # 0
  PROVE  CurrentSpace \in Spaces
<1>1. current \in 1..Len(registered)
  BY DEF TypeOK
<1>2. registered[current] \in Tasks
  BY <1>1 DEF TypeOK
<1>3. Task[registered[current]] \in TaskRecord
  BY <1>2, TaskAssumption
<1>. QED  BY <1>3 DEF CurrentSpace, TaskRecord

(* So is the record a finished task leaves.                                 *)
LEMMA ExecutedType ==
  ASSUME TypeOK, NEW i \in DOMAIN registered
  PROVE  Executed(i) \in LedgerRecord
<1>1. registered[i] \in Tasks  BY DEF TypeOK
<1>2. Task[registered[i]].space \in Spaces  BY <1>1, TaskAssumption DEF TaskRecord
<1>. QED  BY <1>1, <1>2 DEF Executed, LedgerRecord, RecordTypes, TypeOK

(* The variables have their types in every reachable state. *)
THEOREM Typing == Spec => []TypeOK
<1> USE DEF busVars, dayVars, hostVars
<1>1. Init => TypeOK
  BY BoundAssumption DEF Init, TypeOK, Days, Paths, LastPhase
<1>2. TypeOK /\ [Next]_vars => TypeOK'
  <2> SUFFICES ASSUME TypeOK, [Next]_vars PROVE TypeOK'
    OBVIOUS
  <2>. USE DEF TypeOK
  <2>0. ledger \in Seq(LedgerRecord)
    BY DEF LedgerRecord
  <2>1. ASSUME NEW t \in HostTasks, RegisterTask(t) PROVE TypeOK'
    <3>1. t \in Tasks /\ Task[t].space \in Spaces
      BY HostAssumption, TaskAssumption DEF TaskRecord
    <3>2. ledger' \in Seq(LedgerRecord)
      BY <2>0, <2>1, <3>1, RecordType DEF RegisterTask, RecordTypes
    <3>3. registered' \in Seq(Tasks) /\ Len(registered') = Len(registered) + 1
      BY <2>1, <3>1 DEF RegisterTask
    <3>. QED  BY <2>1, <3>2, <3>3 DEF RegisterTask, LedgerRecord
  <2>2. ASSUME NEW s \in Spaces, RegisterSpace(s) PROVE TypeOK'
    <3>. DEFINE specs == SpaceTasks[s]
    <3>1. specs \in Seq(Tasks)  BY SpaceTasksAssumption
    <3>2. PICK n \in 0..Len(specs) :
            /\ registered' = registered \o [i \in 1..n |-> specs[i]]
            /\ ledger' = Append(ledger, Record("object_registered", s, s))
                           \o [i \in 1..n |-> Record("task_scheduled", specs[i], s)]
      BY <2>2 DEF RegisterSpace
    <3>3. n \in Nat /\ \A i \in 1..n : specs[i] \in Tasks
      BY <3>1
    <3>4. [i \in 1..n |-> specs[i]] \in Seq(Tasks)
      BY <3>3
    <3>5. registered' \in Seq(Tasks) /\ Len(registered') = Len(registered) + n
      BY <3>2, <3>3, <3>4
    <3>6. Append(ledger, Record("object_registered", s, s)) \in Seq(LedgerRecord)
      BY <2>0, RecordType DEF RecordTypes
    <3>7. [i \in 1..n |-> Record("task_scheduled", specs[i], s)] \in Seq(LedgerRecord)
      <4>1. \A i \in 1..n : Record("task_scheduled", specs[i], s) \in LedgerRecord
        BY <3>3, RecordType DEF RecordTypes
      <4>. QED  BY <3>3, <4>1
    <3>8. ledger' \in Seq(LedgerRecord)
      BY <3>2, <3>6, <3>7
    <3>9. /\ DOMAIN registered \subseteq DOMAIN registered'
          /\ Len(registered) <= Len(registered')
      BY <3>3, <3>5
    <3>10. done \in Seq(DOMAIN registered')
      BY <3>9
    <3>11. /\ spaces' = spaces \cup {s} /\ pc = "idle"
           /\ UNCHANGED <<today, runMode, busVars, observed, pc, dayVars, current,
                          incoming, outgoing, hostVars>>
      BY <2>2 DEF RegisterSpace
    <3>12. due' \subseteq DOMAIN registered' /\ current' \in 0..Len(registered')
           /\ atStart' \in 0..Len(registered')
      BY <3>5, <3>9, <3>11
    <3>. QED  BY <3>5, <3>8, <3>10, <3>11, <3>12 DEF LedgerRecord
  <2>3. ASSUME NEW e \in RunnerEvents, NEW d \in {today, Event[e].simulation_date},
               RunnerPublish(e, d)
        PROVE  TypeOK'
    <3>1. e \in Events /\ Event[e].source \in Spaces /\ d \in Nat
      BY HostAssumption, EventAssumption DEF EventRecord
    <3>2. ledger' \in Seq(LedgerRecord)
      BY <2>0, <2>3, <3>1, RecordType DEF RunnerPublish, RecordTypes
    <3>. QED  BY <2>3, <3>1, <3>2 DEF RunnerPublish, Publish, LedgerRecord
  <2>4. ASSUME NEW d \in Days, RewindClock(d) PROVE TypeOK'
    BY <2>4, BoundAssumption DEF RewindClock, Days
  <2>5. CASE EnterTick
    BY <2>5 DEF EnterTick, EnterRunMode, DueTasks, Days, Paths, LastPhase
  <2>6. CASE EnterPhases
    BY <2>6 DEF EnterPhases, EnterRunMode, Days, Paths, LastPhase
  <2>7. CASE NextPhase
    BY <2>7 DEF NextPhase, DueInPhase, DueTasks, LastPhase
  <2>8. CASE Dispatch
    <3>1. PICK i \in due : /\ due' = due \ {i}
                           /\ current' = i
                           /\ pc' = StartOf(Task[registered[i]].body)
      BY <2>8 DEF Dispatch
    <3>2. registered[i] \in Tasks /\ i \in 1..Len(registered)
      OBVIOUS
    <3>3. Task[registered[i]].body \in Bodies
      BY <3>2, TaskAssumption DEF TaskRecord
    <3>4. pc' \in {"collect", "call", "record"}
      BY <3>1, <3>3 DEF StartOf, Bodies
    <3>. QED  BY <2>8, <3>1, <3>2, <3>4 DEF Dispatch
  <2>9. CASE CollectNext
    <3>1. CurrentSpace \in Spaces
      BY <2>9, CurrentSpaceType DEF CollectNext, TypeOK
    <3>2. PICK i \in DOMAIN events :
            /\ delivered' = delivered \cup {<<events[i], CurrentSpace>>}
            /\ incoming' = incoming \cup {events[i]}
            /\ ledger' = Append(ledger, Record("event_delivered", events[i], CurrentSpace))
      BY <2>9 DEF CollectNext
    <3>3. ledger' \in Seq(LedgerRecord)
      BY <2>0, <3>1, <3>2, RecordType DEF RecordTypes
    <3>. QED  BY <2>9, <3>1, <3>2, <3>3, SMTT(20) DEF CollectNext, LedgerRecord
  <2>10. CASE Observe
    <3>1. CurrentSpace \in Spaces
      BY <2>10, CurrentSpaceType DEF Observe, TypeOK
    <3>. QED  BY <2>10, <3>1 DEF Observe
  <2>11. CASE StepAndEmit
    BY <2>11 DEF StepAndEmit
  <2>12. CASE PublishNext
    <3>1. PICK e \in outgoing :
            /\ Publish(e, today)
            /\ outgoing' = outgoing \ {e}
            /\ ledger' = Append(ledger, Record("event_published", e, Event[e].source))
      BY <2>12 DEF PublishNext
    <3>2. e \in Events /\ Event[e].source \in Spaces
      BY EventAssumption DEF EventRecord
    <3>3. ledger' \in Seq(LedgerRecord)
      BY <2>0, <3>1, <3>2, RecordType DEF RecordTypes
    <3>. QED  BY <2>12, <3>1, <3>2, <3>3 DEF PublishNext, Publish, LedgerRecord
  <2>13. CASE RecordExecuted
    <3>1. current \in DOMAIN registered
      BY <2>13 DEF RecordExecuted
    <3>2. ledger' \in Seq(LedgerRecord)
      BY <2>0, <2>13, <3>1, ExecutedType DEF RecordExecuted
    <3>. QED  BY <2>13, <3>1, <3>2 DEF RecordExecuted, LedgerRecord
  <2>14. CASE PublishDuplicate \/ BodyRaises
    <3>1. Abort
      BY <2>14 DEF PublishDuplicate, BodyRaises
    <3>2. failures + 1 \in 0..MaxFailures
      BY <3>1, BoundAssumption DEF Abort
    <3>. QED  BY <3>1, <3>2 DEF Abort
  <2>15. CASE EndDay
    <3>1. Record("state_snapshot_created", "world", "world") \in LedgerRecord
      BY RecordType DEF RecordTypes
    <3>2. ledger' \in Seq(LedgerRecord)
      BY <2>0, <2>15, <3>1 DEF EndDay
    <3>. QED  BY <2>15, <3>2 DEF EndDay, LedgerRecord
  <2>16. CASE UNCHANGED vars
    BY <2>16 DEF vars
  <2>. QED
    BY <2>1, <2>2, <2>3, <2>4, <2>5, <2>6, <2>7, <2>8, <2>9, <2>10, <2>11, <2>12,
       <2>13, <2>14, <2>15, <2>16 DEF Next, Host, RunDay
<1>3. QED  BY <1>1, <1>2, PTL DEF Spec

-----------------------------------------------------------------------------
(***************************************************************************)
(* Delivery.  The two delivery invariants are not inductive by themselves: *)
(* a delivery is preceded by its publication record only because every     *)
(* event the bus holds has one.                                            *)
(***************************************************************************)
PublicationsRecorded ==
  /\ \A e \in Published : \E p \in DOMAIN ledger : IsPublication(p) /\ ledger[p].subject = e
  /\ \A p \in DOMAIN ledger : IsPublication(p) => ledger[p].subject \in Published

DeliveryInv == DeliveriesRespectDates /\ DeliveredAtMostOnce /\ PublicationsRecorded

(* The ledger records that matter here stand for bus state; other records   *)
(* may be appended freely while the bus is left alone.                      *)
LedgerGrewQuietly ==
  /\ ledger' \in Seq(LedgerRecord)
  /\ Len(ledger) <= Len(ledger')
  /\ \A i \in DOMAIN ledger : ledger'[i] = ledger[i]
  /\ \A i \in DOMAIN ledger' \ DOMAIN ledger :
       ledger'[i].type \notin {"event_delivered", "event_published"}

(* A step that leaves the bus alone and logs neither publication nor delivery *)
(* keeps the delivery invariant.                                            *)
LEMMA QuietStep ==
  ASSUME TypeOK, DeliveryInv, LedgerGrewQuietly, UNCHANGED busVars
  PROVE  DeliveryInv'
<1>. USE DEF busVars
<1>1. /\ Len(ledger) \in Nat /\ Len(ledger') \in Nat
      /\ DOMAIN ledger = 1..Len(ledger) /\ DOMAIN ledger' = 1..Len(ledger')
      /\ DOMAIN ledger \subseteq DOMAIN ledger'
  BY DEF TypeOK, LedgerGrewQuietly
<1>2. \A i \in DOMAIN ledger' :
        /\ IsDelivery(i)' <=> i \in DOMAIN ledger /\ IsDelivery(i)
        /\ IsPublication(i)' <=> i \in DOMAIN ledger /\ IsPublication(i)
  BY <1>1 DEF LedgerGrewQuietly, IsDelivery, IsPublication
<1>3. \A i \in DOMAIN ledger : ledger'[i] = ledger[i]
  BY DEF LedgerGrewQuietly
<1>4. Published' = Published
  BY DEF Published
<1>5. DeliveriesRespectDates'
  <2>1. \A e, s : IsTargetedAt(e, s)' = IsTargetedAt(e, s) /\ DeliveryDate(e)' = DeliveryDate(e)
    BY DEF IsTargetedAt, DeliveryDate
  <2>. QED  BY <1>1, <1>2, <1>3, <2>1 DEF DeliveryInv, DeliveriesRespectDates
<1>6. DeliveredAtMostOnce'
  BY <1>1, <1>2, <1>3 DEF DeliveryInv, DeliveredAtMostOnce
<1>7. PublicationsRecorded'
  BY <1>1, <1>2, <1>3, <1>4 DEF DeliveryInv, PublicationsRecorded
<1>. QED  BY <1>5, <1>6, <1>7 DEF DeliveryInv

(* The set of published ids after an append to the bus.                     *)
LEMMA PublishedGrows ==
  ASSUME TypeOK, NEW e \in Events, NEW d \in Nat, Publish(e, d)
  PROVE  Published' = Published \cup {e}
<1>1. /\ Len(events) \in Nat
      /\ DOMAIN events = 1..Len(events)
      /\ DOMAIN events' = 1..(Len(events) + 1)
      /\ \A i \in DOMAIN events : events'[i] = events[i]
      /\ events'[Len(events) + 1] = e
  BY DEF TypeOK, Publish
<1>2. ASSUME NEW f \in Published' PROVE f \in Published \cup {e}
  BY <1>1, <1>2 DEF Published
<1>3. ASSUME NEW f \in Published PROVE f \in Published'
  BY <1>1, <1>3 DEF Published
<1>4. e \in Published'
  BY <1>1 DEF Published
<1>. QED  BY <1>2, <1>3, <1>4

(* Publishing: the event is new to the bus, so no delivery record names it. *)
LEMMA PublishStep ==
  ASSUME TypeOK, DeliveryInv,
         NEW e \in Events, NEW d \in Nat, Publish(e, d),
         ledger' = Append(ledger, Record("event_published", e, Event[e].source))
  PROVE  DeliveryInv'
<1>1. /\ Len(ledger) \in Nat
      /\ DOMAIN ledger = 1..Len(ledger)
      /\ DOMAIN ledger' = 1..(Len(ledger) + 1)
      /\ \A i \in DOMAIN ledger : ledger'[i] = ledger[i]
      /\ ledger'[Len(ledger) + 1].type = "event_published"
      /\ ledger'[Len(ledger) + 1].subject = e
  BY DEF TypeOK, Record
<1>2. Published' = Published \cup {e}
  BY PublishedGrows
<1>3. \A i \in DOMAIN ledger' :
        /\ IsDelivery(i)' <=> i \in DOMAIN ledger /\ IsDelivery(i)
        /\ IsPublication(i)' <=> i = Len(ledger) + 1 \/ (i \in DOMAIN ledger /\ IsPublication(i))
  BY <1>1 DEF IsDelivery, IsPublication
<1>4. \A i \in DOMAIN ledger : IsDelivery(i) => ledger[i].subject \in Published
  BY <1>1 DEF DeliveryInv, DeliveriesRespectDates, PublicationsRecorded
<1>5. \A f \in Published : pubDate'[f] = pubDate[f]
  BY DEF Publish, TypeOK, Published
<1>6. DeliveriesRespectDates'
  <2>1. \A f, s : IsTargetedAt(f, s)' = IsTargetedAt(f, s) /\ DeliveryDate(f)' = DeliveryDate(f)
    BY DEF IsTargetedAt, DeliveryDate
  <2>. QED  BY <1>1, <1>3, <1>4, <1>5, <2>1 DEF DeliveryInv, DeliveriesRespectDates
<1>7. DeliveredAtMostOnce'
  BY <1>1, <1>3 DEF DeliveryInv, DeliveredAtMostOnce, Publish
<1>8. PublicationsRecorded'
  BY <1>1, <1>2, <1>3 DEF DeliveryInv, PublicationsRecorded
<1>. QED  BY <1>6, <1>7, <1>8 DEF DeliveryInv

(* Delivering: the pair was not marked, so no earlier record names it. *)
LEMMA CollectStep ==
  ASSUME TypeOK, DeliveryInv, CollectNext
  PROVE  DeliveryInv'
<1>. DEFINE s == CurrentSpace
<1>1. PICK k \in DOMAIN events :
        /\ Collectable(events[k], s)
        /\ delivered' = delivered \cup {<<events[k], s>>}
        /\ ledger' = Append(ledger, Record("event_delivered", events[k], s))
        /\ UNCHANGED <<events, pubDate>>
  BY DEF CollectNext
<1>. DEFINE e == events[k]
<1>2. e \in Published
  BY DEF Published
<1>. HIDE DEF s, e
<1>3. /\ Len(ledger) \in Nat
      /\ DOMAIN ledger = 1..Len(ledger)
      /\ DOMAIN ledger' = 1..(Len(ledger) + 1)
      /\ \A i \in DOMAIN ledger : ledger'[i] = ledger[i]
      /\ ledger'[Len(ledger) + 1].type = "event_delivered"
      /\ ledger'[Len(ledger) + 1].subject = e
      /\ ledger'[Len(ledger) + 1].space = s
      /\ ledger'[Len(ledger) + 1].date = today
  BY <1>1 DEF TypeOK, Record, e
<1>4. \A i \in DOMAIN ledger' :
        /\ IsPublication(i)' <=> i \in DOMAIN ledger /\ IsPublication(i)
        /\ IsDelivery(i)' <=> i = Len(ledger) + 1 \/ (i \in DOMAIN ledger /\ IsDelivery(i))
  BY <1>3 DEF IsDelivery, IsPublication
<1>5. Published' = Published
  BY <1>1 DEF Published
<1>6. DeliveriesRespectDates'
  <2>1. \A f, t : IsTargetedAt(f, t)' = IsTargetedAt(f, t) /\ DeliveryDate(f)' = DeliveryDate(f)
    BY DEF IsTargetedAt, DeliveryDate
  <2>2. IsTargetedAt(e, s) /\ pubDate[e] < today /\ DeliveryDate(e) <= today
    BY <1>1 DEF Collectable, e
  <2>3. \E p \in DOMAIN ledger : IsPublication(p) /\ ledger[p].subject = e
    BY <1>2 DEF DeliveryInv, PublicationsRecorded
  <2>4. ASSUME NEW i \in DOMAIN ledger', IsDelivery(i)'
        PROVE  LET f == ledger'[i].subject IN
               /\ IsTargetedAt(f, ledger'[i].space)
               /\ pubDate[f] < ledger'[i].date
               /\ DeliveryDate(f) <= ledger'[i].date
               /\ \E j \in 1..(i - 1) : IsPublication(j)' /\ ledger'[j].subject = f
    <3>1. CASE i = Len(ledger) + 1
      BY <1>3, <1>4, <2>2, <2>3, <3>1
    <3>2. CASE i \in DOMAIN ledger
      <4>1. IsDelivery(i) /\ ledger'[i] = ledger[i]
        BY <1>3, <1>4, <2>4, <3>2
      <4>2. \A j \in 1..(i - 1) : j \in DOMAIN ledger /\ j \in DOMAIN ledger'
        BY <1>3, <3>2
      <4>. QED  BY <1>3, <1>4, <3>2, <4>1, <4>2 DEF DeliveryInv, DeliveriesRespectDates
    <3>. QED  BY <1>3, <3>1, <3>2
  <2>. QED  BY <1>1, <2>1, <2>4 DEF DeliveriesRespectDates
<1>7. DeliveredAtMostOnce'
  <2>1. <<e, s>> \notin delivered
    BY <1>1 DEF Collectable, e
  <2>2. \A i \in DOMAIN ledger : IsDelivery(i) => ~(ledger[i].subject = e /\ ledger[i].space = s)
    BY <2>1 DEF DeliveryInv, DeliveredAtMostOnce
  <2>3. ASSUME NEW i \in DOMAIN ledger', NEW j \in DOMAIN ledger',
               IsDelivery(i)', IsDelivery(j)',
               ledger'[i].subject = ledger'[j].subject, ledger'[i].space = ledger'[j].space
        PROVE  i = j
    BY <1>3, <1>4, <2>2, <2>3 DEF DeliveryInv, DeliveredAtMostOnce
  <2>4. delivered' = {<<ledger'[i].subject, ledger'[i].space>> :
                        i \in {k2 \in DOMAIN ledger' : IsDelivery(k2)'}}
    <3>1. {<<ledger'[i].subject, ledger'[i].space>> : i \in {k2 \in DOMAIN ledger' : IsDelivery(k2)'}}
          = {<<ledger[i].subject, ledger[i].space>> : i \in {k2 \in DOMAIN ledger : IsDelivery(k2)}}
            \cup {<<e, s>>}
      BY <1>3, <1>4
    <3>. QED  BY <1>1, <3>1 DEF DeliveryInv, DeliveredAtMostOnce, e
  <2>. QED  BY <2>3, <2>4 DEF DeliveredAtMostOnce
<1>8. PublicationsRecorded'
  BY <1>3, <1>4, <1>5 DEF DeliveryInv, PublicationsRecorded
<1>. QED  BY <1>6, <1>7, <1>8 DEF DeliveryInv

(* Registering a space appends one record for it and one per task.          *)
LEMMA RegisterSpaceGrowth ==
  ASSUME TypeOK, NEW s \in Spaces, RegisterSpace(s)
  PROVE  /\ Len(ledger) <= Len(ledger')
         /\ \A i \in DOMAIN ledger : ledger'[i] = ledger[i]
         /\ \A i \in DOMAIN ledger' \ DOMAIN ledger :
              ledger'[i].type \in {"object_registered", "task_scheduled"}
<1>. DEFINE specs == SpaceTasks[s]
            first == Append(ledger, Record("object_registered", s, s))
<1>0. ledger \in Seq(LedgerRecord) /\ Len(ledger) \in Nat /\ DOMAIN ledger = 1..Len(ledger)
  BY DEF TypeOK, LedgerRecord
<1>1. PICK n \in 0..Len(specs) :
        ledger' = first \o [i \in 1..n |-> Record("task_scheduled", specs[i], s)]
  BY DEF RegisterSpace
<1>2. n \in Nat /\ \A i \in 1..n : specs[i] \in Tasks
  BY SpaceTasksAssumption
<1>3. /\ first \in Seq(LedgerRecord)
      /\ Len(first) = Len(ledger) + 1
      /\ \A i \in DOMAIN ledger : first[i] = ledger[i]
      /\ first[Len(ledger) + 1].type = "object_registered"
  BY <1>0, RecordType DEF Record, RecordTypes, TypeOK
<1>. DEFINE rest == [i \in 1..n |-> Record("task_scheduled", specs[i], s)]
<1>4. rest \in Seq(LedgerRecord) /\ Len(rest) = n
  <2>1. \A i \in 1..n : Record("task_scheduled", specs[i], s) \in LedgerRecord
    BY <1>2, RecordType DEF RecordTypes, TypeOK
  <2>. QED  BY <1>2, <2>1
<1>5. \A i \in 1..n : rest[i].type = "task_scheduled"
  BY DEF Record
<1>6. ledger' = first \o rest
  BY <1>1
<1>. HIDE DEF rest, first
<1>7. /\ Len(ledger') = Len(first) + n
      /\ \A i \in 1..(Len(first) + n) :
           ledger'[i] = IF i <= Len(first) THEN first[i] ELSE rest[i - Len(first)]
  BY <1>3, <1>4, <1>6, ConcatProperties
<1>8. DOMAIN ledger' = 1..(Len(ledger) + 1 + n)
  <2>1. ledger' \in Seq(LedgerRecord)
    BY <1>3, <1>4, <1>6, ConcatProperties
  <2>. QED  BY <1>0, <1>2, <1>3, <1>7, <2>1
<1>9. ASSUME NEW i \in DOMAIN ledger' \ DOMAIN ledger
      PROVE  ledger'[i].type \in {"object_registered", "task_scheduled"}
  <2>1. CASE i = Len(ledger) + 1
    BY <1>0, <1>2, <1>3, <1>7, <2>1
  <2>2. CASE i > Len(ledger) + 1
    <3>1. i - Len(first) \in 1..n /\ ledger'[i] = rest[i - Len(first)]
      BY <1>0, <1>2, <1>3, <1>7, <1>8, <2>2
    <3>. QED  BY <1>5, <3>1
  <2>. QED  BY <1>0, <1>2, <1>8, <2>1, <2>2
<1>. QED  BY <1>0, <1>2, <1>3, <1>7, <1>9

(* Every step of the kernel is one of the three above, or leaves bus and    *)
(* ledger alone.                                                            *)
LEMMA DeliveryInvStep ==
  ASSUME TypeOK, TypeOK', DeliveryInv, [Next]_vars
  PROVE  DeliveryInv'
<1>. USE DEF busVars
<1>0. /\ ledger \in Seq(LedgerRecord) /\ ledger' \in Seq(LedgerRecord)
      /\ Len(ledger) \in Nat /\ DOMAIN ledger = 1..Len(ledger)
  BY DEF TypeOK, LedgerRecord
<1>a. ASSUME NEW r \in LedgerRecord, r.type \notin {"event_delivered", "event_published"},
             ledger' = Append(ledger, r)
      PROVE  LedgerGrewQuietly
  BY <1>0, <1>a DEF LedgerGrewQuietly
<1>b. ASSUME UNCHANGED ledger PROVE LedgerGrewQuietly
  BY <1>0, <1>b DEF LedgerGrewQuietly
<1>1. ASSUME NEW t \in HostTasks, RegisterTask(t) PROVE DeliveryInv'
  <2>1. t \in Tasks /\ Task[t].space \in Spaces
    BY HostAssumption, TaskAssumption DEF TaskRecord
  <2>2. /\ Record("task_scheduled", t, Task[t].space) \in LedgerRecord
        /\ Record("task_scheduled", t, Task[t].space).type = "task_scheduled"
    BY <2>1, RecordType DEF Record, RecordTypes, TypeOK
  <2>. QED  BY <1>1, <1>a, <2>2, QuietStep DEF RegisterTask
<1>2. ASSUME NEW s \in Spaces, RegisterSpace(s) PROVE DeliveryInv'
  <2>1. LedgerGrewQuietly
    BY <1>0, <1>2, RegisterSpaceGrowth DEF LedgerGrewQuietly
  <2>. QED  BY <1>2, <2>1, QuietStep DEF RegisterSpace
<1>3. ASSUME NEW e \in RunnerEvents, NEW d \in {today, Event[e].simulation_date},
             RunnerPublish(e, d)
      PROVE  DeliveryInv'
  <2>1. e \in Events /\ d \in Nat
    BY HostAssumption, EventAssumption DEF EventRecord, TypeOK
  <2>. QED  BY <1>3, <2>1, PublishStep DEF RunnerPublish
<1>4. ASSUME NEW d \in Days, RewindClock(d) PROVE DeliveryInv'
  BY <1>4, <1>b, QuietStep DEF RewindClock
<1>5. CASE EnterTick \/ EnterPhases
  BY <1>5, <1>b, QuietStep DEF EnterTick, EnterPhases, EnterRunMode
<1>6. CASE NextPhase \/ Dispatch \/ Observe \/ StepAndEmit
  BY <1>6, <1>b, QuietStep DEF NextPhase, Dispatch, Observe, StepAndEmit
<1>7. CASE CollectNext
  BY <1>7, CollectStep
<1>8. CASE PublishNext
  <2>1. today \in Nat /\ outgoing \subseteq Events
    BY DEF TypeOK
  <2>. QED  BY <1>8, <2>1, PublishStep DEF PublishNext
<1>9. CASE RecordExecuted
  <2>1. current \in DOMAIN registered
    BY <1>9 DEF RecordExecuted, TypeOK
  <2>2. Executed(current) \in LedgerRecord /\ Executed(current).type = "task_executed"
    BY <2>1, ExecutedType DEF Executed
  <2>. QED  BY <1>9, <1>a, <2>2, QuietStep DEF RecordExecuted
<1>10. CASE PublishDuplicate \/ BodyRaises
  BY <1>10, <1>b, QuietStep DEF PublishDuplicate, BodyRaises, Abort
<1>11. CASE EndDay
  <2>1. /\ Record("state_snapshot_created", "world", "world") \in LedgerRecord
        /\ Record("state_snapshot_created", "world", "world").type = "state_snapshot_created"
    BY RecordType DEF Record, RecordTypes, TypeOK
  <2>2. CASE today \in MonthEnds
    <3>1. ledger' = Append(ledger, Record("state_snapshot_created", "world", "world"))
      BY <1>11, <2>2 DEF EndDay
    <3>2. LedgerGrewQuietly
      BY <1>a, <2>1, <3>1
    <3>. QED  BY <1>11, <3>2, QuietStep DEF EndDay
  <2>3. CASE today \notin MonthEnds
    BY <1>11, <1>b, <2>3, QuietStep DEF EndDay
  <2>. QED  BY <2>2, <2>3
<1>12. CASE UNCHANGED vars
  BY <1>12, <1>b, QuietStep DEF vars
<1>. QED
  BY <1>1, <1>2, <1>3, <1>4, <1>5, <1>6, <1>7, <1>8, <1>9, <1>10, <1>11, <1>12
     DEF Next, Host, RunDay

(* The strengthened delivery invariant holds in every reachable state.      *)
THEOREM DeliveryInvariance == Spec => []DeliveryInv
<1>1. Init => DeliveryInv
  BY DEF Init, DeliveryInv, DeliveriesRespectDates, DeliveredAtMostOnce, PublicationsRecorded,
         Published, IsDelivery, IsPublication
<1>2. TypeOK /\ TypeOK' /\ DeliveryInv /\ [Next]_vars => DeliveryInv'
  BY DeliveryInvStep
<1>. QED  BY <1>1, <1>2, Typing, PTL DEF Spec

(* No delivery on or before the publication date, before the delivery date, *)
(* to a space not addressed, or without its publication on record.          *)
THEOREM DeliveriesRespectDatesTheorem == Spec => []DeliveriesRespectDates
<1>1. DeliveryInv => DeliveriesRespectDates
  BY DEF DeliveryInv
<1>. QED  BY <1>1, DeliveryInvariance, PTL

(* At most one delivery record per event and space, for ever.               *)
THEOREM DeliveredAtMostOnceTheorem == Spec => []DeliveredAtMostOnce
<1>1. DeliveryInv => DeliveredAtMostOnce
  BY DEF DeliveryInv
<1>. QED  BY <1>1, DeliveryInvariance, PTL

-----------------------------------------------------------------------------
(***************************************************************************)
(* The run-mode guard.  What makes it inductive: a day under way belongs   *)
(* to the path that _run_modes names for the date, and a recorded date has *)
(* a mode that nothing can change any more.                                *)
(***************************************************************************)
RunModeInv ==
  /\ OnePathPerDate
  /\ \A i \in DOMAIN ledger : IsExecution(i) => ledger[i].date \in Days /\ ledger[i].path \in Paths
  /\ pc # "idle" => today \in Days /\ runMode[today] = path

(* A step that adds no execution record and keeps the modes of the dates.   *)
LEMMA RunModeQuietStep ==
  ASSUME TypeOK, RunModeInv,
         ledger' \in Seq(LedgerRecord),
         Len(ledger) <= Len(ledger'),
         \A i \in DOMAIN ledger : ledger'[i] = ledger[i],
         \A i \in DOMAIN ledger' \ DOMAIN ledger : ledger'[i].type # "task_executed",
         \A d \in Days : runMode[d] # "none" => runMode'[d] = runMode[d],
         pc' # "idle" => today' \in Days /\ runMode'[today'] = path'
  PROVE  RunModeInv'
<1>1. /\ Len(ledger) \in Nat /\ Len(ledger') \in Nat
      /\ DOMAIN ledger = 1..Len(ledger) /\ DOMAIN ledger' = 1..Len(ledger')
  BY DEF TypeOK
<1>2. \A i \in DOMAIN ledger' : IsExecution(i)' <=> i \in DOMAIN ledger /\ IsExecution(i)
  BY <1>1 DEF IsExecution
<1>3. "none" \notin Paths
  BY DEF Paths
<1>4. ASSUME NEW i \in DOMAIN ledger', IsExecution(i)'
      PROVE  /\ ledger'[i].date \in Days /\ ledger'[i].path \in Paths
             /\ runMode'[ledger'[i].date] = ledger'[i].path
  BY <1>2, <1>3, <1>4 DEF RunModeInv, OnePathPerDate
<1>. QED  BY <1>4 DEF RunModeInv, OnePathPerDate

(* Every step of the kernel keeps the run-mode invariant.                   *)
LEMMA RunModeInvStep ==
  ASSUME TypeOK, TypeOK', RunModeInv, DeliveryInv, [Next]_vars
  PROVE  RunModeInv'
<1>. USE DEF busVars, dayVars, hostVars
<1>0. /\ ledger' \in Seq(LedgerRecord) /\ ledger \in Seq(LedgerRecord)
      /\ Len(ledger) \in Nat /\ DOMAIN ledger = 1..Len(ledger)
  BY DEF TypeOK, LedgerRecord
<1>a. ASSUME NEW r \in LedgerRecord, ledger' = Append(ledger, r)
      PROVE  /\ Len(ledger) <= Len(ledger')
             /\ \A i \in DOMAIN ledger : ledger'[i] = ledger[i]
             /\ DOMAIN ledger' \ DOMAIN ledger = {Len(ledger) + 1}
             /\ ledger'[Len(ledger) + 1] = r
  BY <1>0, <1>a
<1>b. ASSUME UNCHANGED ledger
      PROVE  /\ Len(ledger) <= Len(ledger')
             /\ \A i \in DOMAIN ledger : ledger'[i] = ledger[i]
             /\ DOMAIN ledger' \ DOMAIN ledger = {}
  BY <1>0, <1>b
<1>1. ASSUME NEW t \in HostTasks, RegisterTask(t) PROVE RunModeInv'
  <2>1. t \in Tasks /\ Task[t].space \in Spaces
    BY HostAssumption, TaskAssumption DEF TaskRecord
  <2>2. /\ Record("task_scheduled", t, Task[t].space) \in LedgerRecord
        /\ Record("task_scheduled", t, Task[t].space).type # "task_executed"
    BY <2>1, RecordType DEF Record, RecordTypes, TypeOK
  <2>. QED  BY <1>0, <1>1, <1>a, <2>2, RunModeQuietStep DEF RegisterTask, RunModeInv
<1>2. ASSUME NEW s \in Spaces, RegisterSpace(s) PROVE RunModeInv'
  BY <1>0, <1>2, RegisterSpaceGrowth, RunModeQuietStep DEF RegisterSpace, RunModeInv
<1>3. ASSUME NEW e \in RunnerEvents, NEW d \in {today, Event[e].simulation_date},
             RunnerPublish(e, d)
      PROVE  RunModeInv'
  <2>1. e \in Events /\ Event[e].source \in Spaces
    BY HostAssumption, EventAssumption DEF EventRecord
  <2>2. /\ Record("event_published", e, Event[e].source) \in LedgerRecord
        /\ Record("event_published", e, Event[e].source).type # "task_executed"
    BY <2>1, RecordType DEF Record, RecordTypes, TypeOK
  <2>. QED  BY <1>0, <1>3, <1>a, <2>2, RunModeQuietStep DEF RunnerPublish, RunModeInv
<1>4. ASSUME NEW d \in Days, RewindClock(d) PROVE RunModeInv'
  BY <1>0, <1>4, <1>b, RunModeQuietStep DEF RewindClock, RunModeInv
<1>5. ASSUME NEW p \in Paths, EnterRunMode(p) PROVE RunModeInv'
  <2>1. today \in Days /\ runMode' = [runMode EXCEPT ![today] = p] /\ path' = p /\ today' = today
    BY <1>5, BoundAssumption DEF EnterRunMode, TypeOK, Days
  <2>2. runMode'[today] = p /\ \A d \in Days : runMode[d] # "none" => runMode'[d] = runMode[d]
    BY <1>5, <2>1 DEF EnterRunMode, TypeOK
  <2>. QED  BY <1>0, <1>5, <1>b, <2>1, <2>2, RunModeQuietStep DEF EnterRunMode
<1>6. CASE EnterTick \/ EnterPhases
  BY <1>5, <1>6 DEF EnterTick, EnterPhases, Paths
<1>7. CASE NextPhase \/ Dispatch \/ Observe \/ StepAndEmit
  BY <1>0, <1>7, <1>b, RunModeQuietStep
     DEF NextPhase, Dispatch, Observe, StepAndEmit, RunModeInv
<1>8. CASE CollectNext
  <2>1. PICK r \in LedgerRecord : ledger' = Append(ledger, r) /\ r.type # "task_executed"
    <3>1. CurrentSpace \in Spaces
      BY <1>0, <1>8, CurrentSpaceType DEF CollectNext, TypeOK
    <3>2. PICK i \in DOMAIN events :
            ledger' = Append(ledger, Record("event_delivered", events[i], CurrentSpace))
      BY <1>8 DEF CollectNext
    <3>3. events[i] \in Events
      BY DEF TypeOK
    <3>4. /\ Record("event_delivered", events[i], CurrentSpace) \in LedgerRecord
          /\ Record("event_delivered", events[i], CurrentSpace).type # "task_executed"
      BY <3>1, <3>3, RecordType DEF Record, RecordTypes, TypeOK
    <3>. QED  BY <3>2, <3>4
  <2>. QED  BY <1>0, <1>8, <1>a, <2>1, RunModeQuietStep DEF CollectNext, RunModeInv
<1>9. CASE PublishNext
  <2>1. PICK r \in LedgerRecord : ledger' = Append(ledger, r) /\ r.type # "task_executed"
    <3>1. PICK e \in outgoing : ledger' = Append(ledger, Record("event_published", e, Event[e].source))
      BY <1>9 DEF PublishNext
    <3>2. e \in Events /\ Event[e].source \in Spaces
      BY EventAssumption DEF EventRecord, TypeOK
    <3>3. /\ Record("event_published", e, Event[e].source) \in LedgerRecord
          /\ Record("event_published", e, Event[e].source).type # "task_executed"
      BY <3>2, RecordType DEF Record, RecordTypes, TypeOK
    <3>. QED  BY <3>1, <3>3
  <2>. QED  BY <1>0, <1>9, <1>a, <2>1, RunModeQuietStep DEF PublishNext, RunModeInv
<1>10. CASE RecordExecuted
  <2>1. current \in DOMAIN registered /\ pc # "idle"
    BY <1>10 DEF RecordExecuted, TypeOK
  <2>2. Executed(current) \in LedgerRecord
    BY <2>1, ExecutedType
  <2>3. /\ today \in Days /\ path \in Paths /\ runMode[today] = path
        /\ Executed(current).date = today /\ Executed(current).path = path
    BY <2>1 DEF RunModeInv, TypeOK, Executed
  <2>4. ledger' = Append(ledger, Executed(current))
        /\ UNCHANGED <<today, runMode, path>> /\ pc' = "dispatch"
    BY <1>10 DEF RecordExecuted
  <2>5. \A i \in DOMAIN ledger' : i \in DOMAIN ledger \/ i = Len(ledger) + 1
    BY <1>a, <2>2, <2>4
  <2>6. ASSUME NEW i \in DOMAIN ledger', IsExecution(i)'
        PROVE  /\ ledger'[i].date \in Days /\ ledger'[i].path \in Paths
               /\ runMode'[ledger'[i].date] = ledger'[i].path
    BY <1>a, <2>2, <2>3, <2>4, <2>5, <2>6 DEF RunModeInv, OnePathPerDate, IsExecution
  <2>. QED  BY <2>3, <2>4, <2>6 DEF RunModeInv, OnePathPerDate
<1>11. CASE PublishDuplicate \/ BodyRaises
  BY <1>0, <1>11, <1>b, RunModeQuietStep DEF PublishDuplicate, BodyRaises, Abort
<1>12. CASE EndDay
  <2>1. CASE today \in MonthEnds
    <3>1. ledger' = Append(ledger, Record("state_snapshot_created", "world", "world"))
      BY <1>12, <2>1 DEF EndDay
    <3>2. /\ Record("state_snapshot_created", "world", "world") \in LedgerRecord
          /\ Record("state_snapshot_created", "world", "world").type # "task_executed"
      BY RecordType DEF Record, RecordTypes, TypeOK
    <3>. QED  BY <1>0, <1>12, <1>a, <3>1, <3>2, RunModeQuietStep DEF EndDay
  <2>2. CASE today \notin MonthEnds
    BY <1>0, <1>12, <1>b, <2>2, RunModeQuietStep DEF EndDay
  <2>. QED  BY <2>1, <2>2
<1>13. CASE UNCHANGED vars
  BY <1>0, <1>13, <1>b, RunModeQuietStep DEF vars, RunModeInv
<1>. QED
  BY <1>1, <1>2, <1>3, <1>4, <1>6, <1>7, <1>8, <1>9, <1>10, <1>11, <1>12, <1>13
     DEF Next, Host, RunDay

(* Whatever is retried after a raise or revisited after a rewind, all tasks *)
(* recorded for a date ran on one path: the guard of _enter_run_mode().     *)
THEOREM OnePathPerDateTheorem == Spec => []OnePathPerDate
<1>1. Init => RunModeInv
  BY DEF Init, RunModeInv, OnePathPerDate, IsExecution
<1>2. TypeOK /\ TypeOK' /\ RunModeInv /\ DeliveryInv /\ [Next]_vars => RunModeInv'
  BY RunModeInvStep
<1>3. RunModeInv => OnePathPerDate
  BY DEF RunModeInv
<1>. QED  BY <1>1, <1>2, <1>3, Typing, DeliveryInvariance, PTL DEF Spec

-----------------------------------------------------------------------------
(***************************************************************************)
(* Refinement: the kernel implements EventDelivery.  A publication and a   *)
(* delivery map to themselves, EndDay and RewindClock to SetClock, every   *)
(* other step to a stutter.                                                *)
(***************************************************************************)
(* publish() maps to the abstract Publish.                                  *)
LEMMA PublishRefines ==
  ASSUME TypeOK, NEW e \in Events, NEW d \in Nat, Publish(e, d), UNCHANGED today
  PROVE  Bus!Publish(e)
<1>1. Published' = Published \cup {e}
  BY PublishedGrows
<1>2. e \notin Published /\ pubDate' = [pubDate EXCEPT ![e] = d] /\ pubDate'[e] = d
      /\ UNCHANGED delivered
  BY DEF Publish, TypeOK
<1>. QED  BY <1>1, <1>2 DEF Bus!Publish

(* One round of collect_for_space() maps to the abstract Deliver.           *)
LEMMA CollectRefines ==
  ASSUME TypeOK, CollectNext
  PROVE  \E e \in Events, s \in Spaces : Bus!Deliver(e, s)
<1>1. CurrentSpace \in Spaces
  BY CurrentSpaceType DEF CollectNext, TypeOK
<1>2. PICK i \in DOMAIN events :
        /\ Collectable(events[i], CurrentSpace)
        /\ delivered' = delivered \cup {<<events[i], CurrentSpace>>}
        /\ UNCHANGED <<today, events, pubDate>>
  BY DEF CollectNext
<1>3. events[i] \in Events /\ events[i] \in Published
  BY DEF TypeOK, Published
<1>4. Published' = Published
  BY <1>2 DEF Published
<1>5. Bus!Deliver(events[i], CurrentSpace)
  BY <1>2, <1>3, <1>4
     DEF Bus!Deliver, Collectable, IsTargetedAt, DeliveryDate, Bus!IsTargetedAt, Bus!DeliveryDate
<1>. QED  BY <1>1, <1>3, <1>5

(* Every step of the kernel maps to a step of the bus or to a stutter.      *)
LEMMA StepRefines ==
  ASSUME TypeOK, TypeOK', [Next]_vars
  PROVE  [Bus!Next]_(Bus!vars)
<1>. USE DEF busVars
<1>a. ASSUME UNCHANGED busVars, UNCHANGED today PROVE UNCHANGED Bus!vars
  BY <1>a DEF Bus!vars, Published
<1>b. ASSUME UNCHANGED busVars PROVE [Bus!Next]_(Bus!vars)
  <2>1. Published' = Published /\ today' \in Nat
    BY <1>b DEF Published, TypeOK
  <2>2. Bus!SetClock
    BY <1>b, <2>1 DEF Bus!SetClock
  <2>. QED  BY <2>2 DEF Bus!Next
<1>1. ASSUME NEW t \in HostTasks, RegisterTask(t) PROVE UNCHANGED busVars
  BY <1>1 DEF RegisterTask
<1>2. ASSUME NEW s \in Spaces, RegisterSpace(s) PROVE UNCHANGED busVars
  BY <1>2 DEF RegisterSpace
<1>3. ASSUME NEW e \in RunnerEvents, NEW d \in {today, Event[e].simulation_date},
             RunnerPublish(e, d)
      PROVE  [Bus!Next]_(Bus!vars)
  <2>1. e \in Events /\ d \in Nat
    BY HostAssumption, EventAssumption DEF EventRecord, TypeOK
  <2>2. Bus!Publish(e)
    BY <1>3, <2>1, PublishRefines DEF RunnerPublish
  <2>. QED  BY <2>1, <2>2 DEF Bus!Next
<1>4. ASSUME NEW d \in Days, RewindClock(d) PROVE UNCHANGED busVars
  BY <1>4 DEF RewindClock
<1>5. CASE \/ EnterTick \/ EnterPhases \/ NextPhase \/ Dispatch \/ Observe \/ StepAndEmit
           \/ RecordExecuted \/ PublishDuplicate \/ BodyRaises \/ EndDay \/ UNCHANGED vars
  <2>1. UNCHANGED busVars
    BY <1>5 DEF EnterTick, EnterPhases, EnterRunMode, NextPhase, Dispatch, Observe,
                StepAndEmit, RecordExecuted, PublishDuplicate, BodyRaises, Abort, EndDay, vars
  <2>. QED  BY <1>b, <2>1
<1>6. CASE CollectNext
  <2>1. \E e \in Events, s \in Spaces : Bus!Deliver(e, s)
    BY <1>6, CollectRefines
  <2>. QED  BY <2>1 DEF Bus!Next
<1>7. CASE PublishNext
  <2>1. PICK e \in outgoing : Publish(e, today)
    BY <1>7 DEF PublishNext
  <2>2. e \in Events /\ today \in Nat /\ UNCHANGED today
    BY <1>7 DEF TypeOK, PublishNext
  <2>3. Bus!Publish(e)
    BY <2>1, <2>2, PublishRefines
  <2>. QED  BY <2>2, <2>3 DEF Bus!Next
<1>. QED
  BY <1>b, <1>1, <1>2, <1>3, <1>4, <1>5, <1>6, <1>7 DEF Next, Host, RunDay

(* The kernel, with its failures, retries and rewinds, keeps the promise of *)
(* the event bus: EventBus's class docstring as a specification.            *)
THEOREM KernelImplementsEventDelivery == Spec => ImplementsEventDelivery
<1>1. Init => Bus!Init
  BY DEF Init, Bus!Init, Published
<1>2. TypeOK /\ TypeOK' /\ [Next]_vars => [Bus!Next]_(Bus!vars)
  BY StepRefines
<1>. QED  BY <1>1, <1>2, Typing, PTL DEF Spec, ImplementsEventDelivery, Bus!Spec
-----------------------------------------------------------------------------
(***************************************************************************)
(* The day under way.  ControlInv says what the program counter means,     *)
(* OrderInv and CompleteInv relate the due, running and finished tasks,    *)
(* CollectedAll and HandedOver the event bus and the running space, and    *)
(* CountInv the ledger and the number of entries of a date.                *)
(***************************************************************************)
Body(i) == Task[registered[i]].body

ControlInv ==
  /\ pc \in {"idle", "dispatch"} => current = 0
  /\ pc # "collect" => incoming = {}
  /\ pc \in {"collect", "step", "publish"} => Body(current) = "space"
  /\ pc \in {"call", "record"} => Body(current) # "space"
  /\ \A i, j \in DOMAIN registered : registered[i] = registered[j] => i = j

Running == IF current = 0 THEN {} ELSE {current}

(* Every task at hand comes after what ran, within the phase reached.       *)
OrderInv ==
  /\ \A i, j \in DOMAIN done : i < j => Before(done[i], done[j])
  /\ pc # "idle" =>
       /\ \A k \in DOMAIN done : \A i \in due \cup Running : Before(done[k], i)
       /\ \A i \in Running : \A j \in due : Before(i, j)
       /\ path = "intraday_phase" =>
            /\ \A k \in DOMAIN done : Task[registered[done[k]]].phase <= phase
            /\ \A i \in due \cup Running : Task[registered[i]].phase <= phase

(* A due task of the day is waiting, running or done, once its phase came.  *)
CompleteInv ==
  pc # "idle" =>
    \A i \in 1..atStart :
      i \in DueTasks /\ (path = "intraday_phase" => Task[registered[i]].phase \in 1..phase)
      => i \in due \cup Running \/ \E k \in DOMAIN done : done[k] = i

(* How often a record stands in the ledger.                                 *)
Occurrences(r) == {y \in DOMAIN ledger : ledger[y] = r}
Count(r) == Cardinality(Occurrences(r))

RanToday(t) == pc # "idle" /\ \E k \in DOMAIN done : registered[done[k]] = t

CountInv ==
  \A r \in LedgerRecord : r.type = "task_executed" =>
    /\ Count(r) <= 1 + failures + rewinds
    /\ r.date > today \/ (r.date = today /\ ~RanToday(r.subject))
       => Count(r) <= failures + rewinds

(* Registering a space appends its first tasks, up to one already taken.    *)
LEMMA RegisterSpaceTasks ==
  ASSUME TypeOK, NEW s \in Spaces, RegisterSpace(s)
  PROVE  \E n \in Nat :
           /\ n <= Len(SpaceTasks[s])
           /\ \A i \in 1..n : /\ SpaceTasks[s][i] \notin Scheduled
                              /\ \A j \in 1..(i - 1) : SpaceTasks[s][j] # SpaceTasks[s][i]
           /\ registered' \in Seq(Tasks)
           /\ Len(registered') = Len(registered) + n
           /\ \A i \in DOMAIN registered : registered'[i] = registered[i]
           /\ \A i \in 1..n : registered'[Len(registered) + i] = SpaceTasks[s][i]
<1>. DEFINE specs == SpaceTasks[s]
<1>0. specs \in Seq(Tasks) /\ registered \in Seq(Tasks) /\ Len(registered) \in Nat
  BY SpaceTasksAssumption DEF TypeOK
<1>1. PICK n \in 0..Len(specs) :
        /\ \A i \in 1..n : /\ specs[i] \notin Scheduled
                           /\ \A j \in 1..(i - 1) : specs[j] # specs[i]
        /\ registered' = registered \o [i \in 1..n |-> specs[i]]
  BY DEF RegisterSpace
<1>2. n \in Nat /\ n <= Len(specs) /\ \A i \in 1..n : specs[i] \in Tasks
  BY <1>0
<1>. DEFINE more == [i \in 1..n |-> specs[i]]
<1>3. more \in Seq(Tasks) /\ Len(more) = n /\ \A i \in 1..n : more[i] = specs[i]
  BY <1>2
<1>4. registered' = registered \o more
  BY <1>1
<1>. HIDE DEF more, specs
<1>5. /\ registered' \in Seq(Tasks)
      /\ Len(registered') = Len(registered) + n
      /\ \A i \in 1..(Len(registered) + n) :
           registered'[i] = IF i <= Len(registered) THEN registered[i]
                            ELSE more[i - Len(registered)]
  BY <1>0, <1>3, <1>4, ConcatProperties
<1>6. \A i \in DOMAIN registered : i \in 1..(Len(registered) + n) /\ i <= Len(registered)
  BY <1>0, <1>2
<1>7. \A i \in 1..n : /\ Len(registered) + i \in 1..(Len(registered) + n)
                      /\ ~(Len(registered) + i <= Len(registered))
                      /\ Len(registered) + i - Len(registered) = i
  BY <1>0, <1>2
<1>8. \A i \in DOMAIN registered : registered'[i] = registered[i]
  BY <1>5, <1>6
<1>9. \A i \in 1..n : registered'[Len(registered) + i] = specs[i]
  BY <1>3, <1>5, <1>7
<1>. QED  BY <1>1, <1>2, <1>5, <1>8, <1>9 DEF specs

(* The task list only grows, and at its end.                                *)
Grew ==
  /\ Len(registered) <= Len(registered')
  /\ \A i \in DOMAIN registered : registered'[i] = registered[i]

LEMMA RegisteredGrows ==
  ASSUME TypeOK, [Next]_vars
  PROVE  Grew
<1>0. registered \in Seq(Tasks) /\ Len(registered) \in Nat
  BY DEF TypeOK
<1>1. ASSUME NEW t \in HostTasks, RegisterTask(t) PROVE Grew
  BY <1>0, <1>1, HostAssumption DEF RegisterTask, Grew
<1>2. ASSUME NEW s \in Spaces, RegisterSpace(s) PROVE Grew
  BY <1>0, <1>2, RegisterSpaceTasks DEF Grew
<1>3. ASSUME UNCHANGED registered PROVE Grew
  BY <1>0, <1>3 DEF Grew
<1>4. UNCHANGED registered \/ (\E t \in HostTasks : RegisterTask(t)) \/ (\E s \in Spaces : RegisterSpace(s))
  BY DEF Next, Host, RunDay, RunnerPublish, RewindClock, EnterTick, EnterPhases, EnterRunMode,
         NextPhase, Dispatch, CollectNext, Observe, StepAndEmit, PublishNext, PublishDuplicate,
         RecordExecuted, BodyRaises, Abort, EndDay, vars
<1>. QED  BY <1>1, <1>2, <1>3, <1>4

(* So what is registered keeps its sort key and its place.                  *)
LEMMA KeysStay ==
  ASSUME TypeOK, Grew
  PROVE  /\ \A i \in DOMAIN registered : registered'[i] = registered[i]
         /\ \A i, j \in DOMAIN registered : Before(i, j)' <=> Before(i, j)
<1>1. \A i \in DOMAIN registered : registered'[i] = registered[i]
  BY DEF Grew
<1>2. ASSUME NEW i \in DOMAIN registered PROVE SortKey(i)' = SortKey(i)
  BY <1>1 DEF SortKey
<1>3. ASSUME NEW i \in DOMAIN registered, NEW j \in DOMAIN registered
      PROVE  Before(i, j)' <=> Before(i, j)
  BY <1>2 DEF Before
<1>. QED  BY <1>1, <1>3

(* register() refuses an id that is taken, also for the tasks of a space: no *)
(* task is registered twice.                                                *)
LEMMA DistinctStep ==
  ASSUME TypeOK, [Next]_vars,
         \A i, j \in DOMAIN registered : registered[i] = registered[j] => i = j
  PROVE  \A i, j \in DOMAIN registered' : registered'[i] = registered'[j] => i = j
<1>0. registered \in Seq(Tasks) /\ Len(registered) \in Nat /\ DOMAIN registered = 1..Len(registered)
  BY DEF TypeOK
<1>1. ASSUME NEW t \in HostTasks, RegisterTask(t)
      PROVE  \A i, j \in DOMAIN registered' : registered'[i] = registered'[j] => i = j
  <2>1. t \in Tasks /\ registered' = Append(registered, t) /\ \A i \in DOMAIN registered : registered[i] # t
    BY <1>1, HostAssumption DEF RegisterTask, Scheduled
  <2>2. /\ DOMAIN registered' = 1..(Len(registered) + 1)
        /\ registered'[Len(registered) + 1] = t
        /\ \A i \in DOMAIN registered : registered'[i] = registered[i]
    BY <1>0, <2>1
  <2>. QED  BY <1>0, <2>1, <2>2
<1>2. ASSUME NEW s \in Spaces, RegisterSpace(s)
      PROVE  \A i, j \in DOMAIN registered' : registered'[i] = registered'[j] => i = j
  <2>. DEFINE specs == SpaceTasks[s]
  <2>1. PICK n \in Nat :
           /\ \A i \in 1..n : /\ specs[i] \notin Scheduled
                              /\ \A j \in 1..(i - 1) : specs[j] # specs[i]
           /\ registered' \in Seq(Tasks)
           /\ Len(registered') = Len(registered) + n
           /\ \A i \in DOMAIN registered : registered'[i] = registered[i]
           /\ \A i \in 1..n : registered'[Len(registered) + i] = specs[i]
    BY <1>2, RegisterSpaceTasks
  <2>. HIDE DEF specs
  <2>2. DOMAIN registered' = 1..(Len(registered) + n)
    BY <2>1
  <2>3. \A i \in DOMAIN registered' :
          \/ i \in DOMAIN registered
          \/ /\ i - Len(registered) \in 1..n
             /\ Len(registered) + (i - Len(registered)) = i
    BY <1>0, <2>2
  <2>4. \A i \in DOMAIN registered' \ DOMAIN registered :
          i - Len(registered) \in 1..n /\ registered'[i] = specs[i - Len(registered)]
    BY <2>1, <2>3
  <2>5. \A i \in DOMAIN registered, k \in 1..n : registered[i] # specs[k]
    BY <2>1 DEF Scheduled
  <2>6. \A k, l \in 1..n : specs[k] = specs[l] => k = l
    <3>1. ASSUME NEW k \in 1..n, NEW l \in 1..n, k < l PROVE specs[k] # specs[l]
      <4>1. k \in 1..(l - 1)
        BY <3>1
      <4>. QED  BY <2>1, <4>1
    <3>. QED  BY <3>1
  <2>7. ASSUME NEW i \in DOMAIN registered', NEW j \in DOMAIN registered', registered'[i] = registered'[j]
        PROVE  i = j
    <3>1. CASE i \in DOMAIN registered /\ j \in DOMAIN registered
      BY <2>1, <2>7, <3>1
    <3>2. CASE i \in DOMAIN registered <=> j \notin DOMAIN registered
      BY <2>1, <2>4, <2>5, <2>7, <3>2
    <3>3. CASE i \notin DOMAIN registered /\ j \notin DOMAIN registered
      <4>1. i - Len(registered) = j - Len(registered)
        BY <2>4, <2>6, <2>7, <3>3
      <4>. QED  BY <1>0, <2>2, <4>1
    <3>. QED  BY <3>1, <3>2, <3>3
  <2>. QED  BY <2>7
<1>3. CASE UNCHANGED registered
  BY <1>3
<1>4. UNCHANGED registered \/ (\E t \in HostTasks : RegisterTask(t)) \/ (\E s \in Spaces : RegisterSpace(s))
  BY DEF Next, Host, RunDay, RunnerPublish, RewindClock, EnterTick, EnterPhases, EnterRunMode,
         NextPhase, Dispatch, CollectNext, Observe, StepAndEmit, PublishNext, PublishDuplicate,
         RecordExecuted, BodyRaises, Abort, EndDay, vars
<1>. QED  BY <1>1, <1>2, <1>3, <1>4

(* The program counter tells what the running body is.                      *)
LEMMA ControlInvStep ==
  ASSUME TypeOK, ControlInv, [Next]_vars
  PROVE  ControlInv'
<1>. USE DEF busVars, dayVars, hostVars
<1>0. \A i, j \in DOMAIN registered' : registered'[i] = registered'[j] => i = j
  BY DistinctStep DEF ControlInv
<1>1. ASSUME pc' = pc, current' = current, incoming' = incoming \/ pc = "collect"
      PROVE  ControlInv'
  <2>1. pc \in {"collect", "call", "step", "publish", "record"} => current \in DOMAIN registered
    BY DEF TypeOK
  <2>2. pc \in {"collect", "call", "step", "publish", "record"} => Body(current)' = Body(current)
    BY <1>1, <2>1, RegisteredGrows DEF Body, Grew
  <2>. QED  BY <1>0, <1>1, <2>2 DEF ControlInv
<1>2. CASE Host
  BY <1>1, <1>2 DEF Host, RegisterTask, RegisterSpace, RunnerPublish, RewindClock
<1>3. CASE EnterTick \/ EnterPhases
  BY <1>0, <1>3 DEF EnterTick, EnterPhases, EnterRunMode, ControlInv
<1>4. CASE NextPhase
  BY <1>1, <1>4 DEF NextPhase
<1>5. CASE Dispatch
  <2>1. PICK i \in due : current' = i /\ pc' = StartOf(Task[registered[i]].body)
                         /\ UNCHANGED <<registered, incoming>> /\ pc = "dispatch"
    BY <1>5 DEF Dispatch
  <2>2. registered[i] \in Tasks
    BY DEF TypeOK
  <2>3. Task[registered[i]].body \in Bodies
    BY <2>2, TaskAssumption DEF TaskRecord
  <2>4. \/ pc' = "collect" /\ Body(i) = "space"
        \/ pc' \in {"call", "record"} /\ Body(i) # "space"
    BY <2>1, <2>3 DEF StartOf, Bodies, Body
  <2>5. Body(current)' = Body(i)
    BY <2>1 DEF Body
  <2>. QED  BY <1>0, <2>1, <2>4, <2>5 DEF ControlInv
<1>6. CASE CollectNext
  BY <1>1, <1>6 DEF CollectNext
<1>7. CASE Observe \/ StepAndEmit \/ PublishNext
  <2>1. Body(current)' = Body(current)
    BY <1>7 DEF Observe, StepAndEmit, PublishNext, Body
  <2>. QED  BY <1>0, <1>7, <2>1 DEF Observe, StepAndEmit, PublishNext, ControlInv
<1>8. CASE RecordExecuted
  BY <1>0, <1>8 DEF RecordExecuted, ControlInv
<1>9. CASE PublishDuplicate \/ BodyRaises
  BY <1>0, <1>9 DEF PublishDuplicate, BodyRaises, Abort, ControlInv
<1>10. CASE EndDay
  BY <1>0, <1>10 DEF EndDay, ControlInv
<1>11. CASE UNCHANGED vars
  BY <1>1, <1>11 DEF vars
<1>. QED
  BY <1>2, <1>3, <1>4, <1>5, <1>6, <1>7, <1>8, <1>9, <1>10, <1>11 DEF Next, RunDay

(* The order is kept by a step that leaves the day's tasks as they are, or   *)
(* drops them.                                                              *)
LEMMA KeepsOrder ==
  ASSUME TypeOK, OrderInv, Grew, done' = done,
         pc' = "idle" \/ (pc # "idle" /\ UNCHANGED <<path, phase, due, current>>)
  PROVE  OrderInv'
<1>1. /\ \A k \in DOMAIN done : done[k] \in DOMAIN registered
      /\ due \subseteq DOMAIN registered
      /\ Running \subseteq DOMAIN registered
  BY DEF TypeOK, Running
<1>2. \A i, j \in DOMAIN registered : Before(i, j)' <=> Before(i, j)
  BY KeysStay
<1>3. \A i \in DOMAIN registered : registered'[i] = registered[i]
  BY DEF Grew
<1>4. CASE pc' = "idle"
  BY <1>1, <1>2, <1>4 DEF OrderInv
<1>5. CASE pc # "idle" /\ UNCHANGED <<path, phase, due, current>>
  <2>1. Running' = Running
    BY <1>5 DEF Running
  <2>. QED  BY <1>1, <1>2, <1>3, <1>5, <2>1 DEF OrderInv
<1>. QED  BY <1>4, <1>5

(* It is kept by every step: a dispatched task is least among the due ones,  *)
(* and a new phase's tasks come after all earlier ones.                     *)
LEMMA OrderInvStep ==
  ASSUME TypeOK, TypeOK', ControlInv, OrderInv, [Next]_vars
  PROVE  OrderInv'
<1>. USE DEF busVars, dayVars, hostVars
<1>0. Grew
  BY RegisteredGrows
<1>1. CASE \/ Host \/ CollectNext \/ Observe \/ StepAndEmit \/ PublishNext
           \/ PublishDuplicate \/ BodyRaises \/ EndDay \/ UNCHANGED vars
  <2>1. done' = done
    BY <1>1 DEF Host, RegisterTask, RegisterSpace, RunnerPublish, RewindClock, CollectNext,
                Observe, StepAndEmit, PublishNext, PublishDuplicate, BodyRaises, Abort, EndDay, vars
  <2>2. pc' = "idle" \/ (pc # "idle" /\ UNCHANGED <<path, phase, due, current>>)
    BY <1>1 DEF Host, RegisterTask, RegisterSpace, RunnerPublish, RewindClock, CollectNext,
                Observe, StepAndEmit, PublishNext, PublishDuplicate, BodyRaises, Abort, EndDay, vars
  <2>. QED  BY <1>0, <2>1, <2>2, KeepsOrder
<1>2. CASE EnterTick \/ EnterPhases
  <2>1. done' = <<>> /\ current' = current /\ current = 0
        /\ (path' = "intraday_phase" => due' = {})
    BY <1>2 DEF EnterTick, EnterPhases, EnterRunMode, ControlInv
  <2>2. Running' = {} /\ DOMAIN done' = {}
    BY <2>1 DEF Running
  <2>. QED  BY <2>1, <2>2 DEF OrderInv
<1>3. CASE NextPhase
  <2>1. /\ pc # "idle" /\ path = "intraday_phase" /\ current = 0
        /\ phase' = phase + 1
        /\ UNCHANGED <<registered, done, current, pc, path>>
        /\ due' = DueInPhase(phase + 1)
    BY <1>3 DEF NextPhase, ControlInv
  <2>2. Running' = {}
    BY <2>1 DEF Running
  <2>3. \A i \in due' : i \in DOMAIN registered /\ Task[registered[i]].phase = phase + 1
    BY <2>1 DEF DueInPhase, DueTasks
  <2>4. phase \in Nat /\ \A k \in DOMAIN done : done[k] \in DOMAIN registered
    BY DEF TypeOK
  <2>5. \A i \in DOMAIN registered : Task[registered[i]].phase \in Nat
    <3>1. \A i \in DOMAIN registered : registered[i] \in Tasks
      BY SMTT(20) DEF TypeOK
    <3>. QED  BY <3>1, TaskAssumption DEF TaskRecord, LastPhase
  <2>6. \A k \in DOMAIN done : Task[registered[done[k]]].phase <= phase
    BY <2>1 DEF OrderInv
  <2>7. ASSUME NEW k \in DOMAIN done, NEW i \in due' PROVE Before(done[k], i)'
    <3>1. Task[registered[done[k]]].phase < Task[registered[i]].phase
      BY <2>3, <2>4, <2>5, <2>6
    <3>2. SortKey(done[k])[1] < SortKey(i)[1]
      BY <3>1 DEF SortKey
    <3>3. Before(done[k], i)
      BY <3>2 DEF Before
    <3>. QED  BY <2>1, <2>3, <2>4, <3>3, <1>0, KeysStay
  <2>8. (\A i, j \in DOMAIN done : i < j => Before(done[i], done[j]))'
    BY <2>1, <2>4, <1>0, KeysStay DEF OrderInv
  <2>9. \A k \in DOMAIN done : Task[registered[done[k]]].phase <= phase + 1
    BY <2>4, <2>5, <2>6
  <2>10. \A i \in due' : Task[registered[i]].phase <= phase + 1
    BY <2>3, <2>4
  <2>. QED  BY <2>1, <2>2, <2>7, <2>8, <2>9, <2>10 DEF OrderInv
<1>4. CASE Dispatch
  <2>1. PICK i \in due : /\ \A j \in due \ {i} : Before(i, j)
                         /\ due' = due \ {i}
                         /\ current' = i
    BY <1>4 DEF Dispatch
  <2>2. pc # "idle" /\ UNCHANGED <<registered, done, path, phase>> /\ i # 0
    BY <1>4 DEF Dispatch, TypeOK
  <2>3. Running' = {i} /\ due' \cup Running' \subseteq due
    BY <2>1, <2>2 DEF Running
  <2>4. \A j, k \in DOMAIN registered : Before(j, k)' <=> Before(j, k)
    BY <1>0, KeysStay
  <2>5. due \subseteq DOMAIN registered /\ \A k \in DOMAIN done : done[k] \in DOMAIN registered
    BY SMTT(20) DEF TypeOK
  <2>6. \A j \in due' : Before(i, j)'
    BY <2>1, <2>4, <2>5
  <2>7. /\ \A k \in DOMAIN done : \A j \in due' \cup Running' : Before(done[k], j)'
        /\ \A k, l \in DOMAIN done : k < l => Before(done[k], done[l])'
    BY <2>2, <2>3, <2>4, <2>5 DEF OrderInv
  <2>. QED  BY <2>2, <2>3, <2>6, <2>7 DEF OrderInv
<1>5. CASE RecordExecuted
  <2>1. /\ pc # "idle" /\ current \in DOMAIN registered /\ current # 0
        /\ done' = Append(done, current) /\ current' = 0
        /\ UNCHANGED <<registered, path, phase, due>>
    BY <1>5 DEF RecordExecuted, TypeOK
  <2>2. Running = {current} /\ Running' = {}
    BY <2>1 DEF Running
  <2>3. /\ done \in Seq(DOMAIN registered) /\ Len(done) \in Nat
        /\ DOMAIN done = 1..Len(done) /\ DOMAIN done' = 1..(Len(done) + 1)
        /\ done'[Len(done) + 1] = current
        /\ \A k \in DOMAIN done : done'[k] = done[k]
    BY <2>1 DEF TypeOK
  <2>4. \A j, k \in DOMAIN registered : Before(j, k)' <=> Before(j, k)
    BY <1>0, KeysStay
  <2>5. due \subseteq DOMAIN registered /\ \A k \in DOMAIN done : done[k] \in DOMAIN registered
    BY SMTT(20) DEF TypeOK
  <2>6. /\ \A k \in DOMAIN done : Before(done[k], current)
        /\ \A j \in due : Before(current, j)
        /\ \A k \in DOMAIN done : \A j \in due : Before(done[k], j)
        /\ \A k, l \in DOMAIN done : k < l => Before(done[k], done[l])
    BY <2>1, <2>2 DEF OrderInv
  <2>7. \A k \in DOMAIN done' : k \in DOMAIN done \/ k = Len(done) + 1
    BY <2>3
  <2>8. ASSUME NEW k \in DOMAIN done', NEW j \in due PROVE Before(done'[k], j)
    BY <2>3, <2>6, <2>7
  <2>9. ASSUME NEW k \in DOMAIN done', NEW l \in DOMAIN done', k < l
        PROVE  Before(done'[k], done'[l])
    <3>1. k \in DOMAIN done
      BY <2>3, <2>9
    <3>2. CASE l \in DOMAIN done
      BY <2>3, <2>6, <2>9, <3>1, <3>2
    <3>3. CASE l = Len(done) + 1
      BY <2>3, <2>6, <3>1, <3>3
    <3>. QED  BY <2>7, <3>2, <3>3
  <2>10. path = "intraday_phase" =>
           \A k \in DOMAIN done' : Task[registered[done'[k]]].phase <= phase
    BY <2>1, <2>2, <2>3, <2>7 DEF OrderInv
  <2>11. path = "intraday_phase" =>
           \A j \in due' \cup Running' : Task[registered[j]].phase <= phase
    BY <2>1, <2>2 DEF OrderInv
  <2>12. \A k \in DOMAIN done' : done'[k] \in DOMAIN registered
    BY <2>1, <2>3, <2>5, <2>7
  <2>13. (\A k, l \in DOMAIN done : k < l => Before(done[k], done[l]))'
    BY <2>4, <2>9, <2>12
  <2>14. (\A k \in DOMAIN done : \A j \in due \cup Running : Before(done[k], j))'
    BY <2>1, <2>2, <2>4, <2>5, <2>8, <2>12
  <2>. QED  BY <2>1, <2>2, <2>10, <2>11, <2>13, <2>14 DEF OrderInv
<1>. QED
  BY <1>1, <1>2, <1>3, <1>4, <1>5 DEF Next, RunDay

(* The due tasks stay accounted for when a step leaves them as they are.     *)
LEMMA KeepsComplete ==
  ASSUME TypeOK, TypeOK', CompleteInv, Grew,
         pc' = "idle" \/ (pc # "idle" /\ UNCHANGED <<path, phase, due, current, done, today, atStart>>)
  PROVE  CompleteInv'
<1>1. CASE pc' = "idle"
  BY <1>1 DEF CompleteInv
<1>2. CASE pc # "idle" /\ UNCHANGED <<path, phase, due, current, done, today, atStart>>
  <2>1. Running' = Running /\ DueFrequencies' = DueFrequencies
    BY <1>2 DEF Running, DueFrequencies
  <2>2. \A i \in 1..atStart : i \in DOMAIN registered /\ i \in DOMAIN registered'
                              /\ registered'[i] = registered[i]
    <3>1. /\ registered \in Seq(Tasks) /\ Len(registered) \in Nat
          /\ atStart \in 0..Len(registered)
          /\ DOMAIN registered = 1..Len(registered)
      BY DEF TypeOK
    <3>2. registered' \in Seq(Tasks) /\ Len(registered) <= Len(registered')
      BY DEF Grew, TypeOK
    <3>3. DOMAIN registered' = 1..Len(registered') /\ Len(registered') \in Nat
      BY <3>2
    <3>4. atStart \in Nat /\ 1..atStart \subseteq DOMAIN registered
      BY <3>1
    <3>. QED  BY <3>1, <3>2, <3>3, <3>4 DEF Grew
  <2>3. \A i \in 1..atStart : i \in DueTasks' <=> i \in DueTasks
    BY <2>1, <2>2 DEF DueTasks
  <2>. QED  BY <1>2, <2>1, <2>2, <2>3 DEF CompleteInv
<1>. QED  BY <1>1, <1>2

(* Every step of the kernel keeps the due tasks accounted for.              *)
LEMMA CompleteInvStep ==
  ASSUME TypeOK, TypeOK', ControlInv, CompleteInv, [Next]_vars
  PROVE  CompleteInv'
<1>. USE DEF busVars, dayVars, hostVars
<1>0. Grew
  BY RegisteredGrows
<1>1. CASE \/ Host \/ CollectNext \/ Observe \/ StepAndEmit \/ PublishNext
           \/ PublishDuplicate \/ BodyRaises \/ EndDay \/ UNCHANGED vars
  <2>1. pc' = "idle" \/ (pc # "idle" /\ UNCHANGED <<path, phase, due, current, done, today, atStart>>)
    BY <1>1 DEF Host, RegisterTask, RegisterSpace, RunnerPublish, RewindClock, CollectNext,
                Observe, StepAndEmit, PublishNext, PublishDuplicate, BodyRaises, Abort, EndDay, vars
  <2>. QED  BY <1>0, <2>1, KeepsComplete
<1>2. CASE EnterTick
  <2>1. due' = DueTasks /\ DueTasks' = DueTasks /\ path' = "date_tick"
    BY <1>2 DEF EnterTick, EnterRunMode, DueTasks, DueFrequencies
  <2>. QED  BY <2>1 DEF CompleteInv
<1>3. CASE EnterPhases
  <2>1. path' = "intraday_phase" /\ phase' = 0
    BY <1>3 DEF EnterPhases, EnterRunMode
  <2>. QED  BY <2>1 DEF CompleteInv
<1>4. CASE NextPhase
  <2>1. /\ pc # "idle" /\ path = "intraday_phase" /\ due = {} /\ current = 0
        /\ phase' = phase + 1 /\ due' = DueInPhase(phase + 1)
        /\ UNCHANGED <<today, registered, done, current, pc, path, atStart>>
    BY <1>4 DEF NextPhase, ControlInv
  <2>2. Running = {} /\ DueTasks' = DueTasks
    BY <2>1 DEF Running, DueTasks, DueFrequencies
  <2>3. phase \in Nat
    BY DEF TypeOK
  <2>4. ASSUME NEW i \in 1..atStart, i \in DueTasks, Task[registered[i]].phase \in 1..(phase + 1)
        PROVE  i \in due' \/ \E k \in DOMAIN done : done[k] = i
    <3>1. CASE Task[registered[i]].phase = phase + 1
      BY <2>1, <2>4, <3>1 DEF DueInPhase
    <3>2. CASE Task[registered[i]].phase \in 1..phase
      BY <2>1, <2>2, <2>4, <3>2 DEF CompleteInv
    <3>. QED  BY <2>3, <2>4, <3>1, <3>2
  <2>. QED  BY <2>1, <2>2, <2>4 DEF CompleteInv
<1>5. CASE Dispatch
  <2>1. PICK i \in due : /\ due' = due \ {i}
                         /\ current' = i
    BY <1>5 DEF Dispatch
  <2>2. /\ pc # "idle" /\ current = 0 /\ i # 0
        /\ UNCHANGED <<today, registered, done, path, phase, atStart>>
    BY <1>5 DEF Dispatch, TypeOK, ControlInv
  <2>3. Running = {} /\ Running' = {i} /\ due' \cup Running' = due \cup Running
    BY <2>1, <2>2 DEF Running
  <2>4. DueTasks' = DueTasks
    BY <2>2 DEF DueTasks, DueFrequencies
  <2>. QED  BY <2>2, <2>3, <2>4 DEF CompleteInv
<1>6. CASE RecordExecuted
  <2>1. /\ pc # "idle" /\ current \in DOMAIN registered /\ current # 0
        /\ done' = Append(done, current) /\ current' = 0
        /\ UNCHANGED <<today, registered, path, phase, due, atStart>>
    BY <1>6 DEF RecordExecuted, TypeOK
  <2>2. Running = {current} /\ Running' = {} /\ DueTasks' = DueTasks
    BY <2>1 DEF Running, DueTasks, DueFrequencies
  <2>3. /\ Len(done) \in Nat
        /\ DOMAIN done = 1..Len(done) /\ DOMAIN done' = 1..(Len(done) + 1)
        /\ done'[Len(done) + 1] = current
        /\ \A k \in DOMAIN done : done'[k] = done[k]
    BY <2>1 DEF TypeOK
  <2>4. ASSUME NEW i, i \in due \cup Running \/ \E k \in DOMAIN done : done[k] = i
        PROVE  i \in due' \cup Running' \/ \E k \in DOMAIN done' : done'[k] = i
    <3>1. CASE i = current
      BY <2>3, <3>1
    <3>2. CASE i \in due
      BY <2>1, <3>2
    <3>3. CASE \E k \in DOMAIN done : done[k] = i
      BY <2>3, <3>3
    <3>. QED  BY <2>2, <2>4, <3>1, <3>2, <3>3
  <2>5. \A i \in 1..atStart :
          i \in DueTasks /\ (path = "intraday_phase" => Task[registered[i]].phase \in 1..phase)
          => i \in due' \cup Running' \/ \E k \in DOMAIN done' : done'[k] = i
    BY <2>1, <2>4 DEF CompleteInv
  <2>. QED  BY <2>1, <2>2, <2>5 DEF CompleteInv
<1>. QED
  BY <1>1, <1>2, <1>3, <1>4, <1>5, <1>6 DEF Next, RunDay

(* What DayIsComplete says of one step.                                     *)
DayStep ==
  today' > today =>
    \A i \in 1..atStart :
      /\ i \in DueTasks
      /\ path = "intraday_phase" => Task[registered[i]].phase # 0
      => \E k \in DOMAIN done : done[k] = i

(* So the clock advances only past a day whose due tasks have all run.      *)
LEMMA DayStepHolds ==
  ASSUME TypeOK, ControlInv, CompleteInv, [Next]_vars
  PROVE  DayStep
<1>. USE DEF busVars, dayVars, hostVars
<1>0. today \in Nat
  BY DEF TypeOK
<1>1. CASE EndDay
  <2>1. pc # "idle" /\ due = {} /\ current = 0 /\ (path = "intraday_phase" => phase = LastPhase)
    BY <1>1 DEF EndDay, ControlInv
  <2>2. Running = {}
    BY <2>1 DEF Running
  <2>3. ASSUME NEW i \in 1..atStart, i \in DueTasks
        PROVE  Task[registered[i]].phase # 0 => Task[registered[i]].phase \in 1..LastPhase
    <3>1. registered[i] \in Tasks
      BY <2>3 DEF DueTasks, TypeOK
    <3>. QED  BY <3>1, TaskAssumption DEF TaskRecord, LastPhase
  <2>. QED  BY <2>1, <2>2, <2>3 DEF DayStep, CompleteInv
<1>2. CASE Host
  BY <1>0, <1>2 DEF Host, RegisterTask, RegisterSpace, RunnerPublish, RewindClock, Days, DayStep
<1>3. CASE ~Host /\ ~EndDay
  <2>1. today' = today
    BY <1>3 DEF Next, RunDay, EnterTick, EnterPhases, EnterRunMode, NextPhase, Dispatch,
                CollectNext, Observe, StepAndEmit, PublishNext, PublishDuplicate, RecordExecuted,
                BodyRaises, Abort, vars
  <2>. QED  BY <1>0, <2>1 DEF DayStep
<1>. QED  BY <1>1, <1>2, <1>3

-----------------------------------------------------------------------------
(***************************************************************************)
(* What a space is given.                                                  *)
(***************************************************************************)
Handed == IF current = 0 THEN {} ELSE {<<e, CurrentSpace>> : e \in incoming}
HandedOver == failures = 0 => delivered = observed \cup Handed

ExecutionsGiven ==
  \A x \in DOMAIN ledger : \A p \in 1..(x - 1) :
    /\ IsExecution(x) /\ Task[ledger[x].subject].body = "space"
    /\ IsPublication(p) /\ IsTargetedAt(ledger[p].subject, ledger[x].space)
    /\ pubDate[ledger[p].subject] < ledger[x].date
    /\ DeliveryDate(ledger[p].subject) <= ledger[x].date
    => \E d \in 1..(x - 1) : /\ IsDelivery(d) /\ ledger[d].subject = ledger[p].subject
                             /\ ledger[d].space = ledger[x].space

(* The two parts of NothingHeldBack, by name.                               *)
LEMMA NothingHeldBackParts == NothingHeldBack <=> HandedOver /\ ExecutionsGiven
  BY DEF NothingHeldBack, HandedOver, Handed, ExecutionsGiven

(* A publication leaves the dates of the older ones.                        *)
LEMMA PublishKeepsDates ==
  ASSUME TypeOK, NEW e \in Events, NEW d \in Nat, Publish(e, d)
  PROVE  /\ \A f \in Published : pubDate'[f] = pubDate[f]
         /\ Published' = Published \cup {e} /\ pubDate'[e] = d
<1>1. Published' = Published \cup {e}
  BY PublishedGrows
<1>2. e \notin Published /\ pubDate' = [pubDate EXCEPT ![e] = d] /\ pubDate \in [Events -> Nat]
  BY DEF Publish, TypeOK
<1>3. Published \subseteq Events
  BY DEF Published, TypeOK
<1>. QED  BY <1>1, <1>2, <1>3

(* No step of the kernel changes the date of a publication.                 *)
LEMMA DatesStay ==
  ASSUME TypeOK, [Next]_vars
  PROVE  \A f \in Published : pubDate'[f] = pubDate[f]
<1>. USE DEF busVars
<1>1. ASSUME NEW e \in RunnerEvents, NEW d \in {today, Event[e].simulation_date}, RunnerPublish(e, d)
      PROVE  \A f \in Published : pubDate'[f] = pubDate[f]
  <2>1. e \in Events /\ d \in Nat
    BY HostAssumption, EventAssumption DEF EventRecord, TypeOK
  <2>. QED  BY <1>1, <2>1, PublishKeepsDates DEF RunnerPublish
<1>2. CASE PublishNext
  <2>1. today \in Nat /\ outgoing \subseteq Events
    BY DEF TypeOK
  <2>. QED  BY <1>2, <2>1, PublishKeepsDates DEF PublishNext
<1>3. CASE UNCHANGED pubDate
  BY <1>3
<1>4. \/ UNCHANGED pubDate \/ PublishNext
      \/ \E e \in RunnerEvents : \E d \in {today, Event[e].simulation_date} : RunnerPublish(e, d)
  BY DEF Next, Host, RunDay, RegisterTask, RegisterSpace, RewindClock, EnterTick, EnterPhases,
         EnterRunMode, NextPhase, Dispatch, CollectNext, Observe, StepAndEmit, PublishDuplicate,
         RecordExecuted, BodyRaises, Abort, EndDay, vars
<1>. QED  BY <1>1, <1>2, <1>3, <1>4

(* The ledger grows at its end; only a finished task leaves an execution    *)
(* record.                                                                  *)
LedgerKept ==
  /\ Len(ledger) <= Len(ledger')
  /\ \A i \in DOMAIN ledger : ledger'[i] = ledger[i]

(* Every step keeps the records the ledger has.                             *)
LEMMA LedgerGrowth ==
  ASSUME TypeOK, TypeOK', [Next]_vars
  PROVE  /\ LedgerKept
         /\ \/ RecordExecuted
            \/ \A i \in DOMAIN ledger' \ DOMAIN ledger : ledger'[i].type # "task_executed"
<1>. USE DEF busVars, dayVars, hostVars
<1>0. /\ ledger' \in Seq(LedgerRecord) /\ ledger \in Seq(LedgerRecord)
      /\ Len(ledger) \in Nat /\ DOMAIN ledger = 1..Len(ledger)
  BY DEF TypeOK, LedgerRecord
<1>a. ASSUME NEW r \in LedgerRecord, ledger' = Append(ledger, r)
      PROVE  /\ LedgerKept
             /\ DOMAIN ledger' \ DOMAIN ledger = {Len(ledger) + 1}
             /\ ledger'[Len(ledger) + 1] = r
  BY <1>0, <1>a DEF LedgerKept
<1>b. ASSUME UNCHANGED ledger
      PROVE  /\ LedgerKept
             /\ DOMAIN ledger' \ DOMAIN ledger = {}
  BY <1>0, <1>b DEF LedgerKept
<1>. DEFINE Goal == /\ LedgerKept
                    /\ \A i \in DOMAIN ledger' \ DOMAIN ledger : ledger'[i].type # "task_executed"
<1>c. ASSUME NEW r \in LedgerRecord, r.type # "task_executed", ledger' = Append(ledger, r)
      PROVE  Goal
  BY <1>a, <1>c
<1>1. ASSUME NEW t \in HostTasks, RegisterTask(t) PROVE Goal
  <2>1. t \in Tasks /\ Task[t].space \in Spaces
    BY HostAssumption, TaskAssumption DEF TaskRecord
  <2>2. /\ Record("task_scheduled", t, Task[t].space) \in LedgerRecord
        /\ Record("task_scheduled", t, Task[t].space).type # "task_executed"
    BY <2>1, RecordType DEF Record, RecordTypes, TypeOK
  <2>. QED  BY <1>1, <1>c, <2>2 DEF RegisterTask
<1>2. ASSUME NEW s \in Spaces, RegisterSpace(s) PROVE Goal
  BY <1>2, RegisterSpaceGrowth DEF LedgerKept
<1>3. ASSUME NEW e \in Events, ledger' = Append(ledger, Record("event_published", e, Event[e].source))
      PROVE  Goal
  <2>1. Event[e].source \in Spaces
    BY EventAssumption DEF EventRecord
  <2>2. /\ Record("event_published", e, Event[e].source) \in LedgerRecord
        /\ Record("event_published", e, Event[e].source).type # "task_executed"
    BY <2>1, RecordType DEF Record, RecordTypes, TypeOK
  <2>. QED  BY <1>3, <1>c, <2>2
<1>4. ASSUME NEW e \in RunnerEvents, NEW d \in {today, Event[e].simulation_date}, RunnerPublish(e, d)
      PROVE  Goal
  BY <1>3, <1>4, HostAssumption DEF RunnerPublish
<1>5. CASE CollectNext
  <2>1. CurrentSpace \in Spaces
    BY <1>5, CurrentSpaceType DEF CollectNext, TypeOK
  <2>2. PICK i \in DOMAIN events :
          ledger' = Append(ledger, Record("event_delivered", events[i], CurrentSpace))
    BY <1>5 DEF CollectNext
  <2>3. events[i] \in Events
    BY DEF TypeOK
  <2>4. /\ Record("event_delivered", events[i], CurrentSpace) \in LedgerRecord
        /\ Record("event_delivered", events[i], CurrentSpace).type # "task_executed"
    BY <2>1, <2>3, RecordType DEF Record, RecordTypes, TypeOK
  <2>. QED  BY <1>c, <2>2, <2>4
<1>6. CASE PublishNext
  BY <1>3, <1>6 DEF PublishNext, TypeOK
<1>7. CASE RecordExecuted
  <2>1. current \in DOMAIN registered
    BY <1>7 DEF RecordExecuted, TypeOK
  <2>2. Executed(current) \in LedgerRecord
    BY <2>1, ExecutedType
  <2>. QED  BY <1>7, <1>a, <2>2 DEF RecordExecuted
<1>8. CASE EndDay
  <2>1. CASE today \in MonthEnds
    <3>1. ledger' = Append(ledger, Record("state_snapshot_created", "world", "world"))
      BY <1>8, <2>1 DEF EndDay
    <3>2. /\ Record("state_snapshot_created", "world", "world") \in LedgerRecord
          /\ Record("state_snapshot_created", "world", "world").type # "task_executed"
      BY RecordType DEF Record, RecordTypes, TypeOK
    <3>. QED  BY <1>c, <3>1, <3>2
  <2>2. CASE today \notin MonthEnds
    BY <1>8, <1>b, <2>2 DEF EndDay
  <2>. QED  BY <2>1, <2>2
<1>9. CASE UNCHANGED ledger
  BY <1>9, <1>b
<1>10. \/ UNCHANGED ledger \/ EndDay \/ RecordExecuted \/ PublishNext \/ CollectNext
       \/ (\E t \in HostTasks : RegisterTask(t)) \/ (\E s \in Spaces : RegisterSpace(s))
       \/ \E e \in RunnerEvents : \E d \in {today, Event[e].simulation_date} : RunnerPublish(e, d)
  BY DEF Next, Host, RunDay, RewindClock, EnterTick, EnterPhases, EnterRunMode, NextPhase, Dispatch,
         Observe, StepAndEmit, PublishDuplicate, BodyRaises, Abort, vars
<1>. QED  BY <1>1, <1>2, <1>4, <1>5, <1>6, <1>7, <1>8, <1>9, <1>10

(* A space that finishes its step was given all there was to give.          *)
CollectedAll ==
  pc \in {"step", "publish"} => \A e \in Published : ~Collectable(e, CurrentSpace)

(* Nothing becomes ready between observe() and the end of the step: what is  *)
(* published meanwhile carries today's date.                                *)
LEMMA CollectedAllStep ==
  ASSUME TypeOK, CollectedAll, [Next]_vars
  PROVE  CollectedAll'
<1>. USE DEF busVars, dayVars, hostVars
<1>1. CASE Observe \/ StepAndEmit
  <2>1. UNCHANGED <<today, registered, events, pubDate, delivered, current>>
    BY <1>1 DEF Observe, StepAndEmit
  <2>2. CurrentSpace' = CurrentSpace /\ Published' = Published
    BY <2>1 DEF CurrentSpace, Published
  <2>3. \A e \in Published : ~Collectable(e, CurrentSpace)
    BY <1>1 DEF Observe, StepAndEmit, CollectedAll
  <2>4. \A e, s : Collectable(e, s)' <=> Collectable(e, s)
    BY <2>1 DEF Collectable, IsTargetedAt, DeliveryDate
  <2>. QED  BY <2>2, <2>3, <2>4 DEF CollectedAll
<1>2. CASE PublishNext
  <2>1. PICK f \in outgoing : Publish(f, today)
    BY <1>2 DEF PublishNext
  <2>2. /\ f \in Events /\ today \in Nat /\ pc = "publish"
        /\ UNCHANGED <<today, registered, delivered, current>>
    BY <1>2, <2>1 DEF PublishNext, Publish, TypeOK
  <2>3. /\ \A e \in Published : pubDate'[e] = pubDate[e]
        /\ Published' = Published \cup {f} /\ pubDate'[f] = today
    BY <2>1, <2>2, PublishKeepsDates
  <2>4. CurrentSpace' = CurrentSpace
    BY <2>2 DEF CurrentSpace
  <2>5. \A e \in Published : \A s : Collectable(e, s)' <=> Collectable(e, s)
    BY <2>2, <2>3 DEF Collectable, IsTargetedAt, DeliveryDate
  <2>6. \A s : ~Collectable(f, s)'
    <3>1. ~(pubDate'[f] < today')
      BY <2>2, <2>3
    <3>. QED  BY <3>1 DEF Collectable
  <2>7. \A e \in Published : ~Collectable(e, CurrentSpace)
    BY <2>2 DEF CollectedAll
  <2>. QED  BY <2>3, <2>4, <2>5, <2>6, <2>7 DEF CollectedAll
<1>3. CASE UNCHANGED vars
  <2>1. CurrentSpace' = CurrentSpace /\ Published' = Published
    BY <1>3 DEF vars, CurrentSpace, Published
  <2>2. \A e, s : Collectable(e, s)' <=> Collectable(e, s)
    BY <1>3 DEF vars, Collectable, IsTargetedAt, DeliveryDate
  <2>. QED  BY <1>3, <2>1, <2>2 DEF vars, CollectedAll
<1>4. CASE ~Observe /\ ~StepAndEmit /\ ~PublishNext /\ ~UNCHANGED vars
  <2>1. CASE Dispatch
    <3>1. PICK i \in due : pc' = StartOf(Task[registered[i]].body)
      BY <2>1 DEF Dispatch
    <3>2. registered[i] \in Tasks
      BY DEF TypeOK
    <3>3. Task[registered[i]].body \in Bodies
      BY <3>2, TaskAssumption DEF TaskRecord
    <3>. QED  BY <3>1, <3>3 DEF StartOf, Bodies, CollectedAll
  <2>2. CASE ~Dispatch
    <3>1. pc' \notin {"step", "publish"}
      BY <1>4, <2>2 DEF Next, Host, RunDay, RegisterTask, RegisterSpace, RunnerPublish, RewindClock,
         EnterTick, EnterPhases, EnterRunMode, NextPhase, CollectNext, PublishDuplicate,
         RecordExecuted, BodyRaises, Abort, EndDay
    <3>. QED  BY <3>1 DEF CollectedAll
  <2>. QED  BY <2>1, <2>2
<1>. QED  BY <1>1, <1>2, <1>3, <1>4

(* Until a callable raises, a delivered pair is with the running task or     *)
(* has been observed.                                                       *)
LEMMA HandedOverStep ==
  ASSUME TypeOK, ControlInv, HandedOver, [Next]_vars
  PROVE  HandedOver'
<1>. USE DEF busVars, dayVars, hostVars
<1>0. failures \in Nat /\ Grew
  BY RegisteredGrows, BoundAssumption DEF TypeOK
<1>1. ASSUME UNCHANGED <<delivered, observed, current, failures>>,
             incoming' = incoming \/ current = 0
      PROVE  HandedOver'
  <2>1. current # 0 => current \in DOMAIN registered
    BY DEF TypeOK
  <2>2. current # 0 => CurrentSpace' = CurrentSpace
    BY <1>0, <1>1, <2>1 DEF Grew, CurrentSpace
  <2>3. Handed' = Handed
    BY <1>1, <2>2 DEF Handed
  <2>. QED  BY <1>1, <2>3 DEF HandedOver
<1>2. CASE \/ Host \/ EnterTick \/ EnterPhases \/ NextPhase \/ StepAndEmit \/ PublishNext
           \/ EndDay \/ UNCHANGED vars
  BY <1>1, <1>2 DEF Host, RegisterTask, RegisterSpace, RunnerPublish, Publish, RewindClock, EnterTick,
     EnterPhases, EnterRunMode, NextPhase, StepAndEmit, PublishNext, EndDay, vars
<1>3. CASE Dispatch
  <2>1. UNCHANGED <<delivered, observed, failures>> /\ incoming = {} /\ incoming' = {} /\ current = 0
    BY <1>3 DEF Dispatch, ControlInv
  <2>2. Handed = {} /\ Handed' = {}
    BY <2>1 DEF Handed
  <2>. QED  BY <2>1, <2>2 DEF HandedOver
<1>4. CASE CollectNext
  <2>1. PICK i \in DOMAIN events :
          /\ delivered' = delivered \cup {<<events[i], CurrentSpace>>}
          /\ incoming' = incoming \cup {events[i]}
    BY <1>4 DEF CollectNext
  <2>2. current # 0 /\ UNCHANGED <<observed, current, registered, failures>>
    BY <1>4 DEF CollectNext, TypeOK
  <2>3. CurrentSpace' = CurrentSpace
    BY <2>2 DEF CurrentSpace
  <2>4. Handed' = Handed \cup {<<events[i], CurrentSpace>>}
    BY <2>1, <2>2, <2>3 DEF Handed
  <2>. QED  BY <2>1, <2>2, <2>4 DEF HandedOver
<1>5. CASE Observe
  <2>1. /\ current # 0 /\ incoming' = {}
        /\ observed' = observed \cup {<<e, CurrentSpace>> : e \in incoming}
        /\ UNCHANGED <<delivered, failures>>
    BY <1>5 DEF Observe, TypeOK
  <2>2. Handed = {<<e, CurrentSpace>> : e \in incoming} /\ Handed' = {}
    BY <2>1 DEF Handed
  <2>. QED  BY <2>1, <2>2 DEF HandedOver
<1>6. CASE RecordExecuted
  <2>1. incoming = {} /\ incoming' = {} /\ UNCHANGED <<delivered, observed, failures>>
    BY <1>6 DEF RecordExecuted, ControlInv
  <2>2. Handed = {} /\ Handed' = {}
    BY <2>1 DEF Handed
  <2>. QED  BY <2>1, <2>2 DEF HandedOver
<1>7. CASE PublishDuplicate \/ BodyRaises
  <2>1. failures' = failures + 1
    BY <1>7 DEF PublishDuplicate, BodyRaises, Abort
  <2>. QED  BY <1>0, <2>1 DEF HandedOver
<1>. QED  BY <1>2, <1>3, <1>4, <1>5, <1>6, <1>7 DEF Next, RunDay

(* Neither the dates nor the older records move under an execution record.  *)
LEMMA KeepsGiven ==
  ASSUME TypeOK, TypeOK', DeliveryInv, LedgerKept,
         \A f \in Published : pubDate'[f] = pubDate[f],
         ExecutionsGiven,
         NEW x \in DOMAIN ledger, NEW p \in 1..(x - 1),
         IsExecution(x)', Task[ledger'[x].subject].body = "space",
         IsPublication(p)', IsTargetedAt(ledger'[p].subject, ledger'[x].space),
         pubDate'[ledger'[p].subject] < ledger'[x].date,
         DeliveryDate(ledger'[p].subject) <= ledger'[x].date
  PROVE  \E d \in 1..(x - 1) : /\ IsDelivery(d)' /\ ledger'[d].subject = ledger'[p].subject
                               /\ ledger'[d].space = ledger'[x].space
<1>1. Len(ledger) \in Nat /\ DOMAIN ledger = 1..Len(ledger)
  BY DEF TypeOK
<1>2. p \in DOMAIN ledger /\ \A d \in 1..(x - 1) : d \in DOMAIN ledger
  BY <1>1
<1>3. /\ ledger'[x] = ledger[x] /\ ledger'[p] = ledger[p]
      /\ \A d \in 1..(x - 1) : ledger'[d] = ledger[d]
  BY <1>2 DEF LedgerKept
<1>4. IsExecution(x) /\ IsPublication(p)
  BY <1>3 DEF IsExecution, IsPublication
<1>5. ledger[p].subject \in Published
  BY <1>2, <1>4 DEF DeliveryInv, PublicationsRecorded
<1>6. PICK d \in 1..(x - 1) : /\ IsDelivery(d) /\ ledger[d].subject = ledger[p].subject
                              /\ ledger[d].space = ledger[x].space
  BY <1>3, <1>4, <1>5 DEF ExecutionsGiven
<1>. QED  BY <1>3, <1>6 DEF IsDelivery

(* The record of a finished step comes after all deliveries it was due.     *)
LEMMA ExecutionsGivenStep ==
  ASSUME TypeOK, TypeOK', DeliveryInv, ControlInv, CollectedAll, ExecutionsGiven, [Next]_vars
  PROVE  ExecutionsGiven'
<1>. USE DEF busVars, dayVars, hostVars
<1>0. /\ LedgerKept
      /\ \/ RecordExecuted
         \/ \A i \in DOMAIN ledger' \ DOMAIN ledger : ledger'[i].type # "task_executed"
  BY LedgerGrowth
<1>1. \A f \in Published : pubDate'[f] = pubDate[f]
  BY DatesStay
<1>2. \A e, s : IsTargetedAt(e, s)' = IsTargetedAt(e, s) /\ DeliveryDate(e)' = DeliveryDate(e)
  BY DEF IsTargetedAt, DeliveryDate
<1>3. ASSUME NEW x \in DOMAIN ledger', NEW p \in 1..(x - 1),
             IsExecution(x)', Task[ledger'[x].subject].body = "space",
             IsPublication(p)', IsTargetedAt(ledger'[p].subject, ledger'[x].space),
             pubDate'[ledger'[p].subject] < ledger'[x].date,
             DeliveryDate(ledger'[p].subject) <= ledger'[x].date
      PROVE  \E d \in 1..(x - 1) : /\ IsDelivery(d)' /\ ledger'[d].subject = ledger'[p].subject
                                   /\ ledger'[d].space = ledger'[x].space
  <2>1. CASE x \in DOMAIN ledger
    BY <1>0, <1>1, <1>3, <2>1, KeepsGiven
  <2>2. CASE x \notin DOMAIN ledger
    <3>1. RecordExecuted
      BY <1>0, <1>3, <2>2 DEF IsExecution
    <3>2. current \in DOMAIN registered /\ ledger' = Append(ledger, Executed(current))
          /\ UNCHANGED <<today, pubDate>>
      BY <3>1 DEF RecordExecuted, TypeOK
    <3>3. Len(ledger) \in Nat /\ DOMAIN ledger = 1..Len(ledger) /\ ledger \in Seq(LedgerRecord)
      BY DEF TypeOK, LedgerRecord
    <3>4. Executed(current) \in LedgerRecord
      BY <3>2, ExecutedType
    <3>5. /\ x = Len(ledger) + 1 /\ ledger'[x] = Executed(current) /\ p \in DOMAIN ledger
          /\ \A d \in DOMAIN ledger : ledger'[d] = ledger[d] /\ d \in 1..(x - 1)
      BY <2>2, <3>2, <3>3, <3>4
    <3>6. /\ ledger'[x].space = CurrentSpace /\ ledger'[x].date = today
          /\ ledger'[x].subject = registered[current]
      BY <3>5 DEF Executed, CurrentSpace
    <3>7. pc = "publish"
      BY <1>3, <3>1, <3>6 DEF RecordExecuted, ControlInv, Body
    <3>8. IsPublication(p) /\ ledger'[p] = ledger[p]
      BY <1>3, <3>5 DEF IsPublication
    <3>9. ledger[p].subject \in Published
      BY <3>5, <3>8 DEF DeliveryInv, PublicationsRecorded
    <3>10. <<ledger[p].subject, CurrentSpace>> \in delivered
      BY <1>3, <3>2, <3>6, <3>7, <3>8, <3>9 DEF CollectedAll, Collectable
    <3>11. PICK d \in DOMAIN ledger : /\ IsDelivery(d) /\ ledger[d].subject = ledger[p].subject
                                      /\ ledger[d].space = CurrentSpace
      BY <3>10 DEF DeliveryInv, DeliveredAtMostOnce
    <3>12. IsDelivery(d)' /\ ledger'[d] = ledger[d] /\ d \in 1..(x - 1)
      BY <3>5, <3>11 DEF IsDelivery
    <3>. QED  BY <3>6, <3>8, <3>11, <3>12
  <2>. QED  BY <2>1, <2>2
<1>. QED  BY <1>2, <1>3 DEF ExecutionsGiven

-----------------------------------------------------------------------------
(***************************************************************************)
(* How often a task is recorded for a date.                                *)
(***************************************************************************)
(* A count is a number.                                                     *)
LEMMA CountType ==
  ASSUME TypeOK, NEW r
  PROVE  IsFiniteSet(Occurrences(r)) /\ Count(r) \in Nat
<1>1. Len(ledger) \in Nat /\ DOMAIN ledger = 1..Len(ledger)
  BY DEF TypeOK
<1>2. IsFiniteSet(1..Len(ledger))
  BY <1>1, FS_Interval
<1>3. Occurrences(r) \subseteq 1..Len(ledger)
  BY <1>1 DEF Occurrences
<1>4. IsFiniteSet(Occurrences(r))
  BY <1>2, <1>3, FS_Subset
<1>. QED  BY <1>4, FS_CardinalityType DEF Count

(* Only an equal record adds to a count. *)
LEMMA CountStays ==
  ASSUME TypeOK, TypeOK', LedgerKept, NEW r,
         \A i \in DOMAIN ledger' \ DOMAIN ledger : ledger'[i] # r
  PROVE  Count(r)' = Count(r)
<1>1. /\ Len(ledger) \in Nat /\ DOMAIN ledger = 1..Len(ledger)
      /\ Len(ledger') \in Nat /\ DOMAIN ledger' = 1..Len(ledger')
  BY DEF TypeOK
<1>2. DOMAIN ledger \subseteq DOMAIN ledger'
  BY <1>1 DEF LedgerKept
<1>3. Occurrences(r)' = Occurrences(r)
  BY <1>2 DEF LedgerKept, Occurrences
<1>. QED  BY <1>3 DEF Count

(* An equal record adds one. *)
LEMMA CountGrows ==
  ASSUME TypeOK, NEW r \in LedgerRecord, ledger' = Append(ledger, r)
  PROVE  Count(r)' = Count(r) + 1
<1>1. ledger \in Seq(LedgerRecord)
  BY DEF TypeOK, LedgerRecord
<1>2. /\ Len(ledger) \in Nat /\ DOMAIN ledger = 1..Len(ledger)
      /\ DOMAIN ledger' = 1..(Len(ledger) + 1)
      /\ ledger'[Len(ledger) + 1] = r
      /\ \A i \in DOMAIN ledger : ledger'[i] = ledger[i]
  BY <1>1
<1>3. Occurrences(r)' = Occurrences(r) \cup {Len(ledger) + 1}
  BY <1>2 DEF Occurrences
<1>4. Len(ledger) + 1 \notin Occurrences(r)
  BY <1>2 DEF Occurrences
<1>5. IsFiniteSet(Occurrences(r))
  BY CountType
<1>. QED  BY <1>3, <1>4, <1>5, FS_AddElement DEF Count

(* The record may still be written in the current entry of its date.        *)
Unrun(r) == r.date > today \/ (r.date = today /\ ~RanToday(r.subject))

(* A step that adds no execution record keeps the bound if every record it   *)
(* opens again is paid for by a raise or a rewind.                          *)
LEMMA KeepsCount ==
  ASSUME TypeOK, TypeOK', CountInv, LedgerKept,
         \A i \in DOMAIN ledger' \ DOMAIN ledger : ledger'[i].type # "task_executed",
         failures + rewinds <= failures' + rewinds',
         NEW r \in LedgerRecord, r.type = "task_executed",
         Unrun(r)' => Unrun(r) \/ failures + rewinds < failures' + rewinds'
  PROVE  /\ Count(r)' <= 1 + failures' + rewinds'
         /\ Unrun(r)' => Count(r)' <= failures' + rewinds'
<1>1. \A i \in DOMAIN ledger' \ DOMAIN ledger : ledger'[i] # r
  OBVIOUS
<1>2. Count(r)' = Count(r) /\ Count(r) \in Nat
  BY <1>1, CountStays, CountType
<1>3. /\ Count(r) <= 1 + failures + rewinds
      /\ Unrun(r) => Count(r) <= failures + rewinds
  BY DEF CountInv, Unrun
<1>4. failures \in Nat /\ rewinds \in Nat /\ failures' \in Nat /\ rewinds' \in Nat
  BY BoundAssumption DEF TypeOK
<1>a. ASSUME NEW c \in Nat, NEW f \in Nat, NEW g \in Nat, NEW h \in Nat, NEW k \in Nat,
             f + g <= h + k
      PROVE  /\ c <= 1 + f + g => c <= 1 + h + k
             /\ c <= f + g => c <= h + k
             /\ c <= 1 + f + g /\ f + g < h + k => c <= h + k
  BY <1>a
<1>b. Count(r) \in Nat
  BY <1>2
<1>5. Count(r)' <= 1 + failures' + rewinds'
  <2>1. Count(r) <= 1 + failures + rewinds
    BY <1>3
  <2>2. Count(r) <= 1 + failures' + rewinds'
    BY <1>a, <1>b, <1>4, <2>1
  <2>. QED  BY <1>2, <2>2
<1>6. ASSUME Unrun(r)' PROVE Count(r)' <= failures' + rewinds'
  <2>1. CASE Unrun(r)
    <3>1. Count(r) <= failures + rewinds
      BY <1>3, <2>1
    <3>2. Count(r) <= failures' + rewinds'
      BY <1>a, <1>b, <1>4, <3>1
    <3>. QED  BY <1>2, <3>2
  <2>2. CASE failures + rewinds < failures' + rewinds'
    <3>1. Count(r) <= 1 + failures + rewinds
      BY <1>3
    <3>2. Count(r) <= failures' + rewinds'
      BY <1>a, <1>b, <1>4, <2>2, <3>1
    <3>. QED  BY <1>2, <3>2
  <2>. QED  BY <1>6, <2>1, <2>2
<1>. QED  BY <1>5, <1>6

(* A task at hand has not run today. *)
LEMMA CurrentIsNew ==
  ASSUME TypeOK, ControlInv, OrderInv, pc # "idle", current # 0
  PROVE  ~RanToday(registered[current])
<1>1. current \in DOMAIN registered /\ \A k \in DOMAIN done : done[k] \in DOMAIN registered
  BY DEF TypeOK
<1>2. ASSUME NEW k \in DOMAIN done, registered[done[k]] = registered[current] PROVE FALSE
  <2>1. done[k] = current
    BY <1>1, <1>2 DEF ControlInv
  <2>2. Before(current, current)
    BY <2>1 DEF OrderInv, Running
  <2>3. /\ registered[current] \in Tasks
        /\ Task[registered[current]] \in TaskRecord
    BY <1>1, TaskAssumption DEF TypeOK
  <2>4. \A n \in 1..5 : SortKey(current)[n] \in Int
    <3>1. current \in Int
      BY <1>1 DEF TypeOK
    <3>2. FrequencyRank[Task[registered[current]].frequency] \in Int
      BY <2>3 DEF FrequencyRank, TaskRecord, Frequencies
    <3>3. /\ Task[registered[current]].phase \in Int /\ Task[registered[current]].order \in Int
          /\ Task[registered[current]].label \in Int
      BY <2>3 DEF TaskRecord, LastPhase
    <3>. QED  BY <3>1, <3>2, <3>3 DEF SortKey
  <2>. QED  BY <2>2, <2>4 DEF Before
<1>. QED  BY <1>2 DEF RanToday

(* A record is written once per entry of its date, and a date is entered     *)
(* again only after a raise or a rewind.                                    *)
LEMMA CountInvStep ==
  ASSUME TypeOK, TypeOK', ControlInv, OrderInv, CountInv, [Next]_vars
  PROVE  CountInv'
<1>. USE DEF busVars, dayVars, hostVars
<1>0. /\ LedgerKept /\ Grew
      /\ \/ RecordExecuted
         \/ \A i \in DOMAIN ledger' \ DOMAIN ledger : ledger'[i].type # "task_executed"
  BY LedgerGrowth, RegisteredGrows
<1>1. failures \in Nat /\ rewinds \in Nat /\ failures' \in Nat /\ rewinds' \in Nat
      /\ today \in Nat /\ today' \in Nat /\ \A r \in LedgerRecord : r.date \in Nat
  BY BoundAssumption DEF TypeOK, LedgerRecord
<1>2. SUFFICES ASSUME NEW r \in LedgerRecord, r.type = "task_executed"
               PROVE  /\ Count(r)' <= 1 + failures' + rewinds'
                      /\ Unrun(r)' => Count(r)' <= failures' + rewinds'
  BY DEF CountInv, Unrun
<1>3. ASSUME UNCHANGED <<today, done, failures, rewinds>>, pc = "idle" <=> pc' = "idle",
             ~RecordExecuted
      PROVE  /\ Count(r)' <= 1 + failures' + rewinds'
             /\ Unrun(r)' => Count(r)' <= failures' + rewinds'
  <2>1. \A k \in DOMAIN done : registered'[done[k]] = registered[done[k]]
    <3>1. \A k \in DOMAIN done : done[k] \in DOMAIN registered
      BY SMTT(20) DEF TypeOK
    <3>. QED  BY <1>0, <3>1 DEF Grew
  <2>2. \A t : RanToday(t)' <=> RanToday(t)
    BY <1>3, <2>1 DEF RanToday
  <2>3. Unrun(r)' => Unrun(r)
    BY <1>3, <2>2 DEF Unrun
  <2>4. failures + rewinds <= failures' + rewinds'
    BY <1>1, <1>3
  <2>. QED  BY <1>0, <1>2, <1>3, <2>3, <2>4, KeepsCount
<1>4. CASE \/ \E t \in HostTasks : RegisterTask(t)
           \/ \E s \in Spaces : RegisterSpace(s)
           \/ \E e \in RunnerEvents : \E d \in {today, Event[e].simulation_date} : RunnerPublish(e, d)
           \/ NextPhase \/ CollectNext \/ Observe \/ StepAndEmit \/ PublishNext \/ UNCHANGED vars
           \/ Dispatch
  <2>1. UNCHANGED <<today, done, failures, rewinds>>
    BY <1>4 DEF RegisterTask, RegisterSpace, RunnerPublish, NextPhase, CollectNext, Observe,
       StepAndEmit, PublishNext, Dispatch, vars
  <2>2. Dispatch => pc # "idle" /\ pc' # "idle"
    <3>. SUFFICES ASSUME Dispatch PROVE pc # "idle" /\ pc' # "idle"
      OBVIOUS
    <3>1. PICK i \in due : pc' = StartOf(Task[registered[i]].body)
      BY DEF Dispatch
    <3>2. registered[i] \in Tasks
      BY SMTT(20) DEF TypeOK
    <3>3. Task[registered[i]].body \in Bodies
      BY <3>2, TaskAssumption DEF TaskRecord
    <3>. QED  BY <3>1, <3>3 DEF Dispatch, StartOf, Bodies
  <2>3. pc = "idle" <=> pc' = "idle"
    BY <1>4, <2>2 DEF RegisterTask, RegisterSpace, RunnerPublish, NextPhase, CollectNext, Observe,
       StepAndEmit, PublishNext, vars
  <2>4. ~RecordExecuted
    <3>1. RecordExecuted => done' = Append(done, current) /\ done \in Seq(DOMAIN registered)
      BY DEF RecordExecuted, TypeOK
    <3>. QED  BY <2>1, <3>1
  <2>. QED  BY <1>3, <2>1, <2>3, <2>4
<1>5. ASSUME NEW d \in Days, RewindClock(d)
      PROVE  /\ Count(r)' <= 1 + failures' + rewinds'
             /\ Unrun(r)' => Count(r)' <= failures' + rewinds'
  <2>1. rewinds' = rewinds + 1 /\ failures' = failures /\ ledger' = ledger
    BY <1>5 DEF RewindClock
  <2>2. failures + rewinds < failures' + rewinds' /\ failures + rewinds <= failures' + rewinds'
    BY <1>1, <2>1
  <2>3. \A i \in DOMAIN ledger' \ DOMAIN ledger : ledger'[i].type # "task_executed"
    BY <2>1
  <2>. QED  BY <1>0, <1>2, <2>2, <2>3, KeepsCount
<1>6. CASE PublishDuplicate \/ BodyRaises
  <2>1. failures' = failures + 1 /\ rewinds' = rewinds /\ ledger' = ledger
    BY <1>6 DEF PublishDuplicate, BodyRaises, Abort
  <2>2. failures + rewinds < failures' + rewinds' /\ failures + rewinds <= failures' + rewinds'
    BY <1>1, <2>1
  <2>3. \A i \in DOMAIN ledger' \ DOMAIN ledger : ledger'[i].type # "task_executed"
    BY <2>1
  <2>. QED  BY <1>0, <1>2, <2>2, <2>3, KeepsCount
<1>7. CASE EnterTick \/ EnterPhases
  <2>1. /\ failures' = failures /\ rewinds' = rewinds /\ ledger' = ledger /\ today' = today
        /\ pc = "idle"
    BY <1>7 DEF EnterTick, EnterPhases, EnterRunMode
  <2>2. \A t : ~RanToday(t)
    BY <2>1 DEF RanToday
  <2>3. Unrun(r)' => Unrun(r)
    BY <2>1, <2>2 DEF Unrun
  <2>4. failures + rewinds <= failures' + rewinds'
    BY <1>1, <2>1
  <2>5. \A i \in DOMAIN ledger' \ DOMAIN ledger : ledger'[i].type # "task_executed"
    BY <2>1
  <2>. QED  BY <1>0, <1>2, <2>3, <2>4, <2>5, KeepsCount
<1>8. CASE EndDay
  <2>1. failures' = failures /\ rewinds' = rewinds /\ today' = today + 1 /\ done' = done
    BY <1>8 DEF EndDay
  <2>2. Unrun(r)' => Unrun(r)
    BY <1>1, <2>1 DEF Unrun
  <2>3. ~RecordExecuted
    <3>1. RecordExecuted => done' = Append(done, current) /\ done \in Seq(DOMAIN registered)
      BY DEF RecordExecuted, TypeOK
    <3>. QED  BY <2>1, <3>1
  <2>4. failures + rewinds <= failures' + rewinds'
    BY <1>1, <2>1
  <2>. QED  BY <1>0, <1>2, <2>2, <2>3, <2>4, KeepsCount
<1>9. CASE RecordExecuted
  <2>1. /\ pc # "idle" /\ current \in DOMAIN registered /\ current # 0 /\ pc' # "idle"
        /\ done' = Append(done, current) /\ ledger' = Append(ledger, Executed(current))
        /\ UNCHANGED <<registered, today, failures, rewinds>>
    BY <1>9 DEF RecordExecuted, TypeOK
  <2>2. /\ done \in Seq(DOMAIN registered) /\ Len(done) \in Nat
        /\ DOMAIN done = 1..Len(done) /\ DOMAIN done' = 1..(Len(done) + 1)
        /\ done'[Len(done) + 1] = current
        /\ \A k \in DOMAIN done : done'[k] = done[k]
    BY <2>1 DEF TypeOK
  <2>3. ASSUME NEW t, RanToday(t) \/ t = registered[current]
        PROVE  RanToday(t)'
    <3>1. PICK k \in DOMAIN done' : registered[done'[k]] = t
      BY <2>1, <2>2, <2>3 DEF RanToday
    <3>. QED  BY <2>1, <3>1 DEF RanToday
  <2>4. Unrun(r)' => Unrun(r)
    BY <2>1, <2>3 DEF Unrun
  <2>5. Executed(current) \in LedgerRecord /\ Executed(current).date = today
        /\ Executed(current).subject = registered[current]
    BY <2>1, ExecutedType DEF Executed
  <2>6. Count(r) <= 1 + failures + rewinds
        /\ (Unrun(r) => Count(r) <= failures + rewinds)
    BY <1>2 DEF CountInv, Unrun
  <2>9. Count(r) \in Nat
    BY CountType
  <2>7. CASE r = Executed(current)
    <3>1. ~RanToday(r.subject) /\ r.date = today
      BY <2>1, <2>5, <2>7, CurrentIsNew
    <3>2. Unrun(r)
      BY <3>1 DEF Unrun
    <3>3. Count(r)' = Count(r) + 1
      BY <2>1, <2>5, <2>7, CountGrows
    <3>4. ~Unrun(r)'
      <4>1. RanToday(r.subject)' /\ r.date = today' /\ ~(r.date > today')
        <5>1. r.subject = registered[current] /\ r.date = today /\ today' = today
          BY <2>1, <2>5, <2>7
        <5>. QED  BY <1>1, <2>3, <5>1
      <4>. QED  BY <4>1 DEF Unrun
    <3>5. Count(r) <= failures + rewinds
      BY <2>6, <3>2
    <3>6. Count(r)' <= 1 + failures' + rewinds'
      BY <1>1, <2>1, <2>9, <3>3, <3>5
    <3>. QED  BY <3>4, <3>6
  <2>8. CASE r # Executed(current)
    <3>1. ledger \in Seq(LedgerRecord) /\ Len(ledger) \in Nat
      BY DEF TypeOK, LedgerRecord
    <3>2. \A i \in DOMAIN ledger' \ DOMAIN ledger : ledger'[i] = Executed(current)
      BY <2>1, <2>5, <3>1
    <3>3. Count(r)' = Count(r)
      BY <1>0, <2>8, <3>2, CountStays
    <3>. QED  BY <2>1, <2>4, <2>6, <3>3
  <2>. QED  BY <2>7, <2>8
<1>. QED
  BY <1>4, <1>5, <1>6, <1>7, <1>8, <1>9 DEF Next, Host, RunDay

-----------------------------------------------------------------------------
DayInv ==
  /\ ControlInv /\ OrderInv /\ CompleteInv /\ CountInv
  /\ CollectedAll /\ HandedOver /\ ExecutionsGiven

(* The invariants of the day hold in every reachable state.                 *)
THEOREM DayInvariance == Spec => []DayInv
<1>1. Init => DayInv
  <2>. SUFFICES ASSUME Init PROVE DayInv
    OBVIOUS
  <2>1. /\ registered = <<>> /\ ledger = <<>> /\ pc = "idle" /\ current = 0 /\ incoming = {}
        /\ done = <<>> /\ delivered = {} /\ observed = {} /\ failures = 0 /\ rewinds = 0
    BY DEF Init
  <2>2. \A r : Occurrences(r) = {}
    BY <2>1 DEF Occurrences
  <2>3. \A r : Count(r) = 0
    BY <2>2, FS_EmptySet DEF Count
  <2>4. CountInv
    BY <2>1, <2>3 DEF CountInv
  <2>5. ControlInv /\ OrderInv /\ CompleteInv /\ CollectedAll
    BY <2>1 DEF ControlInv, OrderInv, CompleteInv, CollectedAll
  <2>6. HandedOver /\ ExecutionsGiven
    BY <2>1 DEF HandedOver, Handed, ExecutionsGiven
  <2>. QED  BY <2>4, <2>5, <2>6 DEF DayInv
<1>2. TypeOK /\ TypeOK' /\ DeliveryInv /\ DayInv /\ [Next]_vars => DayInv'
  BY ControlInvStep, OrderInvStep, CompleteInvStep, CountInvStep, CollectedAllStep,
     HandedOverStep, ExecutionsGivenStep DEF DayInv
<1>. QED  BY <1>1, <1>2, Typing, DeliveryInvariance, PTL DEF Spec

(* Tasks run in the order of their sort keys through the whole day, and a   *)
(* task is recorded again for a date only after a raise or a rewind.        *)
THEOREM DispatchedInOrderTheorem == Spec => []DispatchedInOrder
<1>1. TypeOK /\ DayInv => DispatchedInOrder
  <2>. SUFFICES ASSUME TypeOK, DayInv PROVE DispatchedInOrder
    OBVIOUS
  <2>1. \A i, j \in DOMAIN done : i < j => Before(done[i], done[j])
    BY DEF DayInv, OrderInv
  <2>2. ASSUME NEW x \in DOMAIN ledger, IsExecution(x)
        PROVE  Cardinality({y \in DOMAIN ledger : ledger[y] = ledger[x]}) <= 1 + failures + rewinds
    <3>1. ledger[x] \in LedgerRecord
      <4>1. ledger \in Seq(LedgerRecord)
        BY DEF TypeOK, LedgerRecord
      <4>. QED  BY <4>1
    <3>2. Count(ledger[x]) <= 1 + failures + rewinds
      BY <2>2, <3>1 DEF DayInv, CountInv, IsExecution
    <3>. QED  BY <3>2 DEF Count, Occurrences
  <2>. QED  BY <2>1, <2>2 DEF DispatchedInOrder
<1>. QED  BY <1>1, Typing, DayInvariance, PTL

(* A space that finished its step had been given every event addressed to   *)
(* it that was ready; and unless something raised, what the bus marked       *)
(* delivered reached observe().                                             *)
THEOREM NothingHeldBackTheorem == Spec => []NothingHeldBack
<1>1. DayInv => NothingHeldBack
  BY NothingHeldBackParts DEF DayInv
<1>. QED  BY <1>1, DayInvariance, PTL

(* The clock leaves a date only when the day's work is done.                *)
THEOREM DayIsCompleteTheorem == Spec => DayIsComplete
<1>1. TypeOK /\ DayInv /\ [Next]_vars => [DayStep]_vars
  BY DayStepHolds DEF DayInv
<1>2. [][DayStep]_vars => DayIsComplete
  BY PTL DEF DayIsComplete, DayStep
<1>. QED  BY <1>1, <1>2, Typing, DayInvariance, PTL DEF Spec
=============================================================================
