------------------------ MODULE StressProgramsProofs ------------------------
(***************************************************************************)
(* Proofs about StressPrograms, for any number of templates, programs,      *)
(* dates and ids, and without a bound on the number of calls.              *)
(***************************************************************************)
EXTENDS StressPrograms, FiniteSetTheorems, TLAPS

(* The shifts of those applications that have one of the ids. *)
EmittedBy(apps, ids) == UNION {a.emitted : a \in {b \in apps : b.id \in ids}}

RunningCall ==
  [running |-> TRUE, program |-> call.program, date |-> call.date, receipt |-> call.receipt,
   next |-> call.next, applied |-> call.applied, emitted |-> call.emitted,
   unresolved |-> call.unresolved]

CallShape == call = Idle \/ call = RunningCall

(* An id is given once, and every application shifts something. *)
ApplicationsAreDistinct ==
  /\ \A a, b \in applications : a.id = b.id => a = b
  /\ \A a \in applications : a.emitted # {}

(* What a running call has gathered so far, one entry per step walked. *)
CallGathers ==
  call.running =>
    /\ IsFiniteSet(call.applied)
    /\ call.applied \subseteq ApplicationIds
    /\ call.emitted = EmittedBy(applications, call.applied)
    /\ Cardinality(call.applied) + call.unresolved = call.next - 1

StressInv ==
  /\ TypeOK
  /\ CallShape
  /\ ApplicationsAreDistinct
  /\ CallGathers
  /\ CitationsResolve
  /\ ReceiptAccountsForSteps

(* A program has one to three steps, each a template. *)
LEMMA StepsType ==
  ASSUME NEW p \in Programs
  PROVE  /\ Steps[p] \in Seq(Templates)
         /\ Len(Steps[p]) \in 1..3
         /\ \A i \in 1..Len(Steps[p]) : Steps[p][i] \in Templates
  BY StepAssumption

(* Every template's family shifts something. *)
LEMMA SomeShift ==
  ASSUME NEW t \in Templates, NEW id
  PROVE  ShiftIdsOf(id, t) # {}
<1>1. ShiftCount[t] \in Nat \ {0}
  BY ShiftAssumption
<1>2. <<id, 1>> \in ShiftIdsOf(id, t)
  BY <1>1 DEF ShiftIdsOf
<1>. QED  BY <1>2

(* What StoreApplication does to the books: one application under a fresh id *)
(* with its shifts, and what earlier ids emitted stays what it was.        *)
LEMMA Storing ==
  ASSUME ApplicationsAreDistinct, CitationsResolve,
         NEW t \in templates, templates \subseteq Templates,
         NEW id, NEW d, NEW cause,
         id \notin ApplicationIds, StoreApplication(id, t, d, cause)
  PROVE  /\ ApplicationsAreDistinct'
         /\ ApplicationIds' = ApplicationIds \cup {id}
         /\ \A ids \in SUBSET ApplicationIds :
              /\ EmittedBy(applications', ids) = EmittedBy(applications, ids)
              /\ EmittedBy(applications', ids \cup {id}) = EmittedBy(applications, ids) \cup ShiftIdsOf(id, t)
         /\ \A a \in applications' : a \notin applications =>
              a.id = id /\ a.template = t /\ a.date = d /\ a.emitted = ShiftIdsOf(id, t)
         /\ \A a \in applications' : a.emitted \subseteq shifts'
         /\ \A s \in shifts' : \E a \in applications' : s \in a.emitted
<1> DEFINE new == [id |-> id, template |-> t, date |-> d, cause |-> cause,
                   emitted |-> ShiftIdsOf(id, t)]
<1>1. /\ applications' = applications \cup {new}
      /\ shifts' = shifts \cup ShiftIdsOf(id, t)
  BY DEF StoreApplication
<1>2. /\ new.id = id /\ new.template = t /\ new.date = d
      /\ new.emitted = ShiftIdsOf(id, t)
  OBVIOUS
<1>3. \A a \in applications : a.id # id
  BY DEF ApplicationIds
<1>4. ShiftIdsOf(id, t) # {}
  BY SomeShift
<1> HIDE DEF new
<1>5. ApplicationsAreDistinct'
  BY <1>1, <1>2, <1>3, <1>4 DEF ApplicationsAreDistinct
<1>6. ApplicationIds' = ApplicationIds \cup {id}
  BY <1>1, <1>2 DEF ApplicationIds
<1>7. ASSUME NEW ids \in SUBSET ApplicationIds
      PROVE  /\ EmittedBy(applications', ids) = EmittedBy(applications, ids)
             /\ EmittedBy(applications', ids \cup {id}) = EmittedBy(applications, ids) \cup ShiftIdsOf(id, t)
  <2>1. id \notin ids
    BY <1>7
  <2>2. {b \in applications' : b.id \in ids} = {b \in applications : b.id \in ids}
    BY <1>1, <1>2, <2>1
  <2>3. {b \in applications' : b.id \in ids \cup {id}}
          = {b \in applications : b.id \in ids} \cup {new}
    BY <1>1, <1>2, <1>3
  <2>4. UNION {a.emitted : a \in {b \in applications : b.id \in ids} \cup {new}}
          = EmittedBy(applications, ids) \cup ShiftIdsOf(id, t)
    BY <1>2 DEF EmittedBy
  <2>. QED  BY <2>2, <2>3, <2>4 DEF EmittedBy
<1>8. \A a \in applications' : a \notin applications =>
        a.id = id /\ a.template = t /\ a.date = d /\ a.emitted = ShiftIdsOf(id, t)
  BY <1>1, <1>2
<1>9. /\ \A a \in applications' : a.emitted \subseteq shifts'
      /\ \A s \in shifts' : \E a \in applications' : s \in a.emitted
  BY <1>1, <1>2 DEF CitationsResolve
<1>. QED  BY <1>5, <1>6, <1>7, <1>8, <1>9

(* The walk moves a call one step on; its other fields stay. *)
LEMMA CallMoves ==
  ASSUME CallShape, call.running, NEW applied, NEW emitted, NEW unresolved,
         call' = [call EXCEPT !.next = @ + 1, !.applied = applied, !.emitted = emitted,
                              !.unresolved = unresolved]
  PROVE  /\ CallShape' /\ call'.running
         /\ call'.program = call.program /\ call'.date = call.date
         /\ call'.receipt = call.receipt /\ call'.next = call.next + 1
         /\ call'.applied = applied /\ call'.emitted = emitted
         /\ call'.unresolved = unresolved
<1>1. call = RunningCall
  BY DEF CallShape, Idle
<1>2. call' = [running |-> TRUE, program |-> call.program, date |-> call.date,
               receipt |-> call.receipt, next |-> call.next + 1, applied |-> applied,
               emitted |-> emitted, unresolved |-> unresolved]
  BY <1>1 DEF RunningCall
<1>. QED  BY <1>2 DEF CallShape, RunningCall

(* Steps that only add a template, a program or a receipt leave what the     *)
(* applications say alone.                                                 *)
LEMMA BooksUntouched ==
  ASSUME applications' = applications
  PROVE  /\ ApplicationIds' = ApplicationIds
         /\ \A ids : EmittedBy(applications', ids) = EmittedBy(applications, ids)
         /\ ApplicationsAreDistinct => ApplicationsAreDistinct'
  BY DEF ApplicationIds, EmittedBy, ApplicationsAreDistinct

(* The strengthened invariant holds at the start. *)
LEMMA StressInit == Init => StressInv
  BY DEF Init, StressInv, TypeOK, CallShape, Idle, ApplicationsAreDistinct, CallGathers,
         CitationsResolve, ReceiptAccountsForSteps

(* A step that resolves keeps it. *)
LEMMA StepResolvesKeeps == StressInv /\ StepResolves => StressInv'
<1> SUFFICES ASSUME StressInv, StepResolves PROVE StressInv'
  OBVIOUS
<1> DEFINE id == StepApplicationId
           t == StepTemplate
<1>1. /\ TypeOK /\ CallShape /\ ApplicationsAreDistinct /\ CallGathers
      /\ CitationsResolve /\ ReceiptAccountsForSteps
  BY DEF StressInv
<1>2. /\ call.running /\ call.program \in Programs /\ call.date \in Dates
      /\ call.receipt \in NamedIds
      /\ call.next \in 1..Len(Steps[call.program])
      /\ call.unresolved \in 0..(call.next - 1)
  BY <1>1, StepsType DEF StepResolves, Walking, TypeOK, Idle
<1>3. /\ t \in templates /\ templates \subseteq Templates /\ id \notin ApplicationIds
  BY <1>1 DEF StepResolves, Applies, TypeOK
<1>4. /\ ApplicationsAreDistinct'
      /\ ApplicationIds' = ApplicationIds \cup {id}
      /\ \A ids \in SUBSET ApplicationIds :
           /\ EmittedBy(applications', ids) = EmittedBy(applications, ids)
           /\ EmittedBy(applications', ids \cup {id}) = EmittedBy(applications, ids) \cup ShiftIdsOf(id, t)
      /\ \A a \in applications' : a \notin applications =>
           a.id = id /\ a.template = t /\ a.date = call.date /\ a.emitted = ShiftIdsOf(id, t)
      /\ \A a \in applications' : a.emitted \subseteq shifts'
      /\ \A s \in shifts' : \E a \in applications' : s \in a.emitted
  <2> DEFINE cause == [receipt |-> call.receipt, step |-> StepId]
  <2>1. StoreApplication(id, t, call.date, cause)
    BY DEF StepResolves
  <2>2. ApplicationsAreDistinct /\ CitationsResolve
    BY <1>1
  <2> HIDE DEF id, t, cause
  <2>. QED  BY <1>3, <2>1, <2>2, Storing
<1>5. call' = [call EXCEPT !.next = @ + 1, !.applied = call.applied \cup {id},
                           !.emitted = call.emitted \cup ShiftIdsOf(id, t),
                           !.unresolved = call.unresolved]
  <2>1. call = RunningCall  BY <1>1, <1>2 DEF CallShape, Idle
  <2>. QED  BY <2>1 DEF StepResolves, RunningCall
<1>6. /\ templates' = templates /\ programs' = programs /\ receipts' = receipts
  BY DEF StepResolves
<1> HIDE DEF id, t
<1>7. /\ CallShape' /\ call'.running
      /\ call'.program = call.program /\ call'.date = call.date
      /\ call'.receipt = call.receipt /\ call'.next = call.next + 1
      /\ call'.applied = call.applied \cup {id}
      /\ call'.emitted = call.emitted \cup ShiftIdsOf(id, t)
      /\ call'.unresolved = call.unresolved
  BY <1>1, <1>2, <1>5, CallMoves
<1>8. Len(Steps[call.program]) \in Nat
  BY <1>2, StepsType
<1>9. TypeOK'
  BY <1>1, <1>2, <1>3, <1>4, <1>6, <1>7, <1>8 DEF TypeOK
<1>10. CallGathers'
  <2>1. /\ IsFiniteSet(call.applied) /\ call.applied \subseteq ApplicationIds
        /\ call.emitted = EmittedBy(applications, call.applied)
        /\ Cardinality(call.applied) + call.unresolved = call.next - 1
    BY <1>1, <1>2 DEF CallGathers
  <2>2. id \notin call.applied
    BY <1>3, <2>1
  <2>3. /\ IsFiniteSet(call.applied \cup {id})
        /\ Cardinality(call.applied \cup {id}) = Cardinality(call.applied) + 1
        /\ Cardinality(call.applied) \in Nat
    BY <2>1, <2>2, FS_AddElement, FS_CardinalityType
  <2>4. Cardinality(call'.applied) + call'.unresolved = call'.next - 1
    BY <1>2, <1>7, <2>1, <2>3
  <2>5. call'.emitted = EmittedBy(applications', call'.applied)
    BY <1>4, <1>7, <2>1
  <2>. QED  BY <1>4, <1>7, <2>1, <2>3, <2>4, <2>5 DEF CallGathers
<1>11. CitationsResolve'
  <2>1. \A r \in receipts : /\ r.applications \subseteq ApplicationIds
                             /\ r.shifts = EmittedBy(applications, r.applications)
    BY <1>1 DEF CitationsResolve, EmittedBy
  <2>2. \A r \in receipts' : /\ r.applications \subseteq ApplicationIds'
                              /\ r.shifts = EmittedBy(applications', r.applications)
    BY <1>4, <1>6, <2>1
  <2>3. \A a \in applications' : a.template \in templates'
    BY <1>1, <1>3, <1>4, <1>6 DEF CitationsResolve
  <2>. QED  BY <1>4, <2>2, <2>3 DEF CitationsResolve, EmittedBy
<1>12. ReceiptAccountsForSteps'
  BY <1>1, <1>6 DEF ReceiptAccountsForSteps
<1>. QED  BY <1>4, <1>7, <1>9, <1>10, <1>11, <1>12 DEF StressInv

(* A step that raises keeps it. *)
LEMMA StepUnresolvedKeeps == StressInv /\ StepUnresolved => StressInv'
<1> SUFFICES ASSUME StressInv, StepUnresolved PROVE StressInv'
  OBVIOUS
<1>1. /\ TypeOK /\ CallShape /\ ApplicationsAreDistinct /\ CallGathers
      /\ CitationsResolve /\ ReceiptAccountsForSteps
  BY DEF StressInv
<1>2. /\ call.running /\ call.program \in Programs /\ call.date \in Dates
      /\ call.receipt \in NamedIds
      /\ call.next \in 1..Len(Steps[call.program])
      /\ call.unresolved \in 0..(call.next - 1)
  BY <1>1, StepsType DEF StepUnresolved, Walking, TypeOK, Idle
<1>3. call' = [call EXCEPT !.next = @ + 1, !.applied = call.applied,
                           !.emitted = call.emitted, !.unresolved = call.unresolved + 1]
  <2>1. call = RunningCall  BY <1>1, <1>2 DEF CallShape, Idle
  <2>. QED  BY <2>1 DEF StepUnresolved, RunningCall
<1>4. /\ CallShape' /\ call'.running
      /\ call'.program = call.program /\ call'.date = call.date
      /\ call'.receipt = call.receipt /\ call'.next = call.next + 1
      /\ call'.applied = call.applied /\ call'.emitted = call.emitted
      /\ call'.unresolved = call.unresolved + 1
  BY <1>1, <1>2, <1>3, CallMoves
<1>5. /\ applications' = applications /\ shifts' = shifts /\ receipts' = receipts
      /\ templates' = templates /\ programs' = programs
  BY DEF StepUnresolved
<1>6. /\ ApplicationIds' = ApplicationIds /\ ApplicationsAreDistinct'
      /\ EmittedBy(applications', call.applied) = EmittedBy(applications, call.applied)
  BY <1>1, <1>5, BooksUntouched DEF EmittedBy
<1>7. Len(Steps[call.program]) \in Nat
  BY <1>2, StepsType
<1>8. TypeOK'
  BY <1>1, <1>2, <1>4, <1>5, <1>7 DEF TypeOK
<1>9. CallGathers'
  <2>1. /\ IsFiniteSet(call.applied) /\ call.applied \subseteq ApplicationIds
        /\ call.emitted = EmittedBy(applications, call.applied)
        /\ Cardinality(call.applied) + call.unresolved = call.next - 1
    BY <1>1, <1>2 DEF CallGathers
  <2>2. Cardinality(call.applied) \in Nat
    BY <2>1, FS_CardinalityType
  <2>3. Cardinality(call'.applied) + call'.unresolved = call'.next - 1
    BY <1>2, <1>4, <2>1, <2>2
  <2>. QED  BY <1>4, <1>6, <2>1, <2>3 DEF CallGathers
<1>10. CitationsResolve' /\ ReceiptAccountsForSteps'
  BY <1>1, <1>5, <1>6 DEF CitationsResolve, ReceiptAccountsForSteps, ApplicationIds
<1>. QED  BY <1>4, <1>6, <1>8, <1>9, <1>10 DEF StressInv

(* Counts of a call that has walked all its steps. *)
LEMMA Counts ==
  ASSUME NEW n \in 1..3, NEW u \in 0..n, NEW c \in Nat, c + u = n
  PROVE  /\ u \in Numbers
         /\ u = 0 => u # n /\ ~(u > 0) /\ c # 0
         /\ u # 0 => u > 0
         /\ u = n <=> c = 0
  BY DEF Numbers

(* A receipt is stored: it cites what the call gathered, one entry per step. *)
LEMMA AddReceiptKeeps == StressInv /\ AddReceipt => StressInv'
<1> SUFFICES ASSUME StressInv, AddReceipt PROVE StressInv'
  OBVIOUS
<1>1. /\ TypeOK /\ CallShape /\ ApplicationsAreDistinct /\ CallGathers
      /\ CitationsResolve /\ ReceiptAccountsForSteps
  BY DEF StressInv
<1>2. /\ call.running /\ call.program \in Programs /\ call.date \in Dates
      /\ call.receipt \in NamedIds
      /\ Len(Steps[call.program]) \in 1..3
      /\ call.next = Len(Steps[call.program]) + 1
      /\ call.unresolved \in 0..Len(Steps[call.program])
  BY <1>1, StepsType DEF AddReceipt, Walked, TypeOK, Idle
<1>3. /\ IsFiniteSet(call.applied) /\ call.applied \subseteq ApplicationIds
      /\ call.emitted = EmittedBy(applications, call.applied)
      /\ Cardinality(call.applied) + call.unresolved = Len(Steps[call.program])
      /\ Cardinality(call.applied) \in Nat
  BY <1>1, <1>2, FS_CardinalityType DEF CallGathers
<1>4. /\ receipts' = receipts \cup {Receipt} /\ call' = Idle
      /\ applications' = applications /\ shifts' = shifts
      /\ templates' = templates /\ programs' = programs
  BY DEF AddReceipt
<1>5. /\ Receipt.id = call.receipt /\ Receipt.program = call.program
      /\ Receipt.date = call.date /\ Receipt.applications = call.applied
      /\ Receipt.shifts = call.emitted /\ Receipt.unresolved = call.unresolved
      /\ Receipt.outcome = Outcome
  BY DEF Receipt
<1>6. /\ ApplicationIds' = ApplicationIds /\ ApplicationsAreDistinct'
  BY <1>1, <1>4, BooksUntouched
<1>7. /\ call.unresolved \in Numbers
      /\ call.unresolved = 0 => /\ call.unresolved # Len(Steps[call.program])
                                /\ ~(call.unresolved > 0)
                                /\ Cardinality(call.applied) # 0
      /\ call.unresolved # 0 => call.unresolved > 0
      /\ call.unresolved = Len(Steps[call.program]) <=> Cardinality(call.applied) = 0
  <2> DEFINE n == Len(Steps[call.program])
             u == call.unresolved
             c == Cardinality(call.applied)
  <2>1. n \in 1..3 /\ u \in 0..n /\ c \in Nat /\ c + u = n
    BY <1>2, <1>3
  <2> HIDE DEF n, u, c
  <2>2. /\ u \in Numbers
        /\ u = 0 => u # n /\ ~(u > 0) /\ c # 0
        /\ u # 0 => u > 0
        /\ u = n <=> c = 0
    BY <2>1, Counts
  <2>. QED  BY <2>2 DEF n, u, c
<1>8. TypeOK'
  <2>1. \A r \in receipts' : /\ r.id \in NamedIds /\ r.program \in Programs /\ r.date \in Dates
                              /\ r.unresolved \in Numbers
    BY <1>7, <1>1, <1>2, <1>4, <1>5 DEF TypeOK
  <2>. QED  BY <1>1, <1>4, <2>1 DEF TypeOK, Idle
<1>9. CallShape' /\ CallGathers'
  BY <1>4 DEF CallShape, CallGathers, Idle
<1>10. CitationsResolve'
  BY <1>1, <1>3, <1>4, <1>5, <1>6 DEF CitationsResolve, EmittedBy
<1>11. ReceiptAccountsForSteps'
  <2>1. Outcome = "rejected" <=> call.applied = {}
    <3>1. call.applied = {} <=> Cardinality(call.applied) = 0
      BY <1>3, FS_EmptySet
    <3>2. call.applied = {} <=> call.unresolved = Len(Steps[call.program])
      BY <1>7, <3>1
    <3>. QED  BY <3>2 DEF Outcome
  <2>2. Outcome = "applied_as_context_shift" <=> call.unresolved = 0
    <3>1. ASSUME call.unresolved = 0 PROVE call.emitted # {}
      <4>1. call.applied # {}
        <5>1. Cardinality(call.applied) # 0
          BY <1>7, <3>1
        <5>. QED  BY <5>1, FS_EmptySet
      <4>2. PICK a \in applications : a.id \in call.applied
        BY <1>3, <4>1 DEF ApplicationIds
      <4>3. a.emitted # {} /\ a.emitted \subseteq EmittedBy(applications, call.applied)
        BY <1>1, <4>2 DEF ApplicationsAreDistinct, EmittedBy
      <4>. QED  BY <1>3, <4>3
    <3>2. CASE call.unresolved = 0
      <4>1. call.unresolved # Len(Steps[call.program]) /\ ~(call.unresolved > 0)
        BY <1>7, <3>2
      <4>. QED  BY <3>1, <3>2, <4>1 DEF Outcome
    <3>3. CASE call.unresolved # 0
      <4>1. call.unresolved > 0
        BY <1>7, <3>3
      <4>. QED  BY <3>3, <4>1 DEF Outcome
    <3>. QED  BY <3>2, <3>3
  <2>. QED  BY <1>1, <1>3, <1>4, <1>5, <2>1, <2>2 DEF ReceiptAccountsForSteps
<1>. QED  BY <1>6, <1>8, <1>9, <1>10, <1>11 DEF StressInv

(* A driver applied by itself keeps it. *)
LEMMA ApplyDriverKeeps ==
  ASSUME NEW t \in Templates, NEW d \in Dates, StressInv, ApplyScenarioDriver(t, d)
  PROVE  StressInv'
<1> DEFINE id == <<t, d>>
<1>1. /\ TypeOK /\ CallShape /\ ApplicationsAreDistinct /\ CallGathers
      /\ CitationsResolve /\ ReceiptAccountsForSteps
  BY DEF StressInv
<1>2. /\ call = Idle /\ call' = call /\ t \in templates /\ templates \subseteq Templates
      /\ id \notin ApplicationIds /\ StoreApplication(id, t, d, NoReceipt)
      /\ templates' = templates /\ programs' = programs /\ receipts' = receipts
  BY <1>1 DEF ApplyScenarioDriver, MayStart, Applies, TypeOK
<1> HIDE DEF id
<1>3. /\ ApplicationsAreDistinct'
      /\ ApplicationIds' = ApplicationIds \cup {id}
      /\ \A ids \in SUBSET ApplicationIds : EmittedBy(applications', ids) = EmittedBy(applications, ids)
      /\ \A a \in applications' : a \notin applications =>
           a.id = id /\ a.template = t /\ a.date = d
      /\ \A a \in applications' : a.emitted \subseteq shifts'
      /\ \A s \in shifts' : \E a \in applications' : s \in a.emitted
  BY <1>1, <1>2, Storing, Zenon
<1>4. TypeOK' /\ CallShape' /\ CallGathers'
  BY <1>1, <1>2, <1>3 DEF TypeOK, CallShape, CallGathers, Idle
<1>5. CitationsResolve'
  <2>1. \A r \in receipts : /\ r.applications \subseteq ApplicationIds
                             /\ r.shifts = EmittedBy(applications, r.applications)
    BY <1>1 DEF CitationsResolve, EmittedBy
  <2>2. \A r \in receipts' : /\ r.applications \subseteq ApplicationIds'
                              /\ r.shifts = EmittedBy(applications', r.applications)
    BY <1>2, <1>3, <2>1
  <2>3. \A a \in applications' : a.template \in templates'
    BY <1>1, <1>2, <1>3 DEF CitationsResolve
  <2>. QED  BY <1>3, <2>2, <2>3 DEF CitationsResolve, EmittedBy
<1>6. ReceiptAccountsForSteps'
  BY <1>1, <1>2 DEF ReceiptAccountsForSteps
<1>. QED  BY <1>3, <1>4, <1>5, <1>6 DEF StressInv

(* The remaining operations leave applications, shifts and receipts alone. *)
LEMMA OthersKeep ==
  ASSUME StressInv,
         applications' = applications, shifts' = shifts, receipts' = receipts,
         templates \subseteq templates', templates' \subseteq Templates,
         programs' \subseteq Programs,
         \/ call' = call
         \/ call' = Idle
         \/ \E p \in Programs, d \in Dates, rid \in NamedIds :
              call' = [running |-> TRUE, program |-> p, date |-> d, receipt |-> rid,
                       next |-> 1, applied |-> {}, emitted |-> {}, unresolved |-> 0]
  PROVE  StressInv'
<1>1. /\ TypeOK /\ CallShape /\ ApplicationsAreDistinct /\ CallGathers
      /\ CitationsResolve /\ ReceiptAccountsForSteps
  BY DEF StressInv
<1>2. /\ ApplicationIds' = ApplicationIds /\ ApplicationsAreDistinct'
  BY <1>1, BooksUntouched
<1>3. CitationsResolve' /\ ReceiptAccountsForSteps'
  BY <1>1, <1>2 DEF CitationsResolve, ReceiptAccountsForSteps
<1>4. CASE call' = call
  BY <1>1, <1>2, <1>3, <1>4
     DEF StressInv, TypeOK, CallShape, RunningCall, CallGathers, EmittedBy
<1>5. CASE call' = Idle
  BY <1>1, <1>2, <1>3, <1>5 DEF StressInv, TypeOK, CallShape, CallGathers, Idle
<1>6. ASSUME NEW p \in Programs, NEW d \in Dates, NEW rid \in NamedIds,
             call' = [running |-> TRUE, program |-> p, date |-> d, receipt |-> rid,
                      next |-> 1, applied |-> {}, emitted |-> {}, unresolved |-> 0]
      PROVE  StressInv'
  <2>1. Len(Steps[p]) \in Nat
    BY StepsType
  <2>2. /\ call'.running /\ call'.program = p /\ call'.date = d /\ call'.receipt = rid
        /\ call'.next = 1 /\ call'.applied = {} /\ call'.emitted = {}
        /\ call'.unresolved = 0
    BY <1>6
  <2>3. CallShape'
    BY <1>6, <2>2 DEF CallShape, RunningCall
  <2>4. CallGathers'
    BY <2>2, FS_EmptySet DEF CallGathers, EmittedBy
  <2>5. TypeOK'
    BY <1>1, <2>1, <2>2 DEF TypeOK
  <2>. QED  BY <1>2, <1>3, <2>3, <2>4, <2>5 DEF StressInv
<1>. QED  BY <1>4, <1>5, <1>6

(* Every step keeps the strengthened invariant. *)
LEMMA StressStep == StressInv /\ [Next]_vars => StressInv'
<1> SUFFICES ASSUME StressInv, [Next]_vars PROVE StressInv'
  OBVIOUS
<1>6. templates \subseteq Templates /\ programs \subseteq Programs
  BY DEF StressInv, TypeOK
<1>1. ASSUME NEW t \in Templates, AddTemplate(t) PROVE StressInv'
  BY <1>6, <1>1, OthersKeep DEF AddTemplate
<1>2. ASSUME NEW p \in Programs, AddProgram(p) PROVE StressInv'
  BY <1>6, <1>2, OthersKeep DEF AddProgram
<1>3. ASSUME NEW p \in Programs, NEW d \in Dates, NEW rid \in ExplicitIds \cup {<<p, d>>},
             ApplyStressProgram(p, d, rid)
      PROVE  StressInv'
  <2>1. rid \in NamedIds
    BY <1>3 DEF NamedIds
  <2>. QED  BY <1>6, <1>3, <2>1, OthersKeep DEF ApplyStressProgram
<1>4. CASE DuplicateReceipt
  BY <1>6, <1>4, OthersKeep DEF DuplicateReceipt
<1>5. CASE UNCHANGED vars
  BY <1>6, <1>5, OthersKeep DEF vars
<1>. QED
  BY <1>1, <1>2, <1>3, <1>4, <1>5, ApplyDriverKeeps, StepResolvesKeeps,
     StepUnresolvedKeeps, AddReceiptKeeps DEF Next, Walk

(* Programs, their records, the running call and the receipts keep in step. *)
LEMMA StressInvariant == Spec => []StressInv
  BY StressInit, StressStep, PTL DEF Spec

(* Every record has its type: a call never counts more unresolved steps than *)
(* it has walked.                                                          *)
THEOREM StressTyping == Spec => []TypeOK
<1>1. StressInv => TypeOK
  BY DEF StressInv
<1>. QED  BY <1>1, StressInvariant, PTL

(* Citations resolve both ways through raising steps, repeated calls and     *)
(* refused receipts.                                                       *)
THEOREM CitationsResolveTheorem == Spec => []CitationsResolve
<1>1. StressInv => CitationsResolve
  BY DEF StressInv
<1>. QED  BY <1>1, StressInvariant, PTL

(* Every receipt accounts for each step of its program. *)
THEOREM ReceiptAccountsForStepsTheorem == Spec => []ReceiptAccountsForSteps
<1>1. StressInv => ReceiptAccountsForSteps
  BY DEF StressInv
<1>. QED  BY <1>1, StressInvariant, PTL

(* No step replaces or removes a record. *)
THEOREM RecordsAreFinalTheorem == Spec => RecordsAreFinal
<1>1. [Next]_vars =>
        [/\ applications \subseteq applications'
         /\ shifts \subseteq shifts'
         /\ receipts \subseteq receipts']_vars
  BY DEF Next, Walk, vars, AddTemplate, AddProgram, ApplyScenarioDriver, ApplyStressProgram,
         StepResolves, StepUnresolved, AddReceipt, DuplicateReceipt, StoreApplication
<1>. QED  BY <1>1, PTL DEF Spec, RecordsAreFinal

(***************************************************************************)
(* The ledger names a record after the records it cites, and once           *)
(***************************************************************************)
Before(entries, x, y) ==
  \E i, j \in DOMAIN entries : i < j /\ entries[i] = x /\ entries[j] = y
Distinct(entries) == \A i, j \in DOMAIN entries : entries[i] = entries[j] => i = j
Named(entries) == {entries[i] : i \in DOMAIN entries}

ApplicationNames == (Templates \X Dates) \cup (NamedIds \X Nat \X Templates)
Entries ==
  ({"template"} \X Templates) \cup ({"program"} \X Programs) \cup
  ({"application"} \X ApplicationNames) \cup ({"shift"} \X (ApplicationNames \X Nat)) \cup
  ({"receipt"} \X NamedIds)

(* The entries of everything that is stored. *)
Stored ==
  {<<"template", t>> : t \in templates} \cup {<<"program", p>> : p \in programs} \cup
  {<<"application", a>> : a \in ApplicationIds} \cup {<<"shift", s>> : s \in shifts} \cup
  {<<"receipt", r>> : r \in ReceiptIds}

LedgerInv ==
  /\ ledger \in Seq(Entries)
  /\ Named(ledger) = Stored
  /\ \A a \in applications : a.emitted = ShiftIdsOf(a.id, a.template)
  /\ call.running => call.program \in programs /\ call.emitted \subseteq shifts
  /\ LedgerIsCausal

(* New entries at the end of a sequence come after all that was there. *)
LEMMA Extending ==
  ASSUME NEW S, NEW old \in Seq(S), NEW more \in Seq(S), Distinct(old), Distinct(more),
         Named(old) \cap Named(more) = {}
  PROVE  /\ old \o more \in Seq(S)
         /\ Distinct(old \o more)
         /\ Named(old \o more) = Named(old) \cup Named(more)
         /\ \A x, y : Before(old, x, y) \/ Before(more, x, y) => Before(old \o more, x, y)
         /\ \A x \in Named(old), y \in Named(more) : Before(old \o more, x, y)
<1> DEFINE all == old \o more
<1>1. /\ all \in Seq(S) /\ Len(all) = Len(old) + Len(more) /\ Len(old) \in Nat /\ Len(more) \in Nat
      /\ DOMAIN old = 1..Len(old) /\ DOMAIN more = 1..Len(more) /\ DOMAIN all = 1..Len(all)
  OBVIOUS
<1>2. \A i \in 1..Len(old) : i \in DOMAIN all /\ all[i] = old[i]
  OBVIOUS
<1>3. \A i \in 1..Len(more) : Len(old) + i \in DOMAIN all /\ all[Len(old) + i] = more[i]
  OBVIOUS
<1>4. \A i \in DOMAIN all : i \in 1..Len(old) \/ (i - Len(old) \in 1..Len(more) /\ all[i] = more[i - Len(old)])
  BY <1>1, <1>3
<1> HIDE DEF all
<1>5. Distinct(all)
  <2> SUFFICES ASSUME NEW i \in DOMAIN all, NEW j \in DOMAIN all, all[i] = all[j] PROVE i = j
    BY DEF Distinct
  <2>1. CASE i \in 1..Len(old) /\ j \in 1..Len(old)
    BY <1>1, <1>2, <2>1 DEF Distinct
  <2>2. CASE i \notin 1..Len(old) /\ j \notin 1..Len(old)
    <3>1. more[i - Len(old)] = more[j - Len(old)]
      BY <1>4, <2>2
    <3>2. i - Len(old) = j - Len(old)
      BY <1>1, <1>4, <2>2, <3>1 DEF Distinct
    <3>. QED  BY <1>1, <3>2
  <2>3. CASE i \in 1..Len(old) /\ j \notin 1..Len(old)
    BY <1>1, <1>2, <1>4, <2>3 DEF Named
  <2>4. CASE i \notin 1..Len(old) /\ j \in 1..Len(old)
    BY <1>1, <1>2, <1>4, <2>4 DEF Named
  <2>. QED  BY <2>1, <2>2, <2>3, <2>4
<1>6. Named(all) = Named(old) \cup Named(more)
  <2>1. Named(all) \subseteq Named(old) \cup Named(more)
    BY <1>1, <1>2, <1>4 DEF Named
  <2>2. Named(old) \subseteq Named(all)
    BY <1>1, <1>2 DEF Named
  <2>3. Named(more) \subseteq Named(all)
    BY <1>1, <1>3 DEF Named
  <2>. QED  BY <2>1, <2>2, <2>3
<1>7. \A x, y : Before(old, x, y) => Before(all, x, y)
  BY <1>1, <1>2 DEF Before
<1>8. \A x, y : Before(more, x, y) => Before(all, x, y)
  <2> SUFFICES ASSUME NEW x, NEW y, NEW i \in 1..Len(more), NEW j \in 1..Len(more), i < j,
                      more[i] = x, more[j] = y
               PROVE  Before(all, x, y)
    BY <1>1 DEF Before
  <2>1. Len(old) + i < Len(old) + j
    BY <1>1
  <2>. QED  BY <1>3, <2>1 DEF Before
<1>9. \A x \in Named(old), y \in Named(more) : Before(all, x, y)
  <2> SUFFICES ASSUME NEW i \in 1..Len(old), NEW j \in 1..Len(more)
               PROVE  Before(all, old[i], more[j])
    BY <1>1 DEF Named
  <2>1. i < Len(old) + j
    BY <1>1
  <2>. QED  BY <1>2, <1>3, <2>1 DEF Before
<1>. QED  BY <1>1, <1>5, <1>6, <1>7, <1>8, <1>9 DEF all

LEMMA OneMore ==
  ASSUME NEW S, NEW old \in Seq(S), NEW e \in S, Distinct(old), e \notin Named(old)
  PROVE  /\ Append(old, e) \in Seq(S)
         /\ Distinct(Append(old, e))
         /\ Named(Append(old, e)) = Named(old) \cup {e}
         /\ \A x, y : Before(old, x, y) => Before(Append(old, e), x, y)
         /\ \A x \in Named(old) : Before(Append(old, e), x, e)
<1>1. Append(old, e) = old \o <<e>>
  OBVIOUS
<1>2. <<e>> \in Seq(S) /\ Distinct(<<e>>) /\ Named(<<e>>) = {e}
  BY DEF Distinct, Named
<1>3. Named(old) \cap Named(<<e>>) = {}
  BY <1>2
<1> DEFINE more == <<e>>
<1> HIDE DEF more
<1>4. /\ old \o more \in Seq(S) /\ Distinct(old \o more)
      /\ Named(old \o more) = Named(old) \cup Named(more)
      /\ \A x, y : Before(old, x, y) => Before(old \o more, x, y)
      /\ \A x \in Named(old), y \in Named(more) : Before(old \o more, x, y)
  BY <1>2, <1>3, Extending, Zenon DEF more
<1>5. Append(old, e) = old \o more
  BY <1>1 DEF more
<1>6. Named(more) = {e}
  BY <1>2 DEF more
<1>. QED  BY <1>4, <1>5, <1>6

(* LedgerIsCausal, record by record. *)
AfterItsTemplate(entries, a) ==
  /\ Before(entries, <<"template", a.template>>, <<"application", a.id>>)
  /\ \A s \in a.emitted : Before(entries, <<"application", a.id>>, <<"shift", s>>)
AfterItsSteps(entries, r) ==
  /\ Before(entries, <<"program", r.program>>, <<"receipt", r.id>>)
  /\ \A s \in r.shifts : Before(entries, <<"shift", s>>, <<"receipt", r.id>>)

LEMMA CausalByRecord ==
  LedgerIsCausal <=> /\ Distinct(ledger)
                     /\ \A a \in applications : AfterItsTemplate(ledger, a)
                     /\ \A r \in receipts : AfterItsSteps(ledger, r)
BY DEF LedgerIsCausal, Precedes, Distinct, Before, AfterItsTemplate, AfterItsSteps

LEMMA CausalByRecordNext ==
  LedgerIsCausal' <=> /\ Distinct(ledger')
                      /\ \A a \in applications' : AfterItsTemplate(ledger', a)
                      /\ \A r \in receipts' : AfterItsSteps(ledger', r)
BY DEF LedgerIsCausal, Precedes, Distinct, Before, AfterItsTemplate, AfterItsSteps

(* A ledger that only grew keeps the order of what it has. *)
LEMMA OrderKept ==
  ASSUME LedgerIsCausal, \A x, y : Before(ledger, x, y) => Before(ledger', x, y)
  PROVE  /\ \A a \in applications : AfterItsTemplate(ledger', a)
         /\ \A r \in receipts : AfterItsSteps(ledger', r)
<1>1. /\ \A a \in applications : AfterItsTemplate(ledger, a)
      /\ \A r \in receipts : AfterItsSteps(ledger, r)
  BY CausalByRecord
<1>. QED  BY <1>1 DEF AfterItsTemplate, AfterItsSteps

(* The entries of an application and its shifts. *)
LEMMA AppendedEntries ==
  ASSUME NEW t \in Templates, NEW id \in ApplicationNames
  PROVE  /\ Appended(id, t) \in Seq(Entries)
         /\ Distinct(Appended(id, t))
         /\ Named(Appended(id, t)) =
              {<<"application", id>>} \cup {<<"shift", s>> : s \in ShiftIdsOf(id, t)}
         /\ \A s \in ShiftIdsOf(id, t) :
              Before(Appended(id, t), <<"application", id>>, <<"shift", s>>)
<1> DEFINE m == ShiftCount[t]
           entries == Appended(id, t)
<1>1. m \in Nat \ {0}
  BY ShiftAssumption
<1>2. /\ entries = [n \in 1..(m + 1) |->
                      IF n = 1 THEN <<"application", id>> ELSE <<"shift", <<id, n - 1>>>>]
  BY DEF Appended
<1>3. ShiftIdsOf(id, t) = {<<id, k>> : k \in 1..m}
  BY DEF ShiftIdsOf
<1> HIDE DEF m, entries
<1>4. DOMAIN entries = 1..(m + 1) /\ entries[1] = <<"application", id>>
  BY <1>1, <1>2
<1>5. \A k \in 1..m : k + 1 \in DOMAIN entries /\ entries[k + 1] = <<"shift", <<id, k>>>>
  BY <1>1, <1>2
<1>6. \A n \in DOMAIN entries : n = 1 \/ (n - 1 \in 1..m /\ entries[n] = <<"shift", <<id, n - 1>>>>)
  BY <1>1, <1>2
<1>7. entries \in Seq(Entries)
  <2>1. \A n \in 1..(m + 1) : entries[n] \in Entries
    <3> SUFFICES ASSUME NEW n \in 1..(m + 1) PROVE entries[n] \in Entries
      OBVIOUS
    <3>1. CASE n = 1
      BY <3>1, <1>4 DEF Entries
    <3>2. CASE n # 1
      <4>1. <<id, n - 1>> \in ApplicationNames \X Nat
        BY <3>2, <1>1
      <4>. QED  BY <4>1, <3>2, <1>2, <1>1 DEF Entries
    <3>. QED  BY <3>1, <3>2
  <2>2. entries \in [1..(m + 1) -> Entries]
    BY <2>1, <1>2
  <2>3. m + 1 \in Nat
    BY <1>1
  <2>. QED  BY <2>2, <2>3
<1>8. Distinct(entries)
  <2> SUFFICES ASSUME NEW i \in DOMAIN entries, NEW j \in DOMAIN entries, entries[i] = entries[j]
               PROVE  i = j
    BY DEF Distinct
  <2>1. CASE i = 1 /\ j = 1
    BY <2>1
  <2>2. CASE i # 1 /\ j # 1
    <3>1. <<"shift", <<id, i - 1>>>> = <<"shift", <<id, j - 1>>>>
      BY <1>6, <2>2
    <3>2. i - 1 = j - 1
      BY <3>1
    <3>. QED  BY <3>2, <1>4, <1>1
  <2>3. CASE i = 1 /\ j # 1
    BY <1>4, <1>6, <2>3
  <2>4. CASE i # 1 /\ j = 1
    BY <1>4, <1>6, <2>4
  <2>. QED  BY <2>1, <2>2, <2>3, <2>4
<1>9. Named(entries) = {<<"application", id>>} \cup {<<"shift", s>> : s \in ShiftIdsOf(id, t)}
  <2>1. Named(entries) \subseteq {<<"application", id>>} \cup {<<"shift", s>> : s \in ShiftIdsOf(id, t)}
    BY <1>3, <1>4, <1>6 DEF Named
  <2>2. <<"application", id>> \in Named(entries)
    BY <1>1, <1>4 DEF Named
  <2>3. \A s \in ShiftIdsOf(id, t) : <<"shift", s>> \in Named(entries)
    BY <1>3, <1>5 DEF Named
  <2>. QED  BY <2>1, <2>2, <2>3
<1>10. \A s \in ShiftIdsOf(id, t) : Before(entries, <<"application", id>>, <<"shift", s>>)
  <2> SUFFICES ASSUME NEW k \in 1..m
               PROVE  Before(entries, <<"application", id>>, <<"shift", <<id, k>>>>)
    BY <1>3
  <2>1. 1 < k + 1 /\ 1 \in DOMAIN entries
    BY <1>1, <1>4
  <2>. QED  BY <2>1, <1>4, <1>5 DEF Before
<1>. QED  BY <1>7, <1>8, <1>9, <1>10 DEF entries

LEMMA LedgerInit == Init => LedgerInv
<1> SUFFICES ASSUME Init PROVE LedgerInv
  OBVIOUS
<1>1. /\ ledger = <<>> /\ templates = {} /\ programs = {} /\ applications = {} /\ shifts = {}
      /\ receipts = {} /\ ~call.running
  BY DEF Init, Idle
<1>2. Stored = {} /\ Named(ledger) = {}
  BY <1>1 DEF Stored, Named, ApplicationIds, ReceiptIds
<1>. QED  BY <1>1, <1>2 DEF LedgerInv, LedgerIsCausal

(* A template, a program or a receipt is one more entry. *)
LEMMA OneEntry ==
  ASSUME StressInv, LedgerInv, NEW e \in Entries, e \notin Stored,
         ledger' = Append(ledger, e), Stored' = Stored \cup {e},
         UNCHANGED <<applications, shifts>>, programs \subseteq programs',
         \A r \in receipts' : r \in receipts \/ AfterItsSteps(ledger', r),
         call' = call \/ call' = Idle
  PROVE  LedgerInv'
<1>1. ledger \in Seq(Entries) /\ Distinct(ledger) /\ Named(ledger) = Stored
  BY CausalByRecord DEF LedgerInv
<1>2. /\ ledger' \in Seq(Entries) /\ Distinct(ledger') /\ Named(ledger') = Stored'
      /\ \A x, y : Before(ledger, x, y) => Before(ledger', x, y)
  BY <1>1, OneMore
<1>3. LedgerIsCausal'
  BY <1>2, OrderKept, CausalByRecordNext DEF LedgerInv
<1>4. \A a \in applications' : a.emitted = ShiftIdsOf(a.id, a.template)
  BY DEF LedgerInv
<1>5. call'.running => call'.program \in programs' /\ call'.emitted \subseteq shifts'
  BY DEF LedgerInv, Idle
<1>. QED  BY <1>2, <1>3, <1>4, <1>5 DEF LedgerInv

(* An application and its shifts are entered together. *)
LEMMA ApplicationEntries ==
  ASSUME StressInv, LedgerInv, NEW t \in templates, NEW id \in ApplicationNames, NEW d, NEW cause,
         id \notin ApplicationIds, StoreApplication(id, t, d, cause),
         UNCHANGED <<templates, programs, receipts>>,
         \/ call' = call
         \/ call'.program = call.program /\ call'.emitted = call.emitted \cup ShiftIdsOf(id, t)
            /\ call.running
  PROVE  LedgerInv'
<1> DEFINE new == [id |-> id, template |-> t, date |-> d, cause |-> cause,
                   emitted |-> ShiftIdsOf(id, t)]
           more == Appended(id, t)
<1>1. /\ applications' = applications \cup {new}
      /\ shifts' = shifts \cup ShiftIdsOf(id, t) /\ ledger' = ledger \o more
  BY DEF StoreApplication
<1>2. new.id = id /\ new.template = t /\ new.emitted = ShiftIdsOf(id, t)
  OBVIOUS
<1> HIDE DEF new, more
<1>3. t \in Templates
  BY DEF StressInv, TypeOK
<1>4. /\ more \in Seq(Entries) /\ Distinct(more)
      /\ Named(more) = {<<"application", id>>} \cup {<<"shift", s>> : s \in ShiftIdsOf(id, t)}
      /\ \A s \in ShiftIdsOf(id, t) : Before(more, <<"application", id>>, <<"shift", s>>)
  BY <1>3, AppendedEntries DEF more
<1>5. ledger \in Seq(Entries) /\ Distinct(ledger) /\ Named(ledger) = Stored
  BY CausalByRecord DEF LedgerInv
<1>6. Named(ledger) \cap Named(more) = {}
  <2>1. <<"application", id>> \notin Stored
    BY DEF Stored
  <2>2. ASSUME NEW s \in ShiftIdsOf(id, t) PROVE <<"shift", s>> \notin Stored
    <3>1. \A a \in applications : s \notin a.emitted
      <4> SUFFICES ASSUME NEW a \in applications, s \in a.emitted PROVE FALSE
        OBVIOUS
      <4>1. s \in ShiftIdsOf(a.id, a.template) /\ a.id # id
        BY DEF LedgerInv, ApplicationIds
      <4>. QED  BY <2>2, <4>1 DEF ShiftIdsOf
    <3>2. s \notin shifts
      BY <3>1 DEF StressInv, CitationsResolve
    <3>. QED  BY <3>2 DEF Stored
  <2>. QED  BY <1>4, <1>5, <2>1, <2>2
<1>7. /\ ledger' \in Seq(Entries) /\ Distinct(ledger')
      /\ Named(ledger') = Named(ledger) \cup Named(more)
      /\ \A x, y : Before(ledger, x, y) \/ Before(more, x, y) => Before(ledger', x, y)
      /\ \A x \in Named(ledger), y \in Named(more) : Before(ledger', x, y)
  BY <1>1, <1>4, <1>5, <1>6, Extending
<1>8. Named(ledger') = Stored'
  <2>1. ApplicationIds' = ApplicationIds \cup {id} /\ ReceiptIds' = ReceiptIds
    BY <1>1, <1>2 DEF ApplicationIds, ReceiptIds
  <2>. QED  BY <1>1, <1>4, <1>5, <1>7, <2>1 DEF Stored
<1>9. AfterItsTemplate(ledger', new)
  <2>1. <<"template", t>> \in Named(ledger)
    BY <1>5 DEF Stored
  <2>. QED  BY <1>2, <1>4, <1>7, <2>1 DEF AfterItsTemplate
<1>10. LedgerIsCausal'
  BY <1>1, <1>7, <1>9, OrderKept, CausalByRecordNext DEF LedgerInv
<1>11. \A a \in applications' : a.emitted = ShiftIdsOf(a.id, a.template)
  BY <1>1, <1>2 DEF LedgerInv
<1>12. call'.running => call'.program \in programs' /\ call'.emitted \subseteq shifts'
  BY <1>1 DEF LedgerInv
<1>. QED  BY <1>7, <1>8, <1>10, <1>11, <1>12 DEF LedgerInv

(* What changes no book leaves the ledger alone. *)
LEMMA NoEntry ==
  ASSUME LedgerInv, UNCHANGED <<templates, programs, applications, shifts, receipts, ledger>>,
         call'.running => call'.program \in programs /\ call'.emitted \subseteq shifts
  PROVE  LedgerInv'
<1>1. Stored' = Stored
  BY DEF Stored, ApplicationIds, ReceiptIds
<1>2. LedgerIsCausal'
  BY CausalByRecord, CausalByRecordNext DEF LedgerInv
<1>. QED  BY <1>1, <1>2 DEF LedgerInv

LEMMA LedgerStep == StressInv /\ LedgerInv /\ [Next]_vars => LedgerInv'
<1> SUFFICES ASSUME StressInv, LedgerInv, [Next]_vars PROVE LedgerInv'
  OBVIOUS
<1>0. ApplicationIds' = {a.id : a \in applications'} /\ ReceiptIds' = {r.id : r \in receipts'}
  BY DEF ApplicationIds, ReceiptIds
<1>1. ASSUME NEW t \in Templates, AddTemplate(t) PROVE LedgerInv'
  <2> DEFINE e == <<"template", t>>
  <2>1. /\ ledger' = Append(ledger, e) /\ templates' = templates \cup {t} /\ t \notin templates
        /\ UNCHANGED <<programs, applications, shifts, receipts, call>>
    BY <1>1 DEF AddTemplate
  <2>2. Stored' = Stored \cup {e} /\ e \notin Stored /\ e \in Entries
    BY <2>1 DEF Stored, Entries, ApplicationIds, ReceiptIds
  <2> HIDE DEF e
  <2>. QED  BY <2>1, <2>2, OneEntry
<1>2. ASSUME NEW p \in Programs, AddProgram(p) PROVE LedgerInv'
  <2> DEFINE e == <<"program", p>>
  <2>1. /\ ledger' = Append(ledger, e) /\ programs' = programs \cup {p} /\ p \notin programs
        /\ UNCHANGED <<templates, applications, shifts, receipts, call>>
    BY <1>2 DEF AddProgram
  <2>2. Stored' = Stored \cup {e} /\ e \notin Stored /\ e \in Entries
    BY <2>1 DEF Stored, Entries, ApplicationIds, ReceiptIds
  <2> HIDE DEF e
  <2>. QED  BY <2>1, <2>2, OneEntry
<1>3. ASSUME NEW t \in Templates, NEW d \in Dates, ApplyScenarioDriver(t, d) PROVE LedgerInv'
  <2>1. /\ t \in templates /\ <<t, d>> \notin ApplicationIds /\ <<t, d>> \in ApplicationNames
        /\ StoreApplication(<<t, d>>, t, d, NoReceipt)
        /\ UNCHANGED <<templates, programs, receipts, call>>
    BY <1>3 DEF ApplyScenarioDriver, Applies, ApplicationNames
  <2>. QED  BY <2>1, ApplicationEntries
<1>4. ASSUME NEW p \in Programs, NEW d \in Dates, NEW rid \in ExplicitIds \cup {<<p, d>>},
             ApplyStressProgram(p, d, rid)
      PROVE  LedgerInv'
  <2>1. /\ p \in programs
        /\ UNCHANGED <<templates, programs, applications, shifts, receipts, ledger>>
        /\ call'.program = p /\ call'.emitted = {}
    BY <1>4 DEF ApplyStressProgram
  <2>. QED  BY <2>1, NoEntry
<1>5. CASE StepResolves
  <2> DEFINE id == StepApplicationId
             t == StepTemplate
  <2>1. /\ call.running /\ call = RunningCall /\ call.program \in Programs
        /\ call.receipt \in NamedIds /\ call.next \in Nat
    BY <1>5 DEF StepResolves, Walking, StressInv, CallShape, TypeOK, Idle
  <2>2. /\ t \in templates /\ id \notin ApplicationIds /\ UNCHANGED <<templates, programs, receipts>>
        /\ StoreApplication(id, t, call.date, [receipt |-> call.receipt, step |-> StepId])
    BY <1>5 DEF StepResolves, Applies
  <2>3. id \in ApplicationNames
    <3>1. t \in Templates
      BY <2>2 DEF StressInv, TypeOK
    <3>. QED  BY <2>1, <3>1 DEF StepApplicationId, ApplicationNames
  <2>4. call'.program = call.program /\ call'.emitted = call.emitted \cup ShiftIdsOf(id, t)
    BY <1>5, <2>1 DEF StepResolves, RunningCall
  <2> HIDE DEF id, t
  <2>. QED  BY <2>1, <2>2, <2>3, <2>4, ApplicationEntries
<1>6. CASE StepUnresolved
  <2>1. call.running /\ call = RunningCall
    BY <1>6 DEF StepUnresolved, Walking, StressInv, CallShape, Idle
  <2>2. /\ UNCHANGED <<templates, programs, applications, shifts, receipts, ledger>>
        /\ call'.program = call.program /\ call'.emitted = call.emitted
    BY <1>6, <2>1 DEF StepUnresolved, RunningCall
  <2>. QED  BY <2>1, <2>2, NoEntry DEF LedgerInv
<1>7. CASE AddReceipt
  <2> DEFINE e == <<"receipt", call.receipt>>
  <2>1. /\ call.running /\ call.receipt \in NamedIds /\ call.receipt \notin ReceiptIds
        /\ receipts' = receipts \cup {Receipt} /\ ledger' = Append(ledger, e) /\ call' = Idle
        /\ UNCHANGED <<templates, programs, applications, shifts>>
    BY <1>7 DEF AddReceipt, Walked, StressInv, TypeOK, Idle
  <2>2. /\ Receipt.id = call.receipt /\ Receipt.program = call.program
        /\ Receipt.shifts = call.emitted
    BY DEF Receipt
  <2>3. ReceiptIds' = ReceiptIds \cup {call.receipt}
    BY <2>1, <2>2 DEF ReceiptIds
  <2>4. Stored' = Stored \cup {e} /\ e \notin Stored /\ e \in Entries
    BY <2>1, <2>3 DEF Stored, Entries, ApplicationIds
  <2> HIDE DEF e
  <2>5. ledger \in Seq(Entries) /\ Distinct(ledger) /\ Named(ledger) = Stored
    BY CausalByRecord DEF LedgerInv
  <2>6. \A x \in Stored : Before(ledger', x, e)
    BY <2>1, <2>4, <2>5, OneMore
  <2>7. <<"program", call.program>> \in Stored /\ \A s \in call.emitted : <<"shift", s>> \in Stored
    BY <2>1 DEF LedgerInv, Stored
  <2>8. AfterItsSteps(ledger', Receipt)
    BY <2>2, <2>6, <2>7 DEF AfterItsSteps, e
  <2>. QED  BY <2>1, <2>4, <2>8, OneEntry
<1>8. CASE DuplicateReceipt
  BY <1>8, NoEntry DEF DuplicateReceipt, Idle
<1>9. CASE UNCHANGED vars
  BY <1>9, NoEntry DEF vars, LedgerInv
<1>. QED  BY <1>1, <1>2, <1>3, <1>4, <1>5, <1>6, <1>7, <1>8, <1>9 DEF Next, Walk

(* Read from the start, the ledger names every record once, and after the     *)
(* records that it cites, also when steps of a call raise and its receipt is *)
(* refused.                                                                *)
THEOREM LedgerIsCausalTheorem == Spec => []LedgerIsCausal
<1>1. Init => LedgerInv
  BY LedgerInit
<1>2. StressInv /\ LedgerInv /\ [Next]_vars => LedgerInv'
  BY LedgerStep
<1>3. LedgerInv => LedgerIsCausal
  BY DEF LedgerInv
<1>. QED  BY <1>1, <1>2, <1>3, StressInvariant, PTL DEF Spec

(***************************************************************************)
(* A new receipt and its readout agree                                      *)
(***************************************************************************)

(* The steps of a program that some application names with a receipt's id.    *)
StepsNaming(rid, p) ==
  {i \in DOMAIN Steps[p] : \E a \in applications : a.cause = [receipt |-> rid, step |-> <<p, i>>]}

Naming(rid) == {a \in applications : a.cause.receipt = rid}

(* Only a call names its receipt's id, so until the receipt is stored the     *)
(* applications that name it are those of this call: one per step that       *)
(* resolved.                                                               *)
CallIsNamed ==
  /\ \A a \in applications :
       \/ a.cause.receipt = <<>>
       \/ a.cause.receipt \in ReceiptIds
       \/ call.running /\ a.cause.receipt = call.receipt
  /\ call.running /\ call.receipt \notin ReceiptIds =>
       /\ \A a \in Naming(call.receipt) : \E i \in 1..(call.next - 1) :
            a.cause = [receipt |-> call.receipt, step |-> <<call.program, i>>]
       /\ Cardinality(StepsNaming(call.receipt, call.program)) + call.unresolved = call.next - 1

LEMMA NoEmptyId == <<>> \notin NamedIds
BY IdAssumption DEF NamedIds

LEMMA StepsNamingFinite ==
  ASSUME NEW rid, NEW p \in Programs
  PROVE  /\ IsFiniteSet(StepsNaming(rid, p))
         /\ StepsNaming(rid, p) \subseteq 1..Len(Steps[p])
         /\ Cardinality(StepsNaming(rid, p)) \in Nat
<1>1. StepsNaming(rid, p) \subseteq 1..Len(Steps[p]) /\ Len(Steps[p]) \in Int
  BY StepsType DEF StepsNaming
<1>2. IsFiniteSet(1..Len(Steps[p]))
  BY <1>1, FS_Interval
<1>3. IsFiniteSet(StepsNaming(rid, p))
  BY <1>1, <1>2, FS_Subset
<1>. QED  BY <1>1, <1>3, FS_CardinalityType

(* Nothing is stored that names a receipt and the call stays what it is.      *)
LEMMA NamesUntouched ==
  ASSUME CallIsNamed, UNCHANGED <<applications, receipts, call>>
  PROVE  CallIsNamed'
BY DEF CallIsNamed, Naming, StepsNaming, ReceiptIds

LEMMA NamedStep == StressInv /\ CallIsNamed /\ [Next]_vars => CallIsNamed'
<1> SUFFICES ASSUME StressInv, CallIsNamed, [Next]_vars PROVE CallIsNamed'
  OBVIOUS
<1>1. ASSUME NEW t \in Templates, AddTemplate(t) PROVE CallIsNamed'
  BY <1>1, NamesUntouched DEF AddTemplate
<1>2. ASSUME NEW p \in Programs, AddProgram(p) PROVE CallIsNamed'
  BY <1>2, NamesUntouched DEF AddProgram
<1>3. ASSUME NEW t \in Templates, NEW d \in Dates, ApplyScenarioDriver(t, d) PROVE CallIsNamed'
  <2>1. /\ ~call.running /\ UNCHANGED <<receipts, call>>
        /\ \A a \in applications' : a \in applications \/ a.cause = NoReceipt
    BY <1>3 DEF ApplyScenarioDriver, MayStart, Idle, StoreApplication
  <2>. QED  BY <2>1 DEF CallIsNamed, NoReceipt, ReceiptIds
<1>4. ASSUME NEW p \in Programs, NEW d \in Dates, NEW rid \in ExplicitIds \cup {<<p, d>>},
             ApplyStressProgram(p, d, rid)
      PROVE  CallIsNamed'
  <2>1. /\ ~call.running /\ UNCHANGED <<applications, receipts>>
        /\ call'.running /\ call'.receipt = rid /\ call'.program = p /\ call'.next = 1
        /\ call'.unresolved = 0 /\ rid # <<>>
    BY <1>4, NoEmptyId DEF ApplyStressProgram, MayStart, Idle, NamedIds
  <2>2. ReceiptIds' = ReceiptIds
    BY <2>1 DEF ReceiptIds
  <2>3. ASSUME rid \notin ReceiptIds PROVE \A a \in applications : a.cause.receipt # rid
    BY <2>1, <2>3 DEF CallIsNamed
  <2>4. ASSUME rid \notin ReceiptIds
        PROVE  Naming(rid)' = {} /\ StepsNaming(rid, p)' = {}
    <3>1. Naming(rid)' = {}
      BY <2>1, <2>3, <2>4 DEF Naming
    <3>2. \A a \in applications' : \A i : a.cause # [receipt |-> rid, step |-> <<p, i>>]
      BY <2>1, <2>3, <2>4
    <3>. QED  BY <3>1, <3>2 DEF StepsNaming
  <2>5. ASSUME rid \notin ReceiptIds
        PROVE  Cardinality(StepsNaming(rid, p)') = 0
    BY <2>4, <2>5, FS_EmptySet
  <2>. QED  BY <2>1, <2>2, <2>3, <2>4, <2>5 DEF CallIsNamed, Naming, StepsNaming
<1>5. CASE StepResolves
  <2> DEFINE cause == [receipt |-> call.receipt, step |-> StepId]
             rid == call.receipt
             p == call.program
             n == call.next
  <2>1. /\ call.running /\ call = RunningCall /\ p \in Programs
        /\ n \in 1..Len(Steps[p]) /\ n \in Nat /\ call.unresolved \in Nat
    BY <1>5, StepsType DEF StepResolves, Walking, StressInv, CallShape, TypeOK, Idle
  <2>2. /\ UNCHANGED receipts
        /\ \E new : new.cause = cause /\ applications' = applications \cup {new}
    BY <1>5 DEF StepResolves, StoreApplication
  <2>3. /\ call'.running /\ call'.receipt = rid /\ call'.program = p
        /\ call'.next = n + 1 /\ call'.unresolved = call.unresolved
    BY <1>5, <2>1 DEF StepResolves, RunningCall
  <2>4. PICK new : new.cause = cause /\ applications' = applications \cup {new}
    BY <2>2
  <2>5. cause = [receipt |-> rid, step |-> <<p, n>>] /\ cause.receipt = rid
    BY DEF StepId
  <2>6. ReceiptIds' = ReceiptIds
    BY <2>2 DEF ReceiptIds
  <2> HIDE DEF cause, rid, p, n
  <2>7. \A a \in applications' : \/ a.cause.receipt = <<>>
                                 \/ a.cause.receipt \in ReceiptIds'
                                 \/ call'.running /\ a.cause.receipt = call'.receipt
    BY <2>1, <2>3, <2>4, <2>5, <2>6 DEF CallIsNamed, rid
  <2>8. ASSUME call.receipt \notin ReceiptIds
        PROVE  /\ \A a \in Naming(call.receipt)' : \E i \in 1..(call'.next - 1) :
                    a.cause = [receipt |-> call'.receipt, step |-> <<call'.program, i>>]
               /\ Cardinality(StepsNaming(call.receipt, call.program)') + call'.unresolved = call'.next - 1
    <3>1. /\ \A a \in applications : a.cause.receipt = rid => \E i \in 1..(n - 1) :
               a.cause = [receipt |-> rid, step |-> <<p, i>>]
          /\ Cardinality(StepsNaming(rid, p)) + call.unresolved = n - 1
      BY <2>1, <2>8 DEF CallIsNamed, Naming, rid, p, n
    <3>2. \A a \in applications' : a.cause.receipt = rid => \E i \in 1..n :
            a.cause = [receipt |-> rid, step |-> <<p, i>>]
      BY <2>1, <2>4, <2>5, <3>1
    <3>3. n \notin StepsNaming(rid, p)
      <4> SUFFICES ASSUME NEW a \in applications, a.cause = [receipt |-> rid, step |-> <<p, n>>]
                   PROVE  FALSE
        BY DEF StepsNaming
      <4>1. PICK i \in 1..(n - 1) : a.cause = [receipt |-> rid, step |-> <<p, i>>]
        BY <3>1
      <4>2. a.cause.step = <<p, i>> /\ a.cause.step = <<p, n>>
        BY <4>1
      <4>3. i = n
        BY <4>2
      <4>. QED  BY <4>3, <2>1
    <3>4. StepsNaming(rid, p)' = StepsNaming(rid, p) \cup {n}
      <4>1. n \in DOMAIN Steps[p]
        BY <2>1, StepsType
      <4>2. \A i : new.cause = [receipt |-> rid, step |-> <<p, i>>] <=> i = n
        <5> SUFFICES ASSUME NEW i, new.cause = [receipt |-> rid, step |-> <<p, i>>] PROVE i = n
          BY <2>4, <2>5
        <5>1. new.cause.step = <<p, i>> /\ new.cause.step = <<p, n>>
          BY <2>4, <2>5
        <5>. QED  BY <5>1
      <4>3. {i \in DOMAIN Steps[p] : \E a \in applications' : a.cause = [receipt |-> rid, step |-> <<p, i>>]}
              = StepsNaming(rid, p) \cup {n}
        BY <2>4, <4>1, <4>2 DEF StepsNaming
      <4>4. rid' = rid /\ p' = p
        BY <2>3 DEF rid, p
      <4>. QED  BY <4>3, <4>4 DEF StepsNaming
    <3>5. /\ IsFiniteSet(StepsNaming(rid, p)) /\ Cardinality(StepsNaming(rid, p)) \in Nat
      BY <2>1, StepsNamingFinite
    <3>6. Cardinality(StepsNaming(rid, p) \cup {n}) = Cardinality(StepsNaming(rid, p)) + 1
      BY <3>3, <3>5, FS_AddElement
    <3>7. Cardinality(StepsNaming(rid, p)') + call'.unresolved = call'.next - 1
      BY <2>1, <2>3, <3>1, <3>4, <3>5, <3>6
    <3>8. call'.next - 1 = n
      BY <2>1, <2>3
    <3>9. \A a \in Naming(call.receipt)' : \E i \in 1..(call'.next - 1) :
             a.cause = [receipt |-> call'.receipt, step |-> <<call'.program, i>>]
      BY <2>3, <3>2, <3>8 DEF Naming, rid
    <3>. QED  BY <3>7, <3>9 DEF rid, p
  <2>. QED  BY <2>3, <2>6, <2>7, <2>8 DEF CallIsNamed, rid
<1>6. CASE StepUnresolved
  <2>1. /\ call.running /\ call = RunningCall /\ call.program \in Programs
        /\ call.next \in Nat /\ call.unresolved \in Nat
    BY <1>6, StepsType DEF StepUnresolved, Walking, StressInv, CallShape, TypeOK, Idle
  <2>2. /\ UNCHANGED <<applications, receipts>> /\ call'.running
        /\ call'.receipt = call.receipt /\ call'.program = call.program
        /\ call'.next = call.next + 1 /\ call'.unresolved = call.unresolved + 1
    BY <1>6, <2>1 DEF StepUnresolved, RunningCall
  <2>3. /\ ReceiptIds' = ReceiptIds /\ Naming(call.receipt)' = Naming(call.receipt)
        /\ StepsNaming(call.receipt, call.program)' = StepsNaming(call.receipt, call.program)
    BY <2>2 DEF ReceiptIds, Naming, StepsNaming
  <2>4. Cardinality(StepsNaming(call.receipt, call.program)) \in Nat
    BY <2>1, StepsNamingFinite
  <2>5. ASSUME call.receipt \notin ReceiptIds
        PROVE  /\ \A a \in Naming(call.receipt)' : \E i \in 1..(call'.next - 1) :
                    a.cause = [receipt |-> call'.receipt, step |-> <<call'.program, i>>]
               /\ Cardinality(StepsNaming(call.receipt, call.program)') + call'.unresolved = call'.next - 1
    <3>1. /\ \A a \in Naming(call.receipt) : \E i \in 1..(call.next - 1) :
               a.cause = [receipt |-> call.receipt, step |-> <<call.program, i>>]
          /\ Cardinality(StepsNaming(call.receipt, call.program)) + call.unresolved = call.next - 1
      BY <2>1, <2>5 DEF CallIsNamed
    <3>2. 1..(call.next - 1) \subseteq 1..(call'.next - 1)
      BY <2>1, <2>2
    <3>. QED  BY <2>1, <2>2, <2>3, <2>4, <3>1, <3>2
  <2>. QED  BY <2>1, <2>2, <2>3, <2>5 DEF CallIsNamed
<1>7. CASE AddReceipt
  <2>1. /\ call.running /\ receipts' = receipts \cup {Receipt} /\ call' = Idle /\ UNCHANGED applications
    BY <1>7 DEF AddReceipt, Walked
  <2>2. Receipt.id = call.receipt
    BY DEF Receipt
  <2>3. ReceiptIds' = ReceiptIds \cup {call.receipt}
    BY <2>1, <2>2 DEF ReceiptIds
  <2>. QED  BY <2>1, <2>3 DEF CallIsNamed, Idle
<1>8. CASE DuplicateReceipt
  <2>1. call.receipt \in ReceiptIds /\ call' = Idle /\ UNCHANGED <<applications, receipts>>
    BY <1>8 DEF DuplicateReceipt
  <2>. QED  BY <2>1 DEF CallIsNamed, Idle, ReceiptIds
<1>9. CASE UNCHANGED vars
  BY <1>9, NamesUntouched DEF vars
<1>. QED  BY <1>1, <1>2, <1>3, <1>4, <1>5, <1>6, <1>7, <1>8, <1>9 DEF Next, Walk

(* The receipt counts the steps that no application names. *)
LEMMA ReadsBack ==
  ASSUME StressInv, CallIsNamed, AddReceipt, NEW r \in receipts' \ receipts
  PROVE  Cardinality(Readout(r).unresolved) = r.unresolved
<1> DEFINE p == call.program
           active == StepsNaming(call.receipt, p)
           silent == (1..Len(Steps[p])) \ active
<1>1. /\ call.running /\ p \in Programs /\ call.receipt \notin ReceiptIds
      /\ call.next = Len(Steps[p]) + 1 /\ call.unresolved \in Nat /\ Len(Steps[p]) \in Nat
  BY StepsType DEF AddReceipt, Walked, StressInv, TypeOK, Idle
<1>2. r = Receipt
  BY DEF AddReceipt
<1>3. r.id = call.receipt /\ r.program = p /\ r.unresolved = call.unresolved
  BY <1>2 DEF Receipt
<1>4. /\ \A a \in Naming(call.receipt) : \E i \in 1..(call.next - 1) :
           a.cause = [receipt |-> call.receipt, step |-> <<p, i>>]
      /\ Cardinality(active) + call.unresolved = call.next - 1
  BY <1>1 DEF CallIsNamed
<1>5. DOMAIN Steps[p] = 1..Len(Steps[p])
  BY <1>1, StepsType
<1>6. \A i \in DOMAIN Steps[p] :
        <<p, i>> \in {a.cause.step : a \in {b \in applications : b.cause.receipt = r.id}} <=> i \in active
  <2> TAKE i \in DOMAIN Steps[p]
  <2>1. ASSUME NEW a \in applications, a.cause.receipt = r.id, a.cause.step = <<p, i>>
        PROVE  i \in active
    <3>1. PICK k \in 1..(call.next - 1) : a.cause = [receipt |-> call.receipt, step |-> <<p, k>>]
      BY <1>3, <1>4, <2>1 DEF Naming
    <3>2. <<p, k>> = <<p, i>>
      BY <2>1, <3>1
    <3>3. k = i
      BY <3>2
    <3>. QED  BY <3>1, <3>3 DEF StepsNaming
  <2>2. ASSUME i \in active
        PROVE  \E a \in applications : a.cause.receipt = r.id /\ a.cause.step = <<p, i>>
    BY <1>3, <2>2 DEF StepsNaming
  <2>. QED  BY <2>1, <2>2
<1> HIDE DEF active
<1>7. Readout(r).unresolved = DOMAIN Steps[p] \ active
  <2>1. {i \in DOMAIN Steps[r.program] : <<r.program, i>> \in
           {a.cause.step : a \in {b \in applications : b.cause.receipt = r.id}}}
          = DOMAIN Steps[p] \cap active
    BY <1>3, <1>6
  <2>2. Readout(r).unresolved = DOMAIN Steps[r.program] \
          {i \in DOMAIN Steps[r.program] : <<r.program, i>> \in
             {a.cause.step : a \in {b \in applications : b.cause.receipt = r.id}}}
    BY DEF Readout
  <2>. QED  BY <1>3, <2>1, <2>2
<1>8. /\ IsFiniteSet(active) /\ active \subseteq 1..Len(Steps[p]) /\ Cardinality(active) \in Nat
  BY <1>1, StepsNamingFinite DEF active
<1>9. IsFiniteSet(1..Len(Steps[p])) /\ Cardinality(1..Len(Steps[p])) = Len(Steps[p])
  <2>1. Len(Steps[p]) \in Int /\ 1 \in Int
    BY <1>1
  <2>2. /\ IsFiniteSet(1..Len(Steps[p]))
        /\ Cardinality(1..Len(Steps[p])) = IF 1 > Len(Steps[p]) THEN 0 ELSE Len(Steps[p]) - 1 + 1
    BY <2>1, FS_Interval
  <2>. QED  BY <1>1, <2>2
<1> HIDE DEF silent
<1>10. IsFiniteSet(silent) /\ Cardinality(silent) \in Nat
  <2>1. silent \subseteq 1..Len(Steps[p])
    BY DEF silent
  <2>2. IsFiniteSet(silent)
    BY <1>9, <2>1, FS_Subset
  <2>. QED  BY <2>2, FS_CardinalityType
<1>11. active \cup silent = 1..Len(Steps[p]) /\ active \cap silent = {}
  BY <1>8 DEF silent
<1>12. Cardinality(active \cup silent) =
         Cardinality(active) + Cardinality(silent) - Cardinality(active \cap silent)
  BY <1>8, <1>10, FS_Union
<1>13. Cardinality(active \cap silent) = 0
  BY <1>11, FS_EmptySet
<1>14. Cardinality(silent) = call.unresolved
  <2> HIDE DEF p
  <2>1. call.next - 1 = Len(Steps[p])
    BY <1>1
  <2>2. Len(Steps[p]) = Cardinality(active) + Cardinality(silent) - 0
    BY <1>9, <1>11, <1>12, <1>13
  <2>. QED  BY <1>1, <1>4, <1>8, <1>10, <2>1, <2>2
<1>. QED  BY <1>3, <1>5, <1>7, <1>14 DEF silent

(* The readout of a receipt that was just stored finds as many unresolved     *)
(* steps as the receipt counted exceptions.                                *)
THEOREM NewReceiptReadsBackTheorem == Spec => NewReceiptReadsBack
<1>1. Init => CallIsNamed
  BY DEF Init, CallIsNamed, Idle
<1>2. StressInv /\ CallIsNamed /\ [Next]_vars => CallIsNamed'
  BY NamedStep
<1>3. StressInv /\ CallIsNamed /\ [Next]_vars =>
        [\A r \in receipts' \ receipts : Cardinality(Readout(r).unresolved) = r.unresolved]_vars
  <2>1. [Next]_vars => AddReceipt \/ receipts' = receipts
    BY DEF Next, Walk, vars, AddTemplate, AddProgram, ApplyScenarioDriver, ApplyStressProgram,
           StepResolves, StepUnresolved, DuplicateReceipt
  <2>. QED  BY <2>1, ReadsBack
<1>. QED  BY <1>1, <1>2, <1>3, StressInvariant, PTL DEF Spec, NewReceiptReadsBack
=============================================================================
