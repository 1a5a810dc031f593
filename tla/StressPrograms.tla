---------------------------- MODULE StressPrograms ----------------------------
(***************************************************************************)
(* Stress programs over scenario drivers: world/scenario_drivers.py,        *)
(* world/scenario_applications.py, world/stress_programs.py,               *)
(* world/stress_applications.py and the read-only projection of            *)
(* world/stress_readout.py.                                                *)
(*                                                                         *)
(* A program names driver templates; applying it runs apply_scenario_driver  *)
(* once per step, counts the steps that raise, and then adds one receipt.   *)
(* The program is single-threaded: while a call walks its steps nothing     *)
(* else runs, but calls may be repeated with the same id, for another       *)
(* program or date, and templates may be registered in between.            *)
(***************************************************************************)
EXTENDS Naturals, Sequences, FiniteSets

CONSTANTS
  Templates,     \* scenario_driver_template_ids
  ShiftCount,    \* [Templates -> Nat \ {0}]: shifts of the template's family
  Programs,      \* stress_program_template_ids
  Steps,         \* [Programs -> Seq(Templates)], in step_index order
  Dates,         \* as_of_date
  ExplicitIds,   \* application ids a caller may pass instead of the default
  MaxRecords     \* bound: no operation starts with so many ledger records

ASSUME ShiftAssumption == ShiftCount \in [Templates -> Nat \ {0}]
ASSUME StepAssumption ==
  Steps \in [Programs -> Seq(Templates)] /\ \A p \in Programs : Len(Steps[p]) \in 1..3
ASSUME BoundAssumption == MaxRecords \in Nat
(* An id is a non-empty string. *)
ASSUME IdAssumption == <<>> \notin ExplicitIds

VARIABLES
  templates,      \* registered driver templates
  programs,       \* registered programs
  applications,   \* scenario application records
  shifts,         \* context shift records: <<application id, number>>
  receipts,       \* stress program application records
  call,           \* the apply_stress_program() that is running
  ledger          \* ids of the appended records, with the book they are in

vars == <<templates, programs, applications, shifts, receipts, call, ledger>>

NoReceipt == [receipt |-> <<>>, step |-> <<>>]
Idle == [running |-> FALSE]

ApplicationIds == {a.id : a \in applications}
ReceiptIds == {r.id : r \in receipts}
ShiftIdsOf(id, t) == {<<id, k>> : k \in 1..ShiftCount[t]}

(* An application and its shifts, in the order the book appends them. *)
Appended(id, t) ==
  [n \in 1..(ShiftCount[t] + 1) |->
     IF n = 1 THEN <<"application", id>> ELSE <<"shift", <<id, n - 1>>>>]

(***************************************************************************)
(* apply_scenario_driver(): an unknown template raises, and so does a        *)
(* duplicate id, in both cases before anything is stored.                  *)
(***************************************************************************)
Applies(id, t) == t \in templates /\ id \notin ApplicationIds

(* Plausible bug: the shifts are stored one short. *)
StoreApplicationOneShort(id, t, d, cause) ==
  /\ applications' = applications \cup
       {[id |-> id, template |-> t, date |-> d, cause |-> cause, emitted |-> ShiftIdsOf(id, t)]}
  /\ shifts' = shifts \cup (ShiftIdsOf(id, t) \ {<<id, ShiftCount[t]>>})
  /\ ledger' = ledger \o SubSeq(Appended(id, t), 1, ShiftCount[t])

(* Plausible bug: the shifts are logged before the application they cite. *)
StoreApplicationLast(id, t, d, cause) ==
  /\ applications' = applications \cup
       {[id |-> id, template |-> t, date |-> d, cause |-> cause, emitted |-> ShiftIdsOf(id, t)]}
  /\ shifts' = shifts \cup ShiftIdsOf(id, t)
  /\ ledger' = ledger \o SubSeq(Appended(id, t), 2, ShiftCount[t] + 1)
                      \o SubSeq(Appended(id, t), 1, 1)

StoreApplication(id, t, d, cause) ==
  /\ applications' = applications \cup
       {[id |-> id, template |-> t, date |-> d, cause |-> cause, emitted |-> ShiftIdsOf(id, t)]}
  /\ shifts' = shifts \cup ShiftIdsOf(id, t)
  /\ ledger' = ledger \o Appended(id, t)

Init ==
  /\ templates = {}
  /\ programs = {}
  /\ applications = {}
  /\ shifts = {}
  /\ receipts = {}
  /\ call = Idle
  /\ ledger = <<>>

MayStart == call = Idle /\ Len(ledger) < MaxRecords

AddTemplate(t) ==
  /\ MayStart
  /\ t \notin templates
  /\ templates' = templates \cup {t}
  /\ ledger' = Append(ledger, <<"template", t>>)
  /\ UNCHANGED <<programs, applications, shifts, receipts, call>>

(* The steps' templates are not looked up. *)
AddProgram(p) ==
  /\ MayStart
  /\ p \notin programs
  /\ programs' = programs \cup {p}
  /\ ledger' = Append(ledger, <<"program", p>>)
  /\ UNCHANGED <<templates, applications, shifts, receipts, call>>

(* A driver applied by itself, under its default id. *)
ApplyScenarioDriver(t, d) ==
  /\ MayStart
  /\ Applies(<<t, d>>, t)
  /\ StoreApplication(<<t, d>>, t, d, NoReceipt)
  /\ UNCHANGED <<templates, programs, receipts, call>>

(***************************************************************************)
(* apply_stress_program()                                                  *)
(***************************************************************************)
ApplyStressProgram(p, d, rid) ==
  /\ MayStart
  /\ p \in programs
  /\ call' = [running |-> TRUE, program |-> p, date |-> d, receipt |-> rid, next |-> 1,
              applied |-> {}, emitted |-> {}, unresolved |-> 0]
  /\ UNCHANGED <<templates, programs, applications, shifts, receipts, ledger>>

StepTemplate == Steps[call.program][call.next]

(* Plausible bug: steps of one template share a step id. *)
StepIdByTemplate ==
  <<call.program, CHOOSE i \in 1..call.next :
      /\ Steps[call.program][i] = StepTemplate
      /\ \A j \in 1..(i - 1) : Steps[call.program][j] # StepTemplate>>

StepId == <<call.program, call.next>>
StepApplicationId == <<call.receipt, call.next, StepTemplate>>

Walking == call.running /\ call.next <= Len(Steps[call.program])

StepResolves ==
  /\ Walking
  /\ Applies(StepApplicationId, StepTemplate)
  /\ StoreApplication(StepApplicationId, StepTemplate, call.date,
                      [receipt |-> call.receipt, step |-> StepId])
  /\ call' = [call EXCEPT !.next = @ + 1,
                          !.applied = @ \cup {StepApplicationId},
                          !.emitted = @ \cup ShiftIdsOf(StepApplicationId, StepTemplate)]
  /\ UNCHANGED <<templates, programs, receipts>>

(* "except Exception": the step is counted and the walk goes on. *)
StepUnresolved ==
  /\ Walking
  /\ ~Applies(StepApplicationId, StepTemplate)
  /\ call' = [call EXCEPT !.next = @ + 1, !.unresolved = @ + 1]
  /\ UNCHANGED <<templates, programs, applications, shifts, receipts, ledger>>

Outcome ==
  IF call.unresolved = Len(Steps[call.program]) THEN "rejected"
  ELSE IF call.unresolved > 0 THEN "degraded_unresolved_refs"
  ELSE IF call.emitted # {} THEN "applied_as_context_shift" ELSE "prepared"

Receipt ==
  [id |-> call.receipt, program |-> call.program, date |-> call.date,
   applications |-> call.applied, shifts |-> call.emitted,
   unresolved |-> call.unresolved, outcome |-> Outcome]

Walked == call.running /\ call.next > Len(Steps[call.program])

AddReceipt ==
  /\ Walked
  /\ call.receipt \notin ReceiptIds
  /\ receipts' = receipts \cup {Receipt}
  /\ ledger' = Append(ledger, <<"receipt", call.receipt>>)
  /\ call' = Idle
  /\ UNCHANGED <<templates, programs, applications, shifts>>

(* A duplicate receipt raises after the steps have run; their records stay. *)
DuplicateReceipt ==
  /\ Walked
  /\ call.receipt \in ReceiptIds
  /\ call' = Idle
  /\ UNCHANGED <<templates, programs, applications, shifts, receipts, ledger>>

Walk == StepResolves \/ StepUnresolved \/ AddReceipt \/ DuplicateReceipt

Next ==
  \/ \E t \in Templates : AddTemplate(t)
  \/ \E p \in Programs : AddProgram(p)
  \/ \E t \in Templates, d \in Dates : ApplyScenarioDriver(t, d)
  \/ \E p \in Programs, d \in Dates : \E rid \in ExplicitIds \cup {<<p, d>>} :
        ApplyStressProgram(p, d, rid)
  \/ Walk

Spec == Init /\ [][Next]_vars

(***************************************************************************)
(* build_stress_field_readout(): a step is active when some scenario         *)
(* application names this receipt and the step in its metadata.            *)
(***************************************************************************)
Readout(r) ==
  LET named == {a.cause.step : a \in {b \in applications : b.cause.receipt = r.id}}
      active == {i \in DOMAIN Steps[r.program] : <<r.program, i>> \in named}
      silent == DOMAIN Steps[r.program] \ active
  IN [active |-> active,
      unresolved |-> silent,
      missing |-> {i \in silent : Steps[r.program][i] \notin templates},
      stale |-> r.shifts \ shifts]

(***************************************************************************)
(* Properties                                                              *)
(***************************************************************************)
Numbers == {0, 1, 2, 3}
NamedIds == (Programs \X Dates) \cup ExplicitIds

(* Every record names known templates, programs and dates, and a running     *)
(* call is at one of its steps or past the last.                           *)
TypeOK ==
  /\ templates \subseteq Templates
  /\ programs \subseteq Programs
  /\ \A a \in applications : a.template \in Templates /\ a.date \in Dates
  /\ \A r \in receipts : /\ r.id \in NamedIds /\ r.program \in Programs /\ r.date \in Dates
                          /\ r.unresolved \in Numbers
  /\ \/ call = Idle
     \/ /\ call.program \in Programs /\ call.date \in Dates /\ call.receipt \in NamedIds
        /\ call.next \in 1..(Len(Steps[call.program]) + 1)
        /\ call.unresolved \in 0..(call.next - 1)

(* What a record cites exists, and nothing exists uncited: an application's  *)
(* template and shifts, a shift's application, a receipt's applications and *)
(* exactly their shifts - through steps that raise, repeated calls and      *)
(* receipts refused as duplicates.                                         *)
CitationsResolve ==
  /\ \A a \in applications : a.template \in templates /\ a.emitted \subseteq shifts
  /\ \A s \in shifts : \E a \in applications : s \in a.emitted
  /\ \A r \in receipts :
       /\ r.applications \subseteq ApplicationIds
       /\ r.shifts = UNION {a.emitted : a \in {b \in applications : b.id \in r.applications}}

(* A receipt accounts for each of its program's steps: cited or counted as   *)
(* unresolved.  It is "rejected" exactly when it cites nothing, and never   *)
(* "prepared": every family shifts something.                              *)
ReceiptAccountsForSteps ==
  \A r \in receipts :
    /\ Cardinality(r.applications) + r.unresolved = Len(Steps[r.program])
    /\ r.outcome = "rejected" <=> r.applications = {}
    /\ r.outcome = "applied_as_context_shift" <=> r.unresolved = 0

(* Read from the start, the ledger never mentions a record before those it   *)
(* cites, and mentions each once.                                          *)
Precedes(x, y) == \E i, j \in DOMAIN ledger : i < j /\ ledger[i] = x /\ ledger[j] = y

LedgerIsCausal ==
  /\ \A i, j \in DOMAIN ledger : ledger[i] = ledger[j] => i = j
  /\ \A a \in applications :
       /\ Precedes(<<"template", a.template>>, <<"application", a.id>>)
       /\ \A s \in a.emitted : Precedes(<<"application", a.id>>, <<"shift", s>>)
  /\ \A r \in receipts :
       /\ Precedes(<<"program", r.program>>, <<"receipt", r.id>>)
       /\ \A s \in r.shifts : Precedes(<<"shift", s>>, <<"receipt", r.id>>)

(* A receipt that has just been stored and its readout agree on the steps    *)
(* that did not resolve, although one counts exceptions and the other looks *)
(* for records that name the receipt.                                      *)
NewReceiptReadsBack ==
  [][\A r \in receipts' \ receipts :
       Cardinality(Readout(r).unresolved) = r.unresolved]_vars

(* No record is replaced or removed, by a repeated call least of all.        *)
RecordsAreFinal ==
  [][/\ applications \subseteq applications'
     /\ shifts \subseteq shifts'
     /\ receipts \subseteq receipts']_vars

(* stress_readout.py: "Partial application MUST be visible. When a ... call  *)
(* had any unresolved step ... unresolved_step_count is > 0".              *)
PartialApplicationVisible ==
  call = Idle => \A r \in receipts : r.unresolved > 0 => Readout(r).unresolved # {}
=============================================================================
