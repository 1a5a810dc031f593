# A verification of the JFWE financial-world engine

JFWE (`japan-financial-world/`) is an audit-first simulation engine in Python: a kernel moves a world of *spaces* through
dates, *books* hold immutable records that cite each other, an append-only *ledger* records every step, and an on-disk
*event log* keeps the result. This directory holds TLA+ models of the parts whose correctness depends on order, failure
and concurrency, the TLC runs that check them on small instances, and TLAPS proofs of the theorems that matter most, for
every instance.

Paths below are relative to `japan-financial-world/`.

## 1. Inventory

### 1.1 Components

| Component | State it keeps | Operations | What makes it correct | Here |
|---|---|---|---|---|
| Kernel (`world/kernel.py`, `phases.py`) | `_run_modes`, ownership of clock, scheduler, bus, ledger | `register_space`, `register_task`, `tick`, `run_day_with_phases`, `iter_intraday_phases` | a date is run on one path; every due task runs, once per entry, in key order | `WorldKernel` |
| Scheduler, clock | `_tasks`; `current_date` | `register`, `due_tasks(_in_phase)`; `advance` | as above | `WorldKernel` |
| Event bus | `_events`, `_publication_dates`, `_delivered_pairs` | `publish`, `collect_for_space` | addressed, dated, at most once, eventually | `EventDelivery`, `WorldKernel` |
| Space action (`spaces/base.py`) | none | collect, `observe`, `step`, `emit`, publish | an event taken from the bus reaches the space | `WorldKernel` |
| Ledger | `records` | `append`, queries | append-only; a record follows what it cites | in each module, as a sequence |
| Attention feedback (`attention_feedback.py`) | states, feedbacks, per actor | `build_attention_feedback`, `get_latest_for_actor`, `apply_attention_budget` | memory feeds forward only; decay counts ages; saturation and budgets drop the right things | `AttentionFeedback` |
| Stress programs, applications, readout; scenario drivers and applications | five books | `add_template`, `add_program`, `apply_scenario_driver`, `apply_stress_program`, `build_stress_field_readout` | partial application is visible; citations resolve; counts agree | `StressPrograms` |
| Event-log store (`event_log_writer.py`, `_schema.py`, `_merkle.py`) | files | writer construction, `append`, `seal`, reads, root digest | files are never rewritten, numbered without gaps, one manifest per root; what is acknowledged is whole | `EventLogStore` |
| Trace-edge store, citation graph, audit queries | files; edges | the same calls as the event log; projection; ancestor walk, listings | as the event log; digests and answers do not show the order of arrival; the walk finds the ancestors within its depth | `TraceGraph` |
| Monthly living world (`reference_living_world.py`) | none of its own: writes some thirty books | `run_living_reference_world` | a step cites only what earlier steps stored, for its own actor; the feedback loop closes over months | `LivingWorld`, `AttentionFeedback` |
| Market chain, financing chain (environment, firm state, intents, interest, pressure, needs, options, reviews, paths) | one book each | `add_*`, one deterministic builder each | a record can be computed again from what it cites; labels are coherent along the chain | `MarketChain`, and their citations in `LivingWorld` |
| Routines, menus, selections, evidence, reference mechanisms | books | `execute_request`, `build_menu`, `resolve_actor_context`, pressure, valuation and credit mechanisms | evidence was there, and visible, before anything rests on it; conclusions follow from what they cite | `ReferenceChain` |
| Ownership, contracts, prices, balance sheets, constraints, valuation gaps | books; derived records on the ledger | `add_position`, `transfer`, `update_status`, `set_price`, `build_view`, `evaluate_*`, `compare_*` | conservation; the ledger can replay the books; a derived record tells the books of its moment | `WorldBooks` |
| State (`state.py`) | current entries, histories, snapshots | `set_state`, `create_snapshot`, `restore_snapshot` | a history is unbroken and ends in the current entry | `StateStore` |
| Other books (settlement, interbank, securities, universe, mandates, annotations, spaces ...) | one dictionary each | `add_*`: refuse a duplicate id, store, index, append one ledger record | ledger and book agree; the ledger's date is a simulated one | `RecordTypes`, `RecordBooks`: 79 books, one form |
| Readouts, exports, reports, displays | none | formatting | out of scope: pure functions of records into documents | no |

`PROJECT.json` lists all of them with their files, and says of each what is modelled or why it is not.

### 1.2 How they interact

Everything but the event log lives in one process and one thread: components call each other directly and share the
kernel's books. Concurrency is therefore of three kinds.

* **Callbacks that raise.** `tick()` runs callables that spaces and hosts supply and catches nothing. A raise leaves what
  was done so far in place, does not advance the clock, and the host may call again. The same is true of every builder
  that writes several records (feedback, scenario and stress applications).
* **Calls in an order nobody planned.** The host may set the clock back, mix the tick and the phase path, register tasks
  while phases go by, repeat a call with the same id and other inputs, or call for an earlier date after a later one.
* **Processes that share a directory.** The event log has no lock: `exists()`, `mkdir()`, exclusive creation and
  directory listings of several processes interleave, and a process can die between any two of them.

The hazards that follow from this are in `PROJECT.json` under `hazards`, each at its line, with the properties that cover
it or the reason why none does yet.

## 2. Modules

| Module | Models | Lines of the source it stands for |
|---|---|---|
| `EventDelivery` | the promise of the event bus, without tasks, ledger or failures | `docs/world_model.md` 22.3 as implemented |
| `WorldKernel` | kernel, scheduler, clock, bus, space action, ledger | `kernel.py`, `scheduler.py`, `event_bus.py`, `events.py`, `spaces/base.py` |
| `MCWorldKernel` | two small worlds | |
| `WorldKernelProofs` | theorems about `WorldKernel` | |
| `Lists` | lists made from lists: entries at places, repeats dropped, lists joined, sorted by a key | `sorted()`, comprehensions and de-duplication loops of the code |
| `RankLemmas` | lemmas the proofs share: ranks in a finite total order, logs and the order of their entries, what the operators of `Lists` return, functions built step by step | |
| `EventLogStore`, `MCEventLogStore`, `EventLogStoreProofs` | the event-log writer, one action per file-system call; the digest reader | `event_log_writer.py`, `event_log_merkle.py`, `event_log_schema.py` |
| `AttentionFeedback`, `MCAttentionFeedback`, `AttentionFeedbackProofs` | feedback builder and its two books, memory selections, budgets | `attention_feedback.py`, `reference_living_world.py` 1725-1841 |
| `RecordTypes`, `RecordBooks` | every record class by what its constructor refuses; every adder by its class, its index and where its ledger date comes from; the machine of one book | the books of `world/*.py` and `spaces/*` |
| `WorldBooks` | ownership, contracts, prices, and the views, evaluations and gaps derived from them | `ownership.py`, `contracts.py`, `prices.py`, `balance_sheet.py`, `constraints.py`, `valuations.py`, two spaces |
| `StateStore` | the layered state store and the plain one | `state.py` |
| `TraceGraph` | trace edges, their partitions, projection, audit queries and digests | `trace_*.py`, `citation_graph_projection.py`, `audit_trace_queries.py` |
| `MarketChain` | one period's market and financing chain, over several calls per date | `reference_living_world.py` and the builders it calls |
| `ReferenceChain` | reports, attention, reviews, evidence, and the three reference mechanisms | `reference_*.py`, `routine_engine.py`, `observation_menu_builder.py`, `evidence.py` |
| `StoreProofs` | theorems about `StateStore`, `RecordBooks`, `WorldBooks` and `TraceGraph` | |
| `ChainProofs` | theorems about `MarketChain` and `ReferenceChain` | |
| `MCStores` | instances of these six and of `StressPrograms`, one per behaviour | |
| `LivingWorld`, `MCLivingWorld`, `LivingWorldProofs` | the periods of the monthly world: what each step stores and cites | `reference_living_world.py`, the builders it calls, `evidence.py` |
| `StressPrograms`, `MCStressPrograms`, `StressProgramsProofs` | templates, programs, applications, receipts, readout | `scenario_*.py`, `stress_*.py` |

### State and actions

**`WorldKernel`.** `today` is the clock; `runMode` the run-mode table; `registered` the scheduler's list; `events`,
`pubDate`, `delivered` the bus; `ledger` the audit trail with the fields the properties read. `pc`, `path`, `phase`,
`due`, `current`, `incoming`, `outgoing` are the locals of the running `tick()` or `run_day_with_phases()`. One action per
point at which a foreign callable can raise: `EnterTick`/`EnterPhases` (run-mode guard and first due list), `Dispatch`
(next task in sort order), `CollectNext` (the bus marks and returns), `Observe`, `StepAndEmit`, `PublishNext`,
`RecordExecuted`, `NextPhase`, `EndDay`; `BodyRaises` and `PublishDuplicate` abandon the day. The host acts between days
and from inside callables: `RegisterSpace`, `RegisterTask`, `RunnerPublish`, `RewindClock`. `observed`, `done`,
`atStart` are history variables for the properties.

**`EventLogStore`.** `sidecar`, `dirs`, `parts`, `sealed` are the disk; a part file says how many whole lines have reached
it and whether a torn line follows. `pc`, `cell`, `manifest`, `batch`, `target` are the locals of each writing process.
Construction, `append()` (`BeginAppend`, `MakeDir`, `CheckManifest`, `CreateSidecar`, `WriteSidecar`, `ListParts`,
`CreatePart`, `WritePart`, `ReturnResult`) and `seal()` are broken at every file-system call; `Crash` replaces a process
by a new one, perhaps with another partition or manifest. A root digest is computed by a separate reader, part file by
part file, between the writers' calls. `acked` and `atSeal` are history. Hashes are taken to be injective, so a digest is
the sequence it is computed from.

**`AttentionFeedback`.** `states` is a sequence, because `get_latest_for_actor` returns the last one inserted, whatever its
date; `feedbacks`, `selections`, `ledger` the other books. `BuildFeedback` is one call, with the idempotent early returns,
the classification of the evidence (`Rules`: fifteen signals, one per rule), decay, saturation at eight labels, and the failure between
storing the state and storing the feedback. `BuildMemorySelection` is the period's memory step with the budgeted walk of
`apply_attention_budget`.

**`LivingWorld`.** `records` holds every book, keyed by kind, actors and date, each record with what it cites, its place in
the order of insertion and the call that stored it. `call`, `period`, `todo`, `named` and `prev` are the locals of
`run_living_reference_world()`: the arguments, the period, the writes it still has to make in the code's order, the ids it
has gathered, the ids carried over from the period before. One action per step says what the step cites: ids gathered, ids
formatted again from actor and date (`Id`), ids found by looking for an actor's id inside them (`Mentioning`), the record
inserted last (`Latest`), or the refs of the actor's selections (`Selected`). `Add` stores the record or passes over a
duplicate; `Raise` abandons the call where the code does (`Raising`, and values of the caller's that a record refuses). The
labels an attention state carries decide what is remembered; they are `AttentionFeedback`'s subject and a choice here
(`FocusSets`).

**`StressPrograms`.** Books are sets of records; `call` holds the locals of a running `apply_stress_program()`, one action
per step (`StepResolves`, `StepUnresolved`), so that steps that raise leave the others' records, and `AddReceipt` or
`DuplicateReceipt` at the end. `Readout` is `build_stress_field_readout()` as a function of the books.

**`RecordBooks`.** `Books` maps the ledger type of each of the 79 adders to what tells it apart: the flaws its record class
refuses (`RecordTypes`), whether it keeps an index, whether the ledger's date is the clock's or the record's, and whether
an argument comes before it. `event` is the book a behaviour runs; `book`, `order`, `index` are its dictionary with the order of insertion,
`bookLog` its ledger records. `Add`, `Duplicate`, `Refuse` and `AddWithBadDate` (the record is stored, then the ledger
raises) are the ways a call ends; `UpdateStrength` and `MarkObserved` are the two operations that change or log a record
later. `Logged` is what the ledger is told of a record: a signal's visibility label is on it, the viewers that a restricted
label lets through (`metadata["allowed_viewers"]`) are not. `DefaultDate` is what the `_now()` helpers of the eleven books
fall back on that take a date and have no other; stress receipts take a date too, and fall back on their own.

**`WorldBooks`.** `positions`, `statuses`, `prices` are the books, `facts` the ledger. Each operation is one action, raising
calls are no steps, since every check comes first. Quantities are floats: below `Exact`
(2^53 in the program) every integer is one, from there on the unit doubles with the number; sums round to the nearest, ties to even.
`View`, `Classify` and `Gap` are `build_view()`, the constraint evaluator and the valuation comparator as functions of the
books; what they return is on the ledger only. The ledger is told a price's value and not its currency, which stays in the
price's metadata: `Books3` are the books as far as the ledger can tell them, and `PriceCurrency` is what the comparator reads
beside them.

**`StateStore`.** `current`, `history` and `snapshots` as in the class, keyed by layer and object; `plain` is the kernel's
`State`, whose snapshots a `StateStore` restores as well.

**`TraceGraph`.** `traceParts` is the part files in order of their names, `traceSealed` the sealed partitions; append and
seal are the actions. Everything read back - partition digests, projection, audit listings, `Lineage` - is an operator on
the sequence of edges. One process appends: the races of the store are those of `EventLogStore`.

**`MarketChain`.** One action per phase of a period, in the code's order; `marketCall` says which phase runs. `Once` is the
builders' early return for a date that has a record already. `Raise` ends a call between two phases; `AddOutsideIntent` is
another caller that takes an id a later period will look for. The classifiers are operators, their thresholds exact, in
hundredths.

**`ReferenceChain`.** All books are one sequence of records in ledger order (`stored`): they share nothing else, and a book
is the subsequence of its kind. A call is an operator from the books to the books and whether it raised, composed of `Put`
(an adder that raises on a known id), `Ensure` (look first) and `Require` (raise if unknown): a call that raises halfway
leaves what it stored. `Report`, `Attend`, `ReviewBy`, `Chain`, `Assess`, `Value`, `ValueAttentively`, `Credit`,
`CreditAttentively` are the public functions. Values are exact fractions with common denominators.

**`MCStores`.** A kernel holds these stores beside each other, and no step of one touches another. A behaviour exercises
one of them, so one run covers them all without multiplying their states.

## 3. Runs

The bounds are constants of the modules (`LastDay`, `MaxFailures`, `MaxRewinds`, `MaxAppends`, `MaxCrashes`,
`MaxRecords`, `MaxBookLog`, `MaxFacts`, `MaxVersion`, `MaxSnapshots`, `MaxParts`, `MaxCalls`, `MaxChainCalls`); each occurs
only in guards of actions the environment takes.

| Run | Asks | Bounds and why they are enough |
|---|---|---|
| `world_delivery` | Does the kernel keep the bus promise, withhold nothing and deliver? (`DeliveriesRespectDates`, `DeliveredAtMostOnce`, `NothingHeldBack`, `ImplementsEventDelivery`, `EventuallyDelivered`) | two spaces that exchange a broadcast and a delayed unicast, a date that ends a month; one raise and one rewind, in every order. Delivery needs a publisher, a receiver, a date before and a date after. |
| `world_phases` | Is a day complete, in order, on one path, and can it always be run to its end? (`OnePathPerDate`, `DispatchedInOrder`, `DayIsComplete`, `NoDateLockedOut`) | three host tasks: before the phases, in one and in the last, one of them monthly, registered at any time; a space whose task ids collide; one raise and one rewind, on either path, so that a date can be entered three times. |
| `world_same_tick` | *violation*: "Same-tick delivery is impossible" (`SameTickDeliveryImpossible`) | a runner's event dated before the clock |
| `event_log_writers` | Do racing, crashing writers keep the files right, and does appending go on? (`IndexesContiguous`, `AckedIsWhole`, `OneManifestPerRoot`, `LateAppendsWereInFlight`, `NeverRewritten`, `KeepsAppending`) | two writers on one partition, two manifests, one crash, two acknowledged appends: a race needs two, a lost race needs a winner. |
| `event_log_digest` | What does a root digest computed meanwhile cover, and is a leaf independent of how records were split into appends? (`DigestCoversAcked`, `DigestIgnoresInsertionOrder`) | two partitions and two records with different keys, three batches. Writers and partitions are symmetric: no definition tells them apart. |
| `event_log_seal_race` | *violation*: a sealed partition "refuses further appends" (`SealedRefusesAppends`) | an append past `is_sealed()` when the marker is created |
| `attention` | Do the books, the ledger and each actor's chain of states agree, for all dates, ids and half-failed calls; are decay, saturation and budgets right? (`LedgerMatchesBooks`, `ChainPerActor`, `StaleCountIsAge`, `ObservedBeforeInherited`, `SelectionsSpendByPriority`) | two symmetric actors, two dates, one id that calls of either may give, four records; evidence that shows no label, two, three, and more than the cap of eight; horizon 2, which a weight reaches zero before; refs shared between labels. |
| `living_periods` | Does a period cite only what is there, its own actors' and nothing of later dates, whatever calls came before and wherever they failed? (`PeriodIsOneCalls`, `CitationsResolve`, `FeedbackCitesPreviousPeriod`, `NoLookahead`) | two calls out of thirteen, two actors of each kind. The first may leave a whole run, a run of other actors on the same date, or a period cut short; the second has its dates, actors or both in common, or neither. Three profiles, with the scenario in the second period; three periods, so that what was two periods ago can be told from what was one ago; dates that repeat and decrease. |
| `stores` | Stress: do receipts, records, ledger and readout agree through unresolved steps and refused receipts? (`CitationsResolve`, `LedgerIsCausal`, `NewReceiptReadsBack`) | two templates with one and two shifts, programs of two and three steps (one repeats a template), registration at any time, a shared id; eight records: a full application and part of others. |
| | Books: does the ledger tell what each book holds? (`LedgerTellsTheBook`) | each of the 79 adders; two ids, subjects, viewers, levels and dates, open and restricted labels, three ledger records: an insertion, another, and a change, or a change of a change. |
| | World: do positions survive transfers, can the books be replayed as far as the ledger tells them, is what was derived still what the books said? (`TransfersConserve`, `LedgerReplaysBooks`, `DerivedFromLedger`) | three owners, two assets, quantities that round (`Exact` is 4), a loan and a lopsided contract, one rule per comparison, a claim without an estimate, prices of zero and in another currency; four ledger records. |
| | State: are histories whole after restores? (`HistoryEndsInCurrent`) | two layers, one object, two snapshots, three versions. |
| | Trace: do answers ignore arrival, and is the walk exact? (`AnswersIgnoreArrival`, `LineageWithinDepth`) | six edges with a cycle and a diamond, three part files, depths to 3: the longest way in the graph. |
| | Market: does every label follow from what is cited, and does a closed market reach the path? (`RecordsFollowCitations`, `ClosedMarketReachesPath`) | two dates in any order, three calls that may raise after each phase, two sets of markets that contradict each other, two investors on both sides of the confidence thresholds, outside intents that close the market. |
| | Chain: was the evidence there and seen, and do conclusions follow from it? (`EvidenceWasThere`, `ConclusionsFollowCitations`) | two dates in any order, three calls of which the reference chain alone stores up to eighteen records; a signal only the bank may see, earnings of the second date, observations and exposures that begin or end between the dates; assessments of both dates cited back to front. |
| `wall_clock_dates` | *violation*: the ledger's dates are simulated ones (`LedgerDatesAreSimulated`) | the instance of `stores` |
| `access_labels` | *violation*: the environment's access label is in the closed set of the design (`AccessLabelIsKnown`) | the instance of `stores` |
| `stress_hidden_partial` | *violation*: "Partial application MUST be visible" (`PartialApplicationVisible`) | templates and programs as in `stores`, nine records |

Every property of a passing run has a mutant in `PROJECT.json`: a plausible bug of the code, defined beside the original,
under which TLC finds the property violated.

`CHECK_DEADLOCK FALSE` is set everywhere because every system here may stop: days run out, a process ends.

### What the violated properties show

* `SameTickDeliveryImpossible` - `publish()` takes the publication date from the event when the caller gives none, and the
  reference loop stamps it with the signal's date. A signal dated before the clock is delivered on the date it was
  published. `docs/world_model.md` 22.7 says that is impossible. What does hold (proved) is `DeliveriesRespectDates`.
* `SealedRefusesAppends` - `append()` looks for the seal once, at its beginning; a writer past that point adds a part file
  to a sealed partition. What does hold (proved) is `LateAppendsWereInFlight`: one file per append that was running.
* `PartialApplicationVisible` - a stress program applied with a template missing, then again after the template was
  registered: the receipt still says one step is unresolved, its readout says none is. What does hold is
  `NewReceiptReadsBack`: a receipt and its readout agree when the receipt is stored.
* `LedgerDatesAreSimulated` - eleven books date a ledger record, when the caller gives no date, by a method the clock does not
  have; the error is caught and the machine's clock answers. `docs/world_model.md` says the shared clock gives the
  ledger's dates "automatically" and lists the date among the fields that do not differ between runs.
* `AccessLabelIsKnown` - the readout calls a market `selective_or_constrained`, the classifier of investors' intents tests
  for `selective`, `constrained` and `closed`, as its design says. Its rules for a constrained market never fire.

### Observations that have no run

* Two records with equal `canonical_sort_key` are hashed in insertion order; the run takes distinct keys. The code states
  no uniqueness of keys; the default key ends in the event id, but a caller may give any key.
* A `build_attention_feedback()` that failed between its two records is retried with the state in place: the feedback it
  then stores names that state as its own predecessor. No text of the repository forbids it.
* An adder that takes a date stores its record before the ledger refuses a `simulation_date` that is none. The repeat is a duplicate,
  so the record stays untold for good (`AddWithBadDate`, then `Duplicate`). The docs promise a ledger record per successful
  call; this one raised. `LedgerTellsTheBook` therefore allows an untold record, in those books only.
* Weights start at 1.0 and lose 0.5 per state, and a weight of 0 drops the label: an unreinforced label survives one state,
  whatever `decay_horizon` says above 1 (the default is 2).
* `firm_state.py:485` and `attention_feedback.py:687` say that the living world inserts in chronological order, so that the
  state inserted last is the latest. It does if the caller's dates increase, which nothing checks. `NoLookahead` says what
  holds in any order: nothing but a firm's or an actor's state, or the feedback of the period before, looks at a later date.
* A call that failed after a firm's report was stored cannot be repeated on the same kernel: the report's run record is
  refused. That, and the refused menus, is what keeps `PeriodIsOneCalls`, although most later steps pass over duplicates.
* A second call on a date gets that date's environment as the first call built it, whatever markets it names itself. What
  holds is `RecordsFollowCitations`: the first call's records win together.
* The default id of an attention-conditioned valuation names no valuer, and a known id returns the record there is: two
  valuers on one date share the first one's valuation (`RefreshAttentively`), although `docs/world_model.md:7563` has
  different valuers come to different ones.
* A selection id that does not resolve stays among the related ids of a valuation, and is left out of a credit review's.
* A credit review does not cite the firm states and environments that its watch label comes from: the scores can be
  computed again from what it cites, the label cannot. `ConclusionsFollowCitations` claims the former only.
* A list of valuations that a caller passes with a repeat counts the repeated one twice in the average of a credit review and
  cites it once (`reference_bank_credit_review_lite.py:285-345`): the score cannot be computed again from what is cited.
  `ListsAssumption` leaves such lists out.
* A pressure signal cites the signals it was given, not the observations and exposures its numbers come from.
* `CitationsResolve` of `LivingWorld` needs that no actor's id occurs within another's between colons (`IdAssumption`), and that an
  id is that of one firm, investor, bank or market only (`ActorsAssumption`); nothing checks either.
* `world/stress_readout_export.py:30` speaks of "at most one stress program per run, hence at most one entry in the section";
  no book and no builder counts programs, and the section has one entry per receipt.

## 4. Fairness

* `TickSpec` (`EventuallyDelivered`): weak fairness of entering a tick and of the steps of a running day. The host is one
  that calls `run()` and calls again after a raise; inside a day the kernel is a loop over callables that return or
  raise. Raises are bounded (`MaxFailures`) but not fair: they may happen or not. The phase path and rewinds are left out
  of this specification only.
* `MixedSpec` (`NoDateLockedOut`): the same host with both paths and rewinds. It is fair to "enter the date on one path or the
  other", not to each: which of the two the guard admits is what the property is about. Raises and rewinds are bounded,
  so a space that raises at every retry, such as one that always emits an id the bus knows, is not among the behaviours:
  it does keep a date for ever, and nothing in the repository says otherwise.
* `RetrySpec` (`KeepsAppending`): weak fairness of each writer's next file-system call, since every call of the writer is a
  straight line of them, and of `BeginAppend`, for a host that wants its records stored and calls again after a raise.
  No fairness for sealing, crashing or the digest reader. The property says what shuts a writer out for good: a seal,
  and a sidecar that is torn or holds another manifest.

Everything else is safety and is checked without fairness.

## 5. Proofs

All theorems hold for every value of the constants that satisfies the named assumptions. These are, module by module:

* types of the constants and bounds that are numbers, everywhere; finitely many investors;
* `WorldBooks`: owners given as a sequence without repeats, positive quantities (the code refuses others), `Exact` above 1;
* `EventLogStore`: `_MANIFEST.json` contents differ from "no file" and "torn file". `DigestIgnoresInsertionOrder` has its own
  hypothesis, that no two records share a sort key;
* `TraceGraph`: edges have numbers for sort keys, and no two the same (the default key, `trace_edges.py:268-275`,
  ends in the edge's id; a caller who gives keys of its own may repeat one); batches are lists of edges;
* `MarketChain`: the access label a firm's position in the world gives it is not itself a closed market, as in the table of
  `reference_living_world.py`;
* `ReferenceChain`: the books beside the chain list every id once and of their own kind, earlier signals are no credit reviews,
  lists that callers pass name no valuation twice, and the firm is neither the investor nor the bank;
* `StressPrograms`: an id a caller gives a stress receipt is not empty, as the record class demands;
* `LivingWorld`: an id names one actor or market and does not occur within another's (`ActorsAssumption`, `IdAssumption`).

What callers pass to `ReferenceChain`, the ids of `LivingWorld` and a caller's own sort keys in `TraceGraph` are the ones the code
neither checks nor makes true: it is the host that chooses them.

| Theorem | Module | Argument |
|---|---|---|
| `Typing` | `WorldKernelProofs` | `TypeOK` is inductive |
| `DeliveriesRespectDatesTheorem`, `DeliveredAtMostOnceTheorem` | | `DeliveryInv`: the two properties and `PublicationsRecorded` (a published event has its ledger record). Neither is inductive alone: a delivery is dated right only because the bus and the ledger agree on what was published. Steps that leave the bus alone are covered by one lemma (`QuietStep`). |
| `OnePathPerDateTheorem` | | `RunModeInv`: the running day's path is the one the table holds for `today` |
| `DispatchedInOrderTheorem`, `NothingHeldBackTheorem`, `DayIsCompleteTheorem` | | `DayInv` (`DayInvariance`): what is still due comes after what was dispatched, in the sort order (`OrderInv`); a task of the day's start that is due is waiting, running or done once its phase came (`CompleteInv`); a record occurs in the ledger at most once per entry of its date (`CountInv`); a space that takes its step has nothing left to collect (`CollectedAll`); without a raise, what the bus marks delivered was observed or is in a space's hands (`HandedOver`). |
| `KernelImplementsEventDelivery` | | initial states map to initial states; each step publishes one event, delivers one event, sets the clock, or stutters |
| `EventLogTyping`, `AckedIsWholeTheorem`, `NeverRewrittenTheorem` | `EventLogStoreProofs` | `DiskInv`: types, one file per name, a writer about to write owns an open file, a cut file is short, `AckedIsWhole`. `StepKinds` sorts the steps into those that touch no file, create, write and return. |
| `IndexesContiguousTheorem` | | `Numbered`: the indexes are `1..n`, and a chosen target is at most `n+1`; then a count of files |
| `OneManifestPerRootTheorem` | | `ManifestsAgree`: a writer past the sidecar check holds the sidecar's manifest, and the one writing the sidecar holds it torn |
| `LateAppendsWereInFlightTheorem` | | `LateInv`: who is inside `append()` on a sealed partition was so at the seal and has left no late file yet |
| `DigestCoversAckedTheorem` | | `DigestInv`: what the reader owes is read, listed or in a partition still to be listed; needs that acknowledged files stay as they are and that directories hold all files |
| `DigestIgnoresInsertionOrderTheorem` | | what a leaf is computed from is a sorted list of records (`LeafIsSorted`), and two sorted lists with the same records are the same when keys tell records apart (`SameCountsPermute`, `RisingSame` of `RankLemmas`) |
| `AttentionTyping`, `LedgerMatchesBooksTheorem`, `ChainPerActorTheorem` | `AttentionFeedbackProofs` | types; books and ledger grow together, and a step that repeats a call or fails half way adds to both or to neither; the state linked to is the last one of its actor |
| `StaleCountIsAgeTheorem` | | `AgeInv`: a label's stale count is the rank, among its actor's states, of the last one that observed it (`RankLemmas`); decay is then one step of that rank, and a label is carried on only while some weight and some of the horizon are left |
| `ObservedBeforeInheritedTheorem` | | the order in which labels are dropped is total (`DropOrder`), so the eight kept are those of the lowest ranks, and observed ones rank before inherited ones |
| `SelectionsSpendByPriorityTheorem` | | `SpentInv`: a selection was drawn from an earlier state of its actor, which stays as it is, and spends that state's budget (`WellSpent`). `BudgetSpends` proves that the walk does: its order is total and by weight (`WalkOrderIs`), a label's turn adds a stretch of its own refs until budget, total or refs are spent (`TakeGrows`, `TakeFromGrows`, by steps along the list), and no later turn moves what is there (`StartsStay`). |
| `StressTyping`, `CitationsResolveTheorem`, `ReceiptAccountsForStepsTheorem`, `RecordsAreFinalTheorem` | `StressProgramsProofs` | `StressInv`: the running call has gathered exactly what its walked steps stored, in distinct records |
| `LedgerIsCausalTheorem`, `NewReceiptReadsBackTheorem` | | `LedgerInv`: the ledger's entries are those of what is stored, and what the running call has gathered is stored. For the readout, `CallIsNamed`: until a receipt is stored, the applications that name it are those of the running call, one per step that resolved. |
| `HistoryEndsInCurrentTheorem` | `StoreProofs` | `StateInv`: the property and the types of the snapshots, which come from either store; a write and a restore each have a lemma on the history they leave (`AppendUnbroken`, `SingleUnbroken`) |
| `LedgerTellsTheBookTheorem` | | `BookInv`: the ledger's creations are the told ids in order, the last entry that tells an id's record (an observation does not) is what the book holds of it, an update names the strength of the entry before it (`StrengthsFollow`), an index lists the entries of its subject. `MoreEntries` and `EntriesAtGrow` of `RankLemmas` say how a list that is read from a log grows with it. |
| `LedgerReplaysBooksTheorem` | | `ReplayInv`: each part of the books - a position, a status, a price history - is what the ledger tells of it. A step either appends a record that tells the part it changed (`Telling`) or one that tells nothing (`QuietTelling`). |
| `TransfersConserveTheorem` | | with `ReplayInv`, that positions are positive (`PositionsHeld`). `FloatIs`: rounding moves a number by at most half a unit and makes none zero, from `UlpIs`, the doubling of units. `TotalMoves`: a total, summed owner by owner, moves by what the two positions move. |
| `DerivedFromLedgerTheorem` | | `DerivedInv`: each derived record was right at its moment, and the books of that moment are what the ledger before it tells, by `ReplayInv`; each claim has its record. A gap depends on a currency that the ledger is not told: `GapInv` carries what the price book held at the comparison, which stays there because histories only grow (`CurrencyStays`). |
| `AnswersSameInAnyOrder` | | partition digests, projection and listings are sorted lists of the edges there are, and the order of part files changes only the order in which they are read (`RankedSame`) |
| `LineageFound` | | `WalkIsBack`: after `n` levels the walk has visited what at most `n` edges lead back to, and its frontier is what the last level added; by steps along the levels (`BackGoes`, `LineageGoes`) |
| `ClosedMarketReachesPathTheorem` | `ChainProofs` | `MarketInv`: a path is made in the step that makes its review, of the pressure of its date (`Made`); that pressure exists by then (`Ready`); its labels are made together (`Agrees`). `PathHeeds` is the label computation, `EarlierPhase` the seven phases before the pressure. |
| `RecordsFollowCitationsTheorem` | | `ChainInv`: `MarketInv`, what the books say of each other (`BooksLinked`), what a running call has made by now (`CallMade`), and the property record by record (`AllFollow`). No step loses or changes a record (`Keeps`), so it has to be shown of the new record only; a date's record that was there already is not made again. |
| `EvidenceComesFirst`, `ClaimsCanBeRedone` | | `EvidenceInv`: ids are unique, each record is founded on earlier ones (`Founded`) and is right by itself (`Honest`: what a menu, a selection or a review takes in was visible to its actor, a valuation or credit review follows from what it cites). Each operator calls are composed of (`Put`, `Ensure`, `Require`) keeps it if the record fits (`Fits`); each public call is then a chain of those, halfway raises included. |
| `LivingInvariance`, `PeriodIsOneCallsTheorem` | `LivingWorldProofs` | `LivingInv`. The plans of a period are proved to ask only for what is written before (`Plans`, `Asks`, `Before`), and what is still to do asks only for what is done. A record whose duplicate is passed over comes with one whose duplicate raises - its reader's menu, its firm's report - stored by the same call (`GuardsOfOneCall`): a record the period meets is therefore of the call itself. |
| `CitationsResolveTheorem`, `FeedbackTheorem`, `NoLookaheadTheorem` | | `CitesAreGood`, a part of `LivingInv`: what any stored record cites is of its own actors and not later, so a citation copied from a state or a selection is in order too. Each step then shows `GoodCites` of what it writes (`WritesWell`), from which the three follow. |

### Model-checked only

Out of the prover's reach are liveness (`EventuallyDelivered`, `NoDateLockedOut`, `KeepsAppending`) and everything about `ENABLED`. Every
safety and action property of a passing run is a theorem.

What an operator computes along a list - a budget spent, a total, a unit, a level of the walk - is written as a function on an
interval of numbers, and proved by steps along that interval (`Climb`, `Stepwise`, `WalkExists` of `RankLemmas`).

The type invariants of the kernel, the event log, the attention feedback and the stress programs, `ReceiptAccountsForSteps` and
`RecordsAreFinal` are proved and therefore in no run. The inductive invariants above are conjunctions of what
the runs check and of auxiliary facts; they too are in no run.

## 6. Abstractions

* Dates are day numbers; month, quarter and year ends are sets of them. Strings (ids, labels, names) are values; the
  scheduler's `display_name` order is a rank.
* Ledger records keep type, date, subject, space and path or, in the books, kind and id; record hashes are left out.
* What the ledger of the code does not carry, it does not carry here: a restricted signal's viewers and a price's currency. So the ledger
  alone does not say who might have seen a signal, and a gap with reason `currency_mismatch` cannot be computed again from it;
  `DerivedFromLedger` reads the currency of the price from the price book, at the place in its history where the ledger says it was.
* In `LivingWorld` a record is what it cites; the budgets of three refs per label and more than eight in all do not bind for
  two firms, and `AttentionFeedback` models them.
* Only the first firm's chain is in `MarketChain` and `ReferenceChain`: one firm, one listed security, so the sums over
  several securities have one term. Margin pressure, industry conditions and the confidences of market records are left out.
* `MarketChain` and `ReferenceChain` compute with exact fractions where the code has floats; thresholds are those of the code. `WorldBooks`
  rounds positions, where rounding accumulates, and not the sums inside a view.
* `ReferenceChain` leaves out disabled routines, market readouts as evidence, the interactions and the valuations a menu may
  list, collectors that raise, and selections of later dates than the call.
* `StateStore` leaves out who may read what: reading changes nothing.
* A record class is the set of flaws its constructor refuses; a record that passes is what its book looks at (subject, date, level,
  visibility, viewers).
* Floating-point weights are whole halves (`ResetWeight` = 2, `DecayStep` = 1).
* The walk that discovers partitions takes one step. A directory created during it would be one more partition to read;
  no property speaks of partitions that were created after the digest began.
* The content of the month-end state snapshot, validation of record fields and the vocabulary guard are left out: they
  raise before any state changes.

## 7. Not modelled

* Readouts, exports, reports, displays (`display_timeline.py`, `living_world_report.py`, `run_export.py`, the `*_readout.py` and
  `*_export.py` files): formatting of immutable records into documents, with no state and no order of their own.
* Event-log queries, columns and projections: views over part files that are complete when they are read.
* The stress case study, the examples and the command line: fixed inputs for the functions modelled here.
* The vocabulary guard: word lists with a membership test, a flaw (`token`, `key`) of the record classes here.
* The registry, the id grammar, the YAML loader and its validation: they raise before there is a world.
* The filters of the books (`list_by_*`): comprehensions over one dictionary.

`PROJECT.json` says of each partly modelled component what is left out.

## 8. Plan

Done, in this order: kernel and bus (with the abstract specification and refinement), event log, attention, stress, the
living world; then the stores: record books, ownership and what is derived from it, state, trace edges, the market
chain, the reference chain.
The proofs followed: the kernel, the event log, stress programs, then attention, the stores, the market chain, the
living world and the reference chain. Next:

1. Two firms in `MarketChain`, so that sums over securities matter.
