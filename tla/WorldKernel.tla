----------------------------- MODULE WorldKernel -----------------------------
(***************************************************************************)
(* The execution core: world/kernel.py drives world/scheduler.py and       *)
(* world/clock.py, runs the tasks a space contributes (spaces/base.py) and *)
(* moves events between spaces through world/event_bus.py, recording each  *)
(* step in the append-only ledger.                                         *)
(*                                                                         *)
(* One action per step of tick() / run_day_with_phases() at whose end a    *)
(* callable supplied by somebody else (a space, a host task) can raise:    *)
(* the kernel catches nothing, so a raise leaves everything done so far in *)
(* place and the clock where it was, and the host may call again.          *)
(***************************************************************************)
EXTENDS Naturals, Sequences, FiniteSets

CONSTANTS
  Spaces,       \* space ids
  Events,       \* event ids
  Event,        \* [Events -> [source, targets, simulation_date, delay_days]]
  Tasks,        \* TaskSpec ids
  Task,         \* [Tasks -> [space, frequency, phase, order, label, body]]; label is
                \* the rank of <<space, display_name()>> in the order of strings
  SpaceTasks,   \* [Spaces -> Seq(Tasks)]: what task_specs() of a space yields
  HostTasks,    \* task ids the host itself hands to register_task()
  RunnerEvents, \* event ids the host publishes past the spaces
  MonthEnds, QuarterEnds, YearEnds,   \* the calendar, as sets of day numbers
  LastDay,      \* bound: the host runs no day after this one
  MaxFailures,  \* bound: how many callables raise
  MaxRewinds    \* bound: how often the host sets the clock back

Frequencies == {"daily", "monthly", "quarterly", "yearly"}
Bodies == {"space", "callable", "placeholder"}
LastPhase == 6   \* Phase.MAIN is 0; overnight .. post_close are 1 .. 6

EventRecord == [source : Spaces, targets : SUBSET Spaces,
                simulation_date : Nat, delay_days : Nat]
TaskRecord == [space : Spaces, frequency : Frequencies, phase : 0..LastPhase,
               order : Nat, label : Nat, body : Bodies]

ASSUME EventAssumption == Event \in [Events -> EventRecord]
ASSUME TaskAssumption == Task \in [Tasks -> TaskRecord]
ASSUME SpaceTasksAssumption ==
  /\ SpaceTasks \in [Spaces -> Seq(Tasks)]
  /\ \A s \in Spaces : \A i \in DOMAIN SpaceTasks[s] : Task[SpaceTasks[s][i]].space = s
ASSUME HostAssumption == HostTasks \subseteq Tasks /\ RunnerEvents \subseteq Events
ASSUME CalendarAssumption ==
  YearEnds \subseteq QuarterEnds /\ QuarterEnds \subseteq MonthEnds
ASSUME BoundAssumption == LastDay \in Nat /\ MaxFailures \in Nat /\ MaxRewinds \in Nat

VARIABLES
  today,       \* clock.current_date
  runMode,     \* kernel._run_modes: date -> path that entered it
  spaces,      \* spaces known to the registry
  registered,  \* scheduler._tasks, in registration order
  events,      \* bus._events, in publication order
  pubDate,     \* bus._publication_dates (meaningless for an unpublished event)
  delivered,   \* bus._delivered_pairs
  observed,    \* pairs whose event reached the space's observe()
  ledger,      \* ledger records, in append order
  pc,          \* where the running day is
  path,        \* the path the running day entered
  phase,       \* the intraday phase reached (0 before the first)
  due,         \* due tasks not run yet, as positions in registered
  current,     \* position of the running task (0: none)
  incoming,    \* events collected for the running task
  outgoing,    \* events it emitted that are not published yet
  done,        \* positions run since the day was entered, in order
  atStart,     \* how many tasks were registered when the day was entered
  failures, rewinds

busVars == <<events, pubDate, delivered>>
dayVars == <<path, phase, due, done, atStart>>
hostVars == <<failures, rewinds>>
vars == <<today, runMode, spaces, registered, busVars, observed, ledger,
          pc, dayVars, current, incoming, outgoing, hostVars>>

Days == 0..LastDay
Paths == {"date_tick", "intraday_phase"}

(***************************************************************************)
(* The ledger.  A record keeps what the properties read: who it is about,  *)
(* which space, and for task_executed whether the payload names a phase.   *)
(***************************************************************************)
Record(type, subject, space) ==
  [type |-> type, date |-> today, subject |-> subject, space |-> space, path |-> "-"]

Executed(i) ==
  [type |-> "task_executed", date |-> today, subject |-> registered[i],
   space |-> Task[registered[i]].space, path |-> path]

(***************************************************************************)
(* The event bus.                                                          *)
(***************************************************************************)
Published == {events[i] : i \in DOMAIN events}

IsTargetedAt(e, s) ==
  IF Event[e].targets # {} THEN s \in Event[e].targets ELSE s # Event[e].source

DeliveryDate(e) == Event[e].simulation_date + Event[e].delay_days

(* Plausible bugs of the date barrier, for the mutation runs. *)
CollectableSameDay(e, s) ==
  /\ <<e, s>> \notin delivered
  /\ IsTargetedAt(e, s)
  /\ pubDate[e] <= today
  /\ DeliveryDate(e) <= today

CollectableOnlyOnDate(e, s) ==
  /\ <<e, s>> \notin delivered
  /\ IsTargetedAt(e, s)
  /\ pubDate[e] < today
  /\ DeliveryDate(e) = today

CollectableOneDayLate(e, s) ==
  /\ <<e, s>> \notin delivered
  /\ IsTargetedAt(e, s)
  /\ pubDate[e] < today
  /\ DeliveryDate(e) < today

(* collect_for_space() of one space at one event. *)
Collectable(e, s) ==
  /\ <<e, s>> \notin delivered
  /\ IsTargetedAt(e, s)
  /\ pubDate[e] < today
  /\ DeliveryDate(e) <= today

(* Plausible bug: publish() forgets to look for the id. *)
PublishUnchecked(e, date) ==
  /\ events' = Append(events, e)
  /\ pubDate' = [pubDate EXCEPT ![e] = date]
  /\ UNCHANGED delivered

(* publish(): refused for an id the bus already knows. *)
Publish(e, date) ==
  /\ e \notin Published
  /\ events' = Append(events, e)
  /\ pubDate' = [pubDate EXCEPT ![e] = date]
  /\ UNCHANGED delivered

(***************************************************************************)
(* The scheduler.                                                          *)
(***************************************************************************)
DueFrequencies ==
  {"daily"} \cup (IF today \in MonthEnds THEN {"monthly"} ELSE {})
            \cup (IF today \in QuarterEnds THEN {"quarterly"} ELSE {})
            \cup (IF today \in YearEnds THEN {"yearly"} ELSE {})

DueTasks == {i \in DOMAIN registered : Task[registered[i]].frequency \in DueFrequencies}
(* Plausible bug: the phase filter is cumulative. *)
DueUpToPhase(p) == {i \in DueTasks : Task[registered[i]].phase <= p}
DueInPhase(p) == {i \in DueTasks : Task[registered[i]].phase = p}

FrequencyRank ==
  [f \in Frequencies |-> CASE f = "daily" -> 10 [] f = "monthly" -> 20
                           [] f = "quarterly" -> 30 [] f = "yearly" -> 40]

(* The sort key of _sorted_tasks; the sort is stable, so position decides last. *)
SortKey(i) ==
  LET t == Task[registered[i]]
  IN <<t.phase, FrequencyRank[t.frequency], t.order, t.label, i>>

Before(i, j) ==
  \E k \in 1..5 :
    /\ SortKey(i)[k] < SortKey(j)[k]
    /\ \A m \in 1..(k - 1) : SortKey(i)[m] = SortKey(j)[m]

-----------------------------------------------------------------------------
Init ==
  /\ today = 0
  /\ runMode = [d \in Days |-> "none"]
  /\ spaces = {}
  /\ registered = <<>>
  /\ events = <<>>
  /\ pubDate = [e \in Events |-> 0]
  /\ delivered = {}
  /\ observed = {}
  /\ ledger = <<>>
  /\ pc = "idle"
  /\ path = "date_tick"
  /\ phase = 0
  /\ due = {}
  /\ current = 0
  /\ incoming = {}
  /\ outgoing = {}
  /\ done = <<>>
  /\ atStart = 0
  /\ failures = 0
  /\ rewinds = 0

(***************************************************************************)
(* Registration.  The host registers while no day runs, a host task may    *)
(* also do it while it runs (it is handed the kernel).                     *)
(***************************************************************************)
Scheduled == {registered[i] : i \in DOMAIN registered}

RegisterTask(t) ==
  /\ pc \in {"idle", "call"}
  /\ t \notin Scheduled
  /\ registered' = Append(registered, t)
  /\ ledger' = Append(ledger, Record("task_scheduled", t, Task[t].space))
  /\ UNCHANGED <<today, runMode, spaces, busVars, observed, pc, dayVars, current,
                 incoming, outgoing, hostVars>>

(* register_space(): the registry and the ledger know the space before its *)
(* tasks are tried, and a task id already taken ends the loop by a raise:   *)
(* the first n tasks of the space are scheduled.                            *)
RegisterSpace(s) ==
  /\ pc = "idle"
  /\ s \notin spaces
  /\ spaces' = spaces \cup {s}
  /\ LET specs == SpaceTasks[s]
         Free(i) == /\ specs[i] \notin Scheduled
                    /\ \A j \in 1..(i - 1) : specs[j] # specs[i]
     IN \E n \in 0..Len(specs) :
          /\ \A i \in 1..n : Free(i)
          /\ n < Len(specs) => ~Free(n + 1)
          /\ registered' = registered \o [i \in 1..n |-> specs[i]]
          /\ ledger' = Append(ledger, Record("object_registered", s, s))
                         \o [i \in 1..n |-> Record("task_scheduled", specs[i], s)]
  /\ UNCHANGED <<today, runMode, busVars, observed, pc, dayVars, current,
                 incoming, outgoing, hostVars>>

(* publish_signal_event() of the reference loop, by the host or by a host   *)
(* task: on_date is optional and defaults to the date stamped on the event. *)
RunnerPublish(e, onDate) ==
  /\ pc \in {"idle", "call"}
  /\ Publish(e, onDate)
  /\ ledger' = Append(ledger, Record("event_published", e, Event[e].source))
  /\ UNCHANGED <<today, runMode, spaces, registered, observed, pc, dayVars, current,
                 incoming, outgoing, hostVars>>

(* A test or a host sets clock.current_date back by hand. *)
RewindClock(d) ==
  /\ pc = "idle"
  /\ rewinds < MaxRewinds
  /\ d < today
  /\ today' = d
  /\ rewinds' = rewinds + 1
  /\ UNCHANGED <<runMode, spaces, registered, busVars, observed, ledger, pc, dayVars,
                 current, incoming, outgoing, failures>>

(***************************************************************************)
(* Running a day.                                                          *)
(***************************************************************************)
(* Plausible bug: the mode is stored, never compared. *)
EnterRunModeUnguarded(p) ==
  /\ pc = "idle"
  /\ today <= LastDay
  /\ runMode' = [runMode EXCEPT ![today] = p]
  /\ path' = p
  /\ phase' = 0
  /\ pc' = "dispatch"
  /\ done' = <<>>
  /\ atStart' = Len(registered)
  /\ UNCHANGED <<today, spaces, registered, busVars, observed, ledger, current,
                 incoming, outgoing, hostVars>>

(* Plausible bug: the guard refuses a date because it has been entered. *)
EnterRunModeOnce(p) ==
  /\ pc = "idle"
  /\ today <= LastDay
  /\ runMode[today] = "none"
  /\ runMode' = [runMode EXCEPT ![today] = p]
  /\ path' = p
  /\ phase' = 0
  /\ pc' = "dispatch"
  /\ done' = <<>>
  /\ atStart' = Len(registered)
  /\ UNCHANGED <<today, spaces, registered, busVars, observed, ledger, current,
                 incoming, outgoing, hostVars>>

(* _enter_run_mode(): a date is never processed by both paths, and may be   *)
(* entered again on the one it has.                                        *)
EnterRunMode(p) ==
  /\ pc = "idle"
  /\ today <= LastDay
  /\ runMode[today] \in {"none", p}
  /\ runMode' = [runMode EXCEPT ![today] = p]
  /\ path' = p
  /\ phase' = 0
  /\ pc' = "dispatch"
  /\ done' = <<>>
  /\ atStart' = Len(registered)
  /\ UNCHANGED <<today, spaces, registered, busVars, observed, ledger, current,
                 incoming, outgoing, hostVars>>

(* tick() takes every due task at once, whatever its phase. *)
EnterTick == EnterRunMode("date_tick") /\ due' = DueTasks

(* run_day_with_phases() asks the scheduler again at each phase it reaches. *)
EnterPhases == EnterRunMode("intraday_phase") /\ due' = {}

(* iter_intraday_phases(): the due tasks of a phase are computed when the   *)
(* loop reaches it, over whatever is registered by then.                    *)
NextPhase ==
  /\ pc = "dispatch"
  /\ path = "intraday_phase"
  /\ due = {}
  /\ phase < LastPhase
  /\ phase' = phase + 1
  /\ due' = DueInPhase(phase + 1)
  /\ UNCHANGED <<today, runMode, spaces, registered, busVars, observed, ledger, pc,
                 path, done, atStart, current, incoming, outgoing, hostVars>>

StartOf(body) ==
  CASE body = "space" -> "collect"
    [] body = "callable" -> "call"
    [] body = "placeholder" -> "record"

Dispatch ==
  /\ pc = "dispatch"
  /\ \E i \in due :
       /\ \A j \in due \ {i} : Before(i, j)
       /\ due' = due \ {i}
       /\ current' = i
       /\ pc' = StartOf(Task[registered[i]].body)
  /\ UNCHANGED <<today, runMode, spaces, registered, busVars, observed, ledger,
                 path, phase, done, atStart, incoming, outgoing, hostVars>>

CurrentSpace == Task[registered[current]].space

(* One round of the loop in collect_for_space(), in publication order, with *)
(* the ledger record the space's action appends for the event it returns.   *)
CollectNext ==
  /\ pc = "collect"
  /\ \E i \in DOMAIN events :
       /\ Collectable(events[i], CurrentSpace)
       /\ \A j \in 1..(i - 1) : ~Collectable(events[j], CurrentSpace)
       /\ delivered' = delivered \cup {<<events[i], CurrentSpace>>}
       /\ incoming' = incoming \cup {events[i]}
       /\ ledger' = Append(ledger, Record("event_delivered", events[i], CurrentSpace))
  /\ UNCHANGED <<today, runMode, spaces, registered, events, pubDate, observed, pc,
                 dayVars, current, outgoing, hostVars>>

Observe ==
  /\ pc = "collect"
  /\ \A e \in Published : ~Collectable(e, CurrentSpace)
  /\ observed' = observed \cup {<<e, CurrentSpace>> : e \in incoming}
  /\ incoming' = {}
  /\ pc' = "step"
  /\ UNCHANGED <<today, runMode, spaces, registered, busVars, ledger, dayVars,
                 current, outgoing, hostVars>>

(* step() and emit(): the space hands over any of its own events, in an     *)
(* order of its choice; one the bus knows already can only end in a raise.  *)
StepAndEmit ==
  /\ pc = "step"
  /\ \E out \in SUBSET {e \in Events : Event[e].source = CurrentSpace} :
       /\ failures = MaxFailures => out \cap Published = {}
       /\ outgoing' = out
  /\ pc' = "publish"
  /\ UNCHANGED <<today, runMode, spaces, registered, busVars, observed, ledger,
                 dayVars, current, incoming, hostVars>>

PublishNext ==
  /\ pc = "publish"
  /\ \E e \in outgoing :
       /\ Publish(e, today)
       /\ outgoing' = outgoing \ {e}
       /\ ledger' = Append(ledger, Record("event_published", e, Event[e].source))
  /\ UNCHANGED <<today, runMode, spaces, registered, observed, pc, dayVars, current,
                 incoming, hostVars>>

RecordExecuted ==
  /\ \/ pc = "publish" /\ outgoing = {}
     \/ pc \in {"call", "record"}
  /\ ledger' = Append(ledger, Executed(current))
  /\ done' = Append(done, current)
  /\ current' = 0
  /\ pc' = "dispatch"
  /\ UNCHANGED <<today, runMode, spaces, registered, busVars, observed, path, phase,
                 due, atStart, incoming, outgoing, hostVars>>

(* Plausible bug: a raise gives the collected events back to the bus. *)
AbortReturningEvents ==
  /\ failures < MaxFailures
  /\ failures' = failures + 1
  /\ delivered' = delivered \ {<<e, CurrentSpace>> : e \in incoming}
  /\ pc' = "idle"
  /\ due' = {}
  /\ current' = 0
  /\ incoming' = {}
  /\ outgoing' = {}
  /\ UNCHANGED <<today, runMode, spaces, registered, events, pubDate, observed, ledger,
                 path, phase, done, atStart, rewinds>>

(* An exception leaves tick() at once: the locals are gone, the rest stays. *)
Abort ==
  /\ failures < MaxFailures
  /\ failures' = failures + 1
  /\ pc' = "idle"
  /\ due' = {}
  /\ current' = 0
  /\ incoming' = {}
  /\ outgoing' = {}
  /\ UNCHANGED <<today, runMode, spaces, registered, busVars, observed, ledger, path,
                 phase, done, atStart, rewinds>>

(* A callable raises: a host task, step(), emit(), or observe() with the    *)
(* events of this call already marked delivered.                            *)
BodyRaises ==
  /\ \/ pc = "collect" /\ \A e \in Published : ~Collectable(e, CurrentSpace)
     \/ pc \in {"step", "call"}
  /\ Abort

(* publish() refuses an event id it knows and the space's action ends there. *)
PublishDuplicate ==
  /\ pc = "publish"
  /\ outgoing \cap Published # {}
  /\ Abort

(* Plausible bug: the day is over when the phase at hand has nothing to do. *)
EndDayAtQuietPhase ==
  /\ pc = "dispatch"
  /\ due = {}
  /\ ledger' = IF today \in MonthEnds
               THEN Append(ledger, Record("state_snapshot_created", "world", "world"))
               ELSE ledger
  /\ today' = today + 1
  /\ pc' = "idle"
  /\ UNCHANGED <<runMode, spaces, registered, busVars, observed, dayVars, current,
                 incoming, outgoing, hostVars>>

(* The clock advances last; the snapshot of a period end is taken before.   *)
EndDay ==
  /\ pc = "dispatch"
  /\ due = {}
  /\ path = "intraday_phase" => phase = LastPhase
  /\ ledger' = IF today \in MonthEnds
               THEN Append(ledger, Record("state_snapshot_created", "world", "world"))
               ELSE ledger
  /\ today' = today + 1
  /\ pc' = "idle"
  /\ UNCHANGED <<runMode, spaces, registered, busVars, observed, dayVars, current,
                 incoming, outgoing, hostVars>>

Host ==
  \/ \E t \in HostTasks : RegisterTask(t)
  \/ \E s \in Spaces : RegisterSpace(s)
  \/ \E e \in RunnerEvents : \E d \in {today, Event[e].simulation_date} : RunnerPublish(e, d)
  \/ \E d \in Days : RewindClock(d)

RunDay ==
  \/ NextPhase \/ Dispatch \/ CollectNext \/ Observe \/ StepAndEmit
  \/ PublishNext \/ PublishDuplicate \/ RecordExecuted \/ EndDay

Next == Host \/ EnterTick \/ EnterPhases \/ RunDay \/ BodyRaises

Spec == Init /\ [][Next]_vars
-----------------------------------------------------------------------------
(* A host that calls run(): it keeps ticking, calls again after a raise and *)
(* leaves the phase path alone.  A day that is entered goes on by itself,   *)
(* since tick() is a loop over bodies that return or raise.                 *)
TickNext == Host \/ EnterTick \/ RunDay \/ BodyRaises
TickSpec == Init /\ [][TickNext]_vars /\ WF_vars(EnterTick) /\ WF_vars(RunDay)

(* A host that uses both paths, and goes on calling, after a raise as well,  *)
(* whichever of tick() and run_day_with_phases() the guard admits.         *)
MixedSpec == Spec /\ WF_vars(EnterTick \/ EnterPhases) /\ WF_vars(RunDay)

(***************************************************************************)
(* Types.                                                                  *)
(***************************************************************************)
RecordTypes == {"object_registered", "task_scheduled", "event_published",
                "event_delivered", "task_executed", "state_snapshot_created"}

TypeOK ==
  /\ today \in Nat
  /\ runMode \in [Days -> Paths \cup {"none"}]
  /\ spaces \subseteq Spaces
  /\ registered \in Seq(Tasks)
  /\ events \in Seq(Events)
  /\ pubDate \in [Events -> Nat]
  /\ delivered \subseteq Events \X Spaces
  /\ observed \subseteq Events \X Spaces
  /\ ledger \in Seq([type : RecordTypes, date : Nat,
                     subject : Spaces \cup Tasks \cup Events \cup {"world"},
                     space : Spaces \cup {"world"}, path : Paths \cup {"-"}])
  /\ pc \in {"idle", "dispatch", "collect", "call", "step", "publish", "record"}
  /\ path \in Paths
  /\ phase \in 0..LastPhase
  /\ due \subseteq DOMAIN registered
  /\ current \in 0..Len(registered)
  /\ pc \in {"collect", "call", "step", "publish", "record"} => current # 0
  /\ incoming \subseteq Events
  /\ outgoing \subseteq Events
  /\ done \in Seq(DOMAIN registered)
  /\ atStart \in 0..Len(registered)
  /\ failures \in 0..MaxFailures
  /\ rewinds \in 0..MaxRewinds

(***************************************************************************)
(* Safety of the delivery channel.                                         *)
(***************************************************************************)
IsDelivery(i) == ledger[i].type = "event_delivered"
IsPublication(i) == ledger[i].type = "event_published"
IsExecution(i) == ledger[i].type = "task_executed"

(* Every delivery the ledger records went to an addressed space, after the  *)
(* event's publication date and not before its delivery date, and follows   *)
(* the event's publication record: what collect_for_space() promises, read  *)
(* off the audit trail a replay sees.                                       *)
DeliveriesRespectDates ==
  \A i \in DOMAIN ledger : IsDelivery(i) =>
    LET e == ledger[i].subject IN
    /\ IsTargetedAt(e, ledger[i].space)
    /\ pubDate[e] < ledger[i].date
    /\ DeliveryDate(e) <= ledger[i].date
    /\ \E j \in 1..(i - 1) : IsPublication(j) /\ ledger[j].subject = e

(* At most once, across failed days, retries and rewound clocks: no two     *)
(* delivery records name the same event and space, and the records are      *)
(* exactly the pairs the bus has marked.                                    *)
DeliveredAtMostOnce ==
  /\ \A i, j \in DOMAIN ledger :
       /\ IsDelivery(i) /\ IsDelivery(j)
       /\ ledger[i].subject = ledger[j].subject /\ ledger[i].space = ledger[j].space
       => i = j
  /\ delivered = {<<ledger[i].subject, ledger[i].space>> :
                    i \in {k \in DOMAIN ledger : IsDelivery(k)}}

(* Order independence: a task of a space that ran to its end had been given *)
(* every addressed event published (by whichever task, in whichever order)  *)
(* for an earlier date and ready by then.  And what the bus marks delivered *)
(* reaches observe(), unless a callable raised in between: the mark is set  *)
(* first, so a raise loses the event.                                      *)
NothingHeldBack ==
  /\ failures = 0 =>
       delivered = observed \cup
         (IF current = 0 THEN {} ELSE {<<e, CurrentSpace>> : e \in incoming})
  /\ \A x \in DOMAIN ledger : \A p \in 1..(x - 1) :
       LET e == ledger[p].subject
           s == ledger[x].space
       IN /\ IsExecution(x) /\ Task[ledger[x].subject].body = "space"
          /\ IsPublication(p) /\ IsTargetedAt(e, s)
          /\ pubDate[e] < ledger[x].date /\ DeliveryDate(e) <= ledger[x].date
          => \E d \in 1..(x - 1) : IsDelivery(d) /\ ledger[d].subject = e
                                   /\ ledger[d].space = s

(***************************************************************************)
(* Safety of the day.                                                      *)
(***************************************************************************)
(* The run-mode guard: whatever is retried or rewound, the tasks recorded   *)
(* for one date all ran on one path, the one _run_modes holds.              *)
OnePathPerDate ==
  \A i \in DOMAIN ledger : IsExecution(i) => runMode[ledger[i].date] = ledger[i].path

(* Tasks run in the order of their sort keys through a whole day, also when *)
(* a task schedules others while the phases go by; and a task is recorded    *)
(* again for a date only if the date was entered again, after a raise or a  *)
(* rewind.                                                                 *)
DispatchedInOrder ==
  /\ \A i, j \in DOMAIN done : i < j => Before(done[i], done[j])
  /\ \A x \in DOMAIN ledger : IsExecution(x) =>
       Cardinality({y \in DOMAIN ledger : ledger[y] = ledger[x]}) <= 1 + failures + rewinds

(* The clock leaves a date only after every task that was registered when   *)
(* the day was entered, is due and belongs to the path, has run.            *)
DayIsComplete ==
  [][today' > today =>
       \A i \in 1..atStart :
         /\ i \in DueTasks
         /\ path = "intraday_phase" => Task[registered[i]].phase # 0
         => \E k \in DOMAIN done : done[k] = i]_vars

(* The kernel implements the promise of the event bus. *)
Bus == INSTANCE EventDelivery WITH published <- Published
ImplementsEventDelivery == Bus!Spec

(***************************************************************************)
(* Liveness, under the fairness of a host that keeps running days.         *)
(***************************************************************************)
(* "The guard rejects only mode mixing, not mode reentry"                   *)
(* (docs/world_model.md): no date is locked out.  A day that raised on      *)
(* either path, in any phase, or was run before the clock was set back, is  *)
(* run again to its end, and the clock leaves its date for the next one.    *)
(* MaxFailures keeps out a callable that raises at every retry.             *)
NoDateLockedOut == \A d \in Days : today = d ~> today = d + 1

RunsDaily(s) ==
  \E i \in DOMAIN registered :
    LET t == Task[registered[i]] IN t.space = s /\ t.body = "space" /\ t.frequency = "daily"

(* A published event reaches each addressed space that has a daily task, if *)
(* a day after its publication date and delivery date is still to be run.   *)
EventuallyDelivered ==
  \A e \in Events, s \in Spaces :
    /\ e \in Published /\ IsTargetedAt(e, s) /\ RunsDaily(s)
    /\ today < LastDay /\ pubDate[e] < LastDay /\ DeliveryDate(e) <= LastDay
    ~> <<e, s>> \in delivered

(* docs/world_model.md 22.7: "Same-tick delivery is impossible -- delivery  *)
(* is always at least one tick after publication."                          *)
SameTickDeliveryImpossible ==
  \A i, j \in DOMAIN ledger :
    /\ IsPublication(i) /\ IsDelivery(j) /\ ledger[i].subject = ledger[j].subject
    => ledger[i].date < ledger[j].date
=============================================================================
