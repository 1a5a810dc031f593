---------------------------- MODULE EventDelivery ----------------------------
(***************************************************************************)
(* What the event bus promises to the spaces of a world, stated without    *)
(* tasks, ledgers or failures (docs/world_model.md section 22.3):          *)
(*                                                                         *)
(*   - an event is published once, with a publication date;                *)
(*   - a space is handed an event only if the event is addressed to it,    *)
(*     on a date after the publication date, and not before the date the   *)
(*     event itself asks for;                                              *)
(*   - a pair (event, space) is handed over at most once, for ever.        *)
(*                                                                         *)
(* WorldKernel is shown to implement this specification.                   *)
(***************************************************************************)
EXTENDS Naturals

CONSTANTS
  Spaces,      \* space ids
  Events,      \* event ids
  Event        \* what each event says: source, targets, simulation_date, delay_days

VARIABLES
  today,       \* the date of the world's clock, a day number
  published,   \* ids of the events accepted so far
  pubDate,     \* publication date of a published event
  delivered    \* pairs <<event, space>> already handed over

vars == <<today, published, pubDate, delivered>>

(* An empty target list is a broadcast to every space but the source. *)
IsTargetedAt(e, s) ==
  IF Event[e].targets # {} THEN s \in Event[e].targets ELSE s # Event[e].source

DeliveryDate(e) == Event[e].simulation_date + Event[e].delay_days

Init ==
  /\ today \in Nat
  /\ published = {}
  /\ pubDate \in [Events -> Nat]
  /\ delivered = {}

(* The publisher chooses the publication date. *)
Publish(e) ==
  /\ e \notin published
  /\ published' = published \cup {e}
  /\ pubDate'[e] \in Nat
  /\ pubDate' = [pubDate EXCEPT ![e] = pubDate'[e]]
  /\ UNCHANGED <<today, delivered>>

Deliver(e, s) ==
  /\ e \in published
  /\ <<e, s>> \notin delivered
  /\ IsTargetedAt(e, s)
  /\ pubDate[e] < today
  /\ DeliveryDate(e) <= today
  /\ delivered' = delivered \cup {<<e, s>>}
  /\ UNCHANGED <<today, published, pubDate>>

(* The host owns the clock: days pass, and it may also be set back. *)
SetClock ==
  /\ today' \in Nat
  /\ UNCHANGED <<published, pubDate, delivered>>

Next ==
  \/ \E e \in Events : Publish(e)
  \/ \E e \in Events, s \in Spaces : Deliver(e, s)
  \/ SetClock

Spec == Init /\ [][Next]_vars
=============================================================================
