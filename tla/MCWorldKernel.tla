---------------------------- MODULE MCWorldKernel ----------------------------
(***************************************************************************)
(* Two small worlds for WorldKernel.                                       *)
(*                                                                         *)
(* Delivery: two spaces with daily tasks, one of them with a month-end     *)
(* task as well, a broadcast and a delayed unicast, three dates of which   *)
(* the middle one ends a month.                                            *)
(* Phases: host tasks in and outside the intraday phases.                  *)
(***************************************************************************)
EXTENDS WorldKernel

DeliverySpaces == {"bank", "info"}
DeliveryEvents == {"rate", "rating"}
DeliveryEvent ==
  [e \in DeliveryEvents |->
     IF e = "rate"
     THEN [source |-> "bank", targets |-> {"info"}, simulation_date |-> 0, delay_days |-> 1]
     ELSE [source |-> "info", targets |-> {}, simulation_date |-> 0, delay_days |-> 0]]

SpaceTask(s, f, l) ==
  [space |-> s, frequency |-> f, phase |-> 0, order |-> 0, label |-> l, body |-> "space"]
DeliveryTasks == {"bank_daily", "info_daily", "info_monthly"}
DeliveryTask ==
  [t \in DeliveryTasks |->
     CASE t = "bank_daily" -> SpaceTask("bank", "daily", 1)
       [] t = "info_daily" -> SpaceTask("info", "daily", 2)
       [] t = "info_monthly" -> SpaceTask("info", "monthly", 3)]
DeliverySpaceTasks ==
  [s \in DeliverySpaces |->
     IF s = "bank" THEN <<"bank_daily">> ELSE <<"info_daily", "info_monthly">>]

PhaseSpaces == {"world"}
PhaseTasks == {"main", "open", "close"}
HostTask(f, p, l, b) ==
  [space |-> "world", frequency |-> f, phase |-> p, order |-> 0, label |-> l, body |-> b]
PhaseTask ==
  [t \in PhaseTasks |->
     CASE t = "main" -> HostTask("monthly", 0, 2, "placeholder")
       [] t = "open" -> HostTask("daily", 3, 3, "callable")
       [] t = "close" -> HostTask("daily", 6, 1, "placeholder")]
PhaseSpaceTasks == [s \in PhaseSpaces |-> <<"close", "close">>]
NoEvents == {}
NoEvent == [e \in {} |-> [source |-> "world", targets |-> {}, simulation_date |-> 0,
                          delay_days |-> 0]]
=============================================================================
