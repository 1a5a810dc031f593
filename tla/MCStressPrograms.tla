-------------------------- MODULE MCStressPrograms --------------------------
(***************************************************************************)
(* Two driver templates (one family with one shift, one with two) and two   *)
(* programs, one of them with a step repeated; one id that several calls    *)
(* may give.                                                               *)
(***************************************************************************)
EXTENDS StressPrograms

Shifts == [t \in Templates |-> IF t = "rates" THEN 1 ELSE 2]
TwoPrograms == [p \in Programs |-> IF p = "twin" THEN <<"rates", "credit">>
                                                 ELSE <<"credit", "credit", "rates">>]
NoIds == {}
SharedId == {<<"mine">>}
=============================================================================
