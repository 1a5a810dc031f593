--------------------------- MODULE MCEventLogStore ---------------------------
(***************************************************************************)
(* Small event logs: two processes on one partition, or on two partitions   *)
(* of one root; two records with different sort keys.                      *)
(***************************************************************************)
EXTENDS EventLogStore, TLC

OneRoot == [c \in Cells |-> "root"]
KeyByIndex == [r \in Records |-> IF r = "r1" THEN 1 ELSE 2]

OneBatch == {<<"r2", "r1">>}
SplitBatches == {<<"r2", "r1">>, <<"r1">>, <<"r2">>}

(* No definition tells two writers or two partitions of a root apart. *)
Interchangeable == Permutations(Writers) \cup Permutations(Cells)
=============================================================================
