------------------------- MODULE MCAttentionFeedback -------------------------
(***************************************************************************)
(* Two actors, two dates and an id of the caller's choice; what decays and   *)
(* what saturates; how the budget is spent.                                *)
(***************************************************************************)
EXTENDS AttentionFeedback, TLC

NoRefs == [s \in Sources |-> <<>>]
Citing(signals, refs) == [signals |-> signals, refs |-> refs]

OneId == {<<"explicit", 1>>}

(* Empty, disjoint and overlapping rule outcomes; the last one alone exceeds *)
(* the cap of 8 labels, and after the one before it the cap drops inherited *)
(* labels.  Refs are shared between sources, so that what one label picks   *)
(* is seen by the next.                                                    *)
RuleOutcomes ==
  {Citing({},
     [NoRefs EXCEPT !["firm_states"] = <<"r1", "r2", "r3">>, !["environments"] = <<"r2", "r4">>]),
   Citing({"engagement_intent", "path_compare"},
     [NoRefs EXCEPT !["dialogues"] = <<"r3", "r1", "r3", "r4">>, !["escalations"] = <<"r1", "r5">>]),
   Citing({"low_confidence", "pressure_access", "restrictive_market"},
     [NoRefs EXCEPT !["valuations"] = <<"r2", "r3">>, !["firm_states"] = <<"r2", "r1", "r5">>,
                    !["dialogues"] = <<"r4">>])}

(* No definition tells two actors apart. *)
Interchangeable == Permutations(Actors)
=============================================================================
