--------------------------- MODULE MCParallelPlan ---------------------------
(* TLC instance of ParallelPlan and ModelParallel: what every rank works   *)
(* out for itself, its place among the ranks and its part of a layer.  A   *)
(* behaviour is an arrangement the planning tool goes through or one input *)
(* of a layer.                                                             *)
(*                                                                         *)
(* Axes of up to four ranks and a world of up to twelve make arrangements  *)
(* with three axes at work, sequence groups of a part and of the whole of  *)
(* a tensor group, and stages that share layers evenly, unevenly, and with *)
(* none for some.  Context groups of two and of three ranks, one of them   *)
(* not in the order of the numbers, make a ring in which behind and in     *)
(* front differ; sequences of up to five tokens leave shards full, part    *)
(* padding and all padding.  Tensor groups of up to three ranks cut layers *)
(* of up to six heads, columns or token ids, evenly or not; models of up   *)
(* to three layers of each kind lie on up to three stages.                 *)
EXTENDS ParallelPlan, ModelParallel

MCCpGroups == {<<0, 1>>, <<5, 2, 9>>}

MCInit ==
    \/ Init /\ input = NoInput
    \/ /\ CaseInit
       /\ spec = [world_size |-> 0] /\ layers = 0 /\ rank = 0
MCNext == PlanRank /\ UNCHANGED input
MCSpec == MCInit /\ [][MCNext]_<<vars, input>>
=============================================================================
