------------------------------ MODULE Topology ------------------------------
(***************************************************************************)
(* The arrangement of ranks that every communicator is built from          *)
(* (topology.cc): five axes, mixed-radix rank numbers, one process group   *)
(* per axis, and the layers of a model split over the pipeline stages.     *)
(* It has no state: an arrangement p is a value, the ParallelDims of the   *)
(* code, and a rank's coordinates are the *_rank fields of its             *)
(* ParallelRankInfo.                                                       *)
(***************************************************************************)
EXTENDS Integers

Axes == {"data", "pipeline", "context", "tensor", "expert"}

(* A ParallelDims that Topology::validate lets pass: sizes are positive    *)
(* and sequence parallelism divides a tensor group.                        *)
IsDims(p) ==
    /\ p \in [data : Nat \ {0}, pipeline : Nat \ {0}, context : Nat \ {0},
              tensor : Nat \ {0}, expert : Nat \ {0}, sequence : Nat \ {0}]
    /\ p.sequence <= p.tensor
    /\ p.tensor % p.sequence = 0

Elements(s) == {s[i] : i \in DOMAIN s}
Increasing(s) == \A i, j \in DOMAIN s : i < j => s[i] < s[j]

World(p) == p.data * p.pipeline * p.context * p.tensor * p.expert
Ranks(p) == 0..(World(p) - 1)

(* The rest of validate, for a whole ClusterSpec.                          *)
Valid(spec) ==
    /\ IsDims(spec.parallel)
    /\ spec.world_size = World(spec.parallel)
    /\ spec.rank \in 0..(spec.world_size - 1)
    /\ spec.local_rank \in 0..(spec.local_world_size - 1)
    /\ spec.local_world_size <= spec.gpus_per_node
    /\ spec.parallel.tensor <= spec.gpus_per_node
    /\ spec.parallel.pipeline > 1 => spec.micro_batches >= spec.parallel.pipeline

Coords(p) == [data : 0..(p.data - 1), pipeline : 0..(p.pipeline - 1),
              context : 0..(p.context - 1), tensor : 0..(p.tensor - 1),
              expert : 0..(p.expert - 1)]

GlobalRank(p, c) ==
    ((((c.data * p.pipeline) + c.pipeline) * p.context + c.context) * p.tensor + c.tensor)
        * p.expert + c.expert

(* Mutant: the context digit taken before the tensor digit.                *)
Coordinates_swapped(p, rank) ==
    LET tensors == rank \div p.expert
        contexts == tensors \div p.context
        stages == contexts \div p.tensor
    IN  [data |-> stages \div p.pipeline, pipeline |-> stages % p.pipeline,
         context |-> tensors % p.context, tensor |-> contexts % p.tensor,
         expert |-> rank % p.expert]

(* rank_info: what remains after each division counts tensor, context and  *)
(* pipeline positions.                                                     *)
Coordinates(p, rank) ==
    LET tensors == rank \div p.expert
        contexts == tensors \div p.tensor
        stages == contexts \div p.context
    IN  [data |-> stages \div p.pipeline, pipeline |-> stages % p.pipeline,
         context |-> contexts % p.context, tensor |-> tensors % p.tensor,
         expert |-> rank % p.expert]

SequenceRank(p, c) == c.tensor % p.sequence

(* Mutant: the overload of global_rank without an expert rank.             *)
Group_expertZero(p, c, axis) ==
    [i \in 1..p[axis] |->
        GlobalRank(p, [[c EXCEPT !.expert = 0] EXCEPT ![axis] = i - 1])]

(* data_group, tensor_group, ...: the ranks along one axis, in order.      *)
Group(p, c, axis) == [i \in 1..p[axis] |-> GlobalRank(p, [c EXCEPT ![axis] = i - 1])]

SequenceGroup(p, c) ==
    LET begin == (c.tensor \div p.sequence) * p.sequence
    IN  [i \in 1..p.sequence |-> GlobalRank(p, [c EXCEPT !.tensor = begin + i - 1])]

(* The model group: the counters of its four nested loops run as the      *)
(* coordinates of an arrangement with one data rank.                       *)
ModelSize(p) == p.pipeline * p.context * p.tensor * p.expert
ModelGroup(p, c) ==
    [i \in 1..ModelSize(p) |->
        GlobalRank(p, [Coordinates([p EXCEPT !.data = 1], i - 1) EXCEPT !.data = c.data])]

(* model_parallel_rank, the rank the trainer takes in the communicator of  *)
(* its model group.                                                        *)
ModelRank(p, c) ==
    ((c.pipeline * p.context + c.context) * p.tensor + c.tensor) * p.expert + c.expert

(* Mutant: the first stages do not take the remainder.                     *)
LayerRange_noRemainder(p, layers, stage) ==
    LET base == layers \div p.pipeline
    IN  [begin |-> stage * base, end |-> stage * base + base]

(* pipeline_layer_range: layers begin .. end - 1.                          *)
LayerRange(p, layers, stage) ==
    LET base == layers \div p.pipeline
        rem == layers % p.pipeline
        begin == stage * base + (IF stage <= rem THEN stage ELSE rem)
    IN  [begin |-> begin, end |-> begin + base + (IF stage < rem THEN 1 ELSE 0)]

NoRank == -1

PipelinePeers(p, c) ==
    [previous |-> IF c.pipeline = 0 THEN NoRank
                  ELSE GlobalRank(p, [c EXCEPT !.pipeline = c.pipeline - 1]),
     next |-> IF c.pipeline + 1 = p.pipeline THEN NoRank
              ELSE GlobalRank(p, [c EXCEPT !.pipeline = c.pipeline + 1])]
=============================================================================
