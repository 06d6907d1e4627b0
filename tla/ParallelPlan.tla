---------------------------- MODULE ParallelPlan ----------------------------
(***************************************************************************)
(* The planning tool (cverl_parallel_plan.cc --all-ranks): it goes through *)
(* the ranks of an arrangement and reports, for each, its coordinates, its *)
(* groups, its pipeline neighbours and its layers.  Every process of a     *)
(* training job works these out for itself; the properties say that what   *)
(* they work out fits together.                                            *)
(***************************************************************************)
EXTENDS Topology, Sequences

CONSTANTS
    MaxAxis,    \* bound on the size of an axis
    MaxWorld,   \* bound on the number of ranks
    MaxLayers   \* bound on num_layers

ASSUME PlanAssumption == {MaxAxis, MaxWorld, MaxLayers} \subseteq Nat

VARIABLES
    spec,    \* ClusterSpec
    layers,  \* num_layers
    rank     \* the loop's rank, world_size at its end

vars == <<spec, layers, rank>>

(* All processes on one node, and as many micro-batches as stages: the     *)
(* defaults once the sizes of the axes and WORLD_SIZE are given.           *)
Init ==
    /\ \E d, pp, cp, t, e, s \in 1..MaxAxis :
        LET dims == [data |-> d, pipeline |-> pp, context |-> cp,
                     tensor |-> t, expert |-> e, sequence |-> s]
        IN  /\ World(dims) <= MaxWorld
            /\ spec = [parallel |-> dims, world_size |-> World(dims), rank |-> 0,
                       local_rank |-> 0, local_world_size |-> World(dims),
                       gpus_per_node |-> World(dims), micro_batches |-> pp]
    /\ Valid(spec)
    /\ layers \in 0..MaxLayers
    /\ rank = 0

PlanRank ==
    /\ rank < spec.world_size
    /\ rank' = rank + 1
    /\ UNCHANGED <<spec, layers>>

Next == PlanRank
Spec == Init /\ [][Next]_vars

P == spec.parallel
Info(r) == Coordinates(P, r)

-----------------------------------------------------------------------------
(* Properties of the rank being reported                                   *)

(* Rank numbers and coordinates are one-to-one, in the order in which the  *)
(* expert axis runs fastest and the data axis slowest (topology.cc 94-138, *)
(* docs/distributed-runtime.md:26).                                        *)
AxisOrder == <<"data", "pipeline", "context", "tensor", "expert">>
Precedes(a, b) ==
    \E i \in 1..5 : /\ a[AxisOrder[i]] < b[AxisOrder[i]]
                    /\ \A j \in 1..(i - 1) : a[AxisOrder[j]] = b[AxisOrder[j]]
RankNumbering ==
    rank < spec.world_size =>
        /\ Info(rank) \in Coords(P)
        /\ GlobalRank(P, Info(rank)) = rank
        /\ \A q \in Ranks(P) : q < rank => Precedes(Info(q), Info(rank))

(* A group is the ranks that differ from this one on its axis only, in     *)
(* increasing order, and a rank's coordinate is its place in the group     *)
(* (topology.cc 140-154).  So all members of a group list the same group,  *)
(* and the groups of an axis partition the ranks.                          *)
Along(r, axis) ==
    {q \in Ranks(P) : \A a \in Axes \ {axis} : Info(q)[a] = Info(r)[a]}
GroupsAreClasses ==
    rank < spec.world_size =>
        \A axis \in Axes :
            LET g == Group(P, Info(rank), axis)
            IN  /\ Elements(g) = Along(rank, axis)
                /\ Increasing(g)
                /\ g[Info(rank)[axis] + 1] = rank

(* A sequence group is a block of its tensor group, the same for all its   *)
(* members, and the sequence rank is the place in it (topology.cc 155-158).*)
SequenceBlocks ==
    rank < spec.world_size =>
        LET g == SequenceGroup(P, Info(rank))
        IN  /\ Elements(g) \subseteq Elements(Group(P, Info(rank), "tensor"))
            /\ Increasing(g)
            /\ g[SequenceRank(P, Info(rank)) + 1] = rank
            /\ \A q \in Elements(g) : SequenceGroup(P, Info(q)) = g

(* The model groups split the ranks by data rank, in increasing order, and *)
(* the rank the trainer takes in the communicator of its model group is    *)
(* its place in the group (topology.cc 159-168, the trainer's              *)
(* model_parallel_rank).                                                   *)
ReplicasSplit ==
    rank < spec.world_size =>
        LET g == ModelGroup(P, Info(rank))
        IN  /\ Elements(g) = {q \in Ranks(P) : Info(q).data = Info(rank).data}
            /\ Increasing(g)
            /\ g[ModelRank(P, Info(rank)) + 1] = rank

(* The layer ranges of the stages follow one another from the first layer  *)
(* to the last, and no stage has two layers more than another (topology.cc *)
(* 171-184).                                                               *)
LayersSplit ==
    rank < spec.world_size =>
        LET stage == Info(rank).pipeline
            mine == LayerRange(P, layers, stage)
            Size(s) == LayerRange(P, layers, s).end - LayerRange(P, layers, s).begin
        IN  /\ mine.begin = IF stage = 0 THEN 0 ELSE LayerRange(P, layers, stage - 1).end
            /\ stage = P.pipeline - 1 => mine.end = layers
            /\ \A s \in 0..(P.pipeline - 1) : Size(stage) - Size(s) \in {-1, 0, 1}

(* The next stage's previous rank is this one, and the neighbours of a     *)
(* rank are the ranks before and after it in its pipeline group, so that   *)
(* their sends and receives meet (pipeline.cc 8-22).                       *)
PeersMeet ==
    rank < spec.world_size =>
        LET peers == PipelinePeers(P, Info(rank))
            group == Group(P, Info(rank), "pipeline")
            at == Info(rank).pipeline + 1
        IN  /\ peers.next = IF at = Len(group) THEN NoRank ELSE group[at + 1]
            /\ peers.previous = IF at = 1 THEN NoRank ELSE group[at - 1]
            /\ peers.next # NoRank => PipelinePeers(P, Info(peers.next)).previous = rank

=============================================================================
