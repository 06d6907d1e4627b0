----------------------------- MODULE TrainStep -----------------------------
(***************************************************************************)
(* What happens to gradients and parameters in an optimizer step of the    *)
(* PP/TP trainer, after the pipeline has run: every rank synchronises its  *)
(* gradients with its context, tensor, expert and data groups, agrees on a *)
(* global norm, updates the parameters it is responsible for, and shares   *)
(* them with its data group.                                               *)
(*                                                                         *)
(* A gradient is what it is the gradient of and whose local gradients went *)
(* into it: [at, from, div] is the sum of from[q] times rank q's local     *)
(* gradient of element at, divided by div.  A parameter element is the     *)
(* sequence of the updates applied to it.                                  *)
(***************************************************************************)
EXTENDS Topology, GradBuckets, FlatShard

CONSTANTS
    Arrangements,   \* the ParallelDims explored
    Modes,          \* how the optimizer is divided: "full", "owner", "flat"
    BucketSizes,    \* bucket sizes, in elements
    Size,           \* elements of a rank's part of a parameter, by class
    MaxSteps        \* bound on the number of steps

ASSUME TrainAssumption ==
    /\ \A p \in Arrangements : IsDims(p)
    /\ Modes \subseteq {"full", "owner", "flat"}
    /\ BucketSizes \subseteq Nat \ {0}
    /\ Size \in [{"embed", "norm", "proj", "expert"} -> Nat \ {0}]
    /\ MaxSteps \in Nat \ {0}

VARIABLES
    config,  \* [dims, mode, bucket, skip, moe, routed]: fixed by the command line
    local,   \* [info, group, names, owner] of every rank: computed before the loop
    params,  \* params[r][n]: the parameter n of rank r
    grads,   \* grads[r][n]: its gradient, <<>> when undefined
    shard,   \* flat_param_shard.shard (mode "flat")
    gshard,  \* flat_grad.shard as far as it has been reduced
    norm,    \* global_grad_norm
    phase,   \* where rank r is in the step
    queue,   \* the collectives r still has to issue in this phase
    step,    \* the trainer's loop variable, from 1
    bad      \* ranks met in a collective with different arguments

vars == <<config, local, params, grads, shard, gshard, norm, phase, queue, step, bad>>

P == config.dims
RanksHere == Ranks(P)
Info(r) == local[r].info
Position(r, g) == CHOOSE i \in DOMAIN g : g[i] = r
GroupOf(r, axis) == local[r].group[axis]
Members(g) == {g[i] : i \in DOMAIN g}
Index(r, axis) == Info(r)[axis]

-----------------------------------------------------------------------------
(* The parameters of a rank, one of each class, in the order of            *)
(* stage_required_weight_names.  A layer has a projection that tensor      *)
(* parallelism shards, a norm that it replicates, and, in a mixture of     *)
(* experts, the packed experts of the rank.  A dense model's embedding is  *)
(* on the first stage, and on the last stage as the lm head.               *)

Moe(c) == c.dims.expert > 1 \/ c.moe
HasEmbed(c, info) ==
    info.pipeline = 0 \/ (~Moe(c) /\ info.pipeline = c.dims.pipeline - 1)
StageNames(c, info) ==
    (IF HasEmbed(c, info) THEN <<"embed">> ELSE <<>>) \o <<"norm", "proj">>
        \o (IF Moe(c) THEN <<"expert">> ELSE <<>>)

Names(r) == local[r].names
NumelsOf(names) == [i \in DOMAIN names |-> Size[names[i]]]
Numels(r) == NumelsOf(Names(r))
Numel(r) == NumelOf(Numels(r))

(* What a rank works out before the loop, from the command line alone.     *)
Local(c, r) ==
    LET info == Coordinates(c.dims, r)
        names == StageNames(c, info)
    IN  [info |-> info,
         group |-> [axis \in Axes \cup {"model", "full"} |->
                      CASE axis = "model" -> ModelGroup(c.dims, info)
                        [] axis = "full"  -> [i \in 1..World(c.dims) |-> i - 1]
                        [] OTHER          -> Group(c.dims, info, axis)],
         names |-> names,
         owner |-> GreedyOwner(NumelsOf(names), c.dims.data)]

TpReplicated == {"norm"}
EpReplicated == {"embed", "norm", "proj"}

(* The names of a list that are wanted, in its order.                      *)
Among(names, wanted) ==
    LET kept[i \in 0..Len(names)] ==
            IF i = 0 THEN <<>>
            ELSE IF names[i] \in wanted THEN Append(kept[i - 1], names[i])
            ELSE kept[i - 1]
    IN  kept[Len(names)]

(* The axes along which ranks hold different parts of a parameter.         *)
SplitAlong(n) ==
    CASE n = "embed"  -> {"tensor"}
      [] n = "norm"   -> {"pipeline"}
      [] n = "proj"   -> {"pipeline", "tensor"}
      [] n = "expert" -> {"pipeline", "tensor", "expert"}
Holds(r, n) == n \in Members(Names(r))
SameSlice(q, r, n) ==
    Holds(q, n) /\ Holds(r, n) /\ \A a \in SplitAlong(n) : Info(q)[a] = Info(r)[a]

Sized(names) ==
    [i \in DOMAIN names |-> [name |-> names[i], size |-> Size[names[i]], kind |-> "bf16"]]

-----------------------------------------------------------------------------
(* Gradients                                                               *)

Nobody == [q \in RanksHere |-> 0]
ZeroGrad == [at |-> <<"none", 0>>, from |-> Nobody, div |-> 1]
Mixed == [at |-> <<"mixed", 0>>, from |-> Nobody, div |-> 1]

(* What a parameter element is before any update, and what padding is.     *)
Loaded(n, i) == [grad |-> [ZeroGrad EXCEPT !.at = <<n, i>>], norm |-> 0]
Padding == [grad |-> ZeroGrad, norm |-> 0]

(* How often the local gradient of rank q went into the values.            *)
TimesIn(values, q) ==
    LET upTo[i \in 0..Len(values)] ==
            IF i = 0 THEN 0 ELSE upTo[i - 1] + values[i].from[q]
    IN  upTo[Len(values)]

(* An all_reduce of one element: op is "sum" or "mean" over n ranks.       *)
Reduced(op, values) ==
    LET real == {i \in DOMAIN values : values[i].at # ZeroGrad.at}
        first == values[CHOOSE i \in real : TRUE]
    IN  IF real = {} THEN ZeroGrad
        ELSE IF \E i \in real : values[i].at # first.at \/ values[i].div # first.div
          THEN Mixed
        ELSE [at |-> first.at,
              from |-> [q \in RanksHere |-> TimesIn(values, q)],
              div |-> IF op = "mean" THEN first.div * Len(values) ELSE first.div]

Defined(r) == Among(Names(r), {n \in DOMAIN grads[r] : grads[r][n] # <<>>})

(* The gradients laid end to end: a missing one counts as zeros.           *)
FlatGrads(r) ==
    FlattenSeq([i \in DOMAIN Names(r) |->
        IF grads[r][Names(r)[i]] = <<>>
          THEN [j \in 1..Size[Names(r)[i]] |-> ZeroGrad]
          ELSE grads[r][Names(r)[i]]])
FlatParams(r) == FlattenSeq([i \in DOMAIN Names(r) |-> params[r][Names(r)[i]]])

(* What the local backward gives rank r: its own tokens reach its own      *)
(* parameters, and the experts of all the ranks of its expert group; an    *)
(* expert no token was routed to has no gradient.  zero_model_gradients    *)
(* keeps a gradient that is already defined.                               *)
Sources(r, n) == IF n = "expert" THEN Members(GroupOf(r, "expert")) ELSE {r}
Routed(r, n) == n = "expert" => Info(r).data \in config.routed[step[r]]
LocalGrad(r, n) ==
    IF Routed(r, n)
      THEN [i \in 1..Size[n] |->
              [at |-> <<n, i>>, div |-> 1,
               from |-> [q \in RanksHere |-> IF q \in Sources(r, n) THEN 1 ELSE 0]]]
    ELSE [i \in DOMAIN grads[r][n] |-> ZeroGrad]

-----------------------------------------------------------------------------
(* The collectives of a phase, as a rank works them out for itself.        *)

Call(comm, kind, data, size) ==
    [comm |-> comm, kind |-> kind, data |-> data, size |-> size]

(* data_parallel_sync_gradients: nothing in a group of one; parameters     *)
(* without a gradient are passed over.                                     *)
SyncCalls(sending, comm, op) ==
    LET cuts == Buckets(Sized(sending), config.bucket)
    IN  IF P[comm] = 1 THEN <<>>
        ELSE [i \in DOMAIN cuts |-> Call(comm, op, cuts[i], BucketSize(cuts[i]))]

(* The loops of reduce_scatter_flat_gradient_shard_bucketed and of         *)
(* all_gather_apply_flat_parameter_shard_bucketed.                         *)
ShardCalls(names, kind) ==
    LET dp == P.data
        pieces == Pieces(ShardSize(NumelOf(NumelsOf(names)), dp), ShardBucket(config.bucket, dp))
    IN  [i \in DOMAIN pieces |-> Call("data", kind, pieces[i], dp * pieces[i].numel)]

(* broadcast_dp_sharded_optimizer_parameters: the parameters of one owner  *)
(* after those of another.                                                 *)
ShareCalls(r) ==
    LET OfOwner(q) ==
            LET owned == {Names(r)[i] : i \in OwnedBy(local[r].owner, q)}
                cuts == Buckets(Sized(Among(Names(r), owned)), config.bucket)
            IN  [i \in DOMAIN cuts |->
                    Call("data", "broadcast", [root |-> q, bucket |-> cuts[i]],
                         BucketSize(cuts[i]))]
    IN  IF P.data = 1 THEN <<>>
        ELSE FlattenSeq([i \in 1..P.data |-> OfOwner(i - 1)])

(* Mutant: the norm over the ranks of the data group.                      *)
NormComm_data == "data"

(* The norm is over all ranks when they hold disjoint shards, otherwise    *)
(* over the ranks of one replica.                                          *)
NormComm == IF config.mode = "flat" THEN "full" ELSE "model"

(* Mutant: the flat vector is made of the gradients that are there.        *)
GradCalls_definedOnly(r, defined) ==
    SyncCalls(defined, "context", "sum")
    \o SyncCalls(Among(defined, TpReplicated), "tensor", "mean")
    \o SyncCalls(Among(defined, EpReplicated), "expert", "mean")
    \o (IF config.mode = "flat" THEN ShardCalls(defined, "scatter")
        ELSE SyncCalls(defined, "data", "mean"))
    \o <<Call(NormComm, "norm", <<>>, 1)>>

(* From the end of the backward passes to the global norm.                 *)
GradCalls(r, defined) ==
    SyncCalls(defined, "context", "sum")
    \o SyncCalls(Among(defined, TpReplicated), "tensor", "mean")
    \o SyncCalls(Among(defined, EpReplicated), "expert", "mean")
    \o (IF config.mode = "flat" THEN ShardCalls(Names(r), "scatter")
        ELSE SyncCalls(defined, "data", "mean"))
    \o <<Call(NormComm, "norm", <<>>, 1)>>

(* After the update, when it was not skipped.                              *)
ParamCalls(r) ==
    IF config.skip \/ config.mode = "full" THEN <<>>
    ELSE IF config.mode = "flat" THEN ShardCalls(Names(r), "gather")
    ELSE ShareCalls(r)

-----------------------------------------------------------------------------

(* The data ranks there may be.                                            *)
DataRanks == UNION {0..(p.data - 1) : p \in Arrangements}

(* The command lines the trainer accepts: context parallelism goes without *)
(* tensor parallelism, expert parallelism with a mixture of experts.  Not  *)
(* every expert is routed to in every step; without the flat optimizer the *)
(* model assumes that the data ranks agree about which are.                *)
Configs ==
    {c \in [dims : Arrangements, mode : Modes, bucket : BucketSizes, skip : BOOLEAN,
            moe : BOOLEAN, routed : [1..MaxSteps -> SUBSET DataRanks]] :
        /\ c.dims.context > 1 => c.dims.tensor = 1
        /\ c.dims.expert > 1 => c.moe
        /\ LET all == 0..(c.dims.data - 1)
           IN  \A s \in 1..MaxSteps :
                /\ c.routed[s] \subseteq all
                /\ ~c.moe => c.routed[s] = all
                /\ c.mode # "flat" => c.routed[s] \in {{}, all}}

Init ==
    /\ config \in Configs
    /\ local = [r \in RanksHere |-> Local(config, r)]
    /\ params = [r \in RanksHere |-> [n \in Members(Names(r)) |->
                    [i \in 1..Size[n] |-> <<Loaded(n, i)>>]]]
    /\ grads = [r \in RanksHere |-> [n \in Members(Names(r)) |-> <<>>]]
    /\ shard = [r \in RanksHere |->
                    GatherShard([i \in DOMAIN Names(r) |-> params[r][Names(r)[i]]],
                                ShardRanges(Numels(r), P.data, Index(r, "data")),
                                ShardSize(Numel(r), P.data), <<Padding>>)]
    /\ gshard = [r \in RanksHere |-> <<>>]
    /\ norm = [r \in RanksHere |-> 0]
    /\ phase = [r \in RanksHere |-> "share"]
    /\ queue = [r \in RanksHere |-> <<>>]
    /\ step = [r \in RanksHere |-> 0]
    /\ bad = FALSE

AllDone == \A r \in RanksHere : phase[r] = "share" /\ queue[r] = <<>>

(* The barrier at the head of the loop.                                    *)
StartStep ==
    /\ AllDone
    /\ \A r \in RanksHere : step[r] < MaxSteps
    /\ step' = [r \in RanksHere |-> step[r] + 1]
    /\ phase' = [r \in RanksHere |-> "backward"]
    /\ gshard' = [r \in RanksHere |-> <<>>]
    /\ UNCHANGED <<config, local, params, grads, shard, norm, queue, bad>>

(* Forward and backward of all the micro-batches (Pipeline1F1B): the       *)
(* gradients of the rank's tokens are complete.                            *)
Backward(r) ==
    /\ phase[r] = "backward"
    /\ UNCHANGED <<config, local, params, shard, gshard, norm, step, bad>>
    /\ grads' = [grads EXCEPT ![r] = [n \in DOMAIN @ |-> LocalGrad(r, n)]]
    /\ phase' = [phase EXCEPT ![r] = "sync"]
    /\ \E defined \in {Defined(r)'} : queue' = [queue EXCEPT ![r] = GradCalls(r, defined)]

(* What the optimizer of rank r is responsible for: FlatAdamW for the      *)
(* shard, Fp32MasterAdamW for parameters that have a gradient.             *)
Updated(values, gradients, n) ==
    [i \in DOMAIN values |-> Append(values[i], [grad |-> gradients[i], norm |-> n])]
Mine(r) ==
    IF config.mode = "owner"
      THEN {Names(r)[i] : i \in OwnedBy(local[r].owner, Index(r, "data"))}
      ELSE Members(Names(r))
Cleared(r) == [n \in DOMAIN grads[r] |-> <<>>]

Update(r) ==
    /\ phase[r] = "sync"
    /\ queue[r] = <<>>
    /\ IF config.mode = "flat"
         THEN /\ grads' = [grads EXCEPT ![r] = Cleared(r)]
              /\ shard' = IF config.skip THEN shard
                          ELSE [shard EXCEPT ![r] = Updated(@, gshard[r], norm[r])]
              /\ UNCHANGED params
         ELSE /\ params' = IF config.skip THEN params
                           ELSE [params EXCEPT ![r] =
                                    [n \in DOMAIN @ |->
                                        IF n \in Mine(r) /\ grads[r][n] # <<>>
                                          THEN Updated(@[n], grads[r][n], norm[r])
                                          ELSE @[n]]]
              /\ UNCHANGED <<grads, shard>>
    /\ phase' = [phase EXCEPT ![r] = "share"]
    /\ queue' = [queue EXCEPT ![r] = ParamCalls(r)]
    /\ UNCHANGED <<config, local, gshard, norm, step, bad>>

-----------------------------------------------------------------------------
(* The collectives.  Each happens when all ranks of a communicator have    *)
(* come to one; what they then do is given by what each brought.           *)

Now(r) == Head(queue[r])
Ready(g, comm) == \A r \in Members(g) : queue[r] # <<>> /\ Now(r).comm = comm
Alike(g) == \A q, r \in Members(g) : Now(q).kind = Now(r).kind /\ Now(q).size = Now(r).size
Popped(g) == [r \in RanksHere |-> IF r \in Members(g) THEN Tail(queue[r]) ELSE queue[r]]

(* A bucket's gradients are laid end to end, reduced, and copied back.     *)
AllReduce(g, op) ==
    \E sent \in {[i \in DOMAIN g |-> FlattenBucket(Now(g[i]).data, grads[g[i]])]} :
    \E result \in {[j \in 1..Now(g[1]).size |->
                        Reduced(op, [i \in DOMAIN g |-> sent[i][j]])]} :
        /\ grads' = [r \in RanksHere |->
                        IF r \in Members(g) THEN Unflatten(Now(r).data, result, grads[r])
                        ELSE grads[r]]
        /\ UNCHANGED <<params, shard, gshard, norm>>

(* Rank k's segment of every rank's input, averaged, goes to rank k.       *)
ReduceScatter(g) ==
    LET dp == Len(g)
        Segment(flat, r, k) == FlatRange(flat, PieceOfRank(Numel(r), dp, k, Now(r).data),
                                         Now(r).data.numel, ZeroGrad)
    IN  \E flat \in {[i \in DOMAIN g |-> FlatGrads(g[i])]} :
        \E sent \in {[i \in DOMAIN g |->
                        [k \in 0..(dp - 1) |-> Segment(flat[i], g[i], k)]]} :
            /\ gshard' = [r \in RanksHere |->
                            IF r \notin Members(g) THEN gshard[r]
                            ELSE gshard[r] \o
                                 [j \in 1..Now(r).data.numel |->
                                    Reduced("mean", [i \in DOMAIN g |->
                                                        sent[i][Index(r, "data")][j]])]]
            /\ UNCHANGED <<params, grads, shard, norm>>

Magnitude(values) ==
    FoldLeft(LAMBDA n, v : n + FoldSet(LAMBDA q, m : m + v.from[q] * (q + 1), 0, DOMAIN v.from),
             0, values)
LocalNorm(r) ==
    IF config.mode = "flat" THEN Magnitude(gshard[r])
    ELSE Magnitude(FlattenSeq([i \in DOMAIN Defined(r) |-> grads[r][Defined(r)[i]]]))

ReduceNorm(g) ==
    \E total \in {NumelOf([i \in DOMAIN g |-> LocalNorm(g[i])])} :
        /\ norm' = [r \in RanksHere |-> IF r \in Members(g) THEN total ELSE norm[r]]
        /\ UNCHANGED <<params, grads, shard, gshard>>

Assign(r, flat) ==
    [n \in DOMAIN params[r] |->
        LET i == CHOOSE j \in DOMAIN Names(r) : Names(r)[j] = n
            begin == TensorBegin(Numels(r), i)
        IN  SubSeq(flat, begin + 1, begin + Size[n])]

(* Every rank's piece is written over the parameters of every rank.        *)
AllGather(g) ==
    LET dp == Len(g)
        Piece(r) == SubSeq(shard[r], Now(r).data.offset + 1, Now(r).data.offset + Now(r).data.numel)
        Written(r, flat, pieces) ==
            ApplyRanges(flat, [i \in DOMAIN g |-> PieceOfRank(Numel(r), dp, i - 1, Now(r).data)],
                        pieces)
    IN  \E pieces \in {[i \in DOMAIN g |-> Piece(g[i])]} :
        \E flat \in {[i \in DOMAIN g |-> FlatParams(g[i])]} :
        \E written \in {[i \in DOMAIN g |-> Written(g[i], flat[i], pieces)]} :
            /\ params' = [r \in RanksHere |->
                            IF r \in Members(g) THEN Assign(r, written[Position(r, g)])
                            ELSE params[r]]
            /\ UNCHANGED <<grads, shard, gshard, norm>>

Broadcast(g) ==
    LET root == g[Now(g[1]).data.root + 1]
        sent == FlattenBucket(Now(root).data.bucket, params[root])
    IN  /\ params' = [r \in RanksHere |->
                        IF r \in Members(g)
                          THEN Unflatten(Now(r).data.bucket, sent, params[r])
                        ELSE params[r]]
        /\ UNCHANGED <<grads, shard, gshard, norm>>

Collective(comm, g) ==
    /\ ~bad
    /\ Ready(g, comm)
    /\ IF Alike(g)
         THEN /\ queue' = Popped(g)
              /\ UNCHANGED bad
              /\ CASE Now(g[1]).kind \in {"sum", "mean"} -> AllReduce(g, Now(g[1]).kind)
                   [] Now(g[1]).kind = "scatter"   -> ReduceScatter(g)
                   [] Now(g[1]).kind = "norm"      -> ReduceNorm(g)
                   [] Now(g[1]).kind = "gather"    -> AllGather(g)
                   [] Now(g[1]).kind = "broadcast" -> Broadcast(g)
         ELSE /\ bad' = TRUE
              /\ UNCHANGED <<params, grads, shard, gshard, norm, queue>>
    /\ UNCHANGED <<config, local, phase, step>>

Comms == {"context", "tensor", "expert", "data", "model", "full"}

(* The loop has ended.                                                     *)
Finished ==
    /\ AllDone
    /\ \A r \in RanksHere : step[r] = MaxSteps
    /\ UNCHANGED vars

Next ==
    \/ StartStep
    \/ \E r \in RanksHere : Backward(r) \/ Update(r)
    \/ \E comm \in Comms : \E g \in {GroupOf(r, comm) : r \in RanksHere} :
            Collective(comm, g)
    \/ Finished

Spec == Init /\ [][Next]_vars

-----------------------------------------------------------------------------
(* Properties                                                              *)

(* The ranks that meet in a collective bring the same operation and the    *)
(* same number of elements, although every rank cuts its buckets and its   *)
(* pieces on its own (parallel_ops.cc 248-285, optimizer_sharding.cc       *)
(* 571-601): also when experts have gradients on some data ranks only, as  *)
(* long as the optimizer is the flat one.                                  *)
CollectivesMatch == ~bad

(* After a step all ranks that hold the same part of a parameter have      *)
(* applied the same updates to it: the same gradients, clipped by the same *)
(* norm (the trainer 2426-2546).  Nothing compares the copies at run time. *)
(* The embedding of the first stage and its copy on the last one are two   *)
(* parameters: no collective joins them, and they do differ.               *)
SameStage(q, r) == Info(q).pipeline = Info(r).pipeline
ReplicasAgree ==
    AllDone =>
        \A q, r \in RanksHere : \A n \in Members(Names(r)) :
            SameSlice(q, r, n) /\ (n = "embed" => SameStage(q, r))
                => params[q][n] = params[r][n]

(* Every element gets one update a step, and it is made of the local       *)
(* gradient of every rank whose tokens reach it, each exactly once,        *)
(* averaged over the data ranks, and over the tensor and expert ranks that *)
(* replicate it.                                                           *)
Reaching(r, n) ==
    UNION {Sources(q, n) : q \in {h \in RanksHere : /\ SameSlice(h, r, n)
                                                    /\ n = "embed" => SameStage(h, r)
                                                    /\ Routed(h, n)}}
Divisor(n) ==
    P.data * (IF n \in TpReplicated THEN P.tensor ELSE 1)
           * (IF n \in EpReplicated THEN P.expert ELSE 1)
StepsOf(r, n) ==
    {s \in 1..step[r] : \/ config.mode = "flat"
                        \/ n # "expert"
                        \/ \E t \in 1..s : config.routed[t] # {}}
EveryGradientOnce ==
    AllDone /\ ~config.skip =>
        \A r \in RanksHere : \A n \in Members(Names(r)) : \A i \in 1..Size[n] :
            LET h == params[r][n][i]
                last == h[Len(h)].grad
            IN  /\ h[1] = Loaded(n, i)
                /\ Len(h) = 1 + Cardinality(StepsOf(r, n))
                /\ step[r] > 0 /\ Reaching(r, n) # {} =>
                    /\ last.at = <<n, i>>
                    /\ last.div = Divisor(n)
                    /\ last.from = [q \in RanksHere |-> IF q \in Reaching(r, n) THEN 1 ELSE 0]
=============================================================================
