--------------------------- MODULE TensorParallel ---------------------------
(***************************************************************************)
(* The layers of the model over a tensor group (qwen3_5_text.cc, the       *)
(* sharding of the weights in the trainer): every rank computes with its   *)
(* rows of the projections into a layer and its columns of the projection  *)
(* out of it, and the partial results are added.                           *)
(*                                                                         *)
(* A weight is the sequence of its rows, or columns, along the dimension   *)
(* it is cut on; an entry names itself, <<weight, index>>.  A product is   *)
(* the sequence of the entries that meet in it, and a result the bag of    *)
(* its products.  A case c gives tp, whether the ranks were given their    *)
(* shards or whole weights, and the sizes of the layer.                    *)
(***************************************************************************)
EXTENDS Integers, Sequences, FiniteSets, Bags, SequencesExt

(* In the place of a tensor, or of the sums of a layer: the code throws.   *)
Throws == <<>>
Entries(name, n) == [i \in 1..n |-> <<name, i - 1>>]
Part(tensor, begin, n) == SubSeq(tensor, begin + 1, begin + n)

(* local_or_shard_dim: a tensor of local size is taken to be the shard.    *)
LocalOrShard(tensor, full, rank, tp) ==
    LET local == full \div tp
    IN  IF tp = 1 THEN tensor
        ELSE IF full % tp # 0 THEN Throws
        ELSE IF Len(tensor) = local THEN tensor
        ELSE IF Len(tensor) = full THEN Part(tensor, rank * local, local)
        ELSE Throws

(* shard_dim_if_needed, on the loader's side.                              *)
ShardIfNeeded(tensor, rank, tp) ==
    IF tp = 1 THEN tensor
    ELSE IF Len(tensor) % tp # 0 THEN Throws
    ELSE Part(tensor, rank * (Len(tensor) \div tp), Len(tensor) \div tp)

(* Mutant: the rows of q, k and v are cut as one block.                    *)
FusedShard_oneBlock(tensor, key_dim, value_dim, rank, tp) == ShardIfNeeded(tensor, rank, tp)

(* Queries, keys and values lie behind one another in one weight; a shard  *)
(* has a part of each.                                                     *)
FusedShard(tensor, key_dim, value_dim, rank, tp) ==
    LET key == key_dim \div tp
        value == value_dim \div tp
    IN  IF tp = 1 THEN tensor
        ELSE IF key_dim % tp # 0 \/ value_dim % tp # 0 THEN Throws
        ELSE Part(tensor, rank * key, key) \o Part(tensor, key_dim + rank * key, key)
                 \o Part(tensor, 2 * key_dim + rank * value, value)

Given(c, name, n, rank) ==
    IF c.sharded THEN ShardIfNeeded(Entries(name, n), rank, c.tp) ELSE Entries(name, n)
Weight(c, name, n, rank) ==
    LET given == Given(c, name, n, rank)
    IN  IF given = Throws THEN Throws ELSE LocalOrShard(given, n, rank, c.tp)

(* A view as n heads of d entries.                                         *)
View(tensor, n, d) ==
    IF tensor = Throws \/ Len(tensor) # n * d THEN Throws
    ELSE [i \in 1..n |-> Part(tensor, (i - 1) * d, d)]
Repeated(heads, times) == [i \in 1..(Len(heads) * times) |-> heads[((i - 1) \div times) + 1]]
AnyThrows(tensors) == \E i \in DOMAIN tensors : tensors[i] = Throws

-----------------------------------------------------------------------------
(* The partial result of a rank.  A product is listed by the column of the *)
(* outgoing projection it ends in.                                         *)

MlpPartial(c, rank) ==
    LET gate == Weight(c, "gate", c.intermediate, rank)
        up == Weight(c, "up", c.intermediate, rank)
        down == Weight(c, "down", c.intermediate, rank)
    IN  IF AnyThrows(<<gate, up, down>>) THEN Throws
        ELSE <<SetToBag({<<gate[i], up[i], down[i]>> : i \in DOMAIN gate})>>

(* A head has d rows of q and, behind them, d of the gate; a local key and *)
(* value head serves the local query heads in turn.                        *)
FullPartial(c, rank) ==
    LET heads == c.heads \div c.tp
        kvHeads == c.kvHeads \div c.tp
        qg == View(Weight(c, "q", c.heads * c.d * 2, rank), heads, 2 * c.d)
        k == View(Weight(c, "k", c.kvHeads * c.d, rank), kvHeads, c.d)
        v == View(Weight(c, "v", c.kvHeads * c.d, rank), kvHeads, c.d)
        o == Weight(c, "o", c.heads * c.d, rank)
        kv(i) == ((i - 1) \div (heads \div kvHeads)) + 1
        product(i, x) ==
            <<Part(qg[i], 0, c.d), Part(qg[i], c.d, c.d)[x], k[kv(i)], v[kv(i)][x],
              o[(i - 1) * c.d + x]>>
    IN  IF c.heads % c.tp # 0 \/ c.tp > c.kvHeads \/ AnyThrows(<<qg, k, v, o>>) THEN Throws
        ELSE <<SetToBag({product(i, x) : i \in 1..heads, x \in 1..c.d})>>

LinearPartial(c, rank) ==
    LET keyDim == c.keyHeads * c.d
        valueDim == c.valueHeads * c.d
        key == keyDim \div c.tp
        value == valueDim \div c.tp
        values == c.valueHeads \div c.tp
        fused(name) ==
            LET full == Entries(name, 2 * keyDim + valueDim)
                given == IF c.sharded THEN FusedShard(full, keyDim, valueDim, rank, c.tp) ELSE full
            IN  IF given = Throws THEN Throws
                ELSE IF Len(given) = 2 * key + value THEN given
                ELSE Part(full, rank * key, key) \o Part(full, keyDim + rank * key, key)
                         \o Part(full, 2 * keyDim + rank * value, value)
        times == c.valueHeads \div c.keyHeads
        qkv(name, begin, heads) == View(Part(fused(name), begin, heads * c.d), heads, c.d)
        query(name) == Repeated(qkv(name, 0, c.keyHeads \div c.tp), times)
        keys(name) == Repeated(qkv(name, key, c.keyHeads \div c.tp), times)
        vals(name) == qkv(name, 2 * key, values)
        z == View(Weight(c, "z", valueDim, rank), values, c.d)
        scalar == [name \in {"b", "a", "A_log", "dt_bias"} |->
                      Weight(c, name, c.valueHeads, rank)]
        out == Weight(c, "out", valueDim, rank)
        product(i, x) ==
            <<query("qkv")[i], query("conv")[i], keys("qkv")[i], keys("conv")[i],
              vals("qkv")[i][x], vals("conv")[i][x], z[i][x],
              scalar["b"][i], scalar["a"][i], scalar["A_log"][i], scalar["dt_bias"][i],
              out[(i - 1) * c.d + x]>>
    IN  IF \/ c.keyHeads % c.tp # 0
           \/ c.valueHeads % c.tp # 0
           \/ AnyThrows(<<fused("qkv"), z, out>>) \/ AnyThrows(scalar)
          THEN Throws
        ELSE <<SetToBag({product(i, x) : i \in 1..values, x \in 1..c.d})>>

(* Token ids outside a rank's rows are clamped to one of them and their    *)
(* row is multiplied by zero.                                              *)
Masked(c, rows, rank, id) ==
    LET vocab == c.vocab \div c.tp
        local == id - rank * vocab
        clamped == IF local < 0 THEN 0 ELSE IF local > vocab - 1 THEN vocab - 1 ELSE local
        row == SetToBag({rows[clamped + 1]})
    IN  IF local \in 0..(vocab - 1) THEN row ELSE EmptyBag

(* The row, or the logit, of every token id, and the sum of exponentials.  *)
VocabularyPartial(c, rank) ==
    LET rows == Weight(c, "embed", c.vocab, rank)
    IN  IF c.vocab % c.tp # 0 THEN Throws
        ELSE [i \in 1..c.vocab |-> Masked(c, rows, rank, i - 1)] \o <<SetToBag(ToSet(rows))>>

(* What a rank adds to each of the layer's sums.                           *)
Partials(c, rank) ==
    CASE c.layer = "mlp" -> MlpPartial(c, rank)
      [] c.layer = "full_attention" -> FullPartial(c, rank)
      [] c.layer = "linear_attention" -> LinearPartial(c, rank)
      [] c.layer = "vocabulary" -> VocabularyPartial(c, rank)

AllReduceSum(locals) == FoldLeft(LAMBDA a, b : a (+) b, EmptyBag, locals)
Layer(c) ==
    LET partials == [r \in 1..c.tp |-> Partials(c, r - 1)]
    IN  IF AnyThrows(partials) THEN Throws
        ELSE [i \in DOMAIN partials[1] |-> AllReduceSum([r \in 1..c.tp |-> partials[r][i]])]
SameLayerAsDense(c) ==
    \/ Layer(c) = Throws
    \/ Layer(c) = Layer([c EXCEPT !.tp = 1])
RejectsOnlyUneven(c) ==
    Layer(c) = Throws =>
        CASE c.layer = "mlp" -> c.intermediate % c.tp # 0
          [] c.layer = "full_attention" -> c.heads % c.tp # 0 \/ c.kvHeads % c.tp # 0
          [] c.layer = "linear_attention" -> c.keyHeads % c.tp # 0 \/ c.valueHeads % c.tp # 0
          [] c.layer = "vocabulary" -> c.vocab % c.tp # 0

-----------------------------------------------------------------------------
(* Gradients.  A case gives tp and a number of layers, each added to what  *)
(* comes into it.  A path of the gradient says, layer by layer and at last *)
(* for the loss, whose shard it comes back through, or that it goes past   *)
(* the layer.                                                              *)

Past == -1

(* all_reduce_sum_preserve_local_grad: the gradient of the sum goes to the *)
(* rank's own summand, and nothing is added up on the way back.            *)
Through(c, rank, shards, paths) == {<<s>> \o p : s \in shards, p \in paths}
Incoming(c, rank, shards) ==
    LET grad[l \in 0..c.layers] ==
            IF l = c.layers THEN {<<s>> : s \in shards}
            ELSE {<<Past>> \o p : p \in grad[l + 1]} \cup Through(c, rank, shards, grad[l + 1])
    IN  grad

(* The gradient that reaches the shard of a rank in each layer.            *)
ShardGrad(c, rank) == [l \in 1..c.layers |-> Incoming(c, rank, {rank})[l]]
DenseGrad(c) == [l \in 1..c.layers |-> Incoming(c, 0, 0..(c.tp - 1))[l]]
SameShardGradAsDense(c) == \A rank \in 0..(c.tp - 1) : ShardGrad(c, rank) = DenseGrad(c)
=============================================================================
