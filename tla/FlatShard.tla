----------------------------- MODULE FlatShard -----------------------------
(***************************************************************************)
(* optimizer_sharding.cc: how the optimizer's work is divided among the    *)
(* dp ranks of a data group.  Either whole parameters have an owner        *)
(* (greedy_parameter_owner_by_size), or the parameters are laid end to     *)
(* end, padded to a multiple of dp and cut into one equal shard per rank.  *)
(* Ranks count from 0, positions in the flat vector from 0.                *)
(***************************************************************************)
EXTENDS Integers, Sequences, SequencesExt, FiniteSetsExt

Least(a, b) == IF a <= b THEN a ELSE b
Most(a, b) == IF a >= b THEN a ELSE b

PaddedNumel(numel, dp) ==
    IF numel % dp = 0 THEN numel ELSE numel + dp - (numel % dp)

ShardSize(numel, dp) == PaddedNumel(numel, dp) \div dp
ShardBegin(numel, dp, rank) == rank * ShardSize(numel, dp)

NumelOf(numels) ==
    LET upTo[i \in 0..Len(numels)] == IF i = 0 THEN 0 ELSE upTo[i - 1] + numels[i]
    IN  upTo[Len(numels)]
TensorBegin(numels, i) == NumelOf(SubSeq(numels, 1, i - 1))

(* The FlatParameterShardRanges of a rank, as make_flat_shard_metadata and *)
(* flatten_tensor_list_shard compute them: the part of each parameter that *)
(* lies in the shard.                                                      *)
ShardRanges(numels, dp, rank) ==
    LET total == NumelOf(numels)
        begin == ShardBegin(total, dp, rank)
        end == begin + ShardSize(total, dp)
        From(i) == Most(TensorBegin(numels, i), begin)
        To(i) == Least(TensorBegin(numels, i) + numels[i], end)
    IN  {[parameter_index |-> i,
          parameter_offset |-> From(i) - TensorBegin(numels, i),
          shard_offset |-> From(i) - begin,
          numel |-> To(i) - From(i)] : i \in {j \in DOMAIN numels : From(j) < To(j)}}

(* flatten_parameter_shard: the tensors' elements that the ranges name, and *)
(* padding elsewhere.                                                      *)
GatherShard(tensors, ranges, size, pad) ==
    [i \in 1..size |->
        LET at == {g \in ranges : g.shard_offset < i /\ i <= g.shard_offset + g.numel}
        IN  IF at = {} THEN pad
            ELSE LET g == CHOOSE h \in at : TRUE
                 IN  tensors[g.parameter_index][g.parameter_offset + i - g.shard_offset]]

(* A range of the padded flat vector: flat_tensor_range_padded and         *)
(* flat_gradient_range_padded, with the padding value for what lies beyond *)
(* the parameters (and for a missing gradient).                            *)
FlatRange(flat, begin, numel, pad) ==
    [i \in 1..numel |-> IF begin + i <= Len(flat) THEN flat[begin + i] ELSE pad]

(* Each rank's part of a bucket.                                           *)
ShardBucket(bucket_numel, dp) == Most(1, bucket_numel \div dp)

(* The pieces a shard is moved in: the loops over shard_offset.            *)
Pieces(shard_size, piece) ==
    [k \in 1..((shard_size + piece - 1) \div piece) |->
        [offset |-> (k - 1) * piece, numel |-> Least(piece, shard_size - (k - 1) * piece)]]

(* Mutant: the segments of one reduce_scatter lie next to one another in   *)
(* the flat vector.                                                        *)
PieceOfRank_adjacent(numel, dp, rank, piece) == piece.offset * dp + rank * piece.numel

(* Where rank's segment of a piece begins in the flat vector.              *)
PieceOfRank(numel, dp, rank, piece) == ShardBegin(numel, dp, rank) + piece.offset

(* apply_flat_parameter_range: what is written over the parameters.        *)
ApplyRange(flat, begin, values) ==
    [i \in 1..Len(flat) |->
        IF begin < i /\ i <= begin + Len(values) THEN values[i - begin] ELSE flat[i]]

(* One after the other: values[i] from begins[i] on.                       *)
ApplyRanges(flat, begins, values) ==
    LET upTo[i \in 0..Len(begins)] ==
            IF i = 0 THEN flat ELSE ApplyRange(upTo[i - 1], begins[i], values[i])
    IN  upTo[Len(begins)]

(* greedy_parameter_owner_by_size: largest first (in order of index when   *)
(* equal), each to the rank with the fewest bytes, the lowest when equal.  *)
Heaviest(left, bytes) ==
    CHOOSE i \in left :
        \A j \in left : bytes[i] > bytes[j] \/ (bytes[i] = bytes[j] /\ i <= j)
Lightest(load) ==
    CHOOSE r \in DOMAIN load :
        \A q \in DOMAIN load : load[r] < load[q] \/ (load[r] = load[q] /\ r <= q)
Assigned(acc, bytes) ==
    LET i == Heaviest(acc.left, bytes)
        r == Lightest(acc.load)
    IN  [load |-> [acc.load EXCEPT ![r] = @ + bytes[i]],
         owner |-> [acc.owner EXCEPT ![i] = r],
         left |-> acc.left \ {i}]
GreedyOwner(bytes, dp) ==
    LET start == [load |-> [r \in 0..(dp - 1) |-> 0], owner |-> [i \in DOMAIN bytes |-> 0],
                  left |-> DOMAIN bytes]
        after[k \in 0..Len(bytes)] == IF k = 0 THEN start ELSE Assigned(after[k - 1], bytes)
    IN  after[Len(bytes)].owner

OwnedBy(owner, rank) == {i \in DOMAIN owner : owner[i] = rank}
=============================================================================
