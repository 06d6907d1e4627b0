---------------------------- MODULE ContextLayer ----------------------------
(***************************************************************************)
(* A full-attention layer and the loss on a context group                  *)
(* (qwen3_5_text.cc full_attention_context_parallel, the three ways to     *)
(* bring keys and values together in context_parallel.cc, and the scoring  *)
(* of the last stage in the trainer).                                      *)
(*                                                                         *)
(* A case c gives the group, the length of the sequence and the logits;    *)
(* token i of the sequence is the number i.                                *)
(***************************************************************************)
EXTENDS ContextParallel

Shard(c) == ShardLength(c.length, Len(c.group))
Tokens(c) == [i \in 1..c.length |-> i - 1]
ContextRank(c, r) == GroupIndex(c.group, r)

(* Projections are local; rotary positions begin at the rank's first one.  *)
LocalKeys(c, r) ==
    LET local == SlicePadded(Tokens(c), ContextRank(c, r), Len(c.group), Pad)
    IN  [i \in DOMAIN local |-> <<local[i], ContextRank(c, r) * Shard(c) + i - 1>>]
Keys(c) == [r \in ToSet(c.group) |-> LocalKeys(c, r)]

(* Where each block of r's ring begins in the sequence.                    *)
RingBegins(c, r) ==
    [s \in DOMAIN c.group |->
        GroupIndex(c.group, RingSchedule(c.group, r)[s].kv) * Shard(c)]
GatheredBlock(c, begin) == SubSeq(AllGather(Keys(c), c.group), begin + 1, begin + Shard(c))

QueryPos(c, r, t) == ContextRank(c, r) * Shard(c) + t - 1
Logit(c) == [token \in DOMAIN c.score |-> c.score[token]]

Paths == {"gather", "ring_gather", "ring_exchange", "cuda_narrow", "cuda_wide"}

(* The rows of rank r: K and V gathered in rank order, gathered and taken  *)
(* in ring order, or exchanged and attended by one of three kernels.       *)
Attention(c, path, r) ==
    LET inOrder == [i \in DOMAIN c.group |-> (i - 1) * Shard(c)]
        begins == IF path = "gather" THEN inOrder ELSE RingBegins(c, r)
        blocks == IF path \in {"gather", "ring_gather"}
                    THEN [i \in DOMAIN begins |-> GatheredBlock(c, begins[i])]
                    ELSE RingBlocks(c.group, Keys(c))[r]
        row(pos) ==
            CASE path = "cuda_narrow" -> NarrowForward(pos, FlattenSeq(blocks), begins, Shard(c),
                                                       c.length, Logit(c))
              [] path = "cuda_wide" -> WideForward(pos, FlattenSeq(blocks), begins, Shard(c),
                                                   c.length, Logit(c))
              [] OTHER -> Streaming(pos, blocks, begins, c.length, Logit(c))
    IN  [t \in 1..Shard(c) |-> row(QueryPos(c, r, t))]

(* Mutant: a loss that is not divided, although every rank computes it.    *)
LossGrad_undivided(c) ==
    [i \in 1..PaddedLength(c.length, Len(c.group)) |->
        IF i <= c.length THEN SetToBag({i - 1} \X (1..Len(c.group))) ELSE EmptyBag]

(* Every rank of the group computes the loss of the whole sequence and     *)
(* divides it by the size of the group: a bag of the tokens, in units of   *)
(* that fraction.                                                          *)
LossGrad(c) ==
    [i \in 1..PaddedLength(c.length, Len(c.group)) |->
        IF i <= c.length THEN SetToBag({<<i - 1, 1>>}) ELSE EmptyBag]

(* The gradient of the hidden states of each rank's shard.                 *)
HiddenGrad(c) == GatherBackward(c.group, [r \in ToSet(c.group) |-> LossGrad(c)])

(* ContextParallelRingAttentionRecomputeFunction::backward on rank r.      *)
AttentionGrad(c, r) ==
    LET ring == FlattenSeq(RingBlocks(c.group, Keys(c))[r])
        begins == RingBegins(c, r)
        row(t) == NarrowForward(QueryPos(c, r, t), ring, begins, Shard(c), c.length, Logit(c))
        lse == [t \in 1..Shard(c) |-> row(t).den]
        dot == [t \in 1..Shard(c) |-> QueryDot(QueryPos(c, r, t), ring, begins, Shard(c),
                                               c.length, Logit(c), lse[t])]
        out == HiddenGrad(c)[r]
        key(flat) == KeyGrad(flat, begins, Shard(c), c.length, QueryPos(c, r, 1),
                             LocalKeys(c, r), lse, dot, out)
    IN  [query |-> [t \in 1..Shard(c) |->
                        QueryGrad(QueryPos(c, r, t), ring, begins, Shard(c), c.length,
                                  lse[t], dot[t], out[t])],
         ring |-> [s \in DOMAIN c.group |->
                        [j \in 1..Shard(c) |-> key((s - 1) * Shard(c) + j - 1)]]]

-----------------------------------------------------------------------------
(* What both have to be                                                    *)

(* The softmax over the tokens up to pos, each with its own position.      *)
Softmax(c, pos) ==
    LET row == SetToBag({<<<<k, k>>, c.score[k]>> : k \in 0..pos})
    IN  [num |-> row, den |-> row]

SameAsDense(c, path) ==
    LET out == [r \in ToSet(c.group) |-> Attention(c, path, r)]
    IN  /\ GatherPadded(out, c.group, c.length) = [i \in 1..c.length |-> Softmax(c, i - 1)]
        /\ \A r \in ToSet(c.group), t \in 1..Shard(c) :
              QueryPos(c, r, t) >= c.length => out[r][t] = Zero

(* The dense gradients, in as many units as the group has ranks.           *)
DenseRow(c, pos) ==
    LET lse == Softmax(c, pos).den
    IN  [lse |-> lse,
         dot |-> SetToBag({<<<<k, k>>, c.score[k], lse>> : k \in 0..pos}),
         grad |-> [unit \in {<<pos, 1>>} |-> Len(c.group)]]
DenseQueryGrad(c, pos) ==
    IF pos >= c.length THEN EmptyBag
    ELSE SetToBag({[key |-> <<k, k>>, lse |-> DenseRow(c, pos).lse,
                    dot |-> DenseRow(c, pos).dot, grad |-> DenseRow(c, pos).grad] : k \in 0..pos})
DenseKeyGrad(c, pos) ==
    IF pos >= c.length THEN EmptyBag
    ELSE SetToBag({[query |-> <<q, q>>, lse |-> DenseRow(c, q).lse, dot |-> DenseRow(c, q).dot,
                    grad |-> DenseRow(c, q).grad] : q \in pos..(c.length - 1)})

SameGradAsDense(c) ==
    LET grad == [r \in ToSet(c.group) |-> AttentionGrad(c, r)]
        ring == [r \in ToSet(c.group) |-> grad[r].ring]
        keys == RingBackward(c.group, ring)
    IN  /\ keys = RingBackwardBySteps(c.group, ring)
        /\ \A r \in ToSet(c.group), t \in 1..Shard(c) :
              /\ grad[r].query[t] = DenseQueryGrad(c, QueryPos(c, r, t))
              /\ keys[r][t] = DenseKeyGrad(c, QueryPos(c, r, t))
=============================================================================
