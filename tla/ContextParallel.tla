--------------------------- MODULE ContextParallel ---------------------------
(***************************************************************************)
(* A sequence cut over the ranks of a context group                        *)
(* (context_parallel.cc, cp_attention_cuda.cu): slices of equal length     *)
(* with padding behind the last token, a ring that takes every rank's keys *)
(* and values past every other rank, causal attention over the blocks as   *)
(* they come, and the way of the gradients back to the owner of each       *)
(* block.                                                                  *)
(*                                                                         *)
(* A tensor is the sequence of its entries along the sequence dimension.   *)
(* An exponential is its exponent: the row of a softmax is a bag of        *)
(* <<entry, exponent>>, and it is rescaled by adding to the exponents.     *)
(***************************************************************************)
EXTENDS Integers, Sequences, FiniteSets, Bags, SequencesExt

Pad == -1
Least(a, b) == IF a < b THEN a ELSE b

PaddedLength(length, cp) ==
    IF length % cp = 0 THEN length ELSE length + cp - (length % cp)
ShardLength(length, cp) == PaddedLength(length, cp) \div cp

(* Positions begin .. end - 1 are rank's; padding follows to padded_end.   *)
SequenceRange(length, rank, cp) ==
    LET shard == ShardLength(length, cp)
    IN  [begin |-> Least(rank * shard, length),
         end |-> Least((rank + 1) * shard, length),
         padded_end |-> (rank + 1) * shard]

SlicePadded(input, rank, cp, pad) ==
    LET range == SequenceRange(Len(input), rank, cp)
    IN  [i \in 1..ShardLength(Len(input), cp) |->
            IF i <= range.end - range.begin THEN input[range.begin + i] ELSE pad]

AllGather(locals, group) == FlattenSeq([i \in DOMAIN group |-> locals[group[i]]])
GatherPadded(locals, group, length) == SubSeq(AllGather(locals, group), 1, length)

(* 0-based, like the context rank.                                         *)
GroupIndex(group, rank) == (CHOOSE i \in DOMAIN group : group[i] = rank) - 1

(* Mutant: blocks expected from the rank in front, not from the one behind.*)
RingSchedule_ahead(group, rank) ==
    LET cp == Len(group)
        local == GroupIndex(group, rank)
    IN  [s \in 1..cp |->
            [kv |-> group[((local + s - 1) % cp) + 1],
             send |-> group[((local + 1) % cp) + 1],
             recv |-> group[((local + cp - 1) % cp) + 1]]]

(* kv is the owner of the block a rank holds at step s.                    *)
RingSchedule(group, rank) ==
    LET cp == Len(group)
        local == GroupIndex(group, rank)
    IN  [s \in 1..cp |->
            [kv |-> group[((local + cp - (s - 1)) % cp) + 1],
             send |-> group[((local + 1) % cp) + 1],
             recv |-> group[((local + cp - 1) % cp) + 1]]]

(* Every rank calls send_recv at once; nothing arrives from a rank that    *)
(* sends elsewhere.                                                        *)
SendRecv(group, sent, s) ==
    [r \in ToSet(group) |->
        LET from == RingSchedule(group, r)[s].recv
        IN  IF RingSchedule(group, from)[s].send = r THEN sent[from] ELSE <<>>]

(* What each rank holds at each step of the exchange, its own block first. *)
RingBlocks(group, locals) ==
    LET cp == Len(group)
        held[s \in 1..cp] ==
            IF s = 1 THEN [r \in ToSet(group) |-> locals[r]]
            ELSE SendRecv(group, held[s - 1], s - 1)
    IN  [r \in ToSet(group) |-> [s \in 1..cp |-> held[s][r]]]

(* ring_exchange_rank_order, and the start of the exchange's backward: the *)
(* blocks of rank r by owner.                                              *)
RankOrder(group, r, blocks) ==
    [i \in DOMAIN group |->
        blocks[CHOOSE s \in DOMAIN group :
                   GroupIndex(group, RingSchedule(group, r)[s].kv) = i - 1]]

-----------------------------------------------------------------------------
(* Gradients: a block of gradients is a sequence of bags of contributions. *)

AddBlocks(blocks) ==
    [i \in DOMAIN blocks[1] |->
        FoldLeft(LAMBDA sum, block : sum (+) block[i], EmptyBag, blocks)]

(* Each rank gives one block per member and gets the sum of its own.       *)
ReduceScatter(group, blocks) ==
    [r \in ToSet(group) |->
        AddBlocks([i \in DOMAIN group |-> blocks[group[i]][GroupIndex(group, r) + 1]])]

RingBackward(group, grads) ==
    ReduceScatter(group, [r \in ToSet(group) |-> RankOrder(group, r, grads[r])])

(* Without a reduce-scatter, one trip around the ring for each owner.      *)
RingBackwardBySteps(group, grads) ==
    [r \in ToSet(group) |->
        LET owner == GroupIndex(group, r) + 1
            ofOwner == [q \in ToSet(group) |-> RankOrder(group, q, grads[q])[owner]]
        IN  AddBlocks(RingBlocks(group, ofOwner)[r])]

(* The backward of a gather: grads[r] is as long as the padded sequence.   *)
GatherBackward(group, grads) ==
    LET shard == Len(grads[group[1]]) \div Len(group)
    IN  ReduceScatter(group, [r \in ToSet(group) |->
            [i \in DOMAIN group |-> SubSeq(grads[r], (i - 1) * shard + 1, i * shard)]])

-----------------------------------------------------------------------------
(* Attention of the query at position pos over blocks of keys.  An entry   *)
(* of a block is <<token, rotary position>>; score gives the logit of a    *)
(* token, the one of padding included.                                     *)

NegInf == -1000
Highest(set) == CHOOSE x \in set : \A y \in set : y <= x
Rescaled(bag, by) == BagOfAll(LAMBDA e : <<e[1], e[2] + by>>, bag)
Term(entry, exponent) == SetToBag({<<entry, exponent>>})
Terms(entries, exponents) ==
    FoldLeft(LAMBDA bag, i : bag (+) Term(entries[i], exponents[i]), EmptyBag,
             [i \in DOMAIN entries |-> i])

EmptyRow == [max |-> NegInf, acc |-> EmptyBag, sum |-> EmptyBag]
(* acc / sum, as exponents that no longer depend on the maximum.           *)
Quotient(row) == [num |-> Rescaled(row.acc, row.max), den |-> Rescaled(row.sum, row.max)]
Zero == [num |-> EmptyBag, den |-> EmptyBag]

Attended(pos, keyPos, length) == keyPos <= pos /\ keyPos < length

(* One step of the running softmax: the maximum may rise, what was summed  *)
(* before is scaled to it.                                                 *)
Online(row, entries, scores) ==
    LET next == Highest({row.max} \cup ToSet(scores))
        exponents == [i \in DOMAIN scores |-> scores[i] - next]
        old(bag) == IF row.max = NegInf THEN EmptyBag ELSE Rescaled(bag, row.max - next)
    IN  [max |-> next,
         acc |-> old(row.acc) (+) Terms(entries, exponents),
         sum |-> old(row.sum) (+) Terms(entries, exponents)]

(* context_parallel_causal_attention_streaming_blocks, one query row.      *)
Streaming(pos, blocks, begins, length, score) ==
    LET seen(i) == SelectSeq([j \in DOMAIN blocks[i] |-> j],
                             LAMBDA j : Attended(pos, begins[i] + j - 1, length))
        step(row, i) ==
            LET entries == [n \in DOMAIN seen(i) |-> blocks[i][seen(i)[n]]]
            IN  IF entries = <<>> THEN row
                ELSE Online(row, entries, [n \in DOMAIN entries |-> score[entries[n][1]]])
    IN  IF pos >= length THEN Zero
        ELSE Quotient(FoldLeft(step, EmptyRow, [i \in DOMAIN blocks |-> i]))

-----------------------------------------------------------------------------
(* The CUDA kernels: one thread block per query row, keys by flat index    *)
(* over the blocks of the ring.                                            *)

Flat(begins, shard) == [i \in 1..(Len(begins) * shard) |-> i - 1]
KeyPos(begins, shard, flat) == begins[(flat \div shard) + 1] + (flat % shard)
FlatSeen(pos, begins, shard, length) ==
    SelectSeq(Flat(begins, shard),
              LAMBDA flat : Attended(pos, KeyPos(begins, shard, flat), length))

(* block_reduce_sum over bags: the upper half is added to the lower half   *)
(* until one entry is left; the number of threads is a power of two.       *)
BlockReduce(values, strides) ==
    FoldLeft(LAMBDA scratch, stride :
                [t \in DOMAIN scratch |->
                    IF t <= stride THEN scratch[t] (+) scratch[t + stride] ELSE scratch[t]],
             values, strides)[1]

(* Up to 128 columns: a running softmax, key by key.                       *)
NarrowForward(pos, ring, begins, shard, length, score) ==
    LET step(row, flat) ==
            Online(row, <<ring[flat + 1]>>, <<score[ring[flat + 1][1]]>>)
        seen == FlatSeen(pos, begins, shard, length)
    IN  IF pos >= length THEN Zero ELSE Quotient(FoldLeft(step, EmptyRow, seen))

(* More columns: the maximum first, then the sum by threads that stride    *)
(* over the keys, then the accumulation.                                   *)
Threads == 4
WideForward(pos, ring, begins, shard, length, score) ==
    LET seen == FlatSeen(pos, begins, shard, length)
        max == Highest({score[ring[f + 1][1]] : f \in ToSet(seen)})
        term(f) == Term(ring[f + 1], score[ring[f + 1][1]] - max)
        mine(t) == SelectSeq(seen, LAMBDA f : f % Threads = t - 1)
        sums == [t \in 1..Threads |->
                    FoldLeft(LAMBDA bag, f : bag (+) term(f), EmptyBag, mine(t))]
    IN  IF pos >= length \/ seen = <<>> THEN Zero
        ELSE Quotient([max |-> max, sum |-> BlockReduce(sums, <<2, 1>>),
                       acc |-> FoldLeft(LAMBDA bag, f : bag (+) term(f), EmptyBag, seen)])

(* query_dot: the probabilities of row pos against its lse.  A probability *)
(* is <<key entry, logit, lse>>.                                           *)
QueryDot(pos, ring, begins, shard, length, score, lse) ==
    IF pos >= length \/ lse = EmptyBag THEN EmptyBag
    ELSE FoldLeft(LAMBDA bag, f :
                    bag (+) SetToBag({<<ring[f + 1], score[ring[f + 1][1]], lse>>}),
                  EmptyBag, FlatSeen(pos, begins, shard, length))

(* The gradient of query row pos: one term for each key it attended.       *)
QueryGrad(pos, ring, begins, shard, length, lse, dot, gradOut) ==
    IF pos >= length \/ lse = EmptyBag THEN EmptyBag
    ELSE FoldLeft(LAMBDA bag, f :
                    bag (+) SetToBag({[key |-> ring[f + 1], lse |-> lse, dot |-> dot,
                                       grad |-> gradOut]}),
                  EmptyBag, FlatSeen(pos, begins, shard, length))

(* The gradient of the key and value at a flat index of the ring: one term *)
(* for each local query, the first at position first, that attended it.    *)
KeyGrad(flat, begins, shard, length, first, queries, lse, dot, gradOut) ==
    LET pos == KeyPos(begins, shard, flat)
        seen == SelectSeq([t \in DOMAIN queries |-> t],
                          LAMBDA t : /\ first + t - 1 >= pos
                                     /\ first + t - 1 < length
                                     /\ lse[t] # EmptyBag)
    IN  IF pos >= length THEN EmptyBag
        ELSE FoldLeft(LAMBDA bag, t :
                        bag (+) SetToBag({[query |-> queries[t], lse |-> lse[t], dot |-> dot[t],
                                           grad |-> gradOut[t]]}),
                      EmptyBag, seen)
=============================================================================
