--------------------------- MODULE LinearAttention ---------------------------
(***************************************************************************)
(* The recurrent layer: a state that each token of the sequence decays and *)
(* updates (qwen3_5_text.cc, qwen_linear_attention_cuda.cu).  Over a       *)
(* context group every rank scans its shard from the state its predecessor *)
(* sends; the CUDA backward needs the state before every token again and   *)
(* has it saved, recomputed, or replayed from checkpoints.                 *)
(*                                                                         *)
(* The update does not commute, so a state is the sequence of the items    *)
(* applied to zero.  Padding has key and beta zero and decay one: it       *)
(* leaves the state alone.  The gradient of a state is the sequence of the *)
(* items it has come back through.                                         *)
(***************************************************************************)
EXTENDS ContextParallel

Idle == <<>>
Apply(state, item) == IF item = Idle THEN state ELSE Append(state, item)

(* linear_attention_chunked_recurrent_with_state: the state after each     *)
(* item; chunks only group the outputs.                                    *)
Scan(items, initial) ==
    [t \in DOMAIN items |-> FoldLeft(Apply, initial, SubSeq(items, 1, t))]
FinalState(items, initial) == FoldLeft(Apply, initial, items)
GradThrough(items, grad) == FoldLeft(Apply, grad, Reverse(items))

-----------------------------------------------------------------------------
(* Over a context group.  A case c gives group, length and the width of    *)
(* the convolution.                                                        *)

(* What the rank projects from its hidden states.                          *)
Projected(c, r) ==
    SlicePadded([i \in 1..c.length |-> i - 1], GroupIndex(c.group, r), Len(c.group), Pad)

(* The projections of the whole sequence, exchanged, put in rank order and *)
(* cut to its length.                                                      *)
InRankOrder(c, r) ==
    LET blocks == RingBlocks(c.group, [q \in ToSet(c.group) |-> Projected(c, q)])[r]
    IN  SubSeq(FlattenSeq(RankOrder(c.group, r, blocks)), 1, c.length)

(* The causal convolution looks width - 1 projections back.                *)
Convolved(mixed, width) ==
    [t \in DOMAIN mixed |-> SubSeq(mixed, IF t < width THEN 1 ELSE t - width + 1, t)]

(* Each rank convolves the whole sequence and takes its own items.         *)
LocalItems(c, r) ==
    SlicePadded(Convolved(InRankOrder(c, r), c.width),
                GroupIndex(c.group, r), Len(c.group), Idle)

(* Mutant: a rank starts from zero, as without context parallelism.        *)
Carried_fromZero(c) ==
    LET cp == Len(c.group)
        state[i \in 0..cp] ==
            IF i = 0 THEN <<>> ELSE FinalState(LocalItems(c, c.group[i]), <<>>)
    IN  state

(* state[i]: what rank i receives before its scan and rank i - 1 sends     *)
(* after its own.                                                          *)
Carried(c) ==
    LET cp == Len(c.group)
        state[i \in 0..cp] ==
            IF i = 0 THEN <<>> ELSE FinalState(LocalItems(c, c.group[i]), state[i - 1])
    IN  state

(* grad[i]: the gradient of state[i], received from rank i before the      *)
(* backward of rank i - 1's scan; nothing comes back to the last rank.     *)
CarriedGrad(c) ==
    LET cp == Len(c.group)
        grad[i \in 0..cp] ==
            IF i = cp THEN <<>> ELSE GradThrough(LocalItems(c, c.group[i + 1]), grad[i + 1])
    IN  grad

ContextStates(c) ==
    [r \in ToSet(c.group) |-> Scan(LocalItems(c, r), Carried(c)[GroupIndex(c.group, r)])]
(* The gradient that reaches the state after each local item.              *)
ContextGrads(c) ==
    [r \in ToSet(c.group) |->
        LET items == LocalItems(c, r)
        IN  [t \in DOMAIN items |->
                GradThrough(SubSeq(items, t + 1, Len(items)),
                            CarriedGrad(c)[GroupIndex(c.group, r) + 1])]]

SameScanAsDense(c) ==
    LET dense == Convolved([i \in 1..c.length |-> i - 1], c.width)
    IN  /\ GatherPadded(ContextStates(c), c.group, c.length) = Scan(dense, <<>>)
        /\ GatherPadded(ContextGrads(c), c.group, c.length) =
              [t \in DOMAIN dense |-> GradThrough(SubSeq(dense, t + 1, Len(dense)), <<>>)]
        /\ \A r \in ToSet(c.group) :
              SlicePadded(InRankOrder(c, r), GroupIndex(c.group, r), Len(c.group), Pad) =
                  Projected(c, r)

-----------------------------------------------------------------------------
(* The CUDA kernels.  A case c gives steps (T), columns (V), tile,         *)
(* interval, budget of the checkpoints, mode ("full", "recompute",         *)
(* "chunk"), and for the chunk mode replay, compact and the budget of the  *)
(* replay cache; sizes are in columns of the state.  Items are 1..steps.   *)

Ceil(a, b) == (a + b - 1) \div b
NoBudget == -1
Unwritten == <<"unwritten">>

Columns(c, y) == {j \in 0..(c.columns - 1) : j \div c.tile = y}
Tiles(c) == Ceil(c.columns, c.tile)

(* cuda_linear_attention_checkpoint_interval.                              *)
Interval(c) ==
    IF c.budget = NoBudget THEN c.interval
    ELSE LET checkpoints == IF c.budget \div c.columns > 1 THEN c.budget \div c.columns ELSE 1
             needed == IF c.steps = 0 THEN 1 ELSE Ceil(c.steps, checkpoints)
         IN  IF c.interval > needed THEN c.interval ELSE needed
Checkpoints(c) == Ceil(c.steps, Interval(c))

Upto(t) == [i \in 1..t |-> i]
From(state, first, last) == state \o [i \in 1..(last - first + 1) |-> first + i - 1]

(* The forward kernels, one block per tile of columns: what they save.     *)
SavedStates(c) ==
    [t \in 1..c.steps |-> [j \in 0..(c.columns - 1) |->
        IF c.mode = "full" /\ \E y \in 0..(Tiles(c) - 1) : j \in Columns(c, y)
          THEN Upto(t) ELSE Unwritten]]
SavedCheckpoints(c) ==
    [n \in 0..(Checkpoints(c) - 1) |-> [j \in 0..(c.columns - 1) |->
        IF c.mode = "chunk" /\ \E y \in 0..(Tiles(c) - 1) : j \in Columns(c, y)
          THEN Upto(n * Interval(c)) ELSE Unwritten]]

(* The states the backward at item t works with: before it, after it, and  *)
(* the gradient of the latter without t's own output.                      *)
Work(t, j, prev, state, dstate) ==
    SetToBag({[item |-> t, column |-> j, prev |-> prev, state |-> state, dstate |-> dstate]})
Behind(c, t) == [i \in 1..(c.steps - t) |-> c.steps - i + 1]

BackwardFull(c) ==
    LET saved == SavedStates(c)
        work(t, j) == Work(t, j, IF t = 1 THEN <<>> ELSE saved[t - 1][j], saved[t][j], Behind(c, t))
    IN  [t \in 1..c.steps |-> [j \in 0..(c.columns - 1) |-> work(t, j)]]

(* Every earlier item again, from zero.                                    *)
BackwardRecompute(c) ==
    [t \in 1..c.steps |-> [j \in 0..(c.columns - 1) |->
        LET prev == From(<<>>, 1, t - 1) IN Work(t, j, prev, Append(prev, t), Behind(c, t))]]

(* The items since the checkpoint again, for each item.                    *)
BackwardCheckpointed(c) ==
    LET at(t) == (t - 1) \div Interval(c)
        prev(t, j) == From(SavedCheckpoints(c)[at(t)][j], at(t) * Interval(c) + 1, t - 1)
    IN  [t \in 1..c.steps |-> [j \in 0..(c.columns - 1) |->
            Work(t, j, prev(t, j), Append(prev(t, j), t), Behind(c, t))]]

-----------------------------------------------------------------------------
(* The replaying backward: launches, one after the other, that share two   *)
(* buffers in device memory, the states of a chunk and the gradient that   *)
(* goes from one chunk to the one before it.                               *)

Slot(c, compact, j) == IF compact /\ c.tile # c.columns THEN j % c.tile ELSE j

(* One launch: the chunk of the items begin+1 .. begin+len, columns cols.  *)
Replay(c, m, begin, len, cols, compact) ==
    LET slot(j) == Slot(c, compact, j)
        start(j) == SavedCheckpoints(c)[begin \div Interval(c)][j]
        users(s) == {j \in cols : slot(j) = s}
        cache == [l \in DOMAIN m.cache |-> [s \in DOMAIN m.cache[l] |->
                    IF l <= len /\ users(s) # {}
                      THEN LET j == CHOOSE j \in users(s) : TRUE
                           IN  From(start(j), begin + 1, begin + l)
                      ELSE m.cache[l][s]]]
        back(j, l) == m.carry[slot(j)] \o [i \in 1..(len - l) |-> begin + len - i + 1]
        work(j, l) == Work(begin + l, j, IF l = 1 THEN start(j) ELSE cache[l - 1][slot(j)],
                           cache[l][slot(j)], back(j, l))
    IN  IF len <= 0 THEN m
        ELSE [cache |-> cache,
              carry |-> [s \in DOMAIN m.carry |->
                            IF users(s) # {} THEN back(CHOOSE j \in users(s) : TRUE, 0)
                            ELSE m.carry[s]],
              done |-> [t \in DOMAIN m.done |-> [j \in DOMAIN m.done[t] |->
                            IF t \in (begin + 1)..(begin + len) /\ j \in cols
                              THEN m.done[t][j] (+) work(j, t - begin) ELSE m.done[t][j]]]]

(* The chunks from the last to the first.                                  *)
Begins(c) ==
    IF c.steps = 0 THEN <<0>>
    ELSE LET last == (c.steps - 1) \div Interval(c)
         IN  [n \in 1..(last + 1) |-> (last - n + 1) * Interval(c)]
ReplayChunks(c, m, cols, compact) ==
    FoldLeft(LAMBDA mem, begin :
                Replay(c, mem, begin, Least(Interval(c), c.steps - begin), cols, compact),
             m, Begins(c))

Buffers(c, width) ==
    [cache |-> [l \in 1..Interval(c) |-> [s \in 0..(width - 1) |-> Unwritten]],
     carry |-> [s \in 0..(width - 1) |-> <<>>],
     done |-> [t \in 1..c.steps |-> [j \in 0..(c.columns - 1) |-> EmptyBag]]]

(* All tiles of a chunk in one launch.                                     *)
ReplayWide(c) ==
    ReplayChunks(c, Buffers(c, c.columns), 0..(c.columns - 1), FALSE).done

(* Mutant: the carried gradient is not cleared between tiles.              *)
ReplayCompact_keepsCarry(c) ==
    FoldLeft(LAMBDA m, y : ReplayChunks(c, m, Columns(c, y), TRUE),
             Buffers(c, c.tile), [y \in 1..Tiles(c) |-> y - 1]).done

(* One tile after the other in buffers of a tile's width.                  *)
ReplayCompact(c) ==
    FoldLeft(LAMBDA m, y :
                ReplayChunks(c, [m EXCEPT !.carry = [s \in DOMAIN @ |-> <<>>]],
                             Columns(c, y), TRUE),
             Buffers(c, c.tile), [y \in 1..Tiles(c) |-> y - 1]).done

WithinBudget(c, columns) == c.replayBudget = NoBudget \/ Interval(c) * columns <= c.replayBudget

(* qwen_linear_attention_cuda_backward_checkpointed and the modes.         *)
Backward(c) ==
    CASE c.mode = "full" -> BackwardFull(c)
      [] c.mode = "recompute" -> BackwardRecompute(c)
      [] c.mode = "chunk" ->
            IF c.replay /\ ~c.compact /\ WithinBudget(c, c.columns) THEN ReplayWide(c)
            ELSE IF c.replay /\ (c.compact \/ WithinBudget(c, c.tile)) THEN ReplayCompact(c)
            ELSE BackwardCheckpointed(c)

(* Every item and column once, between the states of the forward pass.     *)
SameStatesAsForward(c) ==
    Backward(c) = [t \in 1..c.steps |-> [j \in 0..(c.columns - 1) |->
                      Work(t, j, Upto(t - 1), Upto(t), Behind(c, t))]]
CheckpointsWithinBudget(c) ==
    c.budget # NoBudget =>
        Checkpoints(c) <= (IF c.budget \div c.columns > 1 THEN c.budget \div c.columns ELSE 1)
=============================================================================
