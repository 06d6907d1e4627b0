---------------------------- MODULE ModelParallel ----------------------------
(***************************************************************************)
(* The layers of the model as the ranks of a group compute them together,  *)
(* against the same layers on one rank.  A behaviour is one input; what    *)
(* the ranks exchange on the way is collectives in a fixed order, so the   *)
(* result is a function of the input.                                      *)
(***************************************************************************)
EXTENDS ContextLayer, LinearAttention, TensorParallel, ExpertParallel, StageWeights

CONSTANTS
    CpGroups,   \* context groups, by rank number
    MaxLength,  \* bound on the tokens of a sequence
    MaxSteps,   \* bound on the items a kernel scans
    MaxWidth,   \* bound on the columns of a kernel's state
    MaxTp,      \* bound on the ranks of a tensor group
    MaxHeads,   \* bound on heads, columns and tokens that are cut over it
    MaxDepth    \* bound on the layers of a model

ASSUME ModelParallelAssumption ==
    {MaxLength, MaxSteps, MaxWidth, MaxTp, MaxHeads, MaxDepth} \subseteq Nat

VARIABLE input

NoInput == [kind |-> "none"]

(* Logits 0 and 1 in any order; padding would have the highest.            *)
AttentionCases ==
    UNION {[kind : {"attention"}, group : CpGroups, length : {n},
            score : {(Pad :> 2) @@ s : s \in [0..(n - 1) -> 0..1]}] : n \in 1..MaxLength}

(* Two tokens more, so that a shard of three is cut in every way.          *)
ScanCases ==
    [kind : {"scan"}, group : CpGroups, length : 1..(MaxLength + 2), width : 1..3]

KernelCases ==
    {c \in [kind : {"kernel"}, steps : 0..MaxSteps, columns : (MaxWidth - 1)..MaxWidth,
            tile : 1..MaxWidth, interval : 1..3, budget : {NoBudget, 2, 2 * MaxWidth},
            mode : {"full", "recompute", "chunk"}, replay : BOOLEAN, compact : BOOLEAN,
            replayBudget : {NoBudget, 0, MaxWidth}] :
        /\ c.tile <= c.columns
        /\ c.mode # "chunk" => ~c.replay
        /\ ~c.replay => ~c.compact /\ c.replayBudget = NoBudget}

(* Query heads in groups of equal size for each key and value head.        *)
TensorCases ==
    LET tps == 1..MaxTp
        sizes == 1..MaxHeads
    IN  [kind : {"tensor"}, layer : {"mlp"}, tp : tps, sharded : BOOLEAN, intermediate : sizes]
        \cup {c \in [kind : {"tensor"}, layer : {"full_attention"}, tp : tps, sharded : BOOLEAN,
                     heads : sizes, kvHeads : sizes, d : 1..2] : c.heads % c.kvHeads = 0}
        \cup {c \in [kind : {"tensor"}, layer : {"linear_attention"}, tp : tps, sharded : BOOLEAN,
                     keyHeads : sizes, valueHeads : sizes, d : 1..2] :
                 c.valueHeads % c.keyHeads = 0}
        \cup [kind : {"tensor"}, layer : {"vocabulary"}, tp : tps, sharded : BOOLEAN, vocab : sizes]

(* Two ranks with two experts each and up to two tokens that choose two    *)
(* experts, three with one expert and one token each.                      *)
ExpertCases ==
    [kind : {"expert"}, ep : {2}, experts : {4},
     choice : UNION {[1..2 -> [1..n -> {<<0, 1>>, <<2, 0>>, <<1, 3>>, <<3, 2>>}]] : n \in 0..2}]
    \cup [kind : {"expert"}, ep : {3}, experts : {3},
          choice : [1..3 -> [1..1 -> {<<0, 1>>, <<2, 1>>, <<0, 2>>}]]]

(* A dense model has a tied head; a sparse one has full attention only.    *)
WeightCases ==
    {c \in [kind : {"weights"}, moe : BOOLEAN, tied : BOOLEAN,
            types : UNION {[1..n -> {"full_attention", "linear_attention"}] : n \in 1..MaxDepth},
            experts : {4},
            dims : [data : {1}, pipeline : 1..MaxDepth, context : {1}, tensor : {1},
                    expert : {1, 2, 4}, sequence : {1}]] :
        /\ c.moe \/ c.tied
        /\ c.moe => \A i \in DOMAIN c.types : c.types[i] = "full_attention"
        /\ c.dims.expert > 1 => c.moe}

GradientCases == [kind : {"gradient"}, tp : 1..MaxTp, layers : 1..MaxDepth]

CaseInit ==
    input \in AttentionCases \cup ScanCases \cup KernelCases \cup TensorCases \cup ExpertCases
                  \cup WeightCases \cup GradientCases

-----------------------------------------------------------------------------

(* Whatever way keys and values come together, gathered, gathered in ring  *)
(* order or passed around the ring, and whatever kernel attends them,      *)
(* every token gets the softmax over itself and the tokens before it, each *)
(* at its own rotary position, and padding neither gives nor gets anything *)
(* (context_parallel.cc 505-733, cp_attention_cuda.cu 112-285).            *)
RingAttention == input.kind = "attention" => \A path \in Paths : SameAsDense(input, path)

(* The recomputing backward gives every query, key and value of a shard    *)
(* the gradient of the dense layer: each pair of a query and a key it      *)
(* attended once, on whatever rank they met, with the loss of a group      *)
(* whose ranks all compute it counted once.  With and without a            *)
(* reduce-scatter (context_parallel.cc 121-217, 268-316).                  *)
ContextGradients == input.kind = "attention" => SameGradAsDense(input)

(* The states of the recurrent layer, and the gradients that come back     *)
(* through them, are those of one scan over the whole sequence: the state  *)
(* is handed on past padding, the convolution reads across the cut, and    *)
(* the exchanged projections are back in the order of the ranks            *)
(* (qwen3_5_text.cc 444-514, 1285-1343).                                   *)
RecurrentCarry == input.kind = "scan" => SameScanAsDense(input)

(* Saved, recomputed, from checkpoints or replayed, in buffers of the      *)
(* width of the state or shared by its tiles: the backward works once on   *)
(* every item and column, between the states the forward pass went         *)
(* through (qwen_linear_attention_cuda.cu 465-1690).                       *)
ReplayedStates ==
    input.kind = "kernel" => SameStatesAsForward(input) /\ CheckpointsWithinBudget(input)

(* The partial results of a tensor group add up to those of the whole      *)
(* layer: every head, column and token id meets the rows and columns that  *)
(* belong to it, once, with shards cut by the loader or by the model.      *)
(* Only what cannot be cut evenly is refused (qwen3_5_text.cc 168-193,     *)
(* 994-1025, 1148-1225, 1360-1450).                                        *)
TensorForward == input.kind = "tensor" => SameLayerAsDense(input) /\ RejectsOnlyUneven(input)

(* Every token gets back the results of the experts it chose, with their   *)
(* weights, and every expert the gradients of all the tokens it was given: *)
(* sorting by destination, the padding of the blocks, and sorting by       *)
(* expert are all undone (qwen3_5_text.cc 865-992, expert_parallel.cc).    *)
ExpertRouting == input.kind = "expert" => SameExpertsAsDense(input)

(* A rank reads exactly the parameters it holds, so that no weight is      *)
(* silently taken from the disk as a constant, and the parameters of all   *)
(* ranks hold each weight of the model once; the embedding of a dense      *)
(* model is held twice.  Left out: a sparse model with a tied head on more *)
(* than one stage, whose last stage does read a weight it does not hold    *)
(* (trainer 354-403, qwen3_5_text.cc 544-546, 624-680).                    *)
StageHoldsItsWeights ==
    input.kind = "weights" =>
        /\ ~(input.moe /\ input.tied /\ input.dims.pipeline > 1) => ReadsItsParameters(input)
        /\ HeldOnce(input)

(* What docs/distributed-runtime.md 93-111 says of the shards of a tensor  *)
(* group, for the way back: the gradient of every shard is the one it has  *)
(* in the whole layer (qwen3_5_text.cc 195-207).                           *)
TensorGradients == input.kind = "gradient" => SameShardGradAsDense(input)
=============================================================================
