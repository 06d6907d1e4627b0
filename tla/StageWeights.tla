----------------------------- MODULE StageWeights -----------------------------
(***************************************************************************)
(* Which weights a rank of the trainer holds as parameters, and which its  *)
(* part of the model reads (the trainer's stage_required_weight_names,     *)
(* qwen3_5_text.cc required_weight_names and the forward functions).  The  *)
(* two are decided in different places, by name, and a weight that is read *)
(* but not held is not an error: the model loads it from the disk, as a    *)
(* constant.                                                               *)
(*                                                                         *)
(* A case c gives moe, tied (the head is the embedding), types of the      *)
(* layers, experts, and the arrangement of the ranks.  A weight is a       *)
(* sequence: its name, the layer, the expert.                              *)
(***************************************************************************)
EXTENDS Topology, Sequences, FiniteSets

Embed == <<"embed_tokens">>
Norm == <<"norm">>
LmHeadWeight == <<"lm_head">>
LayerCount(c) == Len(c.types)

AttentionNames(c, i) ==
    IF c.types[i + 1] = "full_attention"
      THEN {"q_proj", "k_proj", "v_proj", "o_proj", "q_norm", "k_norm"}
      ELSE {"in_proj_qkv", "in_proj_z", "in_proj_b", "in_proj_a", "conv1d", "A_log", "dt_bias",
            "linear_norm", "out_proj"}
MlpNames == {"gate_proj", "up_proj", "down_proj"}

RequiredWeightNames(c) ==
    {Embed, Norm} \cup (IF c.moe /\ ~c.tied THEN {LmHeadWeight} ELSE {})
    \cup UNION {{<<n, i>> : n \in AttentionNames(c, i) \cup {"input_layernorm", "post_layernorm"}
                                 \cup (IF c.moe THEN {"router"} ELSE MlpNames)}
                \cup (IF c.moe THEN {<<n, i, e>> : n \in MlpNames, e \in 0..(c.experts - 1)} ELSE {})
                : i \in 0..(LayerCount(c) - 1)}

(* ep_rank_owns_expert and local_expert_range                              *)
LocalExperts(c, expert) ==
    LET each == c.experts \div c.dims.expert IN (expert * each)..((expert + 1) * each - 1)

IsLayer(w) == Len(w) > 1
IsExpert(w) == Len(w) = 3
Packed(i) == {<<"packed_gate_up", i>>, <<"packed_down", i>>}

(* Mutant: the head of a dense model is not loaded by the last stage.      *)
OnEnds_firstOnly(c, w, stage) ==
    LET first == stage = 0
        last == stage = c.dims.pipeline - 1
    IN  IF w = Embed THEN first ELSE last

(* Weights outside the layers: the last stage of a dense model has the     *)
(* embedding as its head.                                                  *)
OnEnds(c, w, stage) ==
    LET first == stage = 0
        last == stage = c.dims.pipeline - 1
    IN  IF w = Embed THEN first \/ (~c.moe /\ last) ELSE last

(* The parameters of the rank with coordinates at; with an expert group    *)
(* the experts of a layer are two tensors.                                 *)
StageRequired(c, at) ==
    LET range == LayerRange(c.dims, LayerCount(c), at.pipeline)
        here(w) == w[2] >= range.begin /\ w[2] < range.end
        required == RequiredWeightNames(c)
        packs == c.moe /\ c.dims.expert > 1
    IN  {w \in required : ~IsLayer(w) /\ OnEnds(c, w, at.pipeline)}
        \cup {w \in required : IsLayer(w) /\ here(w)
                 /\ (IsExpert(w) => ~packs /\ w[3] \in LocalExperts(c, at.expert))}
        \cup (IF packs THEN UNION {Packed(w[2]) : w \in {v \in required : IsExpert(v) /\ here(v)}}
              ELSE {})

(* What a parameter is on this rank: the experts packed in it, and for the *)
(* others the weight itself.                                               *)
Holds(c, at, w) ==
    CASE w[1] = "packed_gate_up" ->
            {<<n, w[2], e>> : n \in {"gate_proj", "up_proj"}, e \in LocalExperts(c, at.expert)}
      [] w[1] = "packed_down" -> {<<"down_proj", w[2], e>> : e \in LocalExperts(c, at.expert)}
      [] OTHER -> {w}

-----------------------------------------------------------------------------
(* What the model reads on a stage                                         *)

LmHead(c) == IF c.moe /\ ~c.tied THEN LmHeadWeight ELSE Embed

(* An expert group uses the packed weights; without one the experts are    *)
(* looked up by name, all of them.                                         *)
Reads(c, at) ==
    LET range == LayerRange(c.dims, LayerCount(c), at.pipeline)
        layer(i) ==
            {<<n, i>> : n \in {"input_layernorm", "post_layernorm"} \cup AttentionNames(c, i)}
            \cup (IF ~c.moe THEN {<<n, i>> : n \in MlpNames}
                  ELSE {<<"router", i>>}
                       \cup (IF c.dims.expert > 1 THEN Packed(i)
                             ELSE {<<n, i, e>> : n \in MlpNames, e \in 0..(c.experts - 1)}))
    IN  (UNION {layer(i) : i \in range.begin..(range.end - 1)})
        \cup (IF at.pipeline = 0 THEN {Embed} ELSE {})
        \cup (IF at.pipeline = c.dims.pipeline - 1 THEN {Norm, LmHead(c)} ELSE {})

(* Every rank holds what it reads, and reads what it holds.                *)
ReadsItsParameters(c) ==
    \A at \in Coords(c.dims) : Reads(c, at) = StageRequired(c, at)

(* Each weight of a layer is held by one stage and, if it is an expert's,  *)
(* by one rank of the expert group.                                        *)
HeldOnce(c) ==
    \A w \in RequiredWeightNames(c) :
        LET holders == {at \in Coords(c.dims) :
                           \E v \in StageRequired(c, at) : w \in Holds(c, at, v)}
            stages == {at.pipeline : at \in holders}
        IN  /\ IF w = Embed /\ ~c.moe THEN stages = {0, c.dims.pipeline - 1}
               ELSE Cardinality(stages) = 1
            /\ IF IsExpert(w) THEN Cardinality({at.expert : at \in holders}) = 1
               ELSE \A p \in stages, e \in 0..(c.dims.expert - 1) :
                       \E at \in holders : at.pipeline = p /\ at.expert = e
=============================================================================
