-------------------------- MODULE ParallelPlanProofs --------------------------
(***************************************************************************)
(* Proofs about what every rank works out for itself from the arrangement: *)
(* its place among the ranks, as the planning tool reports it, and what it *)
(* holds of a model, for arrangements of any size, models of any depth and *)
(* any number of experts.  The first are the lemmas of TopologyProofs in   *)
(* every state of the tool.  The second rest on two facts: the layer       *)
(* ranges of the stages follow one another, so that each layer lies on     *)
(* exactly one stage, and the experts of an expert group are blocks of one *)
(* size, so that each expert lies on exactly one rank.  The rest is which  *)
(* name is decided where.                                                  *)
(***************************************************************************)
EXTENDS ParallelPlan, ModelParallel, TopologyProofs, FiniteSetTheorems

(* The properties of the plan                                              *)

PlanInv ==
    /\ IsDims(P)
    /\ spec.world_size = World(P)
    /\ layers \in Nat
    /\ rank \in Nat

LEMMA PlanInvariant == Spec => []PlanInv
<1>1. Init => PlanInv
  BY PlanAssumption DEF Init, PlanInv, P, Valid
<1>2. PlanInv /\ [Next]_vars => PlanInv'
  BY DEF PlanInv, P, Next, PlanRank, vars
<1>. QED BY <1>1, <1>2, PTL DEF Spec

LEMMA ReportedRank == PlanInv /\ rank < spec.world_size => IsDims(P) /\ rank \in Ranks(P)
<1>. SUFFICES ASSUME PlanInv, rank < spec.world_size PROVE IsDims(P) /\ rank \in Ranks(P)
  OBVIOUS
<1>1. IsDims(P) /\ spec.world_size = World(P) /\ rank \in Nat
  BY DEF PlanInv
<1>2. World(P) \in Nat
  <2>1. \A q : IsDims(q) => World(q) \in Nat
    <3>. SUFFICES ASSUME NEW q, IsDims(q) PROVE World(q) \in Nat
      OBVIOUS
    <3>1. [data |-> 0, pipeline |-> 0, context |-> 0, tensor |-> 0, expert |-> 0] \in Coords(q)
      BY DimsType DEF Coords
    <3>. QED BY <3>1, PartialRanks
  <2>. QED BY <1>1, <2>1
<1>. QED BY <1>1, <1>2 DEF Ranks

(* For arrangements of any size: rank numbers and coordinates are          *)
(* one-to-one and in the same order.                                       *)
THEOREM RanksNumbered == Spec => []RankNumbering
<1>1. PlanInv => RankNumbering
  <2>. SUFFICES ASSUME PlanInv, rank < spec.world_size
                PROVE  /\ Info(rank) \in Coords(P)
                       /\ GlobalRank(P, Info(rank)) = rank
                       /\ \A q \in Ranks(P) : q < rank => Precedes(Info(q), Info(rank))
    BY DEF RankNumbering
  <2>1. IsDims(P) /\ rank \in Ranks(P)
    BY ReportedRank
  <2>2. \A q \in Ranks(P) : Info(q) \in Coords(P) /\ GlobalRank(P, Info(q)) = q
    BY <2>1, CoordsOfRank DEF Info
  <2>3. ASSUME NEW q \in Ranks(P), q < rank PROVE Before(Info(q), Info(rank))
    BY <2>1, <2>2, <2>3, RanksInOrder
  <2>4. \A c, d : Before(c, d) => Precedes(c, d)
    <3>. SUFFICES ASSUME NEW c, NEW d, Before(c, d) PROVE Precedes(c, d)
      OBVIOUS
    <3>1. CASE c.data < d.data
      <4>1. c[AxisOrder[1]] < d[AxisOrder[1]] /\ \A j \in 1..(1 - 1) : c[AxisOrder[j]] = d[AxisOrder[j]]
        BY <3>1 DEF AxisOrder
      <4>. QED BY <4>1 DEF Precedes
    <3>2. CASE c.data = d.data /\ c.pipeline < d.pipeline
      <4>1. c[AxisOrder[2]] < d[AxisOrder[2]] /\ \A j \in 1..(2 - 1) : c[AxisOrder[j]] = d[AxisOrder[j]]
        BY <3>2 DEF AxisOrder
      <4>. QED BY <4>1 DEF Precedes
    <3>3. CASE c.data = d.data /\ c.pipeline = d.pipeline /\ c.context < d.context
      <4>1. c[AxisOrder[3]] < d[AxisOrder[3]] /\ \A j \in 1..(3 - 1) : c[AxisOrder[j]] = d[AxisOrder[j]]
        BY <3>3 DEF AxisOrder
      <4>. QED BY <4>1 DEF Precedes
    <3>4. CASE c.data = d.data /\ c.pipeline = d.pipeline /\ c.context = d.context
               /\ c.tensor < d.tensor
      <4>1. c[AxisOrder[4]] < d[AxisOrder[4]] /\ \A j \in 1..(4 - 1) : c[AxisOrder[j]] = d[AxisOrder[j]]
        BY <3>4 DEF AxisOrder
      <4>. QED BY <4>1 DEF Precedes
    <3>5. CASE c.data = d.data /\ c.pipeline = d.pipeline /\ c.context = d.context
               /\ c.tensor = d.tensor /\ c.expert < d.expert
      <4>1. c[AxisOrder[5]] < d[AxisOrder[5]] /\ \A j \in 1..(5 - 1) : c[AxisOrder[j]] = d[AxisOrder[j]]
        BY <3>5 DEF AxisOrder
      <4>. QED BY <4>1 DEF Precedes
    <3>. QED BY <3>1, <3>2, <3>3, <3>4, <3>5 DEF Before
  <2>. QED BY <2>1, <2>2, <2>3, <2>4
<1>. QED BY <1>1, PlanInvariant, PTL

(* For arrangements of any size: every group a rank works out is the class *)
(* of the ranks that differ from it on that axis only, so members agree on *)
(* their groups and the groups of an axis partition the ranks.             *)
THEOREM GroupsPartition == Spec => []GroupsAreClasses
<1>1. PlanInv => GroupsAreClasses
  <2>. SUFFICES ASSUME PlanInv, rank < spec.world_size, NEW axis \in Axes
                PROVE  LET g == Group(P, Info(rank), axis)
                       IN  /\ Elements(g) = Along(rank, axis)
                           /\ Increasing(g)
                           /\ g[Info(rank)[axis] + 1] = rank
    BY DEF GroupsAreClasses
  <2>1. IsDims(P) /\ rank \in Ranks(P)
    BY ReportedRank
  <2>. QED BY <2>1, GroupIsClass DEF Info, Along
<1>. QED BY <1>1, PlanInvariant, PTL

(* For every size of a sequence group that divides the tensor group: its   *)
(* members agree on it, and it is a block of the tensor group.             *)
THEOREM SequenceGroupsAgree == Spec => []SequenceBlocks
<1>1. PlanInv => SequenceBlocks
  <2>. SUFFICES ASSUME PlanInv, rank < spec.world_size
                PROVE  LET g == SequenceGroup(P, Info(rank))
                       IN  /\ Elements(g) \subseteq Elements(Group(P, Info(rank), "tensor"))
                           /\ Increasing(g)
                           /\ g[SequenceRank(P, Info(rank)) + 1] = rank
                           /\ \A q \in Elements(g) : SequenceGroup(P, Info(q)) = g
    BY DEF SequenceBlocks
  <2>1. IsDims(P) /\ rank \in Ranks(P)
    BY ReportedRank
  <2>. QED BY <2>1, SequenceBlock DEF Info
<1>. QED BY <1>1, PlanInvariant, PTL

(* For any arrangement: the model groups are the replicas, and the rank in *)
(* the model communicator is the place in the group.                       *)
THEOREM ReplicasAgree == Spec => []ReplicasSplit
<1>1. PlanInv => ReplicasSplit
  <2>. SUFFICES ASSUME PlanInv, rank < spec.world_size
                PROVE  LET g == ModelGroup(P, Info(rank))
                       IN  /\ Elements(g) = {q \in Ranks(P) : Info(q).data = Info(rank).data}
                           /\ Increasing(g)
                           /\ g[ModelRank(P, Info(rank)) + 1] = rank
    BY DEF ReplicasSplit
  <2>1. IsDims(P) /\ rank \in Ranks(P)
    BY ReportedRank
  <2>. QED BY <2>1, ReplicaIsBlock DEF Info
<1>. QED BY <1>1, PlanInvariant, PTL

(* For any number of layers and stages: the stages' ranges are adjacent,   *)
(* cover the layers, and are as even as they can be.                       *)
THEOREM LayersCovered == Spec => []LayersSplit
<1>1. PlanInv => LayersSplit
  <2>. DEFINE Size(s) == LayerRange(P, layers, s).end - LayerRange(P, layers, s).begin
              stage == Info(rank).pipeline
  <2>. SUFFICES ASSUME PlanInv, rank < spec.world_size
                PROVE  /\ LayerRange(P, layers, stage).begin =
                              IF stage = 0 THEN 0 ELSE LayerRange(P, layers, stage - 1).end
                       /\ stage = P.pipeline - 1 => LayerRange(P, layers, stage).end = layers
                       /\ \A s \in 0..(P.pipeline - 1) : Size(stage) - Size(s) \in {-1, 0, 1}
    BY DEF LayersSplit
  <2>1. IsDims(P) /\ rank \in Ranks(P) /\ layers \in Nat
    BY ReportedRank DEF PlanInv
  <2>2. stage \in 0..(P.pipeline - 1)
    BY <2>1, CoordsOfRank, CoordsType DEF Info
  <2>3. layers \div P.pipeline \in Nat
    BY <2>1, DimsType
  <2>4. \A s \in 0..(P.pipeline - 1) :
            Size(s) \in {layers \div P.pipeline, layers \div P.pipeline + 1}
    BY <2>1, LayersInOrder
  <2>5. \A s \in 0..(P.pipeline - 1) : Size(stage) - Size(s) \in {-1, 0, 1}
    <3>. HIDE DEF Size, stage
    <3>. QED BY <2>2, <2>3, <2>4
  <2>. HIDE DEF stage
  <2>. QED BY <2>1, <2>2, <2>5, LayersInOrder
<1>. QED BY <1>1, PlanInvariant, PTL

(* For any arrangement: the stages' neighbours name each other.            *)
THEOREM NeighboursMeet == Spec => []PeersMeet
<1>1. PlanInv => PeersMeet
  <2>. SUFFICES ASSUME PlanInv, rank < spec.world_size
                PROVE  LET peers == PipelinePeers(P, Info(rank))
                           group == Group(P, Info(rank), "pipeline")
                           at == Info(rank).pipeline + 1
                       IN  /\ peers.next = IF at = Len(group) THEN NoRank ELSE group[at + 1]
                           /\ peers.previous = IF at = 1 THEN NoRank ELSE group[at - 1]
                           /\ peers.next # NoRank =>
                                  PipelinePeers(P, Info(peers.next)).previous = rank
    BY DEF PeersMeet
  <2>1. IsDims(P) /\ rank \in Ranks(P)
    BY ReportedRank
  <2>2. Info(rank).pipeline \in Nat
    BY <2>1, CoordsOfRank, CoordsType, DimsType DEF Info
  <2>3. /\ (Info(rank).pipeline + 1) + 1 = Info(rank).pipeline + 2
        /\ (Info(rank).pipeline + 1) - 1 = Info(rank).pipeline
        /\ Info(rank).pipeline + 1 = 1 <=> Info(rank).pipeline = 0
    BY <2>2
  <2>. QED BY <2>1, <2>3, PeersAreNeighbours DEF Info
<1>. QED BY <1>1, PlanInvariant, PTL

-----------------------------------------------------------------------------
(* The weights of a model                                                  *)

(* A model and an arrangement the loader accepts: each rank of an expert   *)
(* group has as many experts, and only sparse models are given one.        *)
IsModel(c) ==
    /\ c.types \in Seq({"full_attention", "linear_attention"})
    /\ IsDims(c.dims)
    /\ c.experts \in Nat \ {0} /\ (c.experts % c.dims.expert) = 0
    /\ c.moe \in BOOLEAN /\ c.tied \in BOOLEAN
    /\ c.dims.expert > 1 => c.moe

LEMMA ModelType ==
    ASSUME NEW c, IsModel(c)
    PROVE  /\ LayerCount(c) \in Nat /\ IsDims(c.dims)
           /\ c.dims.pipeline \in Nat \ {0} /\ c.dims.expert \in Nat \ {0}
           /\ c.experts \in Nat \ {0} /\ (c.experts % c.dims.expert) = 0
           /\ c.moe \in BOOLEAN /\ c.tied \in BOOLEAN /\ (c.dims.expert > 1 => c.moe)
BY DimsType DEF IsModel, LayerCount

-----------------------------------------------------------------------------
(* Where a layer and where an expert lies                                  *)

(* The layers of one stage end before those of a later one begin.          *)
LEMMA LayersBefore ==
    ASSUME NEW p, IsDims(p), NEW n \in Nat,
           NEW s \in 0..(p.pipeline - 1), NEW t \in 0..(p.pipeline - 1), s < t
    PROVE  LayerRange(p, n, s).end <= LayerRange(p, n, t).begin
<1>. DEFINE stages == p.pipeline
            base == n \div stages
            rem == n % stages
<1>1. stages \in Nat \ {0} /\ s \in 0..(stages - 1) /\ t \in 0..(stages - 1)
  BY DimsType
<1>2. base \in Nat /\ rem \in 0..(stages - 1)
  BY <1>1, DigitsOf
<1>3. /\ LayerRange(p, n, t).begin = t * base + (IF t <= rem THEN t ELSE rem)
      /\ LayerRange(p, n, s).end = s * base + (IF s <= rem THEN s ELSE rem) + base
                                   + (IF s < rem THEN 1 ELSE 0)
  BY DEF LayerRange
<1>. HIDE DEF stages, base, rem
<1>4. s + 1 <= t /\ s \in Nat /\ t \in Nat
  BY <1>1
<1>5. (s + 1) * base <= t * base /\ (s + 1) * base = s * base + base /\ s * base \in Nat
      /\ t * base \in Nat
  BY <1>2, <1>4
<1>. DEFINE x == s * base
            y == t * base
<1>. HIDE DEF x, y
<1>6. x \in Nat /\ y \in Nat /\ x + base <= y
  BY <1>5 DEF x, y
<1>7. y + (IF t <= rem THEN t ELSE rem)
        >= x + (IF s <= rem THEN s ELSE rem) + base + (IF s < rem THEN 1 ELSE 0)
  BY ONLY <1>2, <1>4, <1>6, <1>1
<1>8. /\ LayerRange(p, n, t).begin = y + (IF t <= rem THEN t ELSE rem)
      /\ LayerRange(p, n, s).end = x + (IF s <= rem THEN s ELSE rem) + base
                                   + (IF s < rem THEN 1 ELSE 0)
  BY <1>3 DEF x, y
<1>9. (IF t <= rem THEN t ELSE rem) \in Nat /\ (IF s <= rem THEN s ELSE rem) \in Nat
  BY <1>2, <1>4
<1>. QED BY ONLY <1>2, <1>6, <1>7, <1>8, <1>9

Here(c, s, i) == LET range == LayerRange(c.dims, LayerCount(c), s)
                 IN  range.begin <= i /\ i < range.end
Stage(c) == 0..(c.dims.pipeline - 1)

LEMMA RangeType ==
    ASSUME NEW c, IsModel(c), NEW s \in Stage(c)
    PROVE  /\ LayerRange(c.dims, LayerCount(c), s).begin \in Nat
           /\ LayerRange(c.dims, LayerCount(c), s).end \in 0..LayerCount(c)
<1>. DEFINE last == c.dims.pipeline - 1
            n == LayerCount(c)
<1>1. IsDims(c.dims) /\ n \in Nat /\ last \in Stage(c) /\ last \in Nat
  BY ModelType DEF Stage
<1>2. /\ LayerRange(c.dims, n, s).begin \in Nat /\ LayerRange(c.dims, n, s).end \in Nat
      /\ LayerRange(c.dims, n, last).begin \in Nat /\ LayerRange(c.dims, n, last).end = n
      /\ LayerRange(c.dims, n, last).end - LayerRange(c.dims, n, last).begin
            \in {n \div c.dims.pipeline, n \div c.dims.pipeline + 1}
  BY <1>1, LayersInOrder DEF Stage
<1>3. n \div c.dims.pipeline \in Nat
  BY <1>1, ModelType
<1>4. LayerRange(c.dims, n, last).begin <= n
  BY <1>1, <1>2, <1>3
<1>5. CASE s = last
  BY <1>2, <1>5
<1>6. CASE s < last
  BY <1>1, <1>2, <1>4, <1>6, LayersBefore DEF Stage
<1>. QED BY <1>1, <1>5, <1>6 DEF Stage

(* Each layer lies on one stage.                                           *)
LEMMA OneStage ==
    ASSUME NEW c, IsModel(c), NEW i \in 0..(LayerCount(c) - 1)
    PROVE  \E s \in Stage(c) : \A t \in Stage(c) : Here(c, t, i) <=> t = s
<1>. DEFINE n == LayerCount(c)
            End(s) == LayerRange(c.dims, n, s).end
            Begin(s) == LayerRange(c.dims, n, s).begin
            S == {s \in Stage(c) : i < End(s)}
<1>1. IsDims(c.dims) /\ n \in Nat /\ c.dims.pipeline \in Nat \ {0} /\ Stage(c) \subseteq Nat
  BY ModelType DEF Stage
<1>2. \A s \in Stage(c) : Begin(s) \in Nat /\ End(s) \in Nat
  BY RangeType
<1>3. c.dims.pipeline - 1 \in S
  BY <1>1, LayersInOrder DEF Stage
<1>4. PICK s \in S : \A t \in S : ~(t < s)
  <2>1. PICK s \in S : \A t \in S : <<t, s>> \notin OpToRel(<, Nat)
    BY <1>1, <1>3, NatLessThanWellFounded, WFMin
  <2>. QED BY <1>1, <2>1 DEF OpToRel
<1>5. Begin(s) <= i
  <2>1. CASE s = 0
    BY <1>1, <1>2, <2>1, LayersInOrder DEF Stage
  <2>2. CASE s # 0
    <3>1. s - 1 \in Stage(c) /\ s - 1 < s
      BY <1>1, <2>2 DEF Stage
    <3>2. s - 1 \notin S
      BY <1>4, <3>1
    <3>3. ~(i < End(s - 1)) /\ Begin(s) = End(s - 1)
      BY <1>1, <2>2, <3>1, <3>2, LayersInOrder DEF Stage
    <3>. QED BY <1>2, <3>1, <3>3
  <2>. QED BY <2>1, <2>2
<1>6. ASSUME NEW t \in Stage(c), Begin(t) <= i, i < End(t) PROVE t = s
  <2>1. ~(t < s)
    BY <1>4, <1>6
  <2>2. ~(s < t)
    <3>1. SUFFICES ASSUME s < t PROVE FALSE
      OBVIOUS
    <3>2. End(s) <= Begin(t)
      BY <1>1, <3>1, LayersBefore DEF Stage
    <3>. QED BY <1>2, <1>6, <3>2
  <2>. QED BY <1>1, <2>1, <2>2
<1>. QED BY <1>4, <1>5, <1>6 DEF Here

(* The experts of the ranks of a group are consecutive blocks.             *)
LEMMA OneExpertRank ==
    ASSUME NEW c, IsModel(c), NEW e \in 0..(c.experts - 1)
    PROVE  \E x \in 0..(c.dims.expert - 1) :
               \A y \in 0..(c.dims.expert - 1) : e \in LocalExperts(c, y) <=> y = x
<1>. DEFINE ep == c.dims.expert
            each == c.experts \div ep
<1>1. ep \in Nat \ {0} /\ c.experts \in Nat \ {0} /\ (c.experts % ep) = 0
  BY ModelType
<1>. HIDE DEF ep
<1>2. each \in Nat /\ c.experts = each * ep
  <2>1. each \in Nat /\ c.experts = each * ep + (c.experts % ep)
    BY <1>1, DigitsOf
  <2>2. each * ep \in Nat
    BY <1>1, <2>1
  <2>. HIDE DEF each
  <2>. QED BY <1>1, <2>1, <2>2
<1>. HIDE DEF each
<1>3. each \in Nat \ {0}
  BY <1>1, <1>2
<1>4. c.experts = ep * each /\ e \in Nat /\ e < ep * each
  BY <1>1, <1>2
<1>. DEFINE x == e \div each
<1>5. x \in 0..(ep - 1)
  BY <1>1, <1>3, <1>4, DigitLimit
<1>6. x \in Nat /\ (e % each) \in 0..(each - 1) /\ e = x * each + (e % each)
  BY <1>3, <1>4, DigitsOf
<1>. DEFINE d == e % each
<1>. HIDE DEF x, d
<1>7. ASSUME NEW y \in 0..(ep - 1)
      PROVE  (y * each <= e /\ e <= (y + 1) * each - 1) <=> y = x
  <2>1. /\ x * each \in Nat /\ y * each \in Nat /\ (y + 1) * each = y * each + each
        /\ d \in 0..(each - 1) /\ e = x * each + d /\ y \in Nat
    BY <1>1, <1>3, <1>6 DEF d
  <2>2. CASE x < y
    <3>1. (x + 1) * each <= y * each /\ (x + 1) * each = x * each + each
      BY <1>3, <1>6, <2>1, <2>2
    <3>. QED BY <1>3, <1>6, <2>1, <2>2, <3>1
  <2>3. CASE y < x
    <3>1. (y + 1) * each <= x * each
      BY <1>3, <1>6, <2>1, <2>3
    <3>. QED BY <1>3, <1>6, <2>1, <2>3, <3>1
  <2>4. CASE y = x
    BY <1>3, <2>1, <2>4
  <2>. QED BY <1>6, <2>1, <2>2, <2>3, <2>4
<1>8. \A y \in 0..(ep - 1) : e \in LocalExperts(c, y) <=> y = x
  <2>1. \A y \in 0..(ep - 1) :
           LocalExperts(c, y) = (y * each)..((y + 1) * each - 1)
    BY DEF LocalExperts, each, ep
  <2>2. \A y \in 0..(ep - 1) : y * each \in Int /\ (y + 1) * each - 1 \in Int
    BY <1>1, <1>3
  <2>. QED BY <1>4, <1>7, <2>1, <2>2
<1>. QED BY <1>5, <1>8 DEF ep

-----------------------------------------------------------------------------
(* The weights of a model, and those a stage holds and reads               *)

Outside(c) == {Embed, Norm} \cup (IF c.moe /\ ~c.tied THEN {LmHeadWeight} ELSE {})
LayerNames(c, i) ==
    AttentionNames(c, i) \cup {"input_layernorm", "post_layernorm"}
        \cup (IF c.moe THEN {"router"} ELSE MlpNames)
OfLayer(c, i) == {<<n, i>> : n \in LayerNames(c, i)}
OfExperts(c, i) == {<<n, i, e>> : n \in MlpNames, e \in 0..(c.experts - 1)}
Layers(c) == 0..(LayerCount(c) - 1)
HereOf(c, s) == {i \in Layers(c) : Here(c, s, i)}
Packs(c) == c.moe /\ c.dims.expert > 1

LEMMA Weights ==
    ASSUME NEW c, IsModel(c)
    PROVE  \A w : w \in RequiredWeightNames(c) <=>
                      \/ w \in Outside(c)
                      \/ \E i \in Layers(c) : w \in OfLayer(c, i)
                      \/ c.moe /\ \E i \in Layers(c) : w \in OfExperts(c, i)
<1>. DEFINE of(i) == OfLayer(c, i) \cup (IF c.moe THEN OfExperts(c, i) ELSE {})
<1>1. RequiredWeightNames(c) = Outside(c) \cup UNION {of(i) : i \in Layers(c)}
  BY SMT DEF RequiredWeightNames, Outside, OfLayer, LayerNames, OfExperts, Layers
<1>2. \A i, w : w \in of(i) <=> w \in OfLayer(c, i) \/ (c.moe /\ w \in OfExperts(c, i))
  OBVIOUS
<1>. HIDE DEF of
<1>. QED BY <1>1, <1>2

LEMMA Shapes ==
    ASSUME NEW c, NEW i
    PROVE  /\ \A w \in Outside(c) : ~IsLayer(w) /\ ~IsExpert(w)
           /\ \A w \in OfLayer(c, i) : IsLayer(w) /\ ~IsExpert(w) /\ w[2] = i
           /\ \A w \in OfExperts(c, i) : IsLayer(w) /\ IsExpert(w) /\ w[2] = i
                                          /\ w[3] \in 0..(c.experts - 1)
<1>1. \A x, y, z : Len(<<x>>) = 1 /\ Len(<<x, y>>) = 2 /\ Len(<<x, y, z>>) = 3
  OBVIOUS
<1>2. \A x, y, z : <<x, y>>[2] = y /\ <<x, y, z>>[2] = y /\ <<x, y, z>>[3] = z
  OBVIOUS
<1>3. \A w \in Outside(c) : Len(w) = 1
  BY <1>1 DEF Outside, Embed, Norm, LmHeadWeight
<1>4. \A w \in OfLayer(c, i) : Len(w) = 2 /\ w[2] = i
  BY <1>1, <1>2 DEF OfLayer
<1>5. \A w \in OfExperts(c, i) : Len(w) = 3 /\ w[2] = i /\ w[3] \in 0..(c.experts - 1)
  BY <1>1, <1>2 DEF OfExperts
<1>6. \A w : /\ Len(w) = 1 => ~IsLayer(w) /\ ~IsExpert(w)
             /\ Len(w) = 2 => IsLayer(w) /\ ~IsExpert(w)
             /\ Len(w) = 3 => IsLayer(w) /\ IsExpert(w)
  BY DEF IsLayer, IsExpert
<1>7. \A w \in Outside(c) : ~IsLayer(w) /\ ~IsExpert(w)
  BY <1>3, <1>6
<1>8. \A w \in OfLayer(c, i) : IsLayer(w) /\ ~IsExpert(w) /\ w[2] = i
  BY <1>4, <1>6
<1>9. \A w \in OfExperts(c, i) : IsLayer(w) /\ IsExpert(w) /\ w[2] = i
                                  /\ w[3] \in 0..(c.experts - 1)
  BY <1>5, <1>6
<1>. QED BY <1>7, <1>8, <1>9

LEMMA RangeIs ==
    ASSUME NEW c, IsModel(c), NEW s \in Stage(c)
    PROVE  LET range == LayerRange(c.dims, LayerCount(c), s)
           IN  HereOf(c, s) = range.begin..(range.end - 1)
<1>. DEFINE begin == LayerRange(c.dims, LayerCount(c), s).begin
            end == LayerRange(c.dims, LayerCount(c), s).end
<1>1. begin \in Nat /\ end \in 0..LayerCount(c) /\ LayerCount(c) \in Nat
  BY RangeType, ModelType
<1>2. \A i : Here(c, s, i) <=> begin <= i /\ i < end
  BY DEF Here
<1>. HIDE DEF begin, end
<1>3. HereOf(c, s) = begin..(end - 1)
  BY <1>1, <1>2 DEF HereOf, Layers
<1>. QED BY <1>3 DEF begin, end

(* The parameters of a rank.                                               *)
LEMMA Held ==
    ASSUME NEW c, IsModel(c), NEW at \in Coords(c.dims), NEW w
    PROVE  w \in StageRequired(c, at) <=>
               \/ w \in Outside(c) /\ OnEnds(c, w, at.pipeline)
               \/ \E i \in HereOf(c, at.pipeline) : w \in OfLayer(c, i)
               \/ ~Packs(c) /\ c.moe /\ \E i \in HereOf(c, at.pipeline) :
                       w \in OfExperts(c, i) /\ w[3] \in LocalExperts(c, at.expert)
               \/ Packs(c) /\ \E i \in HereOf(c, at.pipeline) : w \in Packed(i)
<1>. DEFINE s == at.pipeline
            here(v) == Here(c, s, v[2])
            required == RequiredWeightNames(c)
            A == {v \in required : ~IsLayer(v) /\ OnEnds(c, v, s)}
            B == {v \in required : IsLayer(v) /\ here(v)
                     /\ (IsExpert(v) => ~Packs(c) /\ v[3] \in LocalExperts(c, at.expert))}
            C == IF Packs(c) THEN UNION {Packed(v[2]) : v \in {u \in required : IsExpert(u) /\ here(u)}}
                 ELSE {}
<1>1. StageRequired(c, at) = A \cup B \cup C
  BY DEF StageRequired, Here, Packs
<1>2. w \in A <=> w \in Outside(c) /\ OnEnds(c, w, s)
  BY Weights, Shapes
<1>3. w \in B <=> \/ \E i \in HereOf(c, s) : w \in OfLayer(c, i)
                  \/ ~Packs(c) /\ c.moe /\ \E i \in HereOf(c, s) :
                       w \in OfExperts(c, i) /\ w[3] \in LocalExperts(c, at.expert)
  BY Weights, Shapes DEF HereOf
<1>4. w \in C <=> Packs(c) /\ \E i \in HereOf(c, s) : w \in Packed(i)
  <2>1. ASSUME Packs(c), NEW i \in HereOf(c, s) PROVE \E v \in required : IsExpert(v) /\ here(v) /\ v[2] = i
    <3>1. <<"gate_proj", i, 0>> \in OfExperts(c, i)
      BY ModelType DEF OfExperts, MlpNames
    <3>. QED BY <2>1, <3>1, Weights, Shapes DEF HereOf, Packs
  <2>2. ASSUME NEW v \in required, IsExpert(v), here(v) PROVE v[2] \in HereOf(c, s)
    BY <2>2, Weights, Shapes DEF HereOf
  <2>. QED BY <2>1, <2>2
<1>. QED BY <1>1, <1>2, <1>3, <1>4

(* What the model reads on a rank.                                         *)
LEMMA ReadHere ==
    ASSUME NEW c, IsModel(c), NEW at \in Coords(c.dims), NEW w
    PROVE  w \in Reads(c, at) <=>
               \/ at.pipeline = 0 /\ w = Embed
               \/ at.pipeline = c.dims.pipeline - 1 /\ w \in {Norm, LmHead(c)}
               \/ \E i \in HereOf(c, at.pipeline) : w \in OfLayer(c, i)
               \/ ~Packs(c) /\ c.moe /\ \E i \in HereOf(c, at.pipeline) : w \in OfExperts(c, i)
               \/ Packs(c) /\ \E i \in HereOf(c, at.pipeline) : w \in Packed(i)
<1>. DEFINE s == at.pipeline
            layer(i) ==
                {<<n, i>> : n \in {"input_layernorm", "post_layernorm"} \cup AttentionNames(c, i)}
                \cup (IF ~c.moe THEN {<<n, i>> : n \in MlpNames}
                      ELSE {<<"router", i>>}
                           \cup (IF c.dims.expert > 1 THEN Packed(i)
                                 ELSE {<<n, i, e>> : n \in MlpNames, e \in 0..(c.experts - 1)}))
<1>1. s \in Stage(c)
  BY CoordsType DEF Stage
<1>2. Reads(c, at) = (UNION {layer(i) : i \in HereOf(c, s)})
                     \cup (IF s = 0 THEN {Embed} ELSE {})
                     \cup (IF s = c.dims.pipeline - 1 THEN {Norm, LmHead(c)} ELSE {})
  <2>. DEFINE range == LayerRange(c.dims, LayerCount(c), s)
  <2>1. Reads(c, at) = (UNION {layer(i) : i \in range.begin..(range.end - 1)})
                       \cup (IF s = 0 THEN {Embed} ELSE {})
                       \cup (IF s = c.dims.pipeline - 1 THEN {Norm, LmHead(c)} ELSE {})
    BY DEF Reads
  <2>2. HereOf(c, s) = range.begin..(range.end - 1)
    BY <1>1, RangeIs
  <2>. HIDE DEF layer, range
  <2>. QED BY <2>1, <2>2
<1>3. ASSUME NEW i, NEW v
      PROVE  v \in layer(i) <=> \/ v \in OfLayer(c, i)
                                \/ ~Packs(c) /\ c.moe /\ v \in OfExperts(c, i)
                                \/ Packs(c) /\ v \in Packed(i)
  <2>1. v \in OfLayer(c, i) <=>
            \/ v \in {<<n, i>> : n \in {"input_layernorm", "post_layernorm"} \cup AttentionNames(c, i)}
            \/ ~c.moe /\ v \in {<<n, i>> : n \in MlpNames}
            \/ c.moe /\ v = <<"router", i>>
    BY DEF OfLayer, LayerNames
  <2>2. OfExperts(c, i) = {<<n, i, e>> : n \in MlpNames, e \in 0..(c.experts - 1)}
    BY DEF OfExperts
  <2>3. layer(i) =
            {<<n, i>> : n \in {"input_layernorm", "post_layernorm"} \cup AttentionNames(c, i)}
            \cup (IF ~c.moe THEN {<<n, i>> : n \in MlpNames}
                  ELSE {<<"router", i>>}
                       \cup (IF c.dims.expert > 1 THEN Packed(i) ELSE OfExperts(c, i)))
    BY <2>2
  <2>. HIDE DEF layer
  <2>. QED BY <2>1, <2>3 DEF Packs
<1>. HIDE DEF layer
<1>4. w \in Reads(c, at) <=> \/ \E i \in HereOf(c, s) : w \in layer(i)
                             \/ s = 0 /\ w = Embed
                             \/ s = c.dims.pipeline - 1 /\ w \in {Norm, LmHead(c)}
  BY <1>2
<1>5. Packs(c) => c.moe
  BY DEF Packs
<1>. QED BY <1>3, <1>4, <1>5

(* Every rank holds what it reads, and reads what it holds, unless the     *)
(* model is the one left out: sparse, with a tied head, on several stages. *)
LEMMA HoldsWhatItReads ==
    ASSUME NEW c, IsModel(c), ~(c.moe /\ c.tied /\ c.dims.pipeline > 1)
    PROVE  ReadsItsParameters(c)
<1>. SUFFICES ASSUME NEW at \in Coords(c.dims), NEW w
              PROVE  w \in Reads(c, at) <=> w \in StageRequired(c, at)
  BY DEF ReadsItsParameters
<1>. DEFINE s == at.pipeline
            last == c.dims.pipeline - 1
<1>1. s \in 0..last /\ last \in Nat /\ at.expert \in 0..(c.dims.expert - 1)
  BY CoordsType, ModelType
<1>2. \/ s = 0 /\ w = Embed
      \/ s = last /\ w \in {Norm, LmHead(c)}
      <=> w \in Outside(c) /\ OnEnds(c, w, s)
  <2>1. Embed # Norm /\ Embed # LmHeadWeight /\ Norm # LmHeadWeight
    BY DEF Embed, Norm, LmHeadWeight
  <2>2. OnEnds(c, w, s) <=> IF w = Embed THEN s = 0 \/ (~c.moe /\ s = last) ELSE s = last
    BY DEF OnEnds
  <2>3. c.moe /\ c.tied => last = 0
    BY ModelType
  <2>. HIDE DEF s, last
  <2>. QED BY <1>1, <2>1, <2>2, <2>3 DEF Outside, LmHead
<1>3. ASSUME ~Packs(c), c.moe, NEW i, w \in OfExperts(c, i) PROVE w[3] \in LocalExperts(c, at.expert)
  <2>1. c.dims.expert = 1 /\ at.expert = 0
    BY <1>1, <1>3, ModelType DEF Packs
  <2>2. w[3] \in 0..(c.experts - 1)
    BY <1>3, Shapes
  <2>3. PICK x \in 0..0 : \A y \in 0..0 : w[3] \in LocalExperts(c, y) <=> y = x
    BY <2>1, <2>2, OneExpertRank
  <2>. QED BY <2>1, <2>3
<1>. HIDE DEF s, last
<1>. QED BY <1>2, <1>3, Held, ReadHere DEF s, last

(* Who holds a weight: the rank it lies on by its place, layer or expert.  *)
HolderOf(c, w, at) == \E v \in StageRequired(c, at) : w \in Holds(c, at, v)

LEMMA NotPacked ==
    ASSUME NEW c, NEW i, NEW at
    PROVE  /\ \A w \in Outside(c) : Holds(c, at, w) = {w}
           /\ \A w \in OfLayer(c, i) : Holds(c, at, w) = {w}
           /\ \A w \in OfExperts(c, i) : Holds(c, at, w) = {w}
<1>1. \A w : w[1] # "packed_gate_up" /\ w[1] # "packed_down" => Holds(c, at, w) = {w}
  BY DEF Holds
<1>2. \A w \in Outside(c) : w[1] # "packed_gate_up" /\ w[1] # "packed_down"
  BY DEF Outside, Embed, Norm, LmHeadWeight
<1>3. \A n \in LayerNames(c, i) : n # "packed_gate_up" /\ n # "packed_down"
  BY DEF LayerNames, AttentionNames, MlpNames
<1>4. \A w \in OfLayer(c, i) : w[1] # "packed_gate_up" /\ w[1] # "packed_down"
  BY <1>3 DEF OfLayer
<1>5. \A w \in OfExperts(c, i) : w[1] # "packed_gate_up" /\ w[1] # "packed_down"
  BY DEF OfExperts, MlpNames
<1>. QED BY <1>1, <1>2, <1>4, <1>5

LEMMA InPacked ==
    ASSUME NEW c, NEW i, NEW at, NEW w
    PROVE  (\E v \in Packed(i) : w \in Holds(c, at, v))
               <=> w \in {<<n, i, e>> : n \in MlpNames, e \in LocalExperts(c, at.expert)}
<1>1. Holds(c, at, <<"packed_gate_up", i>>) =
          {<<n, i, e>> : n \in {"gate_proj", "up_proj"}, e \in LocalExperts(c, at.expert)}
  BY DEF Holds
<1>2. Holds(c, at, <<"packed_down", i>>) = {<<"down_proj", i, e>> : e \in LocalExperts(c, at.expert)}
  BY DEF Holds
<1>. QED BY <1>1, <1>2 DEF Packed, MlpNames

LEMMA Holders ==
    ASSUME NEW c, IsModel(c), NEW at \in Coords(c.dims), NEW w \in RequiredWeightNames(c)
    PROVE  HolderOf(c, w, at) <=>
               IF IsLayer(w)
                 THEN Here(c, at.pipeline, w[2])
                      /\ (IsExpert(w) => w[3] \in LocalExperts(c, at.expert))
                 ELSE OnEnds(c, w, at.pipeline)
<1>. DEFINE here == HereOf(c, at.pipeline)
            local(i) == {<<n, i, e>> : n \in MlpNames, e \in LocalExperts(c, at.expert)}
<1>1. HolderOf(c, w, at) <=>
          \/ w \in Outside(c) /\ OnEnds(c, w, at.pipeline)
          \/ \E i \in here : w \in OfLayer(c, i)
          \/ ~Packs(c) /\ c.moe /\ \E i \in here :
                 w \in OfExperts(c, i) /\ w[3] \in LocalExperts(c, at.expert)
          \/ Packs(c) /\ \E i \in here : w \in local(i)
  <2>1. ASSUME w \in Outside(c), OnEnds(c, w, at.pipeline) PROVE HolderOf(c, w, at)
    BY <2>1, Held, NotPacked DEF HolderOf
  <2>2. ASSUME NEW i \in here, w \in OfLayer(c, i) PROVE HolderOf(c, w, at)
    BY <2>2, Held, NotPacked DEF HolderOf
  <2>3. ASSUME ~Packs(c), c.moe, NEW i \in here, w \in OfExperts(c, i),
               w[3] \in LocalExperts(c, at.expert)
        PROVE  HolderOf(c, w, at)
    BY <2>3, Held, NotPacked DEF HolderOf
  <2>4. ASSUME Packs(c), NEW i \in here, w \in local(i) PROVE HolderOf(c, w, at)
    <3>1. PICK v \in Packed(i) : w \in Holds(c, at, v)
      BY <2>4, InPacked
    <3>2. v \in StageRequired(c, at)
      BY <2>4, Held
    <3>. QED BY <3>1, <3>2 DEF HolderOf
  <2>5. ASSUME NEW v \in StageRequired(c, at), w \in Holds(c, at, v)
        PROVE  \/ w \in Outside(c) /\ OnEnds(c, w, at.pipeline)
               \/ \E i \in here : w \in OfLayer(c, i)
               \/ ~Packs(c) /\ c.moe /\ \E i \in here :
                      w \in OfExperts(c, i) /\ w[3] \in LocalExperts(c, at.expert)
               \/ Packs(c) /\ \E i \in here : w \in local(i)
    <3>1. CASE v \in Outside(c) /\ OnEnds(c, v, at.pipeline)
      <4>1. w = v
        BY <2>5, <3>1, NotPacked
      <4>. QED BY <3>1, <4>1
    <3>2. ASSUME NEW i \in here, v \in OfLayer(c, i) PROVE \E j \in here : w \in OfLayer(c, j)
      <4>1. w = v
        BY <2>5, <3>2, NotPacked
      <4>. QED BY <3>2, <4>1
    <3>3. ASSUME NEW i \in here, v \in OfExperts(c, i), v[3] \in LocalExperts(c, at.expert)
          PROVE  \E j \in here : w \in OfExperts(c, j) /\ w[3] \in LocalExperts(c, at.expert)
      <4>1. w = v
        BY <2>5, <3>3, NotPacked
      <4>. QED BY <3>3, <4>1
    <3>4. ASSUME NEW i \in here, v \in Packed(i) PROVE w \in local(i)
      BY <2>5, <3>4, InPacked
    <3>. HIDE DEF local
    <3>. QED BY <3>1, <3>2, <3>3, <3>4, Held
  <2>. HIDE DEF local, here
  <2>. QED BY <2>1, <2>2, <2>3, <2>4, <2>5 DEF HolderOf
<1>2. CASE w \in Outside(c)
  <2>1. ~IsLayer(w) /\ ~IsExpert(w)
    BY <1>2, Shapes
  <2>2. \A i : w \notin OfLayer(c, i) /\ w \notin OfExperts(c, i)
    BY <2>1, Shapes
  <2>3. \A i : w \notin local(i)
    <3>1. \A i : \A v \in local(i) : Len(v) = 3
      OBVIOUS
    <3>. QED BY <2>1, <3>1 DEF IsExpert
  <2>. HIDE DEF local, here
  <2>. QED BY <1>1, <1>2, <2>1, <2>2, <2>3
<1>3. ASSUME NEW i \in Layers(c), w \in OfLayer(c, i)
      PROVE  HolderOf(c, w, at) <=> Here(c, at.pipeline, i)
  <2>1. IsLayer(w) /\ ~IsExpert(w) /\ w[2] = i
    BY <1>3, Shapes
  <2>2. w \notin Outside(c) /\ \A j : w \notin OfExperts(c, j) /\ (w \in OfLayer(c, j) => j = i)
    BY <2>1, Shapes
  <2>3. \A j : w \notin local(j)
    <3>1. \A j : \A v \in local(j) : Len(v) = 3
      OBVIOUS
    <3>. QED BY <2>1, <3>1 DEF IsExpert
  <2>4. i \in here <=> Here(c, at.pipeline, i)
    BY DEF HereOf
  <2>. HIDE DEF local, here
  <2>. QED BY <1>1, <1>3, <2>2, <2>3, <2>4
<1>4. ASSUME c.moe, NEW i \in Layers(c), w \in OfExperts(c, i)
      PROVE  HolderOf(c, w, at)
                 <=> Here(c, at.pipeline, i) /\ w[3] \in LocalExperts(c, at.expert)
  <2>1. IsLayer(w) /\ IsExpert(w) /\ w[2] = i
    BY <1>4, Shapes
  <2>2. w \notin Outside(c) /\ \A j : w \notin OfLayer(c, j) /\ (w \in OfExperts(c, j) => j = i)
    BY <2>1, Shapes
  <2>3. PICK n \in MlpNames, e \in 0..(c.experts - 1) : w = <<n, i, e>>
    BY <1>4 DEF OfExperts
  <2>4. w[3] = e
    BY <2>3
  <2>5. \A j : w \in local(j) <=> j = i /\ e \in LocalExperts(c, at.expert)
    BY <2>3
  <2>6. i \in here <=> Here(c, at.pipeline, i)
    BY DEF HereOf
  <2>. HIDE DEF local, here
  <2>. QED BY <1>1, <1>4, <2>2, <2>4, <2>5, <2>6 DEF Packs
<1>. HIDE DEF here, local
<1>5. CASE \E i \in Layers(c) : w \in OfLayer(c, i)
  BY <1>3, <1>5, Shapes
<1>6. CASE c.moe /\ \E i \in Layers(c) : w \in OfExperts(c, i)
  BY <1>4, <1>6, Shapes
<1>7. CASE w \in Outside(c)
  BY <1>2, <1>7, Shapes
<1>. QED BY <1>5, <1>6, <1>7, Weights

LEMMA SomeRank ==
    ASSUME NEW p, IsDims(p), NEW s \in 0..(p.pipeline - 1), NEW x \in 0..(p.expert - 1)
    PROVE  \E at \in Coords(p) : at.pipeline = s /\ at.expert = x
<1>. DEFINE at == [data |-> 0, pipeline |-> s, context |-> 0, tensor |-> 0, expert |-> x]
<1>1. at \in Coords(p)
  BY DimsType DEF Coords
<1>. QED BY <1>1

(* Each weight of a layer is held by one stage, each expert's by one rank  *)
(* of the expert group, and each other weight by all of that group.        *)
LEMMA EachHeldOnce ==
    ASSUME NEW c, IsModel(c)
    PROVE  HeldOnce(c)
<1>. DEFINE holders(w) == {at \in Coords(c.dims) : HolderOf(c, w, at)}
            stages(w) == {at.pipeline : at \in holders(w)}
            ranks(w) == {at.expert : at \in holders(w)}
            last == c.dims.pipeline - 1
<1>1. /\ IsDims(c.dims) /\ last \in Nat /\ c.dims.expert \in Nat \ {0}
      /\ \A at \in Coords(c.dims) : at.pipeline \in Stage(c) /\ at.expert \in 0..(c.dims.expert - 1)
  BY ModelType, CoordsType DEF Stage
<1>2. \A s \in Stage(c), x \in 0..(c.dims.expert - 1) :
          \E at \in Coords(c.dims) : at.pipeline = s /\ at.expert = x
  BY <1>1, SomeRank DEF Stage
<1>3. 0 \in Stage(c) /\ last \in Stage(c) /\ 0 \in 0..(c.dims.expert - 1)
  BY <1>1 DEF Stage
<1>. SUFFICES ASSUME NEW w \in RequiredWeightNames(c)
              PROVE  /\ IF w = Embed /\ ~c.moe THEN stages(w) = {0, last}
                        ELSE Cardinality(stages(w)) = 1
                     /\ IF IsExpert(w) THEN Cardinality(ranks(w)) = 1
                        ELSE \A p \in stages(w), e \in 0..(c.dims.expert - 1) :
                                \E at \in holders(w) : at.pipeline = p /\ at.expert = e
  BY DEF HeldOnce, HolderOf
<1>4. CASE ~IsLayer(w)
  <2>1. ~IsExpert(w)
    BY <1>4 DEF IsLayer, IsExpert
  <2>2. \A at \in Coords(c.dims) : HolderOf(c, w, at) <=> OnEnds(c, w, at.pipeline)
    BY <1>4, Holders
  <2>3. \A s : OnEnds(c, w, s) <=> IF w = Embed THEN s = 0 \/ (~c.moe /\ s = last) ELSE s = last
    BY DEF OnEnds
  <2>4. stages(w) = {s \in Stage(c) : OnEnds(c, w, s)}
    BY <1>1, <1>2, <1>3, <2>2
  <2>5. \A p \in stages(w), e \in 0..(c.dims.expert - 1) :
            \E at \in holders(w) : at.pipeline = p /\ at.expert = e
    BY <1>2, <2>2, <2>4
  <2>6. IF w = Embed THEN IF c.moe THEN stages(w) = {0} ELSE stages(w) = {0, last}
        ELSE stages(w) = {last}
    <3>. HIDE DEF stages, last
    <3>. QED BY <1>3, <2>3, <2>4
  <2>7. Cardinality({0}) = 1 /\ Cardinality({last}) = 1
    BY FS_Singleton
  <2>. HIDE DEF stages, holders, last
  <2>. QED BY <2>1, <2>5, <2>6, <2>7
<1>5. CASE IsLayer(w)
  <2>1. w # Embed /\ w[2] \in Layers(c) /\ (IsExpert(w) => w[3] \in 0..(c.experts - 1))
    BY <1>5, Weights, Shapes DEF Outside
  <2>2. PICK s \in Stage(c) : \A t \in Stage(c) : Here(c, t, w[2]) <=> t = s
    BY <2>1, OneStage DEF Layers
  <2>3. CASE ~IsExpert(w)
    <3>1. \A at \in Coords(c.dims) : HolderOf(c, w, at) <=> at.pipeline = s
      BY <1>1, <1>5, <2>2, <2>3, Holders
    <3>2. stages(w) = {s}
      BY <1>1, <1>2, <1>3, <3>1
    <3>3. \A p \in stages(w), e \in 0..(c.dims.expert - 1) :
              \E at \in holders(w) : at.pipeline = p /\ at.expert = e
      BY <1>2, <3>1, <3>2
    <3>4. Cardinality({s}) = 1
      BY FS_Singleton
    <3>. HIDE DEF stages, holders
    <3>. QED BY <2>1, <2>3, <3>2, <3>3, <3>4
  <2>4. CASE IsExpert(w)
    <3>1. PICK x \in 0..(c.dims.expert - 1) :
              \A y \in 0..(c.dims.expert - 1) : w[3] \in LocalExperts(c, y) <=> y = x
      BY <2>1, <2>4, OneExpertRank
    <3>2. \A at \in Coords(c.dims) : HolderOf(c, w, at) <=> at.pipeline = s /\ at.expert = x
      BY <1>1, <1>5, <2>2, <2>4, <3>1, Holders
    <3>3. stages(w) = {s} /\ ranks(w) = {x}
      BY <1>1, <1>2, <3>1, <3>2
    <3>4. Cardinality({s}) = 1 /\ Cardinality({x}) = 1
      BY FS_Singleton
    <3>. HIDE DEF stages, ranks
    <3>. QED BY <2>1, <2>4, <3>3, <3>4
  <2>. QED BY <2>3, <2>4
<1>. QED BY <1>4, <1>5

(* For a model of any depth, with any number of experts, in any            *)
(* arrangement the loader takes, of which the cases TLC explores are some: *)
(* a rank reads exactly the parameters it holds, except for the model left *)
(* out, and each weight has one owner.                                     *)
THEOREM EveryStageHoldsItsWeights ==
    /\ (input.kind = "weights" => IsModel(input)) => StageHoldsItsWeights
    /\ CaseInit => StageHoldsItsWeights
<1>1. (input.kind = "weights" => IsModel(input)) => StageHoldsItsWeights
  <2>. SUFFICES ASSUME input.kind = "weights", IsModel(input)
                PROVE  /\ ~(input.moe /\ input.tied /\ input.dims.pipeline > 1)
                              => ReadsItsParameters(input)
                       /\ HeldOnce(input)
    BY DEF StageHoldsItsWeights
  <2>. QED BY EachHeldOnce, HoldsWhatItReads
<1>2. ASSUME CaseInit, input.kind = "weights" PROVE IsModel(input)
  <2>1. input \in WeightCases
    <3>1. input \notin AttentionCases
      BY <1>2 DEF AttentionCases
    <3>2. input \notin ScanCases
      BY <1>2 DEF ScanCases
    <3>3. input \notin KernelCases
      BY <1>2 DEF KernelCases
    <3>4. input \notin TensorCases
      BY <1>2 DEF TensorCases
    <3>5. input \notin ExpertCases
      BY <1>2 DEF ExpertCases
    <3>6. input \notin GradientCases
      BY <1>2 DEF GradientCases
    <3>. QED BY <1>2, <3>1, <3>2, <3>3, <3>4, <3>5, <3>6 DEF CaseInit
  <2>2. /\ input.moe \in BOOLEAN /\ input.tied \in BOOLEAN /\ input.experts = 4
        /\ input.types \in UNION {[1..n -> {"full_attention", "linear_attention"}] : n \in 1..MaxDepth}
        /\ input.dims \in [data : {1}, pipeline : 1..MaxDepth, context : {1}, tensor : {1},
                           expert : {1, 2, 4}, sequence : {1}]
        /\ input.dims.expert > 1 => input.moe
    BY <2>1 DEF WeightCases
  <2>3. MaxDepth \in Nat
    BY ModelParallelAssumption
  <2>4. input.types \in Seq({"full_attention", "linear_attention"})
    <3>1. PICK n \in 1..MaxDepth : input.types \in [1..n -> {"full_attention", "linear_attention"}]
      BY <2>2
    <3>. QED BY <2>3, <3>1
  <2>5. input.dims \in [data : Nat \ {0}, pipeline : Nat \ {0}, context : Nat \ {0},
                        tensor : Nat \ {0}, expert : Nat \ {0}, sequence : Nat \ {0}]
    BY <2>2, <2>3
  <2>6. input.dims.sequence = 1 /\ input.dims.tensor = 1
    BY <2>2
  <2>7. IsDims(input.dims)
    BY <2>5, <2>6 DEF IsDims
  <2>8. (input.experts % input.dims.expert) = 0
    BY <2>2
  <2>. QED BY <2>2, <2>4, <2>7, <2>8 DEF IsModel
<1>. QED BY <1>1, <1>2
=============================================================================
