------------------------- MODULE Pipeline1F1BProofs -------------------------
(***************************************************************************)
(* What the 1F1B pipeline guarantees for any number of stages, of          *)
(* micro-batches and of accumulation rounds, and whatever the channels     *)
(* buffer, checked by TLAPS.                                               *)
(*                                                                         *)
(* Everything is counted: Fwds(s) and Bwds(s) are the micro-batches stage  *)
(* s has taken forward and backward since the step began.  A link carries  *)
(* the batches between the counts of the two stages it joins, in order;    *)
(* the slots in use are those between the two counts of a stage.           *)
(*                                                                         *)
(* And what the streams of a stage's GPU guarantee for the program the     *)
(* schedule makes of it: the proof remembers the order in which everything *)
(* was put on each stream, and the block every tensor was given.           *)
(***************************************************************************)
EXTENDS Pipeline1F1B, NcclStreams, TopologyProofs, FiniteSetTheorems

LEMMA Parameters ==
    /\ PP \in Nat \ {0} /\ M \in Nat \ {0} /\ (PP > 1 => M >= PP)
    /\ Rounds \in Nat \ {0}
BY PipelineAssumption DEF ScheduleParameters

(* Of the first k entries of the schedule, those that go forward.          *)
FC(s, k) ==
    LET w == Warmup(s)
    IN  IF k <= w THEN k
        ELSE IF k <= 2 * M - w THEN w + (k - w + 1) \div 2
        ELSE M
BC(s, k) == k - FC(s, k)

LEMMA WarmupType == ASSUME NEW s \in Stages PROVE Warmup(s) \in 0..M
BY Parameters DEF Stages, Warmup

(* The entry after the first k is the next forward, or the next backward   *)
(* of a micro-batch that has gone forward.                                 *)
LEMMA Counting ==
    ASSUME NEW s \in Stages, NEW k \in 0..(2 * M - 1)
    PROVE  /\ FC(s, k) \in 0..M /\ BC(s, k) \in 0..M /\ BC(s, k) <= FC(s, k)
           /\ \/ /\ Schedule(s)[k + 1] = Fwd(FC(s, k)) /\ FC(s, k) < M
                 /\ FC(s, k + 1) = FC(s, k) + 1 /\ BC(s, k + 1) = BC(s, k)
              \/ /\ Schedule(s)[k + 1] = Bwd(BC(s, k)) /\ BC(s, k) < FC(s, k)
                 /\ FC(s, k + 1) = FC(s, k) /\ BC(s, k + 1) = BC(s, k) + 1
<1>. DEFINE w == Warmup(s)
<1>1. w \in 0..M /\ M \in Nat \ {0} /\ k + 1 \in 1..(2 * M)
  BY WarmupType, Parameters
<1>2. Schedule(s)[k + 1] = IF k + 1 <= w THEN Fwd(k)
                           ELSE IF k + 1 <= w + 2 * (M - w)
                                THEN IF (k + 1 - w) % 2 = 1
                                     THEN Fwd(w + (k + 1 - w) \div 2)
                                     ELSE Bwd((k + 1 - w) \div 2 - 1)
                                ELSE Bwd(k + 1 - M - 1)
  BY <1>1 DEF Schedule
<1>3. \A j \in 0..(2 * M) : FC(s, j) = IF j <= w THEN j
                                       ELSE IF j <= 2 * M - w THEN w + (j - w + 1) \div 2
                                       ELSE M
  BY DEF FC
<1>. HIDE DEF w
<1>4. CASE k + 1 <= w
  BY <1>1, <1>2, <1>3, <1>4 DEF BC
<1>5. CASE k + 1 > w /\ k + 1 <= w + 2 * (M - w)
  <2>1. PICK j \in 0..M : k + 1 - w = 2 * j \/ k + 1 - w = 2 * j + 1
    <3>. DEFINE h == (k + 1 - w) \div 2
    <3>1. h \in 0..M /\ (k + 1 - w = 2 * h \/ k + 1 - w = 2 * h + 1)
      BY <1>1, <1>5
    <3>. QED BY <3>1
  <2>2. CASE k + 1 - w = 2 * j
    <3>1. (k + 1 - w) % 2 = 0 /\ (k + 1 - w) \div 2 = j /\ j >= 1
      BY <1>1, <1>5, <2>2
    <3>2. FC(s, k) = w + j
      BY <1>1, <1>3, <1>5, <2>2, <3>1
    <3>3. FC(s, k + 1) = w + j
      BY <1>1, <1>3, <1>5, <2>2, <3>1
    <3>4. Schedule(s)[k + 1] = Bwd(j - 1)
      BY <1>1, <1>2, <1>5, <3>1
    <3>. QED BY <1>1, <1>5, <2>2, <3>1, <3>2, <3>3, <3>4 DEF BC
  <2>3. CASE k + 1 - w = 2 * j + 1
    <3>1. (k + 1 - w) % 2 = 1 /\ (k + 1 - w) \div 2 = j
      BY <1>1, <1>5, <2>3
    <3>2. FC(s, k) = w + j
      BY <1>1, <1>3, <1>5, <2>3
    <3>3. FC(s, k + 1) = w + j + 1
      BY <1>1, <1>3, <1>5, <2>3
    <3>4. Schedule(s)[k + 1] = Fwd(w + j)
      BY <1>1, <1>2, <1>5, <3>1
    <3>. QED BY <1>1, <1>5, <2>3, <3>1, <3>2, <3>3, <3>4 DEF BC
  <2>. QED BY <2>1, <2>2, <2>3
<1>6. CASE k + 1 > w + 2 * (M - w)
  <2>1. FC(s, k) = M /\ FC(s, k + 1) = M
    BY <1>1, <1>3, <1>6
  <2>2. Schedule(s)[k + 1] = Bwd(k - M)
    BY <1>1, <1>2, <1>6
  <2>. QED BY <1>1, <1>6, <2>1, <2>2 DEF BC
<1>. QED BY <1>1, <1>4, <1>5, <1>6

LEMMA CountEnds ==
    ASSUME NEW s \in Stages
    PROVE  FC(s, 0) = 0 /\ BC(s, 0) = 0 /\ FC(s, 2 * M) = M /\ BC(s, 2 * M) = M
BY WarmupType, Parameters DEF FC, BC

-----------------------------------------------------------------------------
(* The counts of a stage, and the invariant                                *)

X(s) == IF pc[s] = "sending" THEN pos[s] ELSE pos[s] - 1
F(s) == FC(s, X(s))
B(s) == BC(s, X(s))
Earlier(s) == (round[s] - 1) * M
Fwds(s) == Earlier(s) + F(s)
Bwds(s) == Earlier(s) + B(s)

Carries(q, first, last) ==
    /\ Len(q) = last - first
    /\ \A i \in 1..Len(q) : q[i] = first + i - 1

StateOK ==
    /\ buffered \in Capacities
    /\ round \in [Stages -> 1..Rounds]
    /\ pos \in [Stages -> 1..(2 * M + 1)]
    /\ pc \in [Stages -> {"ready", "sending"}]
    /\ inputs \in [Stages -> [Slots -> Int]]
    /\ outputs \in [Stages -> [Slots -> Int]]
    /\ act \in [Links -> Seq(Int)]
    /\ grad \in [Links -> Seq(Int)]
    /\ applied \in [Stages -> Seq(Int \X Int)]
    /\ \A s \in Stages : pc[s] = "sending" => pos[s] <= 2 * M
LinksOK ==
    \A l \in Links : /\ Carries(act[l], Fwds(l + 1), Fwds(l))
                     /\ Carries(grad[l], Bwds(l), Bwds(l + 1))
SlotOK(s, mb) ==
    IF B(s) <= mb /\ mb < F(s)
    THEN /\ outputs[s][mb] = Batch(round[s], mb)
         /\ inputs[s][mb] = (IF IsFirst(s) THEN Undefined ELSE Batch(round[s], mb))
    ELSE outputs[s][mb] = Undefined /\ inputs[s][mb] = Undefined
SlotsOK == \A s \in Stages : \A mb \in Slots : SlotOK(s, mb)
AppliedOK ==
    \A s \in Stages : /\ Len(applied[s]) = Bwds(s)
                      /\ \A k \in 1..Len(applied[s]) : applied[s][k] = <<k - 1, k - 1>>
PInv == StateOK /\ LinksOK /\ SlotsOK /\ AppliedOK

LEMMA BeforeType ==
    ASSUME NEW m \in 1..Rounds
    PROVE  (m - 1) * M \in Nat /\ m * M = (m - 1) * M + M /\ m * M <= Rounds * M
<1>1. m \in Nat /\ m >= 1 /\ Rounds \in Nat /\ M \in Nat /\ m <= Rounds
  BY Parameters
<1>2. (m - 1) * M \in Nat /\ m * M = (m - 1) * M + M
  BY <1>1
<1>3. Rounds * M = m * M + (Rounds - m) * M /\ (Rounds - m) * M \in Nat
  BY <1>1
<1>. QED BY <1>1, <1>2, <1>3

(* The counts of a stage lie within the step.                              *)
LEMMA CountTypes ==
    ASSUME StateOK, NEW s \in Stages
    PROVE  /\ X(s) \in 0..(2 * M)
           /\ F(s) \in 0..M /\ B(s) \in 0..M /\ B(s) <= F(s)
           /\ Earlier(s) \in Nat /\ Earlier(s) + M <= Rounds * M /\ Rounds * M \in Nat
           /\ Fwds(s) \in Nat /\ Bwds(s) \in Nat
           /\ \A mb : Batch(round[s], mb) = Earlier(s) + mb
<1>1. M \in Nat \ {0} /\ Rounds \in Nat \ {0} /\ round[s] \in 1..Rounds
  BY Parameters DEF StateOK
<1>2. X(s) \in 0..(2 * M)
  BY <1>1 DEF StateOK, X
<1>3. F(s) \in 0..M /\ B(s) \in 0..M /\ B(s) <= F(s)
  <2>1. CASE X(s) = 2 * M
    BY <1>1, <2>1, CountEnds DEF F, B
  <2>2. CASE X(s) # 2 * M
    <3>1. X(s) \in 0..(2 * M - 1)
      BY <1>1, <1>2, <2>2
    <3>. QED BY <3>1, Counting DEF F, B
  <2>. QED BY <2>1, <2>2
<1>4. Earlier(s) \in Nat /\ Earlier(s) + M <= Rounds * M /\ Rounds * M \in Nat
  BY <1>1, BeforeType DEF Earlier
<1>5. Fwds(s) \in Nat /\ Bwds(s) \in Nat
  BY <1>3, <1>4 DEF Fwds, Bwds
<1>6. \A mb : Batch(round[s], mb) = Earlier(s) + mb
  BY DEF Batch, Earlier
<1>. QED BY <1>2, <1>3, <1>4, <1>5, <1>6

(* What executing the next entry does to the counts.                       *)
LEMMA NextForward ==
    ASSUME StateOK, NEW s \in Stages, At(s, "forward")
    PROVE  /\ X(s) = pos[s] - 1 /\ Entry(s) = Fwd(F(s)) /\ F(s) < M
           /\ FC(s, X(s) + 1) = F(s) + 1 /\ BC(s, X(s) + 1) = B(s)
<1>1. X(s) = pos[s] - 1 /\ X(s) \in 0..(2 * M - 1) /\ pos[s] = X(s) + 1
  BY Parameters DEF StateOK, At, X
<1>2. Entry(s) = Schedule(s)[X(s) + 1] /\ Entry(s).op = "forward"
  BY <1>1 DEF Entry, At
<1>3. Schedule(s)[X(s) + 1] # Bwd(BC(s, X(s)))
  BY <1>2 DEF Fwd, Bwd
<1>. QED BY <1>1, <1>2, <1>3, Counting DEF F, B

LEMMA NextBackward ==
    ASSUME StateOK, NEW s \in Stages, At(s, "backward")
    PROVE  /\ X(s) = pos[s] - 1 /\ Entry(s) = Bwd(B(s)) /\ B(s) < F(s)
           /\ FC(s, X(s) + 1) = F(s) /\ BC(s, X(s) + 1) = B(s) + 1
<1>1. X(s) = pos[s] - 1 /\ X(s) \in 0..(2 * M - 1) /\ pos[s] = X(s) + 1
  BY Parameters DEF StateOK, At, X
<1>2. Entry(s) = Schedule(s)[X(s) + 1] /\ Entry(s).op = "backward"
  BY <1>1 DEF Entry, At
<1>3. Schedule(s)[X(s) + 1] # Fwd(FC(s, X(s)))
  BY <1>2 DEF Fwd, Bwd
<1>. QED BY <1>1, <1>2, <1>3, Counting DEF F, B

(* Leaving an entry counts it, whether its send has completed or not.      *)
LEMMA LeaveCounts ==
    ASSUME StateOK, NEW s \in Stages, pc[s] = "ready", pos[s] <= 2 * M,
           NEW sends \in BOOLEAN, Leave(s, sends)
    PROVE  /\ pos' \in [Stages -> 1..(2 * M + 1)] /\ pc' \in [Stages -> {"ready", "sending"}]
           /\ X(s)' = X(s) + 1 /\ \A t \in Stages \ {s} : X(t)' = X(t)
           /\ \A t \in Stages : pc'[t] = "sending" => pos'[t] <= 2 * M
<1>1. M \in Nat /\ pos[s] \in 1..(2 * M)
  BY Parameters DEF StateOK
<1>2. pos' \in [Stages -> 1..(2 * M + 1)] /\ pc' \in [Stages -> {"ready", "sending"}]
  BY <1>1 DEF StateOK, Leave
<1>3. X(s)' = X(s) + 1
  BY <1>1 DEF StateOK, Leave, X
<1>4. ASSUME NEW t \in Stages \ {s} PROVE X(t)' = X(t) /\ (pc'[t] = "sending" => pos'[t] <= 2 * M)
  BY DEF StateOK, Leave, X
<1>5. pc'[s] = "sending" => pos'[s] <= 2 * M
  BY <1>1 DEF StateOK, Leave
<1>. QED BY <1>2, <1>3, <1>4, <1>5

(* A queue of consecutive batches, and what sending and receiving make of  *)
(* it.                                                                     *)
LEMMA CarriesSend ==
    ASSUME NEW q \in Seq(Int), NEW first \in Int, NEW last \in Int, Carries(q, first, last)
    PROVE  Carries(Append(q, last), first, last + 1) /\ Append(q, last) \in Seq(Int)
BY DEF Carries

LEMMA CarriesReceive ==
    ASSUME NEW q \in Seq(Int), NEW first \in Int, NEW last \in Int, Carries(q, first, last),
           q # <<>>
    PROVE  Head(q) = first /\ Carries(Tail(q), first + 1, last) /\ Tail(q) \in Seq(Int)
<1>1. Len(q) \in Nat \ {0} /\ Head(q) = q[1]
  OBVIOUS
<1>2. Len(Tail(q)) = Len(q) - 1 /\ \A i \in 1..Len(Tail(q)) : Tail(q)[i] = q[i + 1]
  BY <1>1
<1>3. Tail(q) \in Seq(Int)
  BY <1>1
<1>4. Head(q) = first
  BY <1>1 DEF Carries
<1>5. ASSUME NEW i \in 1..Len(Tail(q)) PROVE Tail(q)[i] = first + 1 + i - 1
  <2>1. i + 1 \in 1..Len(q) /\ Tail(q)[i] = q[i + 1]
    BY <1>1, <1>2
  <2>2. q[i + 1] = first + (i + 1) - 1
    BY <2>1 DEF Carries
  <2>. QED BY <1>1, <1>2, <2>1, <2>2
<1>6. Len(Tail(q)) = last - (first + 1)
  BY <1>1, <1>2 DEF Carries
<1>. QED BY <1>3, <1>4, <1>5, <1>6 DEF Carries

LEMMA Neighbours ==
    ASSUME NEW l \in Links
    PROVE  l \in Stages /\ l + 1 \in Stages /\ l # l + 1 /\ l \in Int
BY Parameters DEF Links, Stages

(* What a stage receives is the next batch it is to work on.               *)
LEMMA Received ==
    ASSUME PInv, NEW s \in Stages, s # 0, act[s - 1] # <<>>
    PROVE  /\ s - 1 \in Links /\ Head(act[s - 1]) = Fwds(s)
           /\ Carries(Tail(act[s - 1]), Fwds(s) + 1, Fwds(s - 1)) /\ Tail(act[s - 1]) \in Seq(Int)
<1>1. s - 1 \in Links /\ s - 1 \in Stages /\ s - 1 + 1 = s
  BY Parameters DEF Links, Stages
<1>2. act[s - 1] \in Seq(Int) /\ Carries(act[s - 1], Fwds(s), Fwds(s - 1))
  BY <1>1 DEF PInv, StateOK, LinksOK
<1>3. Fwds(s) \in Int /\ Fwds(s - 1) \in Int
  BY <1>1, CountTypes DEF PInv
<1>. QED BY <1>1, <1>2, <1>3, CarriesReceive

LEMMA PForward ==
    ASSUME PInv, NEW s \in Stages, Forward(s)
    PROVE  PInv'
<1>. DEFINE mb == F(s)
            x == IF IsFirst(s) THEN Batch(round[s], mb) ELSE Head(act[s - 1])
<1>1. StateOK /\ At(s, "forward") /\ pc[s] = "ready" /\ pos[s] <= 2 * M /\ s \in Int
  BY DEF PInv, Forward, At, Stages
<1>2. /\ X(s) = pos[s] - 1 /\ Entry(s).mb = mb /\ F(s) < M
      /\ FC(s, X(s) + 1) = F(s) + 1 /\ BC(s, X(s) + 1) = B(s)
  BY <1>1, NextForward DEF Fwd
<1>3. /\ inputs' = (IF IsFirst(s) THEN inputs ELSE [inputs EXCEPT ![s] = [@ EXCEPT ![mb] = x]])
      /\ outputs' = [outputs EXCEPT ![s] = [@ EXCEPT ![mb] = x]]
      /\ act' = [l \in Links |-> IF l = s THEN Append(act[l], x)
                                 ELSE IF l = s - 1 THEN Tail(act[l]) ELSE act[l]]
      /\ (~IsFirst(s) => act[s - 1] # <<>>)
      /\ Leave(s, ~IsLast(s)) /\ UNCHANGED <<buffered, round, grad, applied>>
  BY <1>2 DEF Forward
<1>4. /\ pos' \in [Stages -> 1..(2 * M + 1)] /\ pc' \in [Stages -> {"ready", "sending"}]
      /\ X(s)' = X(s) + 1 /\ \A t \in Stages \ {s} : X(t)' = X(t)
      /\ \A t \in Stages : pc'[t] = "sending" => pos'[t] <= 2 * M
  BY <1>1, <1>3, LeaveCounts DEF IsLast
<1>5. /\ F(s)' = F(s) + 1 /\ B(s)' = B(s)
      /\ \A t \in Stages \ {s} : F(t)' = F(t) /\ B(t)' = B(t)
      /\ \A t \in Stages : Earlier(t)' = Earlier(t)
  BY <1>2, <1>3, <1>4 DEF F, B, Earlier
<1>6. /\ F(s) \in 0..M /\ B(s) \in 0..M /\ B(s) <= F(s) /\ Earlier(s) \in Nat
      /\ \A m : Batch(round[s], m) = Earlier(s) + m
      /\ \A t \in Stages : Fwds(t) \in Nat /\ Bwds(t) \in Nat
  BY <1>1, CountTypes
<1>7. /\ Fwds(s)' = Fwds(s) + 1 /\ \A t \in Stages : Bwds(t)' = Bwds(t)
      /\ \A t \in Stages \ {s} : Fwds(t)' = Fwds(t)
  BY <1>5, <1>6 DEF Fwds, Bwds
<1>8. x = Fwds(s)
  BY <1>3, <1>6, Received DEF IsFirst, Fwds
<1>9. mb \in Slots
  BY <1>2, <1>6, Parameters DEF Slots
<1>. HIDE DEF mb, x
<1>10. ASSUME NEW l \in Links
       PROVE  act'[l] \in Seq(Int) /\ Carries(act'[l], Fwds(l + 1)', Fwds(l)')
  <2>1. l \in Stages /\ l + 1 \in Stages /\ l # l + 1 /\ act[l] \in Seq(Int)
        /\ Carries(act[l], Fwds(l + 1), Fwds(l)) /\ l \in Int
    BY Neighbours DEF PInv, StateOK, LinksOK
  <2>2. CASE l = s
    <3>1. act'[l] = Append(act[l], Fwds(l)) /\ Fwds(l)' = Fwds(l) + 1 /\ Fwds(l + 1)' = Fwds(l + 1)
      BY <1>3, <1>7, <1>8, <2>1, <2>2
    <3>2. Fwds(l) \in Int /\ Fwds(l + 1) \in Int
      BY <1>6, <2>1
    <3>. QED BY <2>1, <3>1, <3>2, CarriesSend
  <2>3. CASE l = s - 1
    <3>1. l + 1 = s /\ s # 0 /\ l # s
      BY <1>1, <2>1, <2>3 DEF Stages
    <3>2. act'[l] = Tail(act[s - 1]) /\ Fwds(l)' = Fwds(s - 1) /\ Fwds(l + 1)' = Fwds(s) + 1
      BY <1>3, <1>7, <2>1, <2>3, <3>1
    <3>3. act[s - 1] # <<>>
      BY <1>3, <3>1 DEF IsFirst
    <3>. QED BY <3>1, <3>2, <3>3, Received
  <2>4. CASE l # s /\ l # s - 1
    <3>1. l + 1 # s
      BY <1>1, <2>1, <2>4
    <3>2. act'[l] = act[l] /\ Fwds(l)' = Fwds(l) /\ Fwds(l + 1)' = Fwds(l + 1)
      BY <1>3, <1>7, <2>1, <2>4, <3>1
    <3>. QED BY <2>1, <3>2
  <2>. QED BY <2>2, <2>3, <2>4
<1>11. LinksOK'
  BY <1>3, <1>7, <1>10, Neighbours DEF PInv, LinksOK
<1>12. StateOK'
  <2>1. x \in Int
    BY <1>6, <1>8
  <2>2. inputs' \in [Stages -> [Slots -> Int]] /\ outputs' \in [Stages -> [Slots -> Int]]
    BY <1>1, <1>3, <2>1 DEF StateOK
  <2>3. act' \in [Links -> Seq(Int)]
    BY <1>3, <1>10
  <2>. QED BY <1>1, <1>3, <1>4, <2>2, <2>3 DEF StateOK
<1>13. ASSUME NEW t \in Stages, NEW m \in Slots PROVE SlotOK(t, m)'
  <2>1. SlotOK(t, m) /\ m \in Int
    BY DEF PInv, SlotsOK, Slots
  <2>2. CASE t # s
    <3>1. outputs'[t] = outputs[t] /\ inputs'[t] = inputs[t] /\ round'[t] = round[t]
      BY <1>1, <1>3, <2>2 DEF StateOK
    <3>2. F(t)' = F(t) /\ B(t)' = B(t)
      BY <1>5, <2>2
    <3>. QED BY <2>1, <3>1, <3>2 DEF SlotOK, IsFirst
  <2>3. CASE t = s /\ m # mb
    <3>1. outputs'[t][m] = outputs[t][m] /\ inputs'[t][m] = inputs[t][m] /\ round'[t] = round[t]
      BY <1>1, <1>3, <2>3 DEF StateOK
    <3>2. m < F(s)' <=> m < F(s)
      BY <1>5, <1>6, <2>1, <2>3 DEF mb
    <3>. QED BY <1>5, <2>1, <2>3, <3>1, <3>2 DEF SlotOK, IsFirst
  <2>4. CASE t = s /\ m = mb
    <3>1. outputs'[s][mb] = x /\ inputs'[s][mb] = (IF IsFirst(s) THEN inputs[s][mb] ELSE x)
      BY <1>1, <1>3, <1>9 DEF StateOK
    <3>2. inputs[s][mb] = Undefined
      BY <1>6, <2>1, <2>4 DEF SlotOK, mb
    <3>3. x = Batch(round'[s], mb)
      BY <1>3, <1>6, <1>8 DEF mb, Fwds
    <3>4. B(s)' <= mb /\ mb < F(s)'
      BY <1>5, <1>6 DEF mb
    <3>. QED BY <2>4, <3>1, <3>2, <3>3, <3>4 DEF SlotOK, IsFirst
  <2>. QED BY <2>2, <2>3, <2>4
<1>14. AppliedOK'
  BY <1>3, <1>7 DEF PInv, AppliedOK
<1>. QED BY <1>11, <1>12, <1>13, <1>14 DEF PInv, SlotsOK

LEMMA ReceivedGradient ==
    ASSUME PInv, NEW s \in Stages, s # PP - 1, grad[s] # <<>>
    PROVE  /\ s \in Links /\ Head(grad[s]) = Bwds(s)
           /\ Carries(Tail(grad[s]), Bwds(s) + 1, Bwds(s + 1)) /\ Tail(grad[s]) \in Seq(Int)
<1>1. s \in Links /\ s + 1 \in Stages
  BY Parameters DEF Links, Stages
<1>2. grad[s] \in Seq(Int) /\ Carries(grad[s], Bwds(s), Bwds(s + 1))
  BY <1>1 DEF PInv, StateOK, LinksOK
<1>3. Bwds(s) \in Int /\ Bwds(s + 1) \in Int
  BY <1>1, CountTypes DEF PInv
<1>. QED BY <1>1, <1>2, <1>3, CarriesReceive

LEMMA PBackward ==
    ASSUME PInv, NEW s \in Stages, Backward(s)
    PROVE  PInv'
<1>. DEFINE mb == B(s)
            b == Bwds(s)
            g == IF IsLast(s) THEN Batch(round[s], mb) ELSE Head(grad[s])
<1>1. StateOK /\ At(s, "backward") /\ pc[s] = "ready" /\ pos[s] <= 2 * M /\ s \in Int
  BY DEF PInv, Backward, At, Stages
<1>2. /\ X(s) = pos[s] - 1 /\ Entry(s).mb = mb /\ B(s) < F(s)
      /\ FC(s, X(s) + 1) = F(s) /\ BC(s, X(s) + 1) = B(s) + 1
  BY <1>1, NextBackward DEF Bwd
<1>3. /\ applied' = [applied EXCEPT ![s] = Append(@, <<outputs[s][mb], g>>)]
      /\ grad' = [l \in Links |-> IF l = s - 1 THEN Append(grad[l], inputs[s][mb])
                                  ELSE IF l = s THEN Tail(grad[l]) ELSE grad[l]]
      /\ inputs' = [inputs EXCEPT ![s] = [@ EXCEPT ![mb] = Undefined]]
      /\ outputs' = [outputs EXCEPT ![s] = [@ EXCEPT ![mb] = Undefined]]
      /\ (~IsLast(s) => grad[s] # <<>>)
      /\ Leave(s, ~IsFirst(s)) /\ UNCHANGED <<buffered, round, act>>
  BY <1>2 DEF Backward
<1>4. /\ pos' \in [Stages -> 1..(2 * M + 1)] /\ pc' \in [Stages -> {"ready", "sending"}]
      /\ X(s)' = X(s) + 1 /\ \A t \in Stages \ {s} : X(t)' = X(t)
      /\ \A t \in Stages : pc'[t] = "sending" => pos'[t] <= 2 * M
  BY <1>1, <1>3, LeaveCounts DEF IsFirst
<1>5. /\ F(s)' = F(s) /\ B(s)' = B(s) + 1
      /\ \A t \in Stages \ {s} : F(t)' = F(t) /\ B(t)' = B(t)
      /\ \A t \in Stages : Earlier(t)' = Earlier(t)
  BY <1>2, <1>3, <1>4 DEF F, B, Earlier
<1>6. /\ F(s) \in 0..M /\ B(s) \in 0..M /\ B(s) <= F(s) /\ Earlier(s) \in Nat
      /\ \A m : Batch(round[s], m) = Earlier(s) + m
      /\ \A t \in Stages : Fwds(t) \in Nat /\ Bwds(t) \in Nat
  BY <1>1, CountTypes
<1>7. /\ Bwds(s)' = b + 1 /\ \A t \in Stages : Fwds(t)' = Fwds(t)
      /\ \A t \in Stages \ {s} : Bwds(t)' = Bwds(t)
  BY <1>5, <1>6 DEF Fwds, Bwds
<1>8. g = b
  BY <1>3, <1>6, ReceivedGradient DEF IsLast, Bwds
<1>9. mb \in Slots
  BY <1>2, <1>6, Parameters DEF Slots
<1>10. outputs[s][mb] = b /\ (s # 0 => inputs[s][mb] = b)
  <2>1. SlotOK(s, mb)
    BY <1>9 DEF PInv, SlotsOK
  <2>. QED BY <1>2, <1>6, <2>1 DEF SlotOK, IsFirst, Bwds
<1>11. b \in Nat
  BY <1>6
<1>. HIDE DEF mb, g, b
<1>12. ASSUME NEW l \in Links
       PROVE  grad'[l] \in Seq(Int) /\ Carries(grad'[l], Bwds(l)', Bwds(l + 1)')
  <2>1. l \in Stages /\ l + 1 \in Stages /\ l # l + 1 /\ grad[l] \in Seq(Int)
        /\ Carries(grad[l], Bwds(l), Bwds(l + 1)) /\ l \in Int
    BY Neighbours DEF PInv, StateOK, LinksOK
  <2>2. CASE l = s - 1
    <3>1. l + 1 = s /\ s # 0 /\ l # s
      BY <1>1, <2>1, <2>2 DEF Stages
    <3>2. grad'[l] = Append(grad[l], b) /\ Bwds(l)' = Bwds(l) /\ Bwds(l + 1)' = b + 1
      BY <1>3, <1>7, <1>10, <2>1, <2>2, <3>1
    <3>3. Bwds(l) \in Int /\ b \in Int /\ Bwds(l + 1) = b
      BY <1>6, <2>1, <3>1 DEF b
    <3>. QED BY <2>1, <3>2, <3>3, CarriesSend
  <2>3. CASE l = s
    <3>1. s # PP - 1 /\ l # s - 1
      BY <1>1, <2>1, <2>3, Parameters DEF Links
    <3>2. grad'[l] = Tail(grad[s]) /\ Bwds(l)' = b + 1 /\ Bwds(l + 1)' = Bwds(s + 1)
      BY <1>3, <1>7, <2>1, <2>3, <3>1
    <3>3. grad[s] # <<>>
      BY <1>3, <3>1 DEF IsLast
    <3>. QED BY <2>3, <3>1, <3>2, <3>3, ReceivedGradient DEF b
  <2>4. CASE l # s /\ l # s - 1
    <3>1. l + 1 # s
      BY <1>1, <2>1, <2>4
    <3>2. grad'[l] = grad[l] /\ Bwds(l)' = Bwds(l) /\ Bwds(l + 1)' = Bwds(l + 1)
      BY <1>3, <1>7, <2>1, <2>4, <3>1
    <3>. QED BY <2>1, <3>2
  <2>. QED BY <2>2, <2>3, <2>4
<1>13. LinksOK'
  BY <1>3, <1>7, <1>12, Neighbours DEF PInv, LinksOK
<1>14. applied[s] \in Seq(Int \X Int) /\ applied'[s] = Append(applied[s], <<b, b>>)
  BY <1>1, <1>3, <1>8, <1>10 DEF StateOK
<1>15. StateOK'
  <2>0. Undefined \in Int
    BY DEF Undefined
  <2>1. inputs' \in [Stages -> [Slots -> Int]] /\ outputs' \in [Stages -> [Slots -> Int]]
    BY <1>1, <1>3, <2>0 DEF StateOK
  <2>2. grad' \in [Links -> Seq(Int)]
    BY <1>3, <1>12
  <2>3. applied' \in [Stages -> Seq(Int \X Int)]
    <3>1. applied' = [applied EXCEPT ![s] = Append(applied[s], <<b, b>>)]
      BY <1>3, <1>8, <1>10
    <3>2. Append(applied[s], <<b, b>>) \in Seq(Int \X Int)
      BY <1>11, <1>14
    <3>. QED BY <1>1, <3>1, <3>2 DEF StateOK
  <2>. QED BY <1>1, <1>3, <1>4, <2>1, <2>2, <2>3 DEF StateOK
<1>16. ASSUME NEW t \in Stages, NEW m \in Slots PROVE SlotOK(t, m)'
  <2>1. SlotOK(t, m) /\ m \in Int
    BY DEF PInv, SlotsOK, Slots
  <2>2. CASE t # s
    <3>1. outputs'[t] = outputs[t] /\ inputs'[t] = inputs[t] /\ round'[t] = round[t]
      BY <1>1, <1>3, <2>2 DEF StateOK
    <3>2. F(t)' = F(t) /\ B(t)' = B(t)
      BY <1>5, <2>2
    <3>. QED BY <2>1, <3>1, <3>2 DEF SlotOK, IsFirst
  <2>3. CASE t = s /\ m # mb
    <3>1. outputs'[t][m] = outputs[t][m] /\ inputs'[t][m] = inputs[t][m] /\ round'[t] = round[t]
      BY <1>1, <1>3, <2>3 DEF StateOK
    <3>2. B(s)' <= m <=> B(s) <= m
      BY <1>5, <1>6, <2>1, <2>3 DEF mb
    <3>. QED BY <1>5, <2>1, <2>3, <3>1, <3>2 DEF SlotOK, IsFirst
  <2>4. CASE t = s /\ m = mb
    <3>1. outputs'[s][mb] = Undefined /\ inputs'[s][mb] = Undefined
      BY <1>1, <1>3, <1>9 DEF StateOK
    <3>2. ~(B(s)' <= mb)
      BY <1>5, <1>6 DEF mb
    <3>. QED BY <2>4, <3>1, <3>2 DEF SlotOK
  <2>. QED BY <2>2, <2>3, <2>4
<1>17. AppliedOK'
  <2>1. ASSUME NEW t \in Stages
        PROVE  /\ Len(applied'[t]) = Bwds(t)'
               /\ \A k \in 1..Len(applied'[t]) : applied'[t][k] = <<k - 1, k - 1>>
    <3>1. Len(applied[t]) = Bwds(t) /\ \A k \in 1..Len(applied[t]) : applied[t][k] = <<k - 1, k - 1>>
      BY DEF PInv, AppliedOK
    <3>2. CASE t # s
      BY <1>1, <1>3, <1>7, <3>1, <3>2 DEF StateOK
    <3>3. CASE t = s
      <4>1. Len(applied[s]) = b /\ Len(applied'[s]) = b + 1
        BY <1>14, <3>1, <3>3 DEF b
      <4>2. applied'[s][b + 1] = <<b, b>> /\ \A k \in 1..b : applied'[s][k] = applied[s][k]
        BY <1>11, <1>14, <4>1
      <4>3. ASSUME NEW k \in 1..Len(applied'[s]) PROVE applied'[s][k] = <<k - 1, k - 1>>
        <5>1. k \in 1..b \/ k = b + 1
          BY <1>11, <4>1
        <5>2. CASE k \in 1..b
          BY <3>1, <3>3, <4>1, <4>2, <5>2
        <5>3. CASE k = b + 1
          <6>1. k - 1 = b
            BY <1>11, <5>3
          <6>. QED BY <4>2, <5>3, <6>1
        <5>. QED BY <5>1, <5>2, <5>3
      <4>. QED BY <1>7, <3>3, <4>1, <4>3
    <3>. QED BY <3>2, <3>3
  <2>. QED BY <2>1 DEF AppliedOK
<1>. QED BY <1>13, <1>15, <1>16, <1>17 DEF PInv, SlotsOK

(* The completion of a send was already counted when it was posted.        *)
LEMMA PSendComplete ==
    ASSUME PInv, NEW s \in Stages, SendComplete(s)
    PROVE  PInv'
<1>1. pc[s] = "sending" /\ pos[s] \in 1..(2 * M) /\ M \in Nat
  BY Parameters DEF PInv, StateOK, SendComplete
<1>2. /\ pc' = [pc EXCEPT ![s] = "ready"] /\ pos' = [pos EXCEPT ![s] = @ + 1]
      /\ UNCHANGED <<buffered, round, inputs, outputs, act, grad, applied>>
  BY DEF SendComplete, Leave
<1>3. StateOK'
  BY <1>1, <1>2 DEF PInv, StateOK
<1>4. \A t \in Stages : X(t)' = X(t)
  BY <1>1, <1>2 DEF PInv, StateOK, X
<1>5. \A t \in Stages : F(t)' = F(t) /\ B(t)' = B(t) /\ Earlier(t)' = Earlier(t)
  BY <1>2, <1>4 DEF F, B, Earlier
<1>6. \A t \in Stages : Fwds(t)' = Fwds(t) /\ Bwds(t)' = Bwds(t)
  BY <1>5 DEF Fwds, Bwds
<1>7. LinksOK'
  BY <1>2, <1>6, Neighbours DEF PInv, LinksOK
<1>8. SlotsOK'
  BY <1>2, <1>5 DEF PInv, SlotsOK, SlotOK, IsFirst
<1>9. AppliedOK'
  BY <1>2, <1>6 DEF PInv, AppliedOK
<1>. QED BY <1>3, <1>7, <1>8, <1>9 DEF PInv

(* A new round begins where the last one ended, with every slot empty.     *)
LEMMA PNextRound ==
    ASSUME PInv, NEW s \in Stages, NextRound(s)
    PROVE  PInv'
<1>1. /\ pos[s] = 2 * M + 1 /\ pc[s] = "ready" /\ round[s] \in 1..(Rounds - 1)
      /\ M \in Nat \ {0} /\ Rounds \in Nat
  BY Parameters DEF PInv, StateOK, NextRound
<1>2. /\ round' = [round EXCEPT ![s] = @ + 1] /\ pos' = [pos EXCEPT ![s] = 1]
      /\ inputs' = [inputs EXCEPT ![s] = NoSlots] /\ outputs' = [outputs EXCEPT ![s] = NoSlots]
      /\ UNCHANGED <<buffered, pc, act, grad, applied>>
  BY DEF NextRound
<1>3. StateOK'
  BY <1>1, <1>2 DEF PInv, StateOK, NoSlots, Undefined
<1>4. X(s) = 2 * M /\ X(s)' = 0 /\ \A t \in Stages \ {s} : X(t)' = X(t)
  BY <1>1, <1>2 DEF PInv, StateOK, X
<1>5. F(s) = M /\ B(s) = M /\ F(s)' = 0 /\ B(s)' = 0
  BY <1>4, CountEnds DEF F, B
<1>6. Earlier(s)' = Earlier(s) + M /\ Earlier(s) \in Nat
  <2>1. round'[s] = round[s] + 1
    BY <1>1, <1>2 DEF PInv, StateOK
  <2>2. round[s] * M = (round[s] - 1) * M + M /\ (round[s] - 1) * M \in Nat
    <3>1. round[s] \in 1..Rounds
      BY <1>1
    <3>. QED BY <3>1, BeforeType
  <2>3. round'[s] - 1 = round[s]
    BY <1>1, <2>1
  <2>. QED BY <2>2, <2>3 DEF Earlier
<1>7. ASSUME NEW t \in Stages \ {s}
      PROVE  F(t)' = F(t) /\ B(t)' = B(t) /\ Earlier(t)' = Earlier(t) /\ round'[t] = round[t]
  BY <1>2, <1>4 DEF PInv, StateOK, F, B, Earlier
<1>8. \A t \in Stages : Fwds(t)' = Fwds(t) /\ Bwds(t)' = Bwds(t)
  BY <1>1, <1>5, <1>6, <1>7 DEF Fwds, Bwds
<1>9. LinksOK'
  BY <1>2, <1>8, Neighbours DEF PInv, LinksOK
<1>10. AppliedOK'
  BY <1>2, <1>8 DEF PInv, AppliedOK
<1>11. ASSUME NEW t \in Stages, NEW m \in Slots PROVE SlotOK(t, m)'
  <2>1. CASE t # s
    <3>1. outputs'[t] = outputs[t] /\ inputs'[t] = inputs[t] /\ SlotOK(t, m)
      BY <1>2, <2>1 DEF PInv, StateOK, SlotsOK
    <3>. QED BY <1>7, <2>1, <3>1 DEF SlotOK, IsFirst
  <2>2. CASE t = s
    <3>1. outputs'[s][m] = Undefined /\ inputs'[s][m] = Undefined
      BY <1>2 DEF PInv, StateOK, NoSlots
    <3>2. ~(m < F(s)')
      BY <1>5 DEF Slots
    <3>. QED BY <2>2, <3>1, <3>2 DEF SlotOK
  <2>. QED BY <2>1, <2>2
<1>. QED BY <1>3, <1>9, <1>10, <1>11 DEF PInv, SlotsOK

LEMMA PInit == Init => PInv
<1>. SUFFICES ASSUME Init PROVE PInv
  OBVIOUS
<1>1. M \in Nat \ {0} /\ Rounds \in Nat \ {0} /\ Undefined \in Int
  BY Parameters DEF Undefined
<1>2. StateOK
  BY <1>1 DEF Init, StateOK, NoSlots
<1>3. ASSUME NEW s \in Stages
      PROVE  F(s) = 0 /\ B(s) = 0 /\ Fwds(s) = 0 /\ Bwds(s) = 0
  <2>1. X(s) = 0 /\ round[s] = 1
    BY DEF Init, X
  <2>2. F(s) = 0 /\ B(s) = 0
    BY <2>1, CountEnds DEF F, B
  <2>3. Earlier(s) = 0
    BY <1>1, <2>1 DEF Earlier
  <2>. QED BY <2>2, <2>3 DEF Fwds, Bwds
<1>4. LinksOK
  BY <1>3, Neighbours DEF Init, LinksOK, Carries
<1>5. SlotsOK
  BY <1>3 DEF Init, SlotsOK, SlotOK, NoSlots, Slots
<1>6. AppliedOK
  BY <1>3 DEF Init, AppliedOK
<1>. QED BY <1>2, <1>4, <1>5, <1>6 DEF PInv

LEMMA PNext == PInv /\ [Next]_vars => PInv'
<1>. SUFFICES ASSUME PInv, [Next]_vars PROVE PInv'
  OBVIOUS
<1>1. ASSUME NEW s \in Stages, Forward(s) PROVE PInv'
  BY <1>1, PForward
<1>2. ASSUME NEW s \in Stages, Backward(s) PROVE PInv'
  BY <1>2, PBackward
<1>3. ASSUME NEW s \in Stages, SendComplete(s) PROVE PInv'
  BY <1>3, PSendComplete
<1>4. ASSUME NEW s \in Stages, NextRound(s) PROVE PInv'
  BY <1>4, PNextRound
<1>5. ASSUME UNCHANGED vars PROVE PInv'
  <2>1. StateOK' /\ AppliedOK'
    BY <1>5 DEF vars, PInv, StateOK, AppliedOK, Bwds, Earlier, B, X
  <2>2. LinksOK'
    BY <1>5 DEF vars, PInv, LinksOK, Fwds, Bwds, Earlier, F, B, X
  <2>3. SlotsOK'
    BY <1>5 DEF vars, PInv, SlotsOK, SlotOK, F, B, X
  <2>. QED BY <2>1, <2>2, <2>3 DEF PInv
<1>. QED BY <1>1, <1>2, <1>3, <1>4, <1>5 DEF Next, Stage

-----------------------------------------------------------------------------
(* What follows from the counts                                            *)

(* A sequence is over any set that holds its elements.                     *)
LEMMA PairsIn ==
    ASSUME NEW S, NEW T, NEW q \in Seq(S), \A k \in 1..Len(q) : q[k] \in T
    PROVE  q \in Seq(T)
<1>1. q \in [1..Len(q) -> T] /\ Len(q) \in Nat
  OBVIOUS
<1>. QED BY <1>1

LEMMA CarriesBatches ==
    ASSUME NEW q \in Seq(Int), NEW first \in Nat, NEW last \in Nat,
           Carries(q, first, last), Rounds * M \in Nat, last <= Rounds * M
    PROVE  q \in Seq(Batches)
<1>1. \A i \in 1..Len(q) : q[i] \in Batches
  BY DEF Carries, Batches
<1>. QED BY <1>1, PairsIn

LEMMA PType == PInv => TypeOK
<1>. SUFFICES ASSUME PInv PROVE TypeOK
  OBVIOUS
<1>1. \A s \in Stages : /\ Fwds(s) \in Nat /\ Bwds(s) \in Nat /\ Rounds * M \in Nat
                        /\ Fwds(s) <= Rounds * M /\ Bwds(s) <= Rounds * M
                        /\ Earlier(s) \in Nat /\ Earlier(s) + M <= Rounds * M
                        /\ \A mb : Batch(round[s], mb) = Earlier(s) + mb
  BY Parameters, CountTypes DEF PInv, Fwds, Bwds
<1>2. act \in [Links -> Seq(Batches)] /\ grad \in [Links -> Seq(Batches)]
  <2>1. ASSUME NEW l \in Links PROVE act[l] \in Seq(Batches) /\ grad[l] \in Seq(Batches)
    <3>1. /\ act[l] \in Seq(Int) /\ Carries(act[l], Fwds(l + 1), Fwds(l))
          /\ grad[l] \in Seq(Int) /\ Carries(grad[l], Bwds(l), Bwds(l + 1))
      BY DEF PInv, StateOK, LinksOK
    <3>. QED BY <1>1, <3>1, Neighbours, CarriesBatches
  <2>. QED BY <2>1 DEF PInv, StateOK
<1>3. ASSUME NEW s \in Stages, NEW mb \in Slots
      PROVE  inputs[s][mb] \in Batches \cup {Undefined} /\ outputs[s][mb] \in Batches \cup {Undefined}
  <2>1. Batch(round[s], mb) \in Batches
    BY <1>1, Parameters DEF Batches, Slots
  <2>. QED BY <2>1 DEF PInv, SlotsOK, SlotOK
<1>4. ASSUME NEW s \in Stages PROVE applied[s] \in Seq(Batches \X Batches)
  <2>1. applied[s] \in Seq(Int \X Int) /\ Len(applied[s]) = Bwds(s)
        /\ \A k \in 1..Len(applied[s]) : applied[s][k] = <<k - 1, k - 1>>
    BY DEF PInv, StateOK, AppliedOK
  <2>2. \A k \in 1..Len(applied[s]) : applied[s][k] \in Batches \X Batches
    <3>1. ASSUME NEW k \in 1..Len(applied[s]) PROVE k - 1 \in Batches
      BY <1>1, <2>1 DEF Batches
    <3>. QED BY <2>1, <3>1
  <2>. QED BY <2>1, <2>2, PairsIn
<1>. QED BY <1>2, <1>3, <1>4 DEF PInv, StateOK, TypeOK

LEMMA PSlots == PInv => SlotsMatch
<1>. SUFFICES ASSUME PInv, NEW s \in Stages, At(s, "backward")
              PROVE  LET b == Batch(round[s], Entry(s).mb)
                     IN  outputs[s][Entry(s).mb] = b
                         /\ (~IsFirst(s) => inputs[s][Entry(s).mb] = b)
  BY DEF SlotsMatch
<1>1. Entry(s).mb = B(s) /\ B(s) < F(s)
  BY NextBackward DEF PInv, Bwd
<1>2. B(s) \in 0..M /\ F(s) \in 0..M
  BY CountTypes DEF PInv
<1>3. B(s) \in Slots
  BY <1>1, <1>2, Parameters DEF Slots
<1>4. SlotOK(s, B(s))
  BY <1>3 DEF PInv, SlotsOK
<1>. QED BY <1>1, <1>2, <1>4 DEF SlotOK

LEMMA DoneCounts ==
    ASSUME PInv, NEW s \in Stages, Done(s)
    PROVE  F(s) = M /\ B(s) = M /\ Fwds(s) = Rounds * M /\ Bwds(s) = Rounds * M
<1>1. pc[s] = "ready" /\ X(s) = 2 * M
  BY Parameters DEF PInv, StateOK, Done, X
<1>2. F(s) = M /\ B(s) = M
  BY <1>1, CountEnds DEF F, B
<1>3. Rounds \in 1..Rounds /\ Earlier(s) = (Rounds - 1) * M
  BY Parameters DEF Done, Earlier
<1>4. Earlier(s) + M = Rounds * M
  BY <1>3, BeforeType
<1>. QED BY <1>2, <1>4 DEF Fwds, Bwds

LEMMA PGradients == PInv => GradientsMatch
BY DoneCounts DEF PInv, AppliedOK, GradientsMatch

LEMMA PDrained == PInv => Drained
<1>. SUFFICES ASSUME PInv, AllDone
              PROVE  /\ \A l \in Links : act[l] = <<>> /\ grad[l] = <<>>
                     /\ \A s \in Stages : Live(s) = {}
  BY DEF Drained
<1>1. \A s \in Stages : /\ F(s) = M /\ B(s) = M
                        /\ Fwds(s) = Rounds * M /\ Bwds(s) = Rounds * M
                        /\ Fwds(s) \in Nat /\ Bwds(s) \in Nat
  BY DoneCounts, CountTypes DEF AllDone, PInv
<1>2. ASSUME NEW l \in Links PROVE act[l] = <<>> /\ grad[l] = <<>>
  <2>1. act[l] \in Seq(Int) /\ grad[l] \in Seq(Int)
    BY DEF PInv, StateOK
  <2>2. Len(act[l]) = 0 /\ Len(grad[l]) = 0
    BY <1>1, Neighbours DEF PInv, LinksOK, Carries
  <2>. QED BY <2>1, <2>2
<1>3. ASSUME NEW s \in Stages, NEW mb \in Slots PROVE outputs[s][mb] = Undefined
  <2>1. SlotOK(s, mb) /\ ~(B(s) <= mb)
    BY <1>1, Parameters DEF PInv, SlotsOK, Slots
  <2>. QED BY <2>1 DEF SlotOK
<1>. QED BY <1>2, <1>3 DEF Live

-----------------------------------------------------------------------------
(* The maximum of the schedule                                             *)

(* The schedule's own count of live activations, by cardinalities, is the  *)
(* difference of the two counts.                                           *)
LEMMA LiveAfterCount ==
    ASSUME NEW s \in Stages, NEW k \in 0..(2 * M)
    PROVE  LiveAfter(s, k) = FC(s, k) - BC(s, k)
<1>. DEFINE Of(n, op) == {j \in 1..n : Schedule(s)[j].op = op}
            Counted == {n \in Nat : n <= 2 * M =>
                           /\ IsFiniteSet(Of(n, "forward")) /\ IsFiniteSet(Of(n, "backward"))
                           /\ Cardinality(Of(n, "forward")) = FC(s, n)
                           /\ Cardinality(Of(n, "backward")) = BC(s, n)}
<1>1. M \in Nat \ {0}
  BY Parameters
<1>2. 0 \in Counted
  <2>1. Of(0, "forward") = {} /\ Of(0, "backward") = {}
    OBVIOUS
  <2>. QED BY <2>1, CountEnds, FS_EmptySet
<1>3. ASSUME NEW n \in Nat, n \in Counted PROVE n + 1 \in Counted
  <2>. SUFFICES ASSUME n + 1 <= 2 * M
                PROVE  /\ IsFiniteSet(Of(n + 1, "forward")) /\ IsFiniteSet(Of(n + 1, "backward"))
                       /\ Cardinality(Of(n + 1, "forward")) = FC(s, n + 1)
                       /\ Cardinality(Of(n + 1, "backward")) = BC(s, n + 1)
    OBVIOUS
  <2>1. n \in 0..(2 * M - 1) /\ n + 1 \notin 1..n /\ 1..(n + 1) = 1..n \cup {n + 1}
    BY <1>1
  <2>2. /\ IsFiniteSet(Of(n, "forward")) /\ IsFiniteSet(Of(n, "backward"))
        /\ Cardinality(Of(n, "forward")) = FC(s, n)
        /\ Cardinality(Of(n, "backward")) = BC(s, n)
    BY <1>1, <1>3, <2>1
  <2>3. CASE /\ Schedule(s)[n + 1] = Fwd(FC(s, n))
             /\ FC(s, n + 1) = FC(s, n) + 1 /\ BC(s, n + 1) = BC(s, n)
    <3>1. /\ Of(n + 1, "forward") = Of(n, "forward") \cup {n + 1}
          /\ Of(n + 1, "backward") = Of(n, "backward") /\ n + 1 \notin Of(n, "forward")
      BY <2>1, <2>3 DEF Fwd
    <3>. HIDE DEF Of
    <3>. QED BY <2>2, <2>3, <3>1, FS_AddElement
  <2>4. CASE /\ Schedule(s)[n + 1] = Bwd(BC(s, n))
             /\ FC(s, n + 1) = FC(s, n) /\ BC(s, n + 1) = BC(s, n) + 1
    <3>1. /\ Of(n + 1, "backward") = Of(n, "backward") \cup {n + 1}
          /\ Of(n + 1, "forward") = Of(n, "forward") /\ n + 1 \notin Of(n, "backward")
      BY <2>1, <2>4 DEF Bwd
    <3>. HIDE DEF Of
    <3>. QED BY <2>2, <2>4, <3>1, FS_AddElement
  <2>. QED BY <2>1, <2>3, <2>4, Counting
<1>4. k \in Counted
  <2>. HIDE DEF Counted
  <2>1. Nat \subseteq Counted
    BY <1>2, <1>3, NaturalsIn
  <2>. QED BY <1>1, <2>1
<1>5. /\ Cardinality(Of(k, "forward")) = FC(s, k)
      /\ Cardinality(Of(k, "backward")) = BC(s, k)
  BY <1>1, <1>4
<1>. QED BY <1>5 DEF LiveAfter

(* It never exceeds the number of stages to the end, and reaches it after  *)
(* the first forward past the warmup.                                      *)
LEMMA LiveCount ==
    ASSUME NEW s \in Stages
    PROVE  /\ \A k \in 0..(2 * M) : FC(s, k) - BC(s, k) <= PP - s
           /\ \A k \in 0..(2 * M) : FC(s, k) - BC(s, k) \in Int
           /\ \E k \in 0..(2 * M) : FC(s, k) - BC(s, k) = PP - s
           /\ PP - s \in 1..M
<1>1. /\ PP \in Nat \ {0} /\ M \in Nat \ {0} /\ s \in 0..(PP - 1)
      /\ Warmup(s) = PP - s - 1 /\ PP - s <= M
  BY Parameters DEF Stages, Warmup
<1>. DEFINE w == PP - s - 1
<1>2. w \in 0..(M - 1)
  BY <1>1
<1>3. \A k : FC(s, k) = IF k <= w THEN k
                        ELSE IF k <= 2 * M - w THEN w + (k - w + 1) \div 2
                        ELSE M
  BY <1>1 DEF FC
<1>. HIDE DEF w
<1>4. ASSUME NEW k \in 0..(2 * M)
      PROVE  FC(s, k) \in Int /\ FC(s, k) - BC(s, k) <= w + 1
  <2>1. CASE k <= w
    BY <1>1, <1>2, <1>3, <2>1 DEF BC
  <2>2. CASE k > w /\ k <= 2 * M - w
    <3>1. PICK h \in Int : h = (k - w + 1) \div 2 /\ 2 * h <= k - w + 1
      BY <1>1, <1>2, <2>2
    <3>2. FC(s, k) = w + h
      BY <1>1, <1>2, <1>3, <2>2, <3>1
    <3>. QED BY <1>2, <3>1, <3>2 DEF BC
  <2>3. CASE k > w /\ k > 2 * M - w
    BY <1>1, <1>2, <1>3, <2>3 DEF BC
  <2>. QED BY <1>1, <1>2, <2>1, <2>2, <2>3
<1>5. w + 1 \in 0..(2 * M) /\ FC(s, w + 1) = w + 1 /\ BC(s, w + 1) = 0
  BY <1>1, <1>2, <1>3 DEF BC
<1>6. PP - s = w + 1
  BY <1>1 DEF w
<1>. QED BY <1>1, <1>2, <1>4, <1>5, <1>6 DEF BC

LEMMA MaxLiveIs ==
    ASSUME NEW s \in Stages
    PROVE  MaxLive(s) = PP - s
<1>. DEFINE IsMax(m) == /\ \E k \in 0..(2 * M) : LiveAfter(s, k) = m
                        /\ \A k \in 0..(2 * M) : LiveAfter(s, k) <= m
<1>1. PP - s \in 0..M /\ IsMax(PP - s)
  BY LiveAfterCount, LiveCount
<1>2. ASSUME NEW m \in 0..M, IsMax(m) PROVE m = PP - s
  <2>1. m <= PP - s /\ PP - s <= m
    BY <1>1, <1>2
  <2>. QED BY <1>1, <2>1
<1>3. MaxLive(s) = CHOOSE m \in 0..M : IsMax(m)
  BY DEF MaxLive
<1>. HIDE DEF IsMax
<1>. QED BY <1>1, <1>2, <1>3

(* The slots in use are those between the two counts, and a link carries   *)
(* no more than the stage that fills it has in use: what stage s + 1 has   *)
(* not received it has not sent a gradient for.                            *)
LEMMA PLive == PInv => LiveBound
<1>. SUFFICES ASSUME PInv, NEW s \in Stages
              PROVE  /\ Cardinality(Live(s)) <= PP - s
                     /\ s \in Links => Len(act[s]) <= PP - s
  BY MaxLiveIs DEF LiveBound
<1>1. /\ X(s) \in 0..(2 * M) /\ F(s) \in 0..M /\ B(s) \in 0..M /\ B(s) <= F(s)
      /\ Earlier(s) \in Nat /\ Fwds(s) \in Nat /\ Bwds(s) \in Nat
      /\ \A mb : Batch(round[s], mb) = Earlier(s) + mb
  BY CountTypes DEF PInv
<1>2. F(s) - B(s) <= PP - s
  BY <1>1, LiveCount DEF F, B
<1>3. PP - s \in 1..M /\ M \in Nat
  BY LiveCount, Parameters
<1>4. Live(s) = B(s)..(F(s) - 1)
  <2>1. ASSUME NEW mb \in Slots
        PROVE  outputs[s][mb] # Undefined <=> B(s) <= mb /\ mb < F(s)
    <3>1. SlotOK(s, mb)
      BY DEF PInv, SlotsOK
    <3>2. Batch(round[s], mb) # Undefined
      BY <1>1, <1>3 DEF Slots, Undefined
    <3>. QED BY <3>1, <3>2 DEF SlotOK
  <2>. QED BY <1>1, <1>3, <2>1 DEF Live, Slots
<1>5. Cardinality(Live(s)) <= PP - s
  <2>1. Cardinality(Live(s)) = IF B(s) > F(s) - 1 THEN 0 ELSE F(s) - 1 - B(s) + 1
    <3>1. B(s) \in Int /\ F(s) - 1 \in Int
      BY <1>1, <1>3
    <3>2. Cardinality(B(s)..(F(s) - 1)) = IF B(s) > F(s) - 1 THEN 0 ELSE F(s) - 1 - B(s) + 1
      BY <3>1, FS_Interval
    <3>. QED BY <1>4, <3>2
  <2>. QED BY <1>1, <1>2, <1>3, <2>1
<1>6. ASSUME s \in Links PROVE Len(act[s]) <= PP - s
  <2>1. s + 1 \in Stages
    BY <1>6, Neighbours
  <2>2. /\ Fwds(s + 1) \in Nat /\ Bwds(s + 1) \in Nat /\ Earlier(s + 1) \in Nat
        /\ F(s + 1) \in 0..M /\ B(s + 1) \in 0..M /\ B(s + 1) <= F(s + 1)
    BY <2>1, CountTypes DEF PInv
  <2>3. /\ Len(act[s]) = Fwds(s) - Fwds(s + 1)
        /\ Len(grad[s]) = Bwds(s + 1) - Bwds(s) /\ Len(grad[s]) \in Nat
    BY <1>6 DEF PInv, LinksOK, Carries, StateOK
  <2>4. Bwds(s + 1) <= Fwds(s + 1) /\ Fwds(s) - Bwds(s) = F(s) - B(s)
    BY <1>1, <2>2 DEF Fwds, Bwds
  <2>5. Len(act[s]) <= Fwds(s) - Bwds(s)
    <3>1. Len(act[s]) = Fwds(s) - Fwds(s + 1) /\ Bwds(s) <= Bwds(s + 1)
      BY <1>1, <2>2, <2>3
    <3>. QED BY <1>1, <2>2, <2>4, <3>1
  <2>6. Len(act[s]) \in Int /\ Fwds(s) - Bwds(s) <= PP - s
    <3>1. Fwds(s) \in Nat /\ Fwds(s + 1) \in Nat
      BY <1>1, <2>2
    <3>. QED BY <1>2, <2>3, <2>4, <3>1
  <2>7. Fwds(s) - Bwds(s) \in Int /\ PP - s \in Int
    BY <1>1, <1>3
  <2>. QED BY <2>5, <2>6, <2>7
<1>. QED BY <1>5, <1>6

-----------------------------------------------------------------------------
(* Freedom from deadlock                                                   *)
(*                                                                         *)
(* Time is a schedule of the whole pipeline in which everything a stage    *)
(* waits for comes before it.  Of the stages that have most to do, the one *)
(* whose entry is the earliest is waiting for nobody.                      *)
Time(s) ==
    IF Entry(s).op = "forward" THEN 2 * Entry(s).mb + s
    ELSE 2 * Entry(s).mb + 2 * PP - 1 - s

(* What is live before a forward, and before a backward that has forwards  *)
(* after it.                                                               *)
LEMMA LiveBefore ==
    ASSUME NEW s \in Stages, NEW k \in 0..(2 * M - 1)
    PROVE  /\ Schedule(s)[k + 1].op = "forward" => FC(s, k) - BC(s, k) <= PP - s - 1
           /\ Schedule(s)[k + 1].op = "backward" /\ FC(s, k) < M =>
                  FC(s, k) - BC(s, k) = PP - s
<1>1. /\ PP \in Nat \ {0} /\ M \in Nat \ {0} /\ s \in 0..(PP - 1)
      /\ Warmup(s) = PP - s - 1 /\ PP - s <= M /\ k + 1 \in 1..(2 * M)
  BY Parameters DEF Stages, Warmup
<1>. DEFINE w == PP - s - 1
<1>2. w \in 0..(M - 1)
  BY <1>1
<1>3. /\ FC(s, k) = IF k <= w THEN k
                    ELSE IF k <= 2 * M - w THEN w + (k - w + 1) \div 2
                    ELSE M
      /\ Schedule(s)[k + 1].op = IF k + 1 <= w THEN "forward"
                                 ELSE IF k + 1 <= w + 2 * (M - w)
                                      THEN IF (k + 1 - w) % 2 = 1 THEN "forward" ELSE "backward"
                                      ELSE "backward"
  BY <1>1 DEF FC, Schedule, Fwd, Bwd
<1>4. PP - s = w + 1
  BY <1>1
<1>. HIDE DEF w
<1>5. CASE k + 1 <= w
  BY <1>1, <1>2, <1>3, <1>4, <1>5 DEF BC
<1>6. CASE k + 1 > w /\ k + 1 <= w + 2 * (M - w)
  <2>. DEFINE h == (k + 1 - w) \div 2
  <2>1. h \in Int /\ (k + 1 - w = 2 * h \/ k + 1 - w = 2 * h + 1)
    BY <1>1, <1>2, <1>6
  <2>2. CASE k + 1 - w = 2 * h
    <3>1. (k + 1 - w) % 2 = 0 /\ FC(s, k) = w + h
      BY <1>1, <1>2, <1>3, <1>6, <2>1, <2>2
    <3>. QED BY <1>1, <1>2, <1>3, <1>4, <1>6, <2>1, <2>2, <3>1 DEF BC
  <2>3. CASE k + 1 - w = 2 * h + 1
    <3>1. (k + 1 - w) % 2 = 1 /\ FC(s, k) = w + h
      BY <1>1, <1>2, <1>3, <1>6, <2>1, <2>3
    <3>. QED BY <1>1, <1>2, <1>3, <1>4, <1>6, <2>1, <2>3, <3>1 DEF BC
  <2>. QED BY <2>1, <2>2, <2>3
<1>7. CASE k + 1 > w + 2 * (M - w)
  <2>1. FC(s, k) = M
    BY <1>1, <1>2, <1>3, <1>7
  <2>. QED BY <1>1, <1>2, <1>3, <1>7, <2>1
<1>. QED BY <1>1, <1>2, <1>5, <1>6, <1>7

(* The time of the entry a stage is at, against the counts.                *)
LEMMA ReadyTime ==
    ASSUME StateOK, NEW s \in Stages, pc[s] = "ready", pos[s] <= 2 * M
    PROVE  \/ /\ At(s, "forward") /\ Time(s) = 2 * F(s) + s
              /\ Time(s) <= 2 * B(s) + 2 * PP - 2 - s
           \/ /\ At(s, "backward") /\ Time(s) = 2 * B(s) + 2 * PP - 1 - s
              /\ F(s) < M => Time(s) <= 2 * F(s) + s - 1
<1>1. /\ X(s) = pos[s] - 1 /\ X(s) \in 0..(2 * M - 1) /\ pos[s] = X(s) + 1
      /\ PP \in Nat /\ s \in Nat
  <2>1. pos[s] \in 1..(2 * M + 1) /\ M \in Nat /\ PP \in Nat /\ s \in Nat
    BY Parameters DEF StateOK, Stages
  <2>. QED BY <2>1 DEF X
<1>2. /\ F(s) \in 0..M /\ B(s) \in 0..M /\ F(s) \in Int /\ B(s) \in Int
  BY CountTypes, Parameters
<1>3. Entry(s) = Schedule(s)[X(s) + 1]
  BY <1>1 DEF Entry
<1>4. CASE Entry(s) = Fwd(F(s))
  <2>1. Schedule(s)[X(s) + 1].op = "forward" /\ Entry(s).op = "forward" /\ Entry(s).mb = F(s)
    BY <1>3, <1>4 DEF Fwd
  <2>2. F(s) - B(s) <= PP - s - 1
    BY <1>1, <2>1, LiveBefore DEF F, B
  <2>3. At(s, "forward") /\ Time(s) = 2 * F(s) + s
    BY <2>1 DEF At, Time
  <2>. QED BY <1>1, <1>2, <2>2, <2>3
<1>5. CASE Entry(s) = Bwd(B(s))
  <2>1. Schedule(s)[X(s) + 1].op = "backward" /\ Entry(s).op = "backward" /\ Entry(s).mb = B(s)
    BY <1>3, <1>5 DEF Bwd
  <2>2. F(s) < M => F(s) - B(s) = PP - s
    BY <1>1, <2>1, LiveBefore DEF F, B
  <2>3. At(s, "backward") /\ Time(s) = 2 * B(s) + 2 * PP - 1 - s
    BY <2>1 DEF At, Time
  <2>. QED BY <1>1, <1>2, <2>2, <2>3
<1>. QED BY <1>1, <1>3, <1>4, <1>5, Counting DEF F, B

LEMMA SendingTime ==
    ASSUME StateOK, NEW s \in Stages, pc[s] = "sending"
    PROVE  \/ /\ Entry(s).op = "forward" /\ F(s) > 0 /\ Time(s) = 2 * (F(s) - 1) + s
              /\ Time(s) <= 2 * B(s) + 2 * PP - 2 - s
           \/ /\ Entry(s).op = "backward" /\ B(s) > 0
              /\ Time(s) = 2 * (B(s) - 1) + 2 * PP - 1 - s
              /\ F(s) < M => Time(s) <= 2 * F(s) + s - 1
<1>1. /\ X(s) = pos[s] /\ X(s) \in 1..(2 * M) /\ PP \in Nat /\ s \in Nat
  BY Parameters DEF StateOK, X, Stages
<1>. DEFINE k == X(s) - 1
<1>2. k \in 0..(2 * M - 1) /\ X(s) = k + 1 /\ Entry(s) = Schedule(s)[k + 1]
  BY <1>1, Parameters DEF Entry
<1>. HIDE DEF k
<1>3. F(s) = FC(s, k + 1) /\ B(s) = BC(s, k + 1)
  BY <1>2 DEF F, B
<1>4. F(s) \in Int /\ B(s) \in Int /\ FC(s, k) \in 0..M /\ BC(s, k) \in 0..M
  BY <1>2, CountTypes, Counting, Parameters
<1>5. CASE /\ Schedule(s)[k + 1] = Fwd(FC(s, k)) /\ FC(s, k) < M
           /\ FC(s, k + 1) = FC(s, k) + 1 /\ BC(s, k + 1) = BC(s, k)
  <2>1. FC(s, k) - BC(s, k) <= PP - s - 1
    BY <1>2, <1>5, LiveBefore DEF Fwd
  <2>2. Entry(s).op = "forward" /\ Time(s) = 2 * FC(s, k) + s
    BY <1>2, <1>5 DEF Time, Fwd
  <2>. QED BY <1>1, <1>3, <1>4, <1>5, <2>1, <2>2, Parameters
<1>6. CASE /\ Schedule(s)[k + 1] = Bwd(BC(s, k)) /\ BC(s, k) < FC(s, k)
           /\ FC(s, k + 1) = FC(s, k) /\ BC(s, k + 1) = BC(s, k) + 1
  <2>1. FC(s, k) < M => FC(s, k) - BC(s, k) = PP - s
    BY <1>2, <1>6, LiveBefore DEF Bwd
  <2>2. Entry(s).op = "backward" /\ Time(s) = 2 * BC(s, k) + 2 * PP - 1 - s
    BY <1>2, <1>6 DEF Time, Bwd
  <2>. QED BY <1>1, <1>3, <1>4, <1>6, <2>1, <2>2, Parameters
<1>. QED BY <1>2, <1>5, <1>6, Counting

(* A stage that has yet to take batch b of s's round is in that round, if  *)
(* it is in no earlier one, and has work to do.                            *)
LEMMA SameRound ==
    ASSUME PInv, NEW s \in Stages, NEW t \in Stages, NEW mb \in 0..(M - 1),
           ~Done(t) => round[s] <= round[t]
    PROVE  /\ Fwds(t) <= Earlier(s) + mb => ~Done(t) /\ round[t] = round[s] /\ F(t) <= mb
           /\ Bwds(t) <= Earlier(s) + mb => ~Done(t) /\ round[t] = round[s] /\ B(t) <= mb
<1>1. /\ M \in Nat \ {0} /\ mb \in Nat /\ mb < M /\ Rounds \in Nat
      /\ round[s] \in 1..Rounds /\ round[t] \in 1..Rounds
  BY Parameters DEF PInv, StateOK
<1>2. /\ Earlier(s) \in Nat /\ Earlier(t) \in Nat /\ F(t) \in 0..M /\ B(t) \in 0..M
      /\ Earlier(s) + M <= Rounds * M
  BY CountTypes DEF PInv
<1>3. ASSUME round[s] < round[t] PROVE Earlier(s) + M <= Earlier(t)
  <2>1. round[t] - 1 = round[s] + (round[t] - 1 - round[s]) /\ round[t] - 1 - round[s] \in Nat
    BY <1>1, <1>3
  <2>2. (round[t] - 1) * M = round[s] * M + (round[t] - 1 - round[s]) * M
    BY <1>1, <2>1
  <2>3. (round[t] - 1 - round[s]) * M \in Nat /\ round[s] * M = (round[s] - 1) * M + M
    BY <1>1, <2>1, BeforeType
  <2>. QED BY <1>1, <1>2, <2>2, <2>3 DEF Earlier
<1>4. round[s] = round[t] => Earlier(s) = Earlier(t)
  BY DEF Earlier
<1>5. ~Done(t) => (round[s] = round[t] \/ round[s] < round[t])
  BY <1>1
<1>6. ASSUME Fwds(t) <= Earlier(s) + mb
      PROVE  ~Done(t) /\ round[t] = round[s] /\ F(t) <= mb
  <2>1. ~Done(t)
    BY <1>1, <1>2, <1>6, DoneCounts
  <2>. QED BY <1>1, <1>2, <1>3, <1>4, <1>5, <1>6, <2>1 DEF Fwds
<1>7. ASSUME Bwds(t) <= Earlier(s) + mb
      PROVE  ~Done(t) /\ round[t] = round[s] /\ B(t) <= mb
  <2>1. ~Done(t)
    BY <1>1, <1>2, <1>7, DoneCounts
  <2>. QED BY <1>1, <1>2, <1>3, <1>4, <1>5, <1>7, <2>1 DEF Bwds
<1>. QED BY <1>6, <1>7

(* A stage only sends to a stage it has.                                   *)
SendsOK ==
    \A s \in Stages : pc[s] = "sending" =>
        IF Entry(s).op = "forward" THEN ~IsLast(s) ELSE ~IsFirst(s)

LEMMA SendsInit == Init => SendsOK
BY DEF Init, SendsOK

LEMMA SendsStep == PInv /\ SendsOK /\ [Next]_vars => SendsOK'
<1>. SUFFICES ASSUME PInv, SendsOK, [Next]_vars, NEW t \in Stages, pc'[t] = "sending"
              PROVE  IF Entry(t)'.op = "forward" THEN ~IsLast(t) ELSE ~IsFirst(t)
  BY DEF SendsOK, IsLast, IsFirst
<1>1. pc \in [Stages -> {"ready", "sending"}] /\ pos \in [Stages -> 1..(2 * M + 1)]
  BY DEF PInv, StateOK
<1>2. ASSUME NEW s \in Stages, NEW sends \in BOOLEAN, Leave(s, sends), pc[t] = "sending" \/ s = t,
             s = t /\ sends => IF Entry(t).op = "forward" THEN ~IsLast(t) ELSE ~IsFirst(t)
      PROVE  IF Entry(t)'.op = "forward" THEN ~IsLast(t) ELSE ~IsFirst(t)
  <2>1. pos'[t] = pos[t]
    BY <1>1, <1>2 DEF Leave
  <2>2. Entry(t)' = Entry(t)
    BY <2>1 DEF Entry
  <2>3. s # t => pc[t] = "sending"
    BY <1>1, <1>2 DEF Leave
  <2>4. s = t => sends
    BY <1>1, <1>2 DEF Leave
  <2>. QED BY <1>2, <2>2, <2>3, <2>4 DEF SendsOK
<1>3. ASSUME NEW s \in Stages, Leave(s, TRUE) \/ Leave(s, FALSE) PROVE pc[t] = "sending" \/ s = t
  BY <1>1, <1>3 DEF Leave
<1>4. ASSUME NEW s \in Stages, Forward(s)
      PROVE  IF Entry(t)'.op = "forward" THEN ~IsLast(t) ELSE ~IsFirst(t)
  <2>1. Leave(s, ~IsLast(s)) /\ Entry(s).op = "forward"
    BY <1>4 DEF Forward, At
  <2>2. (~IsLast(s)) \in BOOLEAN /\ ((~IsLast(s)) = TRUE \/ (~IsLast(s)) = FALSE)
    BY DEF IsLast
  <2>. QED BY <1>2, <1>3, <2>1, <2>2
<1>5. ASSUME NEW s \in Stages, Backward(s)
      PROVE  IF Entry(t)'.op = "forward" THEN ~IsLast(t) ELSE ~IsFirst(t)
  <2>1. Leave(s, ~IsFirst(s)) /\ Entry(s).op # "forward"
    BY <1>5 DEF Backward, At
  <2>2. (~IsFirst(s)) \in BOOLEAN /\ ((~IsFirst(s)) = TRUE \/ (~IsFirst(s)) = FALSE)
    BY DEF IsFirst
  <2>. QED BY <1>2, <1>3, <2>1, <2>2
<1>6. ASSUME NEW s \in Stages, SendComplete(s)
      PROVE  IF Entry(t)'.op = "forward" THEN ~IsLast(t) ELSE ~IsFirst(t)
  <2>1. Leave(s, FALSE)
    BY <1>6 DEF SendComplete
  <2>. QED BY <1>2, <1>3, <2>1
<1>7. ASSUME NEW s \in Stages, NextRound(s)
      PROVE  IF Entry(t)'.op = "forward" THEN ~IsLast(t) ELSE ~IsFirst(t)
  <2>1. pc[t] = "sending" /\ pos[s] = 2 * M + 1 /\ pos' = [pos EXCEPT ![s] = 1]
    BY <1>7 DEF NextRound
  <2>2. s # t
    BY <2>1, Parameters DEF PInv, StateOK
  <2>3. Entry(t)' = Entry(t)
    BY <1>1, <2>1, <2>2 DEF Entry
  <2>. QED BY <2>1, <2>3 DEF SendsOK
<1>8. CASE UNCHANGED vars
  <2>1. Entry(t)' = Entry(t) /\ pc[t] = "sending"
    BY <1>8 DEF vars, Entry
  <2>. QED BY <2>1 DEF SendsOK
<1>. QED BY <1>4, <1>5, <1>6, <1>7, <1>8 DEF Next, Stage

(* No entry is later than the first forward, or backward, left to do.      *)
LEMMA UntakenTime ==
    ASSUME StateOK, NEW t \in Stages
    PROVE  /\ pos[t] <= 2 * M => Time(t) \in Nat
           /\ F(t) < M => pos[t] <= 2 * M /\ Time(t) <= 2 * F(t) + t
           /\ B(t) < M => pos[t] <= 2 * M /\ Time(t) <= 2 * B(t) + 2 * PP - 1 - t
<1>1. /\ M \in Nat \ {0} /\ PP \in Nat \ {0} /\ t \in 0..(PP - 1)
      /\ pos[t] \in 1..(2 * M + 1) /\ pc[t] \in {"ready", "sending"}
      /\ pc[t] = "sending" => pos[t] <= 2 * M
  BY Parameters DEF StateOK, Stages
<1>2. F(t) \in 0..M /\ B(t) \in 0..M
  BY CountTypes
<1>3. pos[t] = 2 * M + 1 => F(t) = M /\ B(t) = M
  <2>1. pos[t] = 2 * M + 1 => X(t) = 2 * M
    BY <1>1 DEF X
  <2>. QED BY <2>1, CountEnds DEF F, B
<1>4. F(t) < M \/ B(t) < M => pos[t] <= 2 * M
  BY <1>1, <1>2, <1>3
<1>5. CASE pc[t] = "ready" /\ pos[t] <= 2 * M
  BY <1>1, <1>2, <1>5, ReadyTime
<1>6. CASE pc[t] = "sending" /\ pos[t] <= 2 * M
  BY <1>1, <1>2, <1>6, SendingTime
<1>. QED BY <1>1, <1>2, <1>4, <1>5, <1>6

(* A stage that waits to receive waits for one with an earlier entry.      *)
LEMMA ReceiveWaits ==
    ASSUME PInv, NEW s \in Stages, ~Done(s), pc[s] = "ready", ~CanStep(s),
           \A t \in Stages : ~Done(t) => round[s] <= round[t]
    PROVE  \E t \in Stages : ~Done(t) /\ round[t] = round[s] /\ Time(t) < Time(s)
<1>1. /\ StateOK /\ M \in Nat \ {0} /\ PP \in Nat \ {0} /\ s \in 0..(PP - 1) /\ Rounds \in Nat
      /\ pos[s] \in 1..(2 * M + 1) /\ round[s] \in 1..Rounds
  BY Parameters DEF PInv, StateOK, Stages
<1>2. pos[s] <= 2 * M
  BY <1>1 DEF CanStep, Done
<1>3. /\ F(s) \in 0..M /\ B(s) \in 0..M /\ Earlier(s) \in Nat /\ Time(s) \in Nat
      /\ Fwds(s) = Earlier(s) + F(s) /\ Bwds(s) = Earlier(s) + B(s)
  BY <1>1, <1>2, CountTypes, UntakenTime DEF Fwds, Bwds
<1>4. CASE At(s, "forward")
  <2>1. Time(s) = 2 * F(s) + s /\ F(s) < M
    BY <1>1, <1>2, <1>4, ReadyTime, NextForward DEF At
  <2>2. s # 0 /\ act[s - 1] = <<>>
    BY <1>4 DEF CanStep, IsFirst
  <2>. DEFINE t == s - 1
  <2>3. t \in Stages /\ t \in Links /\ t + 1 = s
    BY <1>1, <2>2 DEF Stages, Links
  <2>4. /\ Len(act[t]) = Fwds(s) - Fwds(t) \/ Len(act[t]) = Fwds(t) - Fwds(s)
        /\ Len(act[t]) = 0 /\ Fwds(t) \in Nat /\ Fwds(s) \in Nat
    BY <1>1, <2>2, <2>3, CountTypes DEF PInv, LinksOK, Carries
  <2>. HIDE DEF t
  <2>5. F(s) \in 0..(M - 1) /\ Fwds(t) <= Earlier(s) + F(s)
    <3>1. Fwds(t) = Fwds(s)
      BY <2>4
    <3>. QED BY <1>1, <1>3, <2>1, <3>1
  <2>6. ~Done(t) /\ round[t] = round[s] /\ F(t) <= F(s)
    BY <2>3, <2>5, SameRound
  <2>7. F(t) \in 0..M /\ F(t) < M
    BY <1>1, <1>3, <2>1, <2>3, <2>6, CountTypes
  <2>8. Time(t) <= 2 * F(t) + t /\ Time(t) \in Nat
    BY <1>1, <2>3, <2>7, UntakenTime
  <2>9. Time(t) < Time(s)
    BY <1>1, <1>3, <2>1, <2>3, <2>6, <2>7, <2>8
  <2>. QED BY <2>3, <2>6, <2>9
<1>5. CASE At(s, "backward")
  <2>1. Time(s) = 2 * B(s) + 2 * PP - 1 - s /\ B(s) < M
    BY <1>1, <1>2, <1>3, <1>5, ReadyTime, NextBackward DEF At
  <2>2. s # PP - 1 /\ grad[s] = <<>>
    BY <1>5 DEF CanStep, IsLast
  <2>. DEFINE t == s + 1
  <2>3. t \in Stages /\ s \in Links /\ t = s + 1
    BY <1>1, <2>2 DEF Stages, Links
  <2>4. /\ Len(grad[s]) = Bwds(t) - Bwds(s)
        /\ Len(grad[s]) = 0 /\ Bwds(t) \in Nat /\ Bwds(s) \in Nat
    BY <1>1, <2>2, <2>3, CountTypes DEF PInv, LinksOK, Carries
  <2>. HIDE DEF t
  <2>5. B(s) \in 0..(M - 1) /\ Bwds(t) <= Earlier(s) + B(s)
    <3>1. Bwds(t) = Bwds(s)
      BY <2>4
    <3>. QED BY <1>1, <1>3, <2>1, <3>1
  <2>6. ~Done(t) /\ round[t] = round[s] /\ B(t) <= B(s)
    BY <2>3, <2>5, SameRound
  <2>7. B(t) \in 0..M /\ B(t) < M
    BY <1>1, <1>3, <2>1, <2>3, <2>6, CountTypes
  <2>8. Time(t) <= 2 * B(t) + 2 * PP - 1 - t /\ Time(t) \in Nat
    BY <1>1, <2>3, <2>7, UntakenTime
  <2>9. Time(t) < Time(s)
    BY <1>1, <1>3, <2>1, <2>3, <2>6, <2>7, <2>8
  <2>. QED BY <2>3, <2>6, <2>9
<1>. QED BY <1>1, <1>2, <1>4, <1>5, ReadyTime

(* A stage whose send does not complete waits for one with an entry that   *)
(* is earlier, or that waits in turn, unless their sends cross.            *)
LEMMA SendWaits ==
    ASSUME PInv, SendsOK, NEW s \in Stages, ~Done(s), pc[s] = "sending",
           \A t \in Stages : ~CanStep(t),
           \A t \in Stages : ~Done(t) => round[s] <= round[t]
    PROVE  \/ \E t \in Stages : ~Done(t) /\ round[t] = round[s] /\ Time(t) < Time(s)
           \/ buffered = 0 /\ \E l \in Links : CrossingSends(l)
<1>1. /\ StateOK /\ M \in Nat \ {0} /\ PP \in Nat \ {0} /\ s \in 0..(PP - 1) /\ buffered \in Nat
      /\ pos[s] <= 2 * M
  BY Parameters, PipelineAssumption DEF PInv, StateOK, Stages
<1>2. /\ F(s) \in 0..M /\ B(s) \in 0..M /\ Earlier(s) \in Nat /\ Time(s) \in Nat
      /\ Fwds(s) = Earlier(s) + F(s) /\ Bwds(s) = Earlier(s) + B(s)
  BY <1>1, CountTypes, UntakenTime DEF Fwds, Bwds
<1>3. ASSUME NEW t \in Stages, ~Done(t), round[t] = round[s], pc[t] = "ready", Time(t) <= Time(s)
      PROVE  \E u \in Stages : ~Done(u) /\ round[u] = round[s] /\ Time(u) < Time(s)
  <2>1. PICK u \in Stages : ~Done(u) /\ round[u] = round[t] /\ Time(u) < Time(t)
    BY <1>3, ReceiveWaits
  <2>2. \A v \in Stages : ~Done(v) => Time(v) \in Nat
    <3>1. ASSUME NEW v \in Stages, ~Done(v) PROVE Time(v) \in Nat
      <4>1. pos[v] \in 1..(2 * M + 1) /\ round[v] \in 1..Rounds /\ Rounds \in Nat
        BY <1>1, Parameters DEF StateOK
      <4>2. pos[v] <= 2 * M
        <5>1. ~CanStep(v) /\ M \in Nat
          BY <1>1
        <5>2. ~(pos[v] = 2 * M + 1 /\ round[v] < Rounds)
          BY <5>1 DEF CanStep
        <5>. QED BY <3>1, <4>1, <5>1, <5>2 DEF Done
      <4>. QED BY <1>1, <4>2, UntakenTime
    <3>. QED BY <3>1
  <2>3. Time(u) < Time(s)
    BY <1>2, <1>3, <2>1, <2>2
  <2>. QED BY <1>3, <2>1, <2>3
<1>4. CASE Entry(s).op = "forward"
  <2>1. F(s) > 0 /\ Time(s) = 2 * (F(s) - 1) + s
    BY <1>1, <1>4, SendingTime
  <2>. DEFINE t == s + 1
  <2>2. t \in Stages /\ s \in Links /\ t = s + 1 /\ t \in 1..(PP - 1)
    BY <1>1, <1>4 DEF SendsOK, IsLast, Stages, Links
  <2>3. /\ Len(act[s]) = Fwds(s) - Fwds(t) /\ Len(act[s]) \in Nat /\ Len(act[s]) > buffered
        /\ Fwds(t) \in Nat /\ act[s] # <<>>
    <3>1. ~(Len(act[s]) <= buffered) /\ act[s] \in Seq(Int) /\ Len(act[s]) = Fwds(s) - Fwds(t)
      BY <1>1, <1>4, <2>2 DEF CanStep, StateOK, PInv, LinksOK, Carries
    <3>2. Len(act[s]) \in Nat /\ Len(act[s]) > buffered
      BY <1>1, <3>1
    <3>3. act[s] # <<>>
      <4>1. Len(act[s]) # 0
        BY <1>1, <3>2
      <4>. QED BY <4>1
    <3>4. Fwds(t) \in Nat
      BY <1>1, <2>2, CountTypes
    <3>. QED BY <3>1, <3>2, <3>3, <3>4
  <2>. HIDE DEF t
  <2>4. F(s) - 1 \in 0..(M - 1) /\ Fwds(t) <= Earlier(s) + (F(s) - 1)
    <3>1. Fwds(s) - Fwds(t) > 0
      BY <1>1, <2>3
    <3>2. F(s) \in 0..M /\ F(s) > 0 /\ Earlier(s) \in Nat /\ Fwds(t) \in Nat
      BY <1>2, <2>1, <2>3
    <3>3. Earlier(s) + F(s) - Fwds(t) > 0
      BY <1>2, <3>1, <3>2
    <3>. QED BY <1>1, <3>2, <3>3
  <2>5. ~Done(t) /\ round[t] = round[s]
    BY <2>2, <2>4, SameRound
  <2>6. F(t) <= F(s) - 1 - buffered /\ F(t) \in 0..M /\ F(t) < M /\ B(t) \in 0..M
    <3>1. Earlier(t) = Earlier(s) /\ Fwds(t) = Earlier(t) + F(t) /\ F(t) \in 0..M /\ B(t) \in 0..M
      BY <1>1, <2>2, <2>5, CountTypes DEF Earlier, Fwds
    <3>2. F(t) < F(s) - buffered
      <4>1. (Earlier(s) + F(s)) - (Earlier(s) + F(t)) > buffered
        BY <1>2, <2>3, <3>1
      <4>. QED BY <1>1, <1>2, <3>1, <4>1
    <3>. QED BY <1>1, <1>2, <3>1, <3>2
  <2>7. pos[t] <= 2 * M /\ Time(t) \in Nat /\ pc[t] \in {"ready", "sending"}
    BY <1>1, <2>2, <2>6, UntakenTime DEF StateOK
  <2>8. CASE pc[t] = "ready"
    <3>1. ~At(t, "forward")
      <4>1. t - 1 = s
        BY <1>1, <2>2
      <4>2. ~CanStep(t)
        BY <2>2
      <4>. QED BY <2>3, <4>1, <4>2, Zenon DEF CanStep
    <3>2. Time(t) <= 2 * F(t) + t - 1
      BY <1>1, <2>2, <2>6, <2>7, <2>8, <3>1, ReadyTime
    <3>3. Time(t) <= Time(s)
      BY <1>1, <1>2, <2>1, <2>2, <2>6, <2>7, <3>2
    <3>. QED BY <1>3, <2>2, <2>5, <2>8, <3>3
  <2>9. CASE pc[t] = "sending" /\ Entry(t).op = "forward"
    <3>1. Time(t) = 2 * (F(t) - 1) + t
      BY <1>1, <2>2, <2>9, SendingTime
    <3>2. Time(t) < Time(s)
      BY <1>1, <1>2, <2>1, <2>2, <2>6, <2>7, <3>1
    <3>. QED BY <2>2, <2>5, <3>2
  <2>10. CASE pc[t] = "sending" /\ Entry(t).op # "forward"
    <3>1. Entry(t).op = "backward" /\ Time(t) <= 2 * F(t) + t - 1
      BY <1>1, <2>2, <2>6, <2>10, SendingTime
    <3>2. CASE buffered = 0
      <4>1. CrossingSends(s)
        BY <1>4, <2>2, <2>10, <3>1 DEF CrossingSends
      <4>. QED BY <2>2, <3>2, <4>1
    <3>3. CASE buffered > 0
      <4>1. Time(t) < Time(s)
        BY <1>1, <1>2, <2>1, <2>2, <2>6, <2>7, <3>1, <3>3
      <4>. QED BY <2>2, <2>5, <4>1
    <3>. QED BY <1>1, <3>2, <3>3
  <2>. QED BY <2>7, <2>8, <2>9, <2>10
<1>5. CASE Entry(s).op # "forward"
  <2>1. B(s) > 0 /\ Time(s) = 2 * (B(s) - 1) + 2 * PP - 1 - s
    BY <1>1, <1>5, SendingTime
  <2>. DEFINE t == s - 1
  <2>2. t \in Stages /\ t \in Links /\ s = t + 1 /\ t \in 0..(PP - 2) /\ t # PP - 1
    BY <1>1, <1>5 DEF SendsOK, IsFirst, Stages, Links
  <2>3. /\ Len(grad[t]) = Bwds(s) - Bwds(t) /\ Len(grad[t]) \in Nat /\ Len(grad[t]) > buffered
        /\ Bwds(t) \in Nat /\ grad[t] # <<>>
    <3>1. ~(Len(grad[t]) <= buffered) /\ grad[t] \in Seq(Int) /\ Len(grad[t]) = Bwds(s) - Bwds(t)
      BY <1>1, <1>5, <2>2 DEF CanStep, StateOK, PInv, LinksOK, Carries
    <3>2. Len(grad[t]) \in Nat /\ Len(grad[t]) > buffered
      BY <1>1, <3>1
    <3>3. grad[t] # <<>>
      <4>1. Len(grad[t]) # 0
        BY <1>1, <3>2
      <4>. QED BY <4>1
    <3>4. Bwds(t) \in Nat
      BY <1>1, <2>2, CountTypes
    <3>. QED BY <3>1, <3>2, <3>3, <3>4
  <2>. HIDE DEF t
  <2>4. B(s) - 1 \in 0..(M - 1) /\ Bwds(t) <= Earlier(s) + (B(s) - 1)
    <3>1. Bwds(s) - Bwds(t) > 0
      BY <1>1, <2>3
    <3>2. B(s) \in 0..M /\ B(s) > 0 /\ Earlier(s) \in Nat /\ Bwds(t) \in Nat
      BY <1>2, <2>1, <2>3
    <3>3. Earlier(s) + B(s) - Bwds(t) > 0
      BY <1>2, <3>1, <3>2
    <3>. QED BY <1>1, <3>2, <3>3
  <2>5. ~Done(t) /\ round[t] = round[s]
    BY <2>2, <2>4, SameRound
  <2>6. B(t) <= B(s) - 1 - buffered /\ B(t) \in 0..M /\ B(t) < M
    <3>1. Earlier(t) = Earlier(s) /\ Bwds(t) = Earlier(t) + B(t) /\ B(t) \in 0..M
      BY <1>1, <2>2, <2>5, CountTypes DEF Earlier, Bwds
    <3>2. B(t) < B(s) - buffered
      <4>1. (Earlier(s) + B(s)) - (Earlier(s) + B(t)) > buffered
        BY <1>2, <2>3, <3>1
      <4>. QED BY <1>1, <1>2, <3>1, <4>1
    <3>. QED BY <1>1, <1>2, <3>1, <3>2
  <2>7. pos[t] <= 2 * M /\ Time(t) \in Nat /\ pc[t] \in {"ready", "sending"}
    BY <1>1, <2>2, <2>6, UntakenTime DEF StateOK
  <2>8. CASE pc[t] = "ready"
    <3>1. ~At(t, "backward")
      <4>1. ~CanStep(t)
        BY <2>2
      <4>. QED BY <2>3, <4>1, Zenon DEF CanStep
    <3>2. Time(t) <= 2 * B(t) + 2 * PP - 2 - t
      BY <1>1, <2>2, <2>7, <2>8, <3>1, ReadyTime
    <3>3. Time(t) <= Time(s)
      BY <1>1, <1>2, <2>1, <2>2, <2>6, <2>7, <3>2
    <3>. QED BY <1>3, <2>2, <2>5, <2>8, <3>3
  <2>9. CASE pc[t] = "sending" /\ Entry(t).op # "forward"
    <3>1. Time(t) = 2 * (B(t) - 1) + 2 * PP - 1 - t
      BY <1>1, <2>2, <2>9, SendingTime
    <3>2. Time(t) < Time(s)
      BY <1>1, <1>2, <2>1, <2>2, <2>6, <2>7, <3>1
    <3>. QED BY <2>2, <2>5, <3>2
  <2>10. CASE pc[t] = "sending" /\ Entry(t).op = "forward"
    <3>1. Time(t) <= 2 * B(t) + 2 * PP - 2 - t /\ Entry(s).op = "backward"
      BY <1>1, <1>5, <2>2, <2>10, SendingTime
    <3>2. CASE buffered = 0
      <4>1. CrossingSends(t)
        BY <2>2, <2>10, <3>1 DEF CrossingSends
      <4>. QED BY <2>2, <3>2, <4>1
    <3>3. CASE buffered > 0
      <4>1. Time(t) < Time(s)
        BY <1>1, <1>2, <2>1, <2>2, <2>6, <2>7, <3>1, <3>3
      <4>. QED BY <2>2, <2>5, <4>1
    <3>. QED BY <1>1, <3>2, <3>3
  <2>. QED BY <2>7, <2>8, <2>9, <2>10
<1>. QED BY <1>4, <1>5

LEMMA LeastOf ==
    ASSUME NEW S \in SUBSET Nat, S # {}
    PROVE  \E n \in S : \A m \in S : n <= m
<1>1. PICK n \in S : \A m \in S : <<m, n>> \notin LessThan
  BY LessThanWellFounded, WFMin
<1>2. \A m \in S : ~(m < n)
  BY <1>1 DEF LessThan
<1>. QED BY <1>1, <1>2

LEMMA PBlocked == PInv /\ SendsOK => OnlyCrossingSendsBlock
<1>. SUFFICES ASSUME PInv, SendsOK, \A s \in Stages : ~CanStep(s), ~AllDone
              PROVE  buffered = 0 /\ \E l \in Links : CrossingSends(l)
  BY DEF OnlyCrossingSendsBlock
<1>. DEFINE Rest == {s \in Stages : ~Done(s)}
            Now(r) == {s \in Rest : round[s] = r}
<1>1. \A s \in Rest : round[s] \in Nat /\ Time(s) \in Nat /\ pc[s] \in {"ready", "sending"}
  <2>1. ASSUME NEW s \in Rest PROVE round[s] \in Nat /\ Time(s) \in Nat /\ pc[s] \in {"ready", "sending"}
    <3>1. /\ pos[s] \in 1..(2 * M + 1) /\ round[s] \in 1..Rounds /\ Rounds \in Nat /\ M \in Nat
          /\ pc[s] \in {"ready", "sending"}
      BY Parameters DEF PInv, StateOK
    <3>2. pos[s] <= 2 * M
      BY <3>1 DEF CanStep, Done
    <3>. QED BY <3>1, <3>2, UntakenTime DEF PInv
  <2>. QED BY <2>1
<1>2. PICK r \in {round[s] : s \in Rest} : \A m \in {round[s] : s \in Rest} : r <= m
  <2>1. {round[s] : s \in Rest} \in SUBSET Nat /\ {round[s] : s \in Rest} # {}
    BY <1>1 DEF AllDone
  <2>. QED BY <2>1, LeastOf
<1>3. PICK n \in {Time(s) : s \in Now(r)} : \A m \in {Time(s) : s \in Now(r)} : n <= m
  <2>1. {Time(s) : s \in Now(r)} \in SUBSET Nat /\ {Time(s) : s \in Now(r)} # {}
    BY <1>1, <1>2
  <2>. QED BY <2>1, LeastOf
<1>4. PICK s \in Now(r) : Time(s) = n
  BY <1>3
<1>5. /\ s \in Stages /\ ~Done(s) /\ ~CanStep(s) /\ pc[s] \in {"ready", "sending"}
      /\ \A t \in Stages : ~Done(t) => round[s] <= round[t]
  BY <1>1, <1>2, <1>4
<1>6. ~ \E t \in Stages : ~Done(t) /\ round[t] = round[s] /\ Time(t) < Time(s)
  <2>1. ASSUME NEW t \in Stages, ~Done(t), round[t] = round[s] PROVE ~(Time(t) < Time(s))
    <3>1. t \in Now(r) /\ n <= Time(t) /\ Time(t) \in Nat /\ Time(s) \in Nat
      BY <1>1, <1>3, <1>4, <2>1
    <3>. QED BY <1>4, <3>1
  <2>. QED BY <2>1
<1>7. pc[s] = "sending"
  BY <1>5, <1>6, ReceiveWaits
<1>. QED BY <1>5, <1>6, <1>7, SendWaits

-----------------------------------------------------------------------------
(* The theorems                                                            *)

THEOREM CountsAgree == Spec => []PInv
BY PInit, PNext, PTL DEF Spec

(* Every variable keeps its type: no micro-batch outside the step is ever  *)
(* on a link, in a slot or applied (pipeline_1f1b_schedule and the         *)
(* trainer's step).                                                        *)
THEOREM TypeCorrect == Spec => []TypeOK
BY CountsAgree, PType, PTL

(* The trainer's "missing stage activation / input for backward" errors    *)
(* are unreachable, and each backward pass finds its own micro-batch.      *)
THEOREM SlotsAlwaysMatch == Spec => []SlotsMatch
BY CountsAgree, PSlots, PTL

(* Each stage applies to every micro-batch of every round its own          *)
(* gradient, once and in order, however the stages interleave.             *)
THEOREM EveryGradientOnce == Spec => []GradientsMatch
BY CountsAgree, PGradients, PTL

(* A finished step leaves nothing on a link or in a slot.                  *)
THEOREM NothingLeftBehind == Spec => []Drained
BY CountsAgree, PDrained, PTL

(* No stage ever holds more activations than there are stages from it to   *)
(* the end, which is the schedule's maximum, and no link carries more.     *)
THEOREM ActivationsAreBounded == Spec => []LiveBound
BY CountsAgree, PLive, PTL

(* For any pipeline, and any number of micro-batches and rounds: as long   *)
(* as the step is not over some stage can go on, unless channels buffer    *)
(* nothing and two neighbours send to each other.                          *)
THEOREM DeadlockFree == Spec => []OnlyCrossingSendsBlock
<1>1. Init => SendsOK
  BY SendsInit
<1>2. PInv /\ SendsOK /\ [Next]_vars => SendsOK'
  BY SendsStep
<1>3. PInv /\ SendsOK => OnlyCrossingSendsBlock
  BY PBlocked
<1>. QED BY CountsAgree, <1>1, <1>2, <1>3, PTL DEF Spec

-----------------------------------------------------------------------------
(* The streams of one GPU                                                  *)

(* What the proof asks of the host's program: only kernels and operations  *)
(* of NcclCollectives have work for the device; a tensor is read after the *)
(* call that returns it, and before the host drops it; one call returns    *)
(* it; and of the operations that do not wait for the current stream, all  *)
(* the earlier ones are on the same communicator.                          *)
HasWork(c) == c.name \notin {"to_cpu", "barrier"}
CallOK(c) ==
    /\ c.on \in Streams
    /\ c.on = Current <=> c.name \in {"kernel", "to_cpu"}
    /\ c.name \in Fenced \cup Unfenced \cup {"kernel", "to_cpu", "barrier"}
    /\ ~HasWork(c) => c.reads = {} /\ c.returns = {}
    /\ c.name = "recv_like" => c.reads = {}
    /\ \A t, u \in c.returns : t = u

Numbers == 1..Len(program)
Tensors == UNION {program[i].returns : i \in Numbers}
Returns(i, t) == t \in program[i].returns
Kept(t, i, j) == \A d \in i..(j - 1) : t \notin program[d].drops

ProgramOK ==
    /\ Len(program) \in Nat /\ DOMAIN program = Numbers
    /\ \A i \in Numbers : CallOK(program[i])
    /\ \A i \in Numbers : \A t \in program[i].reads : \E w \in 1..(i - 1) : Returns(w, t) /\ Kept(t, w, i)
    /\ \A i, j \in Numbers : \A t \in Tensors : Returns(i, t) /\ Returns(j, t) => i = j
    /\ \A i \in Numbers : \A j \in 1..(i - 1) :
         program[i].name \in Unfenced /\ program[j].on # Current => program[j].on = program[i].on

(* What a stream is given: work, and events of other streams to wait for.  *)
Item ==
    [wait : Streams \cup {"none"}, at : Nat, reads : SUBSET (Tensors \X Blocks),
     writes : SUBSET (Tensors \X Blocks)]
StreamsType ==
    /\ cursor \in 1..(Len(program) + 1)
    /\ waiting \subseteq Streams
    /\ queue \in [Streams -> Seq(Item)]
    /\ done \in [Streams -> Nat]
    /\ started \in [Streams -> BOOLEAN]
    /\ DOMAIN mem = Blocks
    /\ \A s \in Streams : started[s] => queue[s] # <<>> /\ Head(queue[s]).wait = "none"

(* The proof remembers more than the state does: log[s][k] is the k-th     *)
(* thing ever put on stream s, at[i] the place of the work of call i on    *)
(* its stream, blk[t] the block tensor t was given.                        *)
On(i) == program[i].on
Made == {i \in Numbers : i < cursor /\ HasWork(program[i])}
Put(s) == done[s] + Len(queue[s])
Ended(at, i) == done[On(i)] >= at[i]
UnderWay(at, i) == started[On(i)] /\ done[On(i)] + 1 = at[i]
Begun(at, i) == Ended(at, i) \/ UnderWay(at, i)

(* One of the first n entries of a stream waits for entry l of stream r.   *)
WaitsFor(log, s, n, r, l) == \E k \in 1..n : log[s][k].wait = r /\ log[s][k].at >= l

(* Item k of stream s cannot begin before entry l of stream r is over: it *)
(* is; they are on one stream; or s waits for it, itself or by waiting for *)
(* the current stream, which does.                                         *)
Behind(log, s, k, r, l) ==
    \/ done[r] >= l
    \/ r = s /\ l < k
    \/ WaitsFor(log, s, k - 1, r, l)
    \/ \E h \in 1..(k - 1) : log[s][h].wait = Current /\ WaitsFor(log, Current, log[s][h].at, r, l)

LogsAre(log) ==
    \A s \in Streams : \A k \in 1..Len(queue[s]) : queue[s][k] = log[s][done[s] + k]
WorkAt(log, at, blk) ==
    \A i \in Made : at[i] \in 1..Put(On(i)) /\ log[On(i)][at[i]] = Work(program[i], blk)
OnlyWork(log, at) ==
    \A s \in Streams : \A k \in 1..Put(s) :
       \/ log[s][k].wait \in Streams /\ log[s][k].at \in 0..Put(log[s][k].wait)
       \/ \E i \in Made : On(i) = s /\ at[i] = k
InOrder(at) == \A i, j \in Made : i < j /\ On(i) = On(j) => at[i] < at[j]
Satisfied(log) ==
    \A s \in Streams : \A k \in 1..done[s] :
       log[s][k].wait # "none" => done[log[s][k].wait] >= log[s][k].at

(* Of every operation the host or the current stream waits for the end.    *)
Joined(log, at) ==
    \A i \in Made : On(i) # Current =>
       Ended(at, i) \/ On(i) \in waiting \/ WaitsFor(log, Current, Put(Current), On(i), at[i])
Ordered(log, at) ==
    \A i, j \in Made : i < j /\ ~Exposed(j) => Behind(log, On(j), at[j], On(i), at[i])

(* Memory: the tensors the host holds; two tensors have had one block only *)
(* if the first was dropped; and what a block holds of a tensor is not     *)
(* older than what was written there by work that could not begin before.  *)
HeldOK(blk) ==
    /\ DOMAIN held = {t \in Tensors : \E w \in 1..(cursor - 1) : Returns(w, t) /\ Kept(t, w, cursor)}
    /\ \A t \in DOMAIN held : held[t] = blk[t]
Apart(blk) ==
    \A w, j \in Made : \A t, u \in Tensors :
       w < j /\ Returns(w, t) /\ Returns(j, u) /\ blk[t] = blk[u] => ~Kept(t, w, j)
FinishedOK(at) == \A i \in Made : Ended(at, i) => program[i].returns \subseteq finished
NoOlder(at, blk, b, j) ==
    \A w \in Made : \A t \in Tensors :
       Returns(w, t) /\ blk[t] = b /\ Begun(at, w) /\ ~Exposed(w) => w <= j
MemOK(at, blk) ==
    \A b \in Blocks : \A u \in mem[b] :
       \E j \in Made : Begun(at, j) /\ Returns(j, u) /\ blk[u] = b /\ NoOlder(at, blk, b, j)

Remembered(log, at, blk) ==
    /\ at \in [Numbers -> Nat] /\ blk \in [Tensors -> Blocks]
    /\ LogsAre(log) /\ WorkAt(log, at, blk) /\ OnlyWork(log, at) /\ InOrder(at)
    /\ Satisfied(log) /\ Joined(log, at) /\ Ordered(log, at)
    /\ HeldOK(blk) /\ Apart(blk) /\ FinishedOK(at) /\ MemOK(at, blk)
StreamsInv == ProgramOK /\ StreamsType /\ \E log, at, blk : Remembered(log, at, blk)

LEMMA StreamsAre ==
    /\ Streams = {"full", "data", "current"} /\ Current = "current" /\ Current \in Streams
    /\ "none" \notin Streams /\ Comms = {"full", "data"}
    /\ \A s \in Streams : s # Current <=> s \in Comms
BY DEF Streams, Comms, Current

LEMMA WorkIs ==
    ASSUME NEW c, NEW blk
    PROVE  /\ Work(c, blk).wait = "none"
           /\ Work(c, blk).reads = {<<t, blk[t]>> : t \in {u \in c.reads : c.name # "broadcast"}}
           /\ Work(c, blk).writes = {<<t, blk[t]>> : t \in c.returns}
           /\ \A b : Into(b, Work(c, blk)) = {t \in c.returns : blk[t] = b}
<1>1. /\ Work(c, blk).wait = "none"
      /\ Work(c, blk).reads = {<<t, blk[t]>> : t \in {u \in c.reads : c.name # "broadcast"}}
      /\ Work(c, blk).writes = {<<t, blk[t]>> : t \in c.returns}
  BY DEF Work
<1>2. ASSUME NEW b PROVE Into(b, Work(c, blk)) = {t \in c.returns : blk[t] = b}
  <2>1. PICK x : x = Work(c, blk).writes
    OBVIOUS
  <2>2. \A v : v \in x <=> \E t \in c.returns : v = <<t, blk[t]>>
    BY <1>1, <2>1
  <2>3. Into(b, Work(c, blk)) = {w[1] : w \in {v \in x : v[2] = b}}
    BY <2>1 DEF Into
  <2>4. ASSUME NEW t, t \in Into(b, Work(c, blk)) PROVE t \in c.returns /\ blk[t] = b
    <3>1. PICK v \in x : v[2] = b /\ t = v[1]
      BY <2>3, <2>4
    <3>2. PICK u \in c.returns : v = <<u, blk[u]>>
      BY <2>2
    <3>. QED BY <3>1, <3>2
  <2>5. ASSUME NEW t \in c.returns, blk[t] = b PROVE t \in Into(b, Work(c, blk))
    <3>1. PICK v : v = <<t, blk[t]>>
      OBVIOUS
    <3>2. v \in x /\ v[2] = b /\ v[1] = t
      BY <2>2, <2>5, <3>1
    <3>. QED BY <2>3, <3>2
  <2>. QED BY <2>4, <2>5
<1>. QED BY <1>1, <1>2

(* The head of a stream's queue is what comes after what it has done.      *)
LEMMA HeadAt ==
    ASSUME StreamsType, NEW log, LogsAre(log), NEW s \in Streams, queue[s] # <<>>
    PROVE  /\ Head(queue[s]) = log[s][done[s] + 1] /\ done[s] + 1 \in 1..Put(s)
           /\ Len(queue[s]) \in Nat \ {0} /\ done[s] \in Nat /\ Put(s) \in Nat
<1>1. queue[s] \in Seq(Item) /\ done[s] \in Nat
  BY DEF StreamsType
<1>2. PICK q \in Seq(Item) : q = queue[s]
  BY <1>1
<1>3. Len(q) \in Nat \ {0} /\ Head(q) = q[1] /\ 1 \in 1..Len(q)
  BY <1>2
<1>4. \A k \in 1..Len(q) : q[k] = log[s][done[s] + k]
  BY <1>2 DEF LogsAre
<1>5. Put(s) = done[s] + Len(q)
  BY <1>2 DEF Put
<1>. QED BY <1>1, <1>2, <1>3, <1>4, <1>5

LEMMA PutType ==
    ASSUME StreamsType, NEW s \in Streams
    PROVE  /\ done[s] \in Nat /\ Len(queue[s]) \in Nat /\ Put(s) \in Nat /\ done[s] <= Put(s)
           /\ Put(s) = done[s] + Len(queue[s]) /\ queue[s] \in Seq(Item)
BY DEF StreamsType, Put

LEMMA MadeIs ==
    ASSUME ProgramOK, NEW i \in Made
    PROVE  /\ i \in Numbers /\ i \in Nat /\ i < cursor /\ HasWork(program[i]) /\ On(i) \in Streams
           /\ CallOK(program[i]) /\ Len(program) \in Nat
BY DEF Made, ProgramOK, CallOK, On, Numbers

(* An event that is waited for had been recorded.                          *)
LEMMA EventIs ==
    ASSUME ProgramOK, StreamsType, NEW log, NEW at, NEW blk, WorkAt(log, at, blk), OnlyWork(log, at),
           NEW s \in Streams, NEW k \in 1..Put(s)
    PROVE  /\ log[s][k].wait \in Streams => log[s][k].at \in 0..Put(log[s][k].wait)
           /\ log[s][k].wait \notin Streams =>
                \E i \in Made : On(i) = s /\ at[i] = k /\ log[s][k] = Work(program[i], blk)
<1>1. CASE log[s][k].wait \in Streams /\ log[s][k].at \in 0..Put(log[s][k].wait)
  BY <1>1
<1>2. ASSUME NEW i \in Made, On(i) = s, at[i] = k
      PROVE  log[s][k] = Work(program[i], blk) /\ log[s][k].wait = "none"
  <2>1. log[On(i)][at[i]] = Work(program[i], blk)
    BY DEF WorkAt
  <2>. QED BY <1>2, <2>1, WorkIs
<1>. QED BY <1>1, <1>2, StreamsAre DEF OnlyWork

(* What comes before a place that has been reached is over.                *)
LEMMA BehindEnds ==
    ASSUME ProgramOK, StreamsType, NEW log, NEW at, NEW blk, WorkAt(log, at, blk), OnlyWork(log, at),
           Satisfied(log), NEW s \in Streams, NEW r \in Streams, NEW k \in Nat, NEW l \in Nat,
           Behind(log, s, k, r, l), done[s] >= k - 1
    PROVE  done[r] >= l
<1>1. done[s] \in Nat /\ done[r] \in Nat /\ done[Current] \in Nat
  BY PutType, StreamsAre
<1>2. ASSUME NEW x \in Streams, NEW h \in 1..done[x], log[x][h].wait \in Streams
      PROVE  /\ done[log[x][h].wait] >= log[x][h].at /\ log[x][h].at \in Nat
             /\ done[log[x][h].wait] \in Nat
  <2>1. done[log[x][h].wait] >= log[x][h].at
    BY <1>2, StreamsAre DEF Satisfied
  <2>2. h \in 1..Put(x)
    BY PutType
  <2>3. log[x][h].at \in 0..Put(log[x][h].wait) /\ Put(log[x][h].wait) \in Nat /\ done[log[x][h].wait] \in Nat
    BY <1>2, <2>2, EventIs, PutType
  <2>. QED BY <2>1, <2>3
<1>3. ASSUME NEW x \in Streams, NEW n \in Nat, n <= done[x], WaitsFor(log, x, n, r, l)
      PROVE  done[r] >= l
  <2>1. PICK h \in 1..n : log[x][h].wait = r /\ log[x][h].at >= l
    BY <1>3 DEF WaitsFor
  <2>2. done[x] \in Nat /\ h \in 1..done[x]
    BY <1>3, PutType
  <2>3. done[r] >= log[x][h].at /\ log[x][h].at \in Nat
    BY <1>2, <2>1, <2>2
  <2>. QED BY <1>1, <2>1, <2>3
<1>4. CASE r = s /\ l < k
  BY <1>1, <1>4
<1>5. CASE WaitsFor(log, s, k - 1, r, l)
  <2>1. CASE k = 0
    BY <1>5, <2>1 DEF WaitsFor
  <2>2. CASE k # 0
    BY <1>3, <1>5, <2>2
  <2>. QED BY <2>1, <2>2
<1>6. ASSUME NEW h \in 1..(k - 1), log[s][h].wait = Current, WaitsFor(log, Current, log[s][h].at, r, l)
      PROVE  done[r] >= l
  <2>1. h \in 1..done[s]
    BY <1>1
  <2>2. done[Current] >= log[s][h].at /\ log[s][h].at \in Nat
    BY <1>2, <1>6, <2>1, StreamsAre
  <2>. QED BY <1>3, <1>6, <2>2, StreamsAre
<1>. QED BY <1>4, <1>5, <1>6 DEF Behind

(* A call whose work has begun, unless it is exposed, finds all work of    *)
(* the calls before it over.                                               *)
LEMMA EndsFirst ==
    ASSUME ProgramOK, StreamsType, NEW log, NEW at, NEW blk, Remembered(log, at, blk),
           NEW i \in Made, NEW j \in Made, i < j, ~Exposed(j), at[j] <= done[On(j)] + 1
    PROVE  Ended(at, i)
<1>1. Behind(log, On(j), at[j], On(i), at[i])
  BY DEF Remembered, Ordered
<1>2. On(i) \in Streams /\ On(j) \in Streams /\ at[i] \in Nat /\ at[j] \in Nat
  BY MadeIs DEF Remembered
<1>3. done[On(j)] >= at[j] - 1
  BY <1>2, PutType
<1>4. WorkAt(log, at, blk) /\ OnlyWork(log, at) /\ Satisfied(log)
  BY DEF Remembered
<1>5. done[On(i)] >= at[i]
  BY <1>1, <1>2, <1>3, <1>4, BehindEnds
<1>. QED BY <1>5 DEF Ended

LEMMA BegunAt ==
    ASSUME ProgramOK, StreamsType, NEW at, at \in [Numbers -> Nat], NEW j \in Made, Begun(at, j)
    PROVE  at[j] <= done[On(j)] + 1
BY MadeIs, PutType DEF Begun, Ended, UnderWay

(* What a stream has begun is the work of a call.                          *)
LEMMA HeadIsWork ==
    ASSUME ProgramOK, StreamsType, NEW log, NEW at, NEW blk, Remembered(log, at, blk),
           NEW s \in Streams, queue[s] # <<>>, Head(queue[s]).wait \notin Streams
    PROVE  \E i \in Made : /\ On(i) = s /\ at[i] = done[s] + 1
                           /\ Head(queue[s]) = Work(program[i], blk)
<1>1. LogsAre(log) /\ WorkAt(log, at, blk) /\ OnlyWork(log, at)
  BY DEF Remembered
<1>2. Head(queue[s]) = log[s][done[s] + 1] /\ done[s] + 1 \in 1..Put(s)
  BY <1>1, HeadAt
<1>3. log[s][done[s] + 1].wait \notin Streams
  BY <1>2
<1>. QED BY <1>1, <1>2, <1>3, EventIs

LEMMA UnderWayIs ==
    ASSUME ProgramOK, StreamsType, NEW log, NEW at, NEW blk, Remembered(log, at, blk),
           NEW s \in Streams, started[s]
    PROVE  \E i \in Made : /\ On(i) = s /\ at[i] = done[s] + 1 /\ UnderWay(at, i)
                           /\ Head(queue[s]) = Work(program[i], blk)
<1>1. queue[s] # <<>> /\ Head(queue[s]).wait = "none"
  BY DEF StreamsType
<1>2. Head(queue[s]).wait \notin Streams
  BY <1>1, StreamsAre
<1>. QED BY <1>1, <1>2, HeadIsWork DEF UnderWay

(* The head of a stream, when its turn is that of a call's work.           *)
LEMMA HeadOfCall ==
    ASSUME ProgramOK, StreamsType, NEW log, NEW at, NEW blk, Remembered(log, at, blk),
           NEW i \in Made, at[i] = done[On(i)] + 1, queue[On(i)] # <<>>
    PROVE  Head(queue[On(i)]) = Work(program[i], blk)
<1>1. LogsAre(log) /\ WorkAt(log, at, blk)
  BY DEF Remembered
<1>2. log[On(i)][at[i]] = Work(program[i], blk)
  BY <1>1 DEF WorkAt
<1>. QED BY <1>1, <1>2, HeadAt, MadeIs

(* Who is writing to a block.                                              *)
LEMMA WritingIs ==
    ASSUME ProgramOK, StreamsType, NEW log, NEW at, NEW blk, Remembered(log, at, blk),
           NEW b, NEW u \in Writing(b)
    PROVE  \E j \in Made : UnderWay(at, j) /\ Returns(j, u) /\ blk[u] = b
<1>1. PICK s \in Streams : started[s] /\ u \in Into(b, Head(queue[s]))
  BY DEF Writing
<1>2. PICK j \in Made : UnderWay(at, j) /\ Head(queue[s]) = Work(program[j], blk)
  BY <1>1, UnderWayIs
<1>3. Into(b, Head(queue[s])) = {t \in program[j].returns : blk[t] = b}
  BY <1>2, WorkIs
<1>. QED BY <1>1, <1>2, <1>3 DEF Returns

LEMMA ReturnsIn == ASSUME NEW i \in Numbers, NEW t, Returns(i, t) PROVE t \in Tensors
BY DEF Returns, Tensors

(* The invariant implies the property: the writer of what is read has      *)
(* ended, whoever used the block before it as well, and whoever uses it    *)
(* next cannot have begun.                                                 *)
LEMMA StreamsRead == StreamsInv => ReadsAsWritten
<1>. SUFFICES ASSUME StreamsInv, NEW h \in Misreads
              PROVE  /\ h[1] # h[2]
                     /\ \E i \in DOMAIN program : Exposed(i) /\ {h[1], h[2]} \cap program[i].returns # {}
  BY DEF ReadsAsWritten
<1>1. ProgramOK /\ StreamsType
  BY DEF StreamsInv
<1>2. PICK log, at, blk : Remembered(log, at, blk)
  BY DEF StreamsInv
<1>3. PICK s, r : /\ s \in Streams /\ started[s] /\ r \in Head(queue[s]).reads
                  /\ h \in {<<r[1], u>> : u \in Found(r[1], r[2])}
  BY DEF Misreads
<1>. s \in Streams
  BY <1>3
<1>4. PICK i \in Made : /\ On(i) = s /\ UnderWay(at, i) /\ at[i] = done[s] + 1
                        /\ Head(queue[s]) = Work(program[i], blk)
  BY <1>1, <1>2, <1>3, UnderWayIs
<1>5. PICK t \in program[i].reads : r = <<t, blk[t]>> /\ program[i].name # "broadcast"
  BY <1>3, <1>4, WorkIs
<1>. DEFINE b == blk[t]
<1>6. i \in Numbers /\ i \in Nat /\ i < cursor
  BY <1>1, MadeIs
<1>7. program[i].name \notin Unfenced /\ ~Exposed(i)
  <2>1. program[i].name # "recv_like"
    BY <1>1, <1>5, MadeIs DEF CallOK
  <2>. QED BY <1>5, <2>1 DEF Unfenced, Exposed
<1>8. PICK w \in 1..(i - 1) : Returns(w, t) /\ Kept(t, w, i)
  BY <1>1, <1>6 DEF ProgramOK
<1>9. w \in Made /\ w \in Nat /\ t \in Tensors /\ w \in Numbers
  <2>1. w \in Numbers /\ w < cursor
    BY <1>1, <1>6, <1>8 DEF Numbers, StreamsType, ProgramOK
  <2>2. HasWork(program[w])
    BY <1>1, <1>8, <2>1 DEF Returns, ProgramOK, CallOK
  <2>. QED BY <1>8, <2>1, <2>2, ReturnsIn DEF Made
<1>10. Ended(at, w)
  <2>1. at[i] <= done[On(i)] + 1 /\ w < i
    BY <1>1, <1>4, <1>6, <1>8, PutType
  <2>. QED BY <1>1, <1>2, <1>7, <1>9, <2>1, EndsFirst
<1>11. t \in finished
  <2>1. program[w].returns \subseteq finished
    BY <1>2, <1>9, <1>10 DEF Remembered, FinishedOK
  <2>. QED BY <1>8, <2>1 DEF Returns
<1>12. PICK u : h = <<t, u>> /\ u \in mem[b] \cup Writing(b) /\ u # t
  <2>1. PICK u : h = <<t, u>> /\ u \in Found(t, b)
    BY <1>3, <1>5
  <2>. QED BY <1>11, <2>1 DEF Found
<1>13. b \in Blocks
  BY <1>2, <1>9 DEF Remembered
<1>14. PICK j \in Made : /\ Begun(at, j) /\ Returns(j, u) /\ blk[u] = b
                         /\ NoOlder(at, blk, b, j) \/ UnderWay(at, j)
  <2>1. CASE u \in mem[b]
    BY <1>2, <1>13, <2>1 DEF Remembered, MemOK
  <2>2. CASE u \in Writing(b)
    BY <1>1, <1>2, <2>2, WritingIs DEF Begun
  <2>. QED BY <1>12, <2>1, <2>2
<1>15. j \in Numbers /\ j \in Nat /\ j < cursor /\ u \in Tensors
  BY <1>1, <1>14, MadeIs, ReturnsIn
<1>16. SUFFICES ASSUME ~Exposed(w), ~Exposed(j) PROVE FALSE
  <2>1. DOMAIN program = Numbers
    BY <1>1 DEF ProgramOK
  <2>2. t \in {h[1], h[2]} \cap program[w].returns /\ u \in {h[1], h[2]} \cap program[j].returns
    BY <1>8, <1>12, <1>14 DEF Returns
  <2>. QED BY <1>9, <1>12, <1>15, <2>1, <2>2
<1>17. at \in [Numbers -> Nat]
  BY <1>2 DEF Remembered
<1>18. at[j] <= done[On(j)] + 1
  BY <1>1, <1>14, <1>17, BegunAt
<1>19. CASE j < w
  <2>1. ~UnderWay(at, j)
    <3>1. Begun(at, w)
      BY <1>10 DEF Begun
    <3>2. at[w] <= done[On(w)] + 1
      BY <1>1, <1>9, <1>17, <3>1, BegunAt
    <3>3. Ended(at, j)
      BY <1>1, <1>2, <1>9, <1>16, <1>19, <3>2, EndsFirst
    <3>. QED BY <1>1, <1>17, <1>15, <3>3, MadeIs, PutType DEF Ended, UnderWay
  <2>2. w <= j
    BY <1>8, <1>9, <1>10, <1>14, <1>16, <2>1 DEF NoOlder, Begun
  <2>. QED BY <1>9, <1>15, <1>19, <2>2
<1>20. CASE j = w
  <2>1. t \in program[w].returns /\ u \in program[w].returns
    BY <1>8, <1>14, <1>20 DEF Returns
  <2>. QED BY <1>1, <1>9, <1>12, <2>1 DEF ProgramOK, CallOK
<1>21. CASE w < j
  <2>1. ~Kept(t, w, j)
    BY <1>2, <1>8, <1>9, <1>14, <1>15, <1>21 DEF Remembered, Apart
  <2>2. PICK d \in w..(j - 1) : t \in program[d].drops
    BY <2>1 DEF Kept
  <2>3. d >= i
    BY <1>6, <1>8, <1>9, <2>2 DEF Kept
  <2>4. i < j
    BY <1>6, <1>9, <1>15, <2>2, <2>3
  <2>5. Ended(at, i)
    BY <1>1, <1>2, <1>16, <1>18, <2>4, EndsFirst
  <2>. QED BY <1>1, <1>4, <2>5, PutType DEF Ended
<1>. QED BY <1>9, <1>15, <1>19, <1>20, <1>21

LEMMA ProgramKept ==
    ASSUME ProgramOK, program' = program
    PROVE  /\ ProgramOK' /\ Numbers' = Numbers /\ Tensors' = Tensors /\ Item' = Item
           /\ \A i : On(i)' = On(i) /\ Exposed(i)' = Exposed(i)
           /\ \A i, t : Returns(i, t)' = Returns(i, t)
           /\ \A t, i, j : Kept(t, i, j)' = Kept(t, i, j)
<1>1. Numbers' = Numbers /\ Tensors' = Tensors
  BY DEF Numbers, Tensors
<1>2. /\ \A i, t : Returns(i, t)' = Returns(i, t)
      /\ \A t, i, j : Kept(t, i, j)' = Kept(t, i, j)
      /\ \A i : On(i)' = On(i)
  BY DEF Returns, Kept, On
<1>3. \A i : Exposed(i)' = Exposed(i)
  BY DEF Exposed
<1>4. ProgramOK'
  BY <1>1, <1>2 DEF ProgramOK
<1>. QED BY <1>1, <1>2, <1>3, <1>4 DEF Item

(* A step of the device leaves alone what the host has done.               *)
LEMMA CallsKept ==
    ASSUME ProgramOK, (program' = program) /\ (cursor' = cursor)
    PROVE  /\ ProgramOK' /\ Made' = Made /\ Numbers' = Numbers /\ Tensors' = Tensors /\ Item' = Item
           /\ \A i : On(i)' = On(i) /\ Exposed(i)' = Exposed(i)
           /\ \A i, t : Returns(i, t)' = Returns(i, t)
           /\ \A t, i, j : Kept(t, i, j)' = Kept(t, i, j)
BY ProgramKept DEF Made, Numbers

LEMMA BehindKept ==
    ASSUME \A x \in Streams : done[x] \in Nat /\ done'[x] \in Nat /\ done[x] <= done'[x],
           NEW log, NEW s, NEW k, NEW r \in Streams, NEW l \in Nat, Behind(log, s, k, r, l)
    PROVE  Behind(log, s, k, r, l)'
<1>1. done[r] >= l => done'[r] >= l
  OBVIOUS
<1>. QED BY <1>1 DEF Behind, WaitsFor

LEMMA DeviceKeeps ==
    ASSUME ProgramOK, StreamsType, StreamsType',
           program' = program, UNCHANGED host,
           NEW log, NEW at, NEW blk, Remembered(log, at, blk),
           \A x \in Streams : done[x] <= done'[x] /\ Put(x)' = Put(x),
           LogsAre(log)', Satisfied(log)', FinishedOK(at)', MemOK(at, blk)'
    PROVE  StreamsInv'
<1>1. (cursor' = cursor) /\ (waiting' = waiting) /\ (held' = held)
  BY DEF host
<1>2. /\ ProgramOK' /\ Made' = Made /\ Numbers' = Numbers /\ Tensors' = Tensors
      /\ \A i : On(i)' = On(i) /\ Exposed(i)' = Exposed(i)
      /\ \A i, t : Returns(i, t)' = Returns(i, t)
      /\ \A t, i, j : Kept(t, i, j)' = Kept(t, i, j)
  BY <1>1, CallsKept
<1>3. \A x \in Streams : done[x] \in Nat /\ done'[x] \in Nat /\ done[x] <= done'[x]
  BY DEF StreamsType
<1>4. /\ at \in [Numbers -> Nat] /\ blk \in [Tensors -> Blocks]
      /\ WorkAt(log, at, blk) /\ OnlyWork(log, at) /\ InOrder(at)
      /\ Joined(log, at) /\ Ordered(log, at) /\ HeldOK(blk) /\ Apart(blk)
  BY DEF Remembered
<1>5. \A i \in Made : On(i) \in Streams /\ at[i] \in Nat
  BY <1>4, MadeIs
<1>6. WorkAt(log, at, blk)'
  BY <1>1, <1>2, <1>4, <1>5 DEF WorkAt, Work
<1>7. OnlyWork(log, at)'
  <2>1. ASSUME NEW s \in Streams, NEW k \in 1..Put(s)
        PROVE  \/ log[s][k].wait \in Streams /\ log[s][k].at \in 0..Put(log[s][k].wait)'
               \/ \E i \in Made' : On(i)' = s /\ at[i] = k
    BY <1>2, <1>4 DEF OnlyWork
  <2>. QED BY <2>1 DEF OnlyWork
<1>8. InOrder(at)'
  BY <1>2, <1>4 DEF InOrder
<1>9. Joined(log, at)'
  <2>1. ASSUME NEW i \in Made, On(i) # Current
        PROVE  \/ Ended(at, i)' \/ On(i) \in waiting'
               \/ WaitsFor(log, Current, Put(Current)', On(i), at[i])
    <3>1. Ended(at, i) \/ On(i) \in waiting \/ WaitsFor(log, Current, Put(Current), On(i), at[i])
      BY <1>4, <2>1 DEF Joined
    <3>2. Ended(at, i) => Ended(at, i)'
      BY <1>2, <1>3, <1>5 DEF Ended
    <3>. QED BY <1>1, <3>1, <3>2, StreamsAre
  <2>. QED BY <1>2, <2>1 DEF Joined, WaitsFor
<1>10. Ordered(log, at)'
  <2>1. ASSUME NEW i \in Made, NEW j \in Made, i < j, ~Exposed(j)
        PROVE  Behind(log, On(j), at[j], On(i), at[i])'
    BY <1>2, <1>3, <1>4, <1>5, <2>1, BehindKept DEF Ordered
  <2>. QED BY <1>2, <2>1 DEF Ordered
<1>11. HeldOK(blk)' /\ Apart(blk)'
  <2>1. HeldOK(blk)'
    BY <1>1, <1>2, <1>4 DEF HeldOK
  <2>2. Apart(blk)'
    BY <1>2, <1>4 DEF Apart
  <2>. QED BY <2>1, <2>2
<1>12. Remembered(log, at, blk)'
  BY <1>2, <1>4, <1>6, <1>7, <1>8, <1>9, <1>10, <1>11 DEF Remembered
<1>. QED BY <1>2, <1>12 DEF StreamsInv

(* A stream that goes on: the next of its entries is behind it.            *)
LEMMA RetireIs ==
    ASSUME StreamsType, NEW s \in Streams, queue[s] # <<>>, Retire(s)
    PROVE  /\ queue' \in [Streams -> Seq(Item)] /\ done' \in [Streams -> Nat]
           /\ done'[s] = done[s] + 1 /\ \A x \in Streams : x # s => queue'[x] = queue[x] /\ done'[x] = done[x]
           /\ \A x \in Streams : done[x] <= done'[x] /\ Put(x)' = Put(x)
           /\ \A log : LogsAre(log) => LogsAre(log)'
<1>1. queue \in [Streams -> Seq(Item)] /\ done \in [Streams -> Nat]
  BY DEF StreamsType
<1>2. PICK q \in Seq(Item) : q = queue[s]
  BY <1>1
<1>3. /\ Len(q) \in Nat \ {0} /\ Tail(q) \in Seq(Item) /\ Len(Tail(q)) = Len(q) - 1
      /\ \A k \in 1..Len(Tail(q)) : Tail(q)[k] = q[k + 1]
  BY <1>2
<1>4. /\ queue' = [queue EXCEPT ![s] = Tail(q)] /\ done' = [done EXCEPT ![s] = done[s] + 1]
  BY <1>2 DEF Retire
<1>5. /\ queue' \in [Streams -> Seq(Item)] /\ done' \in [Streams -> Nat]
      /\ done'[s] = done[s] + 1 /\ queue'[s] = Tail(q)
      /\ \A x \in Streams : x # s => queue'[x] = queue[x] /\ done'[x] = done[x]
  BY <1>1, <1>3, <1>4
<1>6. ASSUME NEW x \in Streams PROVE done[x] <= done'[x] /\ Put(x)' = Put(x)
  <2>1. CASE x = s
    <3>1. Put(s) = done[s] + Len(q) /\ Put(s)' = (done[s] + 1) + Len(Tail(q))
      BY <1>2, <1>5 DEF Put
    <3>2. done[s] \in Nat
      BY <1>1
    <3>3. (done[s] + 1) + (Len(q) - 1) = done[s] + Len(q)
      BY <1>3, <3>2
    <3>. QED BY <1>3, <1>5, <2>1, <3>1, <3>2, <3>3
  <2>2. CASE x # s
    BY <1>1, <1>5, <2>2 DEF Put
  <2>. QED BY <2>1, <2>2
<1>7. ASSUME NEW log, LogsAre(log) PROVE LogsAre(log)'
  <2>1. ASSUME NEW x \in Streams, NEW k \in 1..Len(queue'[x]) PROVE queue'[x][k] = log[x][done'[x] + k]
    <3>1. CASE x = s
      <4>1. k \in 1..Len(Tail(q)) /\ k + 1 \in 1..Len(q) /\ queue'[x][k] = q[k + 1]
        <5>1. queue'[x] = Tail(q)
          BY <1>5, <3>1
        <5>. QED BY <1>3, <2>1, <5>1
      <4>2. q[k + 1] = log[s][done[s] + (k + 1)]
        BY <1>2, <1>7, <4>1 DEF LogsAre
      <4>3. done'[x] + k = done[s] + (k + 1) /\ k \in Nat
        BY <1>1, <1>5, <3>1
      <4>. QED BY <3>1, <4>1, <4>2, <4>3
    <3>2. CASE x # s
      BY <1>5, <1>7, <2>1, <3>2 DEF LogsAre
    <3>. QED BY <3>1, <3>2
  <2>. QED BY <2>1 DEF LogsAre
<1>. QED BY <1>5, <1>6, <1>7

(* What has been waited for stays over.                                    *)
LEMMA SatisfiedStays ==
    ASSUME ProgramOK, StreamsType, NEW log, NEW at, NEW blk, Remembered(log, at, blk),
           \A x \in Streams : done[x] <= done'[x] /\ done'[x] \in Nat,
           NEW x \in Streams, NEW k \in 1..done[x], log[x][k].wait # "none"
    PROVE  done'[log[x][k].wait] >= log[x][k].at
<1>1. WorkAt(log, at, blk) /\ OnlyWork(log, at) /\ Satisfied(log)
  BY DEF Remembered
<1>2. k \in 1..Put(x)
  BY PutType
<1>3. log[x][k].wait \in Streams
  <2>1. SUFFICES ASSUME log[x][k].wait \notin Streams PROVE FALSE
    OBVIOUS
  <2>2. PICK i \in Made : log[x][k] = Work(program[i], blk)
    BY <1>1, <1>2, <2>1, EventIs
  <2>. QED BY <2>2, WorkIs
<1>4. PICK y \in Streams : y = log[x][k].wait
  BY <1>3
<1>5. log[x][k].at \in Nat /\ done[y] >= log[x][k].at
  <2>1. log[x][k].at \in 0..Put(y) /\ Put(y) \in Nat
    BY <1>1, <1>2, <1>4, EventIs, PutType
  <2>. QED BY <1>1, <1>4, <2>1 DEF Satisfied
<1>6. done[y] \in Nat /\ done[y] <= done'[y] /\ done'[y] \in Nat
  BY PutType
<1>. QED BY <1>4, <1>5, <1>6

LEMMA PassesKeeps == ASSUME StreamsInv, NEW s \in Streams, Passes(s) PROVE StreamsInv'
<1>1. ProgramOK /\ StreamsType
  BY DEF StreamsInv
<1>2. PICK log, at, blk : Remembered(log, at, blk)
  BY DEF StreamsInv
<1>3. /\ queue[s] # <<>> /\ Head(queue[s]).wait # "none" /\ Retire(s)
      /\ done[Head(queue[s]).wait] >= Head(queue[s]).at
      /\ program' = program /\ started' = started /\ mem' = mem /\ finished' = finished /\ UNCHANGED host
  BY DEF Passes
<1>4. /\ queue' \in [Streams -> Seq(Item)] /\ done' \in [Streams -> Nat]
      /\ done'[s] = done[s] + 1 /\ \A x \in Streams : x # s => queue'[x] = queue[x] /\ done'[x] = done[x]
      /\ \A x \in Streams : done[x] <= done'[x] /\ Put(x)' = Put(x)
      /\ LogsAre(log)'
  BY <1>1, <1>2, <1>3, RetireIs DEF Remembered
<1>5. /\ (cursor' = cursor) /\ (waiting' = waiting)
  BY <1>3 DEF host
<1>6. /\ Made' = Made /\ Tensors' = Tensors /\ Item' = Item
      /\ \A i : On(i)' = On(i) /\ Exposed(i)' = Exposed(i)
      /\ \A i, t : Returns(i, t)' = Returns(i, t)
  BY <1>1, <1>3, <1>5, CallsKept
<1>7. /\ LogsAre(log) /\ WorkAt(log, at, blk) /\ OnlyWork(log, at) /\ Satisfied(log)
      /\ FinishedOK(at) /\ MemOK(at, blk) /\ at \in [Numbers -> Nat]
  BY <1>2 DEF Remembered
<1>8. Head(queue[s]) = log[s][done[s] + 1] /\ ~started[s]
  BY <1>1, <1>3, <1>7, HeadAt DEF StreamsType
<1>9. ASSUME NEW i \in Made, On(i) = s PROVE at[i] # done[s] + 1
  <2>1. SUFFICES ASSUME at[i] = done[On(i)] + 1 PROVE FALSE
    BY <1>9
  <2>2. Head(queue[s]) = Work(program[i], blk)
    BY <1>1, <1>2, <1>3, <1>9, <2>1, HeadOfCall
  <2>. QED BY <1>3, <2>2, WorkIs
<1>10. ASSUME NEW i \in Made PROVE (Ended(at, i) <=> Ended(at, i)') /\ (Begun(at, i) <=> Begun(at, i)')
  <2>1. On(i) \in Streams /\ at[i] \in Nat /\ On(i)' = On(i) /\ done[On(i)] \in Nat
    BY <1>1, <1>6, <1>7, MadeIs, PutType
  <2>2. Ended(at, i) <=> Ended(at, i)'
    <3>1. CASE On(i) = s
      BY <1>4, <1>9, <2>1, <3>1 DEF Ended
    <3>2. CASE On(i) # s
      BY <1>4, <2>1, <3>2 DEF Ended
    <3>. QED BY <3>1, <3>2
  <2>3. UnderWay(at, i) <=> UnderWay(at, i)'
    <3>1. CASE On(i) = s
      BY <1>3, <1>8, <2>1, <3>1 DEF UnderWay
    <3>2. CASE On(i) # s
      BY <1>3, <1>4, <2>1, <3>2 DEF UnderWay
    <3>. QED BY <3>1, <3>2
  <2>. QED BY <2>2, <2>3 DEF Begun
<1>11. StreamsType'
  <2>1. ASSUME NEW x \in Streams, started'[x] PROVE queue'[x] # <<>> /\ Head(queue'[x]).wait = "none"
    BY <1>1, <1>3, <1>4, <1>8, <2>1 DEF StreamsType
  <2>2. /\ cursor' \in 1..(Len(program') + 1) /\ waiting' \subseteq Streams
        /\ started' \in [Streams -> BOOLEAN] /\ DOMAIN mem' = Blocks
    BY <1>1, <1>3, <1>5 DEF StreamsType
  <2>3. queue' \in [Streams -> Seq(Item')]
    BY <1>4, <1>6
  <2>. QED BY <1>4, <2>1, <2>2, <2>3 DEF StreamsType
<1>12. Satisfied(log)'
  <2>1. ASSUME NEW x \in Streams, NEW k \in 1..done'[x], log[x][k].wait # "none"
        PROVE  done'[log[x][k].wait] >= log[x][k].at
    <3>1. CASE k \in 1..done[x]
      BY <1>1, <1>2, <1>4, <2>1, <3>1, SatisfiedStays
    <3>2. CASE k \notin 1..done[x]
      <4>1. x = s /\ k = done[s] + 1
        BY <1>1, <1>4, <3>2, PutType
      <4>2. log[x][k] = Head(queue[s])
        BY <1>8, <4>1
      <4>3. PICK y : y = log[x][k].wait
        OBVIOUS
      <4>4. y \in Streams
        <5>1. SUFFICES ASSUME Head(queue[s]).wait \notin Streams PROVE FALSE
          BY <4>2, <4>3
        <5>2. PICK i \in Made : On(i) = s /\ at[i] = done[s] + 1
          BY <1>1, <1>2, <1>3, <5>1, HeadIsWork
        <5>. QED BY <1>9, <5>2
      <4>5. log[x][k].at \in Nat
        <5>1. k \in 1..Put(s)
          BY <1>1, <1>3, <1>7, <4>1, HeadAt
        <5>2. log[s][k].at \in 0..Put(y) /\ Put(y) \in Nat
          BY <1>1, <1>7, <4>1, <4>3, <4>4, <5>1, EventIs, PutType
        <5>. QED BY <4>1, <5>2
      <4>6. done[y] >= log[x][k].at /\ done[y] <= done'[y] /\ done[y] \in Nat /\ done'[y] \in Nat
        BY <1>1, <1>3, <1>4, <4>2, <4>3, <4>4, PutType
      <4>. QED BY <4>3, <4>5, <4>6
    <3>. QED BY <3>1, <3>2
  <2>. QED BY <2>1 DEF Satisfied
<1>13. FinishedOK(at)'
  BY <1>3, <1>6, <1>7, <1>10 DEF FinishedOK
<1>14. MemOK(at, blk)'
  <2>1. ASSUME NEW b, NEW j, NoOlder(at, blk, b, j) PROVE NoOlder(at, blk, b, j)'
    BY <1>6, <1>10, <2>1 DEF NoOlder
  <2>2. ASSUME NEW b \in Blocks, NEW u \in mem[b]
        PROVE  \E j \in Made : Begun(at, j)' /\ Returns(j, u)' /\ blk[u] = b /\ NoOlder(at, blk, b, j)'
    <3>1. PICK j \in Made : Begun(at, j) /\ Returns(j, u) /\ blk[u] = b /\ NoOlder(at, blk, b, j)
      BY <1>7 DEF MemOK
    <3>2. Begun(at, j)' /\ Returns(j, u)' /\ NoOlder(at, blk, b, j)'
      BY <1>6, <1>10, <2>1, <3>1
    <3>. QED BY <3>1, <3>2
  <2>. QED BY <1>3, <1>6, <2>2 DEF MemOK
<1>. QED BY <1>1, <1>2, <1>3, <1>4, <1>11, <1>12, <1>13, <1>14, DeviceKeeps

LEMMA EndsKeeps == ASSUME StreamsInv, NEW s \in Streams, Ends(s) PROVE StreamsInv'
<1>1. ProgramOK /\ StreamsType
  BY DEF StreamsInv
<1>2. PICK log, at, blk : Remembered(log, at, blk)
  BY DEF StreamsInv
<1>3. /\ started[s] /\ Retire(s) /\ started' = [started EXCEPT ![s] = FALSE]
      /\ finished' = finished \cup {w[1] : w \in Head(queue[s]).writes}
      /\ program' = program /\ mem' = mem /\ UNCHANGED host
  BY DEF Ends
<1>4. queue[s] # <<>> /\ Head(queue[s]).wait = "none"
  BY <1>1, <1>3 DEF StreamsType
<1>5. /\ queue' \in [Streams -> Seq(Item)] /\ done' \in [Streams -> Nat]
      /\ done'[s] = done[s] + 1 /\ \A x \in Streams : x # s => queue'[x] = queue[x] /\ done'[x] = done[x]
      /\ \A x \in Streams : done[x] <= done'[x] /\ Put(x)' = Put(x)
      /\ LogsAre(log)'
  BY <1>1, <1>2, <1>3, <1>4, RetireIs DEF Remembered
<1>6. /\ (cursor' = cursor) /\ (waiting' = waiting)
  BY <1>3 DEF host
<1>7. /\ Made' = Made /\ Tensors' = Tensors /\ Item' = Item
      /\ \A i : On(i)' = On(i) /\ Exposed(i)' = Exposed(i)
      /\ \A i, t : Returns(i, t)' = Returns(i, t)
  BY <1>1, <1>3, <1>6, CallsKept
<1>8. /\ LogsAre(log) /\ WorkAt(log, at, blk) /\ OnlyWork(log, at) /\ Satisfied(log)
      /\ FinishedOK(at) /\ MemOK(at, blk) /\ at \in [Numbers -> Nat]
  BY <1>2 DEF Remembered
<1>9. /\ started' \in [Streams -> BOOLEAN] /\ ~started'[s]
      /\ \A x \in Streams : x # s => started'[x] = started[x]
  BY <1>1, <1>3 DEF StreamsType
<1>10. ASSUME NEW i \in Made
       PROVE  /\ Ended(at, i)' <=> Ended(at, i) \/ (On(i) = s /\ at[i] = done[s] + 1)
              /\ Begun(at, i) <=> Begun(at, i)'
  <2>1. On(i) \in Streams /\ at[i] \in Nat /\ On(i)' = On(i) /\ done[On(i)] \in Nat
    BY <1>1, <1>7, <1>8, MadeIs, PutType
  <2>2. CASE On(i) = s
    <3>1. Ended(at, i)' <=> done[s] + 1 >= at[i]
      BY <1>5, <2>1, <2>2 DEF Ended
    <3>2. Ended(at, i) <=> done[s] >= at[i]
      BY <2>2 DEF Ended
    <3>3. ~UnderWay(at, i)' /\ (UnderWay(at, i) <=> done[s] + 1 = at[i])
      BY <1>3, <1>9, <2>1, <2>2 DEF UnderWay
    <3>. QED BY <2>1, <2>2, <3>1, <3>2, <3>3 DEF Begun
  <2>3. CASE On(i) # s
    BY <1>5, <1>9, <2>1, <2>3 DEF Begun, UnderWay, Ended
  <2>. QED BY <2>2, <2>3
<1>11. StreamsType'
  <2>1. ASSUME NEW x \in Streams, started'[x] PROVE queue'[x] # <<>> /\ Head(queue'[x]).wait = "none"
    BY <1>1, <1>5, <1>9, <2>1 DEF StreamsType
  <2>2. cursor' \in 1..(Len(program') + 1) /\ waiting' \subseteq Streams /\ DOMAIN mem' = Blocks
    BY <1>1, <1>3, <1>6 DEF StreamsType
  <2>3. queue' \in [Streams -> Seq(Item')]
    BY <1>5, <1>7
  <2>. QED BY <1>5, <1>9, <2>1, <2>2, <2>3 DEF StreamsType
<1>12. Satisfied(log)'
  <2>1. ASSUME NEW x \in Streams, NEW k \in 1..done'[x], log[x][k].wait # "none"
        PROVE  done'[log[x][k].wait] >= log[x][k].at
    <3>1. k \in 1..done[x]
      <4>1. SUFFICES ASSUME k \notin 1..done[x] PROVE FALSE
        OBVIOUS
      <4>2. x = s /\ k = done[s] + 1
        BY <1>1, <1>5, <4>1, PutType
      <4>. QED BY <1>1, <1>4, <1>8, <2>1, <4>2, HeadAt
    <3>. QED BY <1>1, <1>2, <1>5, <2>1, <3>1, SatisfiedStays
  <2>. QED BY <2>1 DEF Satisfied
<1>13. FinishedOK(at)'
  <2>1. ASSUME NEW i \in Made, Ended(at, i)', NEW t \in program[i].returns PROVE t \in finished'
    <3>1. CASE Ended(at, i)
      BY <1>3, <1>8, <2>1, <3>1 DEF FinishedOK
    <3>2. CASE On(i) = s /\ at[i] = done[s] + 1
      <4>1. Head(queue[s]) = Work(program[i], blk)
        BY <1>1, <1>2, <1>4, <3>2, HeadOfCall
      <4>2. <<t, blk[t]>> \in Head(queue[s]).writes
        BY <2>1, <4>1, WorkIs
      <4>3. PICK w \in Head(queue[s]).writes : w[1] = t
        BY <4>2
      <4>. QED BY <1>3, <4>3
    <3>. QED BY <1>10, <2>1, <3>1, <3>2
  <2>. QED BY <1>3, <1>7, <2>1 DEF FinishedOK
<1>14. MemOK(at, blk)'
  <2>1. ASSUME NEW b, NEW j, NoOlder(at, blk, b, j) PROVE NoOlder(at, blk, b, j)'
    BY <1>7, <1>10, <2>1 DEF NoOlder
  <2>2. ASSUME NEW b \in Blocks, NEW u \in mem[b]
        PROVE  \E j \in Made : Begun(at, j)' /\ Returns(j, u)' /\ blk[u] = b /\ NoOlder(at, blk, b, j)'
    <3>1. PICK j \in Made : Begun(at, j) /\ Returns(j, u) /\ blk[u] = b /\ NoOlder(at, blk, b, j)
      BY <1>8 DEF MemOK
    <3>2. Begun(at, j)' /\ Returns(j, u)' /\ NoOlder(at, blk, b, j)'
      BY <1>7, <1>10, <2>1, <3>1
    <3>. QED BY <3>1, <3>2
  <2>. QED BY <1>3, <1>7, <2>2 DEF MemOK
<1>. QED BY <1>1, <1>2, <1>3, <1>5, <1>11, <1>12, <1>13, <1>14, DeviceKeeps

LEMMA BeginsKeeps == ASSUME StreamsInv, NEW s \in Streams, Begins(s) PROVE StreamsInv'
<1>1. ProgramOK /\ StreamsType
  BY DEF StreamsInv
<1>2. PICK log, at, blk : Remembered(log, at, blk)
  BY DEF StreamsInv
<1>3. /\ queue[s] # <<>> /\ Head(queue[s]).wait = "none" /\ ~started[s]
      /\ started' = [started EXCEPT ![s] = TRUE]
      /\ mem' = [b \in Blocks |-> LET mine == Into(b, Head(queue[s]))
                                  IN  IF mine = {} THEN mem[b] ELSE mine \cup Writing(b)]
      /\ program' = program /\ queue' = queue /\ done' = done /\ finished' = finished /\ UNCHANGED host
  BY DEF Begins
<1>4. /\ (cursor' = cursor) /\ (waiting' = waiting)
  BY <1>3 DEF host
<1>5. /\ Made' = Made /\ Tensors' = Tensors /\ Item' = Item
      /\ \A i : On(i)' = On(i) /\ Exposed(i)' = Exposed(i)
      /\ \A i, t : Returns(i, t)' = Returns(i, t)
  BY <1>1, <1>3, <1>4, CallsKept
<1>6. /\ LogsAre(log) /\ WorkAt(log, at, blk) /\ OnlyWork(log, at) /\ Satisfied(log)
      /\ FinishedOK(at) /\ MemOK(at, blk) /\ at \in [Numbers -> Nat]
  BY <1>2 DEF Remembered
<1>7. /\ started' \in [Streams -> BOOLEAN] /\ started'[s]
      /\ \A x \in Streams : x # s => started'[x] = started[x]
  BY <1>1, <1>3 DEF StreamsType
<1>8. \A x \in Streams : done[x] <= done'[x] /\ Put(x)' = Put(x)
  BY <1>1, <1>3, PutType DEF Put
<1>9. ASSUME NEW i \in Made
      PROVE  /\ Ended(at, i)' <=> Ended(at, i)
             /\ Begun(at, i)' <=> Begun(at, i) \/ (On(i) = s /\ at[i] = done[s] + 1)
             /\ Begun(at, i)' => at[i] <= done[On(i)] + 1
  <2>1. On(i) \in Streams /\ at[i] \in Nat /\ On(i)' = On(i) /\ done[On(i)] \in Nat
    BY <1>1, <1>5, <1>6, MadeIs, PutType
  <2>2. Ended(at, i)' <=> Ended(at, i)
    BY <1>3, <2>1 DEF Ended
  <2>3. UnderWay(at, i)' <=> UnderWay(at, i) \/ (On(i) = s /\ at[i] = done[s] + 1)
    BY <1>3, <1>7, <2>1 DEF UnderWay
  <2>. QED BY <2>1, <2>2, <2>3 DEF Begun, Ended, UnderWay
<1>10. StreamsType'
  <2>1. ASSUME NEW x \in Streams, started'[x] PROVE queue'[x] # <<>> /\ Head(queue'[x]).wait = "none"
    BY <1>1, <1>3, <1>7, <2>1 DEF StreamsType
  <2>2. cursor' \in 1..(Len(program') + 1) /\ waiting' \subseteq Streams /\ DOMAIN mem' = Blocks
    BY <1>1, <1>3, <1>4 DEF StreamsType
  <2>3. queue' \in [Streams -> Seq(Item')] /\ done' \in [Streams -> Nat]
    BY <1>1, <1>3, <1>5 DEF StreamsType
  <2>. QED BY <1>7, <2>1, <2>2, <2>3 DEF StreamsType
<1>11. LogsAre(log)' /\ Satisfied(log)'
  BY <1>3, <1>6 DEF LogsAre, Satisfied
<1>12. FinishedOK(at)'
  BY <1>3, <1>5, <1>6, <1>9 DEF FinishedOK
<1>13. PICK i \in Made : On(i) = s /\ at[i] = done[s] + 1 /\ Head(queue[s]) = Work(program[i], blk)
  <2>1. Head(queue[s]).wait \notin Streams
    BY <1>3, StreamsAre
  <2>. QED BY <1>1, <1>2, <1>3, <2>1, HeadIsWork
<1>14. ASSUME NEW b, NEW j \in Made, ~Ended(at, j), Begun(at, j)' PROVE NoOlder(at, blk, b, j)'
  <2>1. ASSUME NEW w \in Made, Begun(at, w)', ~Exposed(w), j < w PROVE FALSE
    BY <1>1, <1>2, <1>9, <1>14, <2>1, EndsFirst
  <2>2. \A w \in Made : w \in Nat
    BY <1>1, MadeIs
  <2>. QED BY <1>5, <2>1, <2>2 DEF NoOlder
<1>15. MemOK(at, blk)'
  <2>1. ASSUME NEW b \in Blocks, NEW u \in mem'[b]
        PROVE  \E j \in Made : Begun(at, j)' /\ Returns(j, u)' /\ blk[u] = b /\ NoOlder(at, blk, b, j)'
    <3>1. PICK mine : mine = Into(b, Head(queue[s]))
      OBVIOUS
    <3>2. mine = {t \in program[i].returns : blk[t] = b}
      BY <1>13, <3>1, WorkIs
    <3>3. mem'[b] = IF mine = {} THEN mem[b] ELSE mine \cup Writing(b)
      BY <1>3, <3>1
    <3>4. CASE u \in mine
      <4>1. ~Ended(at, i) /\ Begun(at, i)'
        BY <1>1, <1>9, <1>13, PutType DEF Ended
      <4>. QED BY <1>5, <1>13, <1>14, <3>2, <3>4, <4>1 DEF Returns
    <3>5. CASE u \in Writing(b)
      <4>1. PICK j \in Made : UnderWay(at, j) /\ Returns(j, u) /\ blk[u] = b
        BY <1>1, <1>2, <3>5, WritingIs
      <4>2. ~Ended(at, j) /\ Begun(at, j)'
        BY <1>1, <1>6, <1>9, <4>1, MadeIs, PutType DEF Ended, Begun, UnderWay
      <4>. QED BY <1>5, <1>14, <4>1, <4>2
    <3>6. CASE mine = {} /\ u \in mem[b]
      <4>1. PICK j \in Made : Begun(at, j) /\ Returns(j, u) /\ blk[u] = b /\ NoOlder(at, blk, b, j)
        BY <1>6, <3>6 DEF MemOK
      <4>2. ASSUME NEW w \in Made, NEW t, Returns(w, t), blk[t] = b, Begun(at, w)' PROVE Begun(at, w)
        <5>1. SUFFICES ASSUME On(w) = s, at[w] = done[s] + 1 PROVE FALSE
          BY <1>9, <4>2
        <5>2. Head(queue[s]) = Work(program[w], blk)
          BY <1>1, <1>2, <1>3, <5>1, HeadOfCall
        <5>3. t \in mine
          BY <3>1, <4>2, <5>2, WorkIs DEF Returns
        <5>. QED BY <3>6, <5>3
      <4>3. NoOlder(at, blk, b, j)'
        BY <1>5, <4>1, <4>2 DEF NoOlder
      <4>. QED BY <1>5, <1>9, <4>1, <4>3
    <3>. QED BY <2>1, <3>3, <3>4, <3>5, <3>6
  <2>2. \A b \in Blocks : \A u \in mem'[b] :
          \E j \in Made : Begun(at, j)' /\ Returns(j, u)' /\ blk[u] = b /\ NoOlder(at, blk, b, j)'
    BY <2>1
  <2>. QED BY <1>5, <2>2 DEF MemOK
<1>. QED BY <1>1, <1>2, <1>3, <1>8, <1>10, <1>11, <1>12, <1>15, DeviceKeeps

(* A call of the host: what the streams get, where the work of the call is *)
(* put, what it waits for and who waits for it.                            *)
Added(f) ==
    /\ queue' \in [Streams -> Seq(Item)] /\ waiting' \subseteq Streams
    /\ \A x \in Streams :
         /\ Len(queue[x]) <= Len(queue'[x])
         /\ \A k \in 1..Len(queue[x]) : queue'[x][k] = queue[x][k]
         /\ \A k \in (Len(queue[x]) + 1)..Len(queue'[x]) :
              \/ \E y \in Streams : queue'[x][k].wait = y /\ queue'[x][k].at \in 0..(done[y] + Len(queue'[y]))
              \/ HasWork(Here) /\ x = Here.on /\ k = Len(queue'[x])
    /\ HasWork(Here) =>
         /\ Len(queue[Here.on]) < Len(queue'[Here.on])
         /\ queue'[Here.on][Len(queue'[Here.on])] = Work(Here, Holding(f))
         /\ Here.on # Current =>
              \/ Here.on \in waiting'
              \/ \E k \in (Len(queue[Current]) + 1)..Len(queue'[Current]) :
                    /\ queue'[Current][k].wait = Here.on
                    /\ queue'[Current][k].at = done[Here.on] + Len(queue'[Here.on])
         /\ Here.name \in Fenced =>
              /\ Len(queue[Here.on]) + 1 < Len(queue'[Here.on])
              /\ queue'[Here.on][Len(queue[Here.on]) + 1].wait = Current
              /\ queue'[Here.on][Len(queue[Here.on]) + 1].at = Put(Current)
Called(f) ==
    /\ waiting = {} /\ cursor \in Numbers
    /\ f \in [Here.returns -> Allocatable] /\ Goes(Holding(f)) /\ Added(f)

(* What the proof then remembers.                                          *)
NewLog(log) ==
    [x \in Streams |-> [k \in 1..(done[x] + Len(queue'[x])) |->
                          IF k <= Put(x) THEN log[x][k] ELSE queue'[x][k - done[x]]]]
NewAt(at) == [at EXCEPT ![cursor] = done[Here.on] + Len(queue'[Here.on])]
NewBlk(blk, f) == [t \in Tensors |-> IF t \in Here.returns THEN f[t] ELSE blk[t]]

LEMMA WorkSame ==
    ASSUME NEW c, NEW b1, NEW b2, \A t \in c.reads \cup c.returns : b1[t] = b2[t]
    PROVE  Work(c, b1) = Work(c, b2)
<1>1. {<<t, b1[t]>> : t \in {u \in c.reads : c.name # "broadcast"}}
        = {<<t, b2[t]>> : t \in {u \in c.reads : c.name # "broadcast"}}
  OBVIOUS
<1>2. {<<t, b1[t]>> : t \in c.returns} = {<<t, b2[t]>> : t \in c.returns}
  OBVIOUS
<1>. QED BY <1>1, <1>2 DEF Work

LEMMA HereIs ==
    ASSUME ProgramOK, StreamsType, NEW f, Called(f)
    PROVE  /\ cursor \in Nat /\ CallOK(Here) /\ On(cursor) = Here.on /\ Here.on \in Streams
           /\ program' = program /\ cursor' = cursor + 1 /\ cursor \notin Made
           /\ ProgramOK' /\ Numbers' = Numbers /\ Tensors' = Tensors /\ Item' = Item
           /\ \A i : On(i)' = On(i) /\ Exposed(i)' = Exposed(i)
           /\ \A i, t : Returns(i, t)' = Returns(i, t)
           /\ \A t, i, j : Kept(t, i, j)' = Kept(t, i, j)
           /\ \A i : i \in Made' <=> i \in Made \/ (i = cursor /\ HasWork(Here))
<1>1. /\ cursor \in Nat /\ CallOK(Here) /\ On(cursor) = Here.on /\ Here.on \in Streams
      /\ program' = program /\ cursor' = cursor + 1 /\ cursor \notin Made
  BY DEF Called, Goes, Here, On, ProgramOK, CallOK, Made, Numbers
<1>2. /\ ProgramOK' /\ Numbers' = Numbers /\ Tensors' = Tensors /\ Item' = Item
      /\ \A i : On(i)' = On(i) /\ Exposed(i)' = Exposed(i)
      /\ \A i, t : Returns(i, t)' = Returns(i, t)
      /\ \A t, i, j : Kept(t, i, j)' = Kept(t, i, j)
  BY <1>1, ProgramKept
<1>3. ASSUME NEW i PROVE i \in Made' <=> i \in Made \/ (i = cursor /\ HasWork(Here))
  <2>1. i \in Made' <=> i \in Numbers /\ i < cursor + 1 /\ HasWork(program[i])
    BY <1>1, <1>2 DEF Made, HasWork
  <2>2. i \in Made <=> i \in Numbers /\ i < cursor /\ HasWork(program[i])
    BY DEF Made
  <2>3. i \in Numbers => (i < cursor + 1 <=> i < cursor \/ i = cursor)
    BY <1>1 DEF Numbers
  <2>. QED BY <2>1, <2>2, <2>3 DEF Called, Here
<1>. QED BY <1>1, <1>2, <1>3

(* A tensor that a call before this one returns or reads is not returned   *)
(* by this one: it has the block it had.                                   *)
LEMMA NewBlkIs ==
    ASSUME ProgramOK, StreamsType, NEW log, NEW at, NEW blk, Remembered(log, at, blk), NEW f, Called(f)
    PROVE  /\ NewBlk(blk, f) \in [Tensors -> Blocks]
           /\ \A i \in Numbers : i < cursor =>
                \A t \in program[i].returns \cup program[i].reads : t \in Tensors /\ NewBlk(blk, f)[t] = blk[t]
           /\ \A t \in Here.reads : t \in Tensors /\ t \in DOMAIN held /\ NewBlk(blk, f)[t] = held[t]
           /\ \A t \in Here.reads : t \notin Here.returns
           /\ \A t \in Here.returns : t \in Tensors /\ NewBlk(blk, f)[t] = f[t] /\ Free(f[t])
<1>1. /\ cursor \in Numbers /\ f \in [Here.returns -> Allocatable] /\ blk \in [Tensors -> Blocks] /\ HeldOK(blk)
      /\ cursor \in Nat /\ Here = program[cursor] /\ Numbers \subseteq Nat
  BY HereIs DEF Called, Remembered, Here, Numbers
<1>2. Allocatable \subseteq Blocks /\ \A b \in Allocatable : Free(b)
  BY DEF Allocatable
<1>3. ASSUME NEW t \in Here.returns PROVE t \in Tensors /\ NewBlk(blk, f)[t] = f[t] /\ Free(f[t])
  <2>1. t \in Tensors
    BY <1>1 DEF Tensors
  <2>. QED BY <1>1, <1>2, <2>1 DEF NewBlk
<1>4. NewBlk(blk, f) \in [Tensors -> Blocks]
  BY <1>1, <1>2 DEF NewBlk
<1>5. ASSUME NEW i \in Numbers, i < cursor, NEW t, Returns(i, t)
      PROVE  t \in Tensors /\ t \notin Here.returns /\ NewBlk(blk, f)[t] = blk[t]
  <2>1. t \in Tensors
    BY <1>5, ReturnsIn
  <2>2. t \notin Here.returns
    <3>1. SUFFICES ASSUME Returns(cursor, t) PROVE FALSE
      BY <1>1 DEF Returns
    <3>. QED BY <1>1, <1>5, <2>1, <3>1 DEF ProgramOK
  <2>. QED BY <2>1, <2>2 DEF NewBlk
<1>6. ASSUME NEW i \in Numbers, i <= cursor, NEW t \in program[i].reads
      PROVE  /\ t \in Tensors /\ t \notin Here.returns /\ NewBlk(blk, f)[t] = blk[t]
             /\ \E w \in 1..(i - 1) : Returns(w, t) /\ Kept(t, w, i)
  <2>1. PICK w \in 1..(i - 1) : Returns(w, t) /\ Kept(t, w, i)
    BY DEF ProgramOK
  <2>2. w \in Numbers /\ w < cursor
    BY <1>1, <1>6 DEF Numbers, ProgramOK
  <2>. QED BY <1>5, <2>1, <2>2
<1>7. ASSUME NEW t \in Here.reads PROVE t \in DOMAIN held /\ NewBlk(blk, f)[t] = held[t]
  <2>1. /\ t \in Tensors /\ NewBlk(blk, f)[t] = blk[t]
        /\ \E w \in 1..(cursor - 1) : Returns(w, t) /\ Kept(t, w, cursor)
    BY <1>1, <1>6
  <2>2. t \in DOMAIN held
    BY <1>1, <2>1 DEF HeldOK
  <2>. QED BY <1>1, <2>1, <2>2 DEF HeldOK
<1>8. ASSUME NEW i \in Numbers, i < cursor, NEW t \in program[i].returns \cup program[i].reads
      PROVE  t \in Tensors /\ NewBlk(blk, f)[t] = blk[t]
  <2>1. i <= cursor
    BY <1>1, <1>8
  <2>. QED BY <1>5, <1>6, <1>8, <2>1 DEF Returns
<1>9. ASSUME NEW t \in Here.reads PROVE t \in Tensors /\ t \notin Here.returns
  BY <1>1, <1>6
<1>. QED BY <1>3, <1>4, <1>7, <1>8, <1>9

(* What the host holds, and the blocks it has used again.                  *)
LEMMA NewMemory ==
    ASSUME ProgramOK, StreamsType, NEW log, NEW at, NEW blk, Remembered(log, at, blk), NEW f, Called(f),
           NEW new, new = NewBlk(blk, f)
    PROVE  HeldOK(new)' /\ Apart(new)'
<1>1. /\ HeldOK(blk) /\ Apart(blk) /\ cursor \in Numbers /\ cursor \in Nat /\ Numbers \subseteq Nat
      /\ held' = [t \in DOMAIN Holding(f) \ Here.drops |-> Holding(f)[t]] /\ Here = program[cursor]
  BY HereIs DEF Remembered, Called, Goes, Here, Numbers
<1>2. /\ program' = program /\ cursor' = cursor + 1 /\ Tensors' = Tensors
      /\ \A i, t : Returns(i, t)' = Returns(i, t)
      /\ \A t, i, j : Kept(t, i, j)' = Kept(t, i, j)
      /\ \A i : i \in Made' <=> i \in Made \/ (i = cursor /\ HasWork(Here))
  BY HereIs
<1>3. /\ \A i \in Numbers : i < cursor => \A t \in program[i].returns : t \in Tensors /\ new[t] = blk[t]
      /\ \A t \in Here.returns : t \in Tensors /\ new[t] = f[t] /\ Free(f[t])
  BY NewBlkIs
<1>4. ASSUME NEW t, NEW w \in 1..cursor
      PROVE  Kept(t, w, cursor + 1) <=> Kept(t, w, cursor) /\ t \notin Here.drops
  <2>1. \A d : d \in w..((cursor + 1) - 1) <=> d \in w..(cursor - 1) \/ d = cursor
    BY <1>1
  <2>. QED BY <1>1, <2>1 DEF Kept
<1>5. DOMAIN held = {t \in Tensors : \E w \in 1..(cursor - 1) : Returns(w, t) /\ Kept(t, w, cursor)}
  BY <1>1 DEF HeldOK
<1>6. ASSUME NEW t
      PROVE  t \in Here.returns \cup DOMAIN held
               <=> t \in Tensors /\ \E w \in 1..cursor : Returns(w, t) /\ Kept(t, w, cursor)
  <2>1. t \in Here.returns <=> Returns(cursor, t) /\ Kept(t, cursor, cursor)
    <3>1. Kept(t, cursor, cursor)
      BY <1>1 DEF Kept
    <3>. QED BY <1>1, <3>1 DEF Returns
  <2>2. \A w : w \in 1..cursor <=> w \in 1..(cursor - 1) \/ w = cursor
    BY <1>1 DEF Numbers
  <2>3. t \in Here.returns => t \in Tensors
    BY <1>3
  <2>. QED BY <1>5, <2>1, <2>2, <2>3
<1>7. /\ DOMAIN Holding(f) = Here.returns \cup DOMAIN held
      /\ \A t \in DOMAIN Holding(f) : Holding(f)[t] = IF t \in Here.returns THEN f[t] ELSE held[t]
  BY DEF Holding
<1>8. DOMAIN held' = {t \in Tensors : \E w \in 1..cursor : Returns(w, t) /\ Kept(t, w, cursor + 1)}
  <2>1. DOMAIN held' = (Here.returns \cup DOMAIN held) \ Here.drops
    BY <1>1, <1>7
  <2>2. ASSUME NEW t
        PROVE  t \in DOMAIN held' <=> t \in Tensors /\ \E w \in 1..cursor : Returns(w, t) /\ Kept(t, w, cursor + 1)
    BY <1>4, <1>6, <2>1
  <2>. QED BY <2>2
<1>9. ASSUME NEW t \in DOMAIN held' PROVE held'[t] = new[t]
  <2>1. t \in DOMAIN Holding(f) /\ held'[t] = Holding(f)[t]
    BY <1>1, <1>9
  <2>2. CASE t \in Here.returns
    BY <1>3, <1>7, <2>1, <2>2
  <2>3. CASE t \notin Here.returns
    <3>1. t \in DOMAIN held
      BY <1>7, <2>1, <2>3
    <3>2. held[t] = blk[t] /\ t \in Tensors
      BY <1>1, <1>5, <3>1 DEF HeldOK
    <3>. QED BY <1>7, <2>1, <2>3, <3>2 DEF NewBlk
  <2>. QED BY <2>2, <2>3
<1>10. HeldOK(new)'
  <2>1. cursor' - 1 = cursor
    BY <1>1, <1>2
  <2>. QED BY <1>2, <1>8, <1>9, <2>1 DEF HeldOK
<1>11. ASSUME NEW w \in Made', NEW j \in Made', NEW t \in Tensors, NEW u \in Tensors,
              w < j, Returns(w, t), Returns(j, u), new[t] = new[u], Kept(t, w, j)
       PROVE  FALSE
  <2>1. \A i \in Made : i < cursor /\ i \in Numbers /\ i \in Nat
    BY MadeIs
  <2>2. w \in Made
    BY <1>1, <1>2, <1>11, <2>1
  <2>3. new[t] = blk[t]
    BY <1>3, <1>11, <2>1, <2>2 DEF Returns
  <2>4. CASE j \in Made
    <3>1. new[u] = blk[u]
      BY <1>3, <1>11, <2>1, <2>4 DEF Returns
    <3>. QED BY <1>1, <1>11, <2>2, <2>3, <2>4, <3>1 DEF Apart
  <2>5. CASE j = cursor
    <3>1. u \in Here.returns
      BY <1>1, <1>11, <2>5 DEF Returns
    <3>2. new[u] = f[u] /\ Free(f[u])
      BY <1>3, <3>1
    <3>3. w \in 1..(cursor - 1)
      BY <1>1, <2>1, <2>2 DEF Numbers
    <3>4. t \in DOMAIN held
      BY <1>5, <1>11, <2>5, <3>3
    <3>5. held[t] = blk[t]
      BY <1>1, <3>4 DEF HeldOK
    <3>. QED BY <1>11, <2>3, <3>2, <3>4, <3>5 DEF Free
  <2>. QED BY <1>2, <2>4, <2>5
<1>12. Apart(new)'
  BY <1>2, <1>11 DEF Apart
<1>. QED BY <1>10, <1>12

LEMMA BehindLonger ==
    ASSUME ProgramOK, StreamsType, NEW log, NEW at, NEW blk, WorkAt(log, at, blk), OnlyWork(log, at),
           done' = done, NEW longer,
           \A x \in Streams : \A k \in 1..Put(x) : longer[x][k] = log[x][k],
           NEW s \in Streams, NEW k \in Nat, k <= Put(s) + 1, NEW m \in Nat, k <= m,
           NEW r \in Streams, NEW l \in Nat, Behind(log, s, k, r, l)
    PROVE  Behind(longer, s, m, r, l)'
<1>1. Put(s) \in Nat /\ Put(Current) \in Nat
  BY PutType, StreamsAre
<1>2. \A h \in 1..(k - 1) : h \in 1..Put(s) /\ h \in 1..(m - 1) /\ longer[s][h] = log[s][h]
  BY <1>1
<1>3. CASE done[r] >= l
  BY <1>3 DEF Behind
<1>4. CASE r = s /\ l < k
  <2>1. l < m
    BY <1>4
  <2>. QED BY <1>4, <2>1 DEF Behind
<1>5. CASE WaitsFor(log, s, k - 1, r, l)
  <2>1. PICK h \in 1..(k - 1) : log[s][h].wait = r /\ log[s][h].at >= l
    BY <1>5 DEF WaitsFor
  <2>2. WaitsFor(longer, s, m - 1, r, l)
    BY <1>2, <2>1 DEF WaitsFor
  <2>. QED BY <2>2 DEF Behind, WaitsFor
<1>6. ASSUME NEW h \in 1..(k - 1), log[s][h].wait = Current, WaitsFor(log, Current, log[s][h].at, r, l)
      PROVE  Behind(longer, s, m, r, l)'
  <2>1. log[s][h].at \in 0..Put(Current)
    BY <1>2, <1>6, EventIs, StreamsAre
  <2>2. PICK g \in 1..log[s][h].at : log[Current][g].wait = r /\ log[Current][g].at >= l
    BY <1>6 DEF WaitsFor
  <2>3. g \in 1..Put(Current)
    BY <1>1, <2>1, <2>2
  <2>4. longer[Current][g] = log[Current][g]
    BY <2>3, StreamsAre
  <2>5. WaitsFor(longer, Current, longer[s][h].at, r, l)
    BY <1>2, <1>6, <2>2, <2>4 DEF WaitsFor
  <2>. QED BY <1>2, <1>6, <2>5 DEF Behind, WaitsFor
<1>. QED BY <1>3, <1>4, <1>5, <1>6 DEF Behind

(* The places of what a call adds to the streams come after the others.    *)
LEMMA NewPlaces ==
    ASSUME ProgramOK, StreamsType, NEW log, NEW at, NEW blk, Remembered(log, at, blk), NEW f, Called(f),
           NEW longer, longer = NewLog(log)
    PROVE  /\ done' = done
           /\ \A x \in Streams :
                /\ Put(x)' \in Nat /\ Put(x)' = done[x] + Len(queue'[x]) /\ Put(x) <= Put(x)'
                /\ \A k \in 1..Put(x) : longer[x][k] = log[x][k]
                /\ \A k \in 1..Put(x)' : k > Put(x) =>
                     /\ longer[x][k] = queue'[x][k - done[x]]
                     /\ k - done[x] \in (Len(queue[x]) + 1)..Len(queue'[x])
           /\ LogsAre(longer)'
           /\ NewAt(at) \in [Numbers -> Nat] /\ NewAt(at)[cursor] = done[Here.on] + Len(queue'[Here.on])
           /\ \A i \in Numbers : i # cursor => NewAt(at)[i] = at[i]
<1>1. /\ done' = done /\ queue' \in [Streams -> Seq(Item)] /\ done \in [Streams -> Nat]
      /\ \A x \in Streams : /\ Len(queue[x]) <= Len(queue'[x])
                            /\ \A k \in 1..Len(queue[x]) : queue'[x][k] = queue[x][k]
  BY DEF Called, Goes, Added, StreamsType
<1>2. ASSUME NEW x \in Streams
      PROVE  /\ Put(x)' \in Nat /\ Put(x)' = done[x] + Len(queue'[x]) /\ Put(x) <= Put(x)'
             /\ Len(queue'[x]) \in Nat
  <2>1. Len(queue'[x]) \in Nat
    BY <1>1
  <2>2. Put(x)' = done[x] + Len(queue'[x])
    BY <1>1 DEF Put
  <2>. QED BY <1>1, <2>1, <2>2, PutType
<1>3. ASSUME NEW x \in Streams, NEW k \in 1..Put(x)'
      PROVE  /\ k <= Put(x) => longer[x][k] = log[x][k]
             /\ k > Put(x) => /\ longer[x][k] = queue'[x][k - done[x]]
                              /\ k - done[x] \in (Len(queue[x]) + 1)..Len(queue'[x])
  <2>1. k \in 1..(done[x] + Len(queue'[x])) /\ k \in Nat
    BY <1>2
  <2>2. longer[x] = [h \in 1..(done[x] + Len(queue'[x])) |->
                            IF h <= Put(x) THEN log[x][h] ELSE queue'[x][h - done[x]]]
    BY DEF NewLog
  <2>3. longer[x][k] = IF k <= Put(x) THEN log[x][k] ELSE queue'[x][k - done[x]]
    BY <2>1, <2>2
  <2>4. Put(x) = done[x] + Len(queue[x]) /\ Len(queue[x]) \in Nat /\ done[x] \in Nat
    BY PutType
  <2>5. k > Put(x) => k - done[x] \in (Len(queue[x]) + 1)..Len(queue'[x]) /\ ~(k <= Put(x))
    BY <1>2, <2>1, <2>4
  <2>. QED BY <2>3, <2>5
<1>4. ASSUME NEW x \in Streams, NEW k \in 1..Put(x) PROVE longer[x][k] = log[x][k]
  <2>1. Put(x) \in Nat
    BY PutType
  <2>2. k \in 1..Put(x)' /\ k <= Put(x)
    BY <1>2, <2>1
  <2>. QED BY <1>3, <2>2
<1>5. LogsAre(longer)'
  <2>1. ASSUME NEW x \in Streams, NEW k \in 1..Len(queue'[x])
        PROVE  queue'[x][k] = longer[x][done[x] + k]
    <3>1. /\ Put(x) = done[x] + Len(queue[x]) /\ Len(queue[x]) \in Nat /\ done[x] \in Nat /\ k \in Nat
          /\ Len(queue'[x]) \in Nat
      BY <1>2, PutType
    <3>2. done[x] + k \in 1..Put(x)'
      BY <1>2, <3>1
    <3>3. CASE k <= Len(queue[x])
      <4>1. k \in 1..Len(queue[x]) /\ done[x] + k <= Put(x)
        BY <3>1, <3>3
      <4>2. queue'[x][k] = queue[x][k] /\ longer[x][done[x] + k] = log[x][done[x] + k]
        BY <1>1, <1>3, <3>2, <4>1
      <4>. QED BY <4>1, <4>2 DEF Remembered, LogsAre
    <3>4. CASE k > Len(queue[x])
      <4>1. done[x] + k > Put(x) /\ (done[x] + k) - done[x] = k
        BY <3>1, <3>4
      <4>. QED BY <1>3, <3>2, <4>1
    <3>. QED BY <3>1, <3>3, <3>4
  <2>2. \A x \in Streams : \A k \in 1..Len(queue'[x]) : queue'[x][k] = longer[x][done'[x] + k]
    BY <1>1, <2>1
  <2>. QED BY <2>2 DEF LogsAre
<1>6. /\ NewAt(at) \in [Numbers -> Nat] /\ NewAt(at)[cursor] = done[Here.on] + Len(queue'[Here.on])
      /\ \A i \in Numbers : i # cursor => NewAt(at)[i] = at[i]
  <2>1. at \in [Numbers -> Nat] /\ cursor \in Numbers /\ Here.on \in Streams
    BY HereIs DEF Remembered, Called
  <2>2. done[Here.on] + Len(queue'[Here.on]) \in Nat
    BY <1>2, <2>1
  <2>. QED BY <2>1, <2>2 DEF NewAt
<1>. QED BY <1>1, <1>2, <1>3, <1>4, <1>5, <1>6

(* The work of a call, and what it is given, are typed.                    *)
LEMMA NewWork ==
    ASSUME ProgramOK, StreamsType, NEW log, NEW at, NEW blk, Remembered(log, at, blk), NEW f, Called(f)
    PROVE  /\ Work(Here, Holding(f)) = Work(Here, NewBlk(blk, f))
           /\ \A i \in Made : Work(program[i], NewBlk(blk, f)) = Work(program[i], blk)
<1>1. /\ \A i \in Numbers : i < cursor =>
           \A t \in program[i].returns \cup program[i].reads : t \in Tensors /\ NewBlk(blk, f)[t] = blk[t]
      /\ \A t \in Here.reads : t \in Tensors /\ t \in DOMAIN held /\ NewBlk(blk, f)[t] = held[t]
      /\ \A t \in Here.reads : t \notin Here.returns
      /\ \A t \in Here.returns : t \in Tensors /\ NewBlk(blk, f)[t] = f[t]
  BY NewBlkIs
<1>2. ASSUME NEW i \in Made PROVE Work(program[i], NewBlk(blk, f)) = Work(program[i], blk)
  <2>1. \A t \in program[i].reads \cup program[i].returns : NewBlk(blk, f)[t] = blk[t]
    BY <1>1, MadeIs
  <2>. QED BY <2>1, WorkSame
<1>3. \A t \in Here.reads \cup Here.returns : Holding(f)[t] = NewBlk(blk, f)[t]
  BY <1>1 DEF Holding
<1>4. Work(Here, Holding(f)) = Work(Here, NewBlk(blk, f))
  BY <1>3, WorkSame
<1>. QED BY <1>2, <1>4

(* Work is put behind all the work of the calls before it, if it is not    *)
(* exposed: a kernel follows the others on its stream, which also waits    *)
(* for every operation; a fenced operation follows those of its            *)
(* communicator and the event it waits for; an unfenced one, those of its  *)
(* communicator, and a fenced one of them the kernels.                     *)
LEMMA NewBehind ==
    ASSUME ProgramOK, StreamsType, NEW log, NEW at, NEW blk, Remembered(log, at, blk), NEW f, Called(f),
           NEW longer, longer = NewLog(log), HasWork(Here), ~Exposed(cursor), NEW i \in Made,
           NEW s, s = Here.on, NEW p, p = done[s] + Len(queue'[s]), NEW r, r = On(i), NEW l, l = at[i]
    PROVE  Behind(longer, s, p, r, l)'
<1>1. /\ s \in Streams /\ cursor \in Nat /\ cursor \in Numbers /\ CallOK(Here) /\ Here = program[cursor]
      /\ program' = program /\ \A j : On(j)' = On(j)
      /\ i \in Numbers /\ i \in Nat /\ i < cursor /\ r \in Streams /\ CallOK(program[i]) /\ HasWork(program[i])
  BY HereIs, MadeIs DEF Called, Here
<1>2. /\ WorkAt(log, at, blk) /\ OnlyWork(log, at) /\ Ordered(log, at) /\ Joined(log, at) /\ waiting = {}
      /\ Added(f)
  BY DEF Remembered, Called
<1>3. l \in 1..Put(r) /\ l \in Nat
  <2>1. at \in [Numbers -> Nat]
    BY DEF Remembered
  <2>. QED BY <1>1, <1>2, <2>1 DEF WorkAt
<1>4. \A x \in Streams : /\ Put(x) \in Nat /\ done[x] \in Nat /\ Len(queue[x]) \in Nat
                         /\ Put(x) = done[x] + Len(queue[x])
  BY PutType
<1>5. /\ done' = done
      /\ \A x \in Streams : \A k \in 1..Put(x) : longer[x][k] = log[x][k]
      /\ \A k \in 1..p : k > Put(s) => longer[s][k] = queue'[s][k - done[s]]
      /\ p \in Nat
  <2>1. /\ done' = done
        /\ \A x \in Streams :
                /\ Put(x)' \in Nat /\ Put(x)' = done[x] + Len(queue'[x])
                /\ \A k \in 1..Put(x) : longer[x][k] = log[x][k]
                /\ \A k \in 1..Put(x)' : k > Put(x) => longer[x][k] = queue'[x][k - done[x]]
    BY NewPlaces
  <2>2. PICK x \in Streams : x = s
    BY <1>1
  <2>3. Put(x)' = p
    BY <2>1, <2>2
  <2>. QED BY <2>1, <2>2, <2>3
<1>6. Len(queue[s]) < Len(queue'[s]) /\ Put(s) < p /\ Len(queue'[s]) \in Nat
  <2>1. Len(queue[s]) < Len(queue'[s]) /\ queue' \in [Streams -> Seq(Item)]
    BY <1>2 DEF Added
  <2>2. Len(queue'[s]) \in Nat
    BY <1>1, <2>1
  <2>. QED BY <1>1, <1>4, <2>1, <2>2
<1>7. CASE r = s
  <2>1. l < p
    BY <1>1, <1>3, <1>4, <1>5, <1>6, <1>7
  <2>. QED BY <1>1, <1>7, <2>1 DEF Behind
<1>8. ASSUME r # Current
      PROVE  done[r] >= l \/ WaitsFor(log, Current, Put(Current), r, l)
  BY <1>2, <1>8 DEF Joined, Ended
<1>9. CASE done[r] >= l
  BY <1>1, <1>5, <1>9 DEF Behind
<1>10. ASSUME NEW k \in Nat, NEW x \in Streams, k <= Put(x), WaitsFor(log, x, k, r, l)
       PROVE  WaitsFor(longer, x, k, r, l)
  <2>1. PICK h \in 1..k : log[x][h].wait = r /\ log[x][h].at >= l
    BY <1>10 DEF WaitsFor
  <2>2. h \in 1..Put(x)
    BY <1>4, <1>10
  <2>. QED BY <1>5, <2>1, <2>2 DEF WaitsFor
<1>11. CASE r # s /\ s = Current /\ ~(done[r] >= l)
  <2>1. WaitsFor(longer, Current, Put(Current), r, l)
    BY <1>4, <1>8, <1>10, <1>11, StreamsAre
  <2>2. PICK h \in 1..Put(s) : longer[s][h].wait = r /\ longer[s][h].at >= l
    BY <1>11, <2>1 DEF WaitsFor
  <2>3. h \in 1..(p - 1)
    BY <1>1, <1>4, <1>5, <1>6
  <2>4. WaitsFor(longer, s, p - 1, r, l)
    BY <2>2, <2>3 DEF WaitsFor
  <2>. QED BY <2>4, <1>1, <1>5 DEF Behind, WaitsFor
<1>12. CASE r # s /\ Here.name \in Fenced /\ ~(done[r] >= l)
  <2>1. /\ Len(queue[s]) + 1 < Len(queue'[s]) /\ queue'[s][Len(queue[s]) + 1].wait = Current
        /\ queue'[s][Len(queue[s]) + 1].at = Put(Current)
    BY <1>2, <1>12 DEF Added
  <2>8. PICK h : h = Put(s) + 1
    OBVIOUS
  <2>2. h \in 1..(p - 1) /\ h \in 1..p /\ h > Put(s) /\ h - done[s] = Len(queue[s]) + 1
    <3>1. p = done[s] + Len(queue'[s]) /\ Put(s) = done[s] + Len(queue[s])
      BY <1>1, <1>4
    <3>2. done[s] \in Nat /\ Len(queue[s]) \in Nat /\ Len(queue'[s]) \in Nat
      BY <1>1, <1>4, <1>6
    <3>3. h \in Int /\ p \in Int /\ h < p /\ h > Put(s) /\ 1 <= h
      <4>1. PICK d, m, n : d = done[s] /\ m = Len(queue[s]) /\ n = Len(queue'[s])
        OBVIOUS
      <4>2. d \in Nat /\ m \in Nat /\ n \in Nat /\ m + 1 < n /\ p = d + n /\ Put(s) = d + m
        BY <2>1, <3>1, <3>2, <4>1
      <4>. QED BY <2>8, <4>2
    <3>4. h - done[s] = Len(queue[s]) + 1
      BY <2>8, <3>1, <3>2
    <3>. QED BY <3>3, <3>4
  <2>3. longer[s][h].wait = Current /\ longer[s][h].at = Put(Current)
    BY <1>5, <2>1, <2>2
  <2>4. CASE r = Current
    <3>1. longer[s][h].at >= l
      BY <1>3, <1>4, <2>3, <2>4, StreamsAre
    <3>2. WaitsFor(longer, s, p - 1, r, l)
      BY <2>2, <2>3, <2>4, <3>1 DEF WaitsFor
    <3>. QED BY <3>2, <1>1, <1>5 DEF Behind, WaitsFor
  <2>5. CASE r # Current
    <3>1. WaitsFor(longer, Current, Put(Current), r, l)
      BY <1>4, <1>8, <1>10, <1>12, <2>5, StreamsAre
    <3>2. WaitsFor(longer, Current, longer[s][h].at, r, l)
      BY <2>3, <3>1
    <3>. QED BY <2>2, <2>3, <3>2, <1>1, <1>5 DEF Behind, WaitsFor
  <2>. QED BY <2>4, <2>5
<1>13. CASE r # s /\ Here.name \in Unfenced
  <2>1. i \in 1..(cursor - 1)
    BY <1>1 DEF Numbers
  <2>2. r = Current
    BY <1>1, <1>13, <2>1 DEF ProgramOK, On, Here
  <2>3. program[i].on = Current /\ program[i].name = "kernel"
    BY <1>1, <2>2 DEF CallOK, HasWork, On
  <2>4. PICK k \in (i + 1)..(cursor - 1) : program[k].name \in Fenced /\ program[k].on = s
    BY <1>1, <1>13, <2>1, <2>3 DEF Exposed
  <2>5. k \in Made /\ i < k /\ On(k) = s /\ ~Exposed(k)
    <3>1. k \in Numbers /\ k < cursor /\ i < k
      BY <1>1, <2>4 DEF Numbers, ProgramOK
    <3>2. program[k].name # "to_cpu" /\ program[k].name # "barrier" /\ program[k].name \notin Unfenced
      BY <2>4 DEF Fenced, Unfenced
    <3>. QED BY <2>4, <3>1, <3>2 DEF Made, HasWork, Exposed, On
  <2>6. Behind(log, s, at[k], r, l)
    BY <1>2, <2>5 DEF Ordered
  <2>7. at[k] \in Nat /\ at[k] <= Put(s) + 1 /\ at[k] <= p
    <3>1. at[k] \in 1..Put(s)
      BY <1>2, <2>5 DEF WorkAt
    <3>. QED BY <1>1, <1>4, <1>5, <1>6, <3>1
  <2>8. Behind(longer, s, p, r, l)'
    BY <1>1, <1>2, <1>3, <1>5, <2>6, <2>7, BehindLonger
  <2>. QED BY <2>8
<1>14. Here.name \in Fenced \cup Unfenced \/ s = Current
  BY <1>1 DEF CallOK, HasWork
<1>. QED BY <1>7, <1>9, <1>11, <1>12, <1>13, <1>14

LEMMA CallKeeps == ASSUME StreamsInv, NEW f, Called(f) PROVE StreamsInv'
<1>1. ProgramOK /\ StreamsType
  BY DEF StreamsInv
<1>2. PICK log, at, blk : Remembered(log, at, blk)
  BY DEF StreamsInv
<1>3. PICK longer, later, new, c, s, p :
        /\ longer = NewLog(log) /\ later = NewAt(at) /\ new = NewBlk(blk, f)
        /\ c = cursor /\ s = Here.on /\ p = done[s] + Len(queue'[s])
  OBVIOUS
<1>4. /\ s \in Streams /\ c \in Nat /\ c \in Numbers /\ CallOK(Here) /\ Here = program[c] /\ On(c) = s
      /\ program' = program /\ cursor' = c + 1 /\ c \notin Made /\ done' = done /\ started' = started
      /\ mem' = mem /\ finished' = finished
      /\ ProgramOK' /\ Numbers' = Numbers /\ Tensors' = Tensors /\ Item' = Item
      /\ \A i : On(i)' = On(i) /\ Exposed(i)' = Exposed(i)
      /\ \A i, t : Returns(i, t)' = Returns(i, t)
      /\ \A i : i \in Made' <=> i \in Made \/ (i = c /\ HasWork(Here))
  BY <1>1, <1>3, HereIs DEF Called, Here, Goes
<1>5. /\ \A x \in Streams :
            /\ Put(x)' \in Nat /\ Put(x)' = done[x] + Len(queue'[x]) /\ Put(x) <= Put(x)'
            /\ \A k \in 1..Put(x) : longer[x][k] = log[x][k]
            /\ \A k \in 1..Put(x)' : k > Put(x) =>
                  /\ longer[x][k] = queue'[x][k - done[x]]
                  /\ k - done[x] \in (Len(queue[x]) + 1)..Len(queue'[x])
      /\ LogsAre(longer)'
      /\ later \in [Numbers -> Nat] /\ later[c] = p
      /\ \A i \in Numbers : i # c => later[i] = at[i]
  BY <1>1, <1>2, <1>3, NewPlaces
<1>6. /\ new \in [Tensors -> Blocks]
      /\ \A i \in Numbers : i < c =>
           \A t \in program[i].returns : t \in Tensors /\ new[t] = blk[t]
      /\ HeldOK(new)' /\ Apart(new)'
      /\ Work(Here, Holding(f)) = Work(Here, new)
      /\ \A i \in Made : Work(program[i], new) = Work(program[i], blk)
  BY <1>1, <1>2, <1>3, NewBlkIs, NewMemory, NewWork
<1>7. /\ at \in [Numbers -> Nat] /\ WorkAt(log, at, blk) /\ OnlyWork(log, at) /\ InOrder(at)
      /\ Satisfied(log) /\ Joined(log, at) /\ Ordered(log, at) /\ FinishedOK(at) /\ MemOK(at, blk)
      /\ waiting = {} /\ Added(f)
  BY <1>2 DEF Remembered, Called
<1>8. \A i \in Made : /\ i \in Numbers /\ i \in Nat /\ i < c /\ later[i] = at[i] /\ at[i] \in Nat
                      /\ On(i) \in Streams /\ at[i] \in 1..Put(On(i))
  <2>1. \A i \in Made : i \in Numbers /\ i \in Nat /\ i < c /\ On(i) \in Streams
    BY <1>1, <1>3, MadeIs
  <2>2. \A i \in Made : i # c
    BY <1>4
  <2>. QED BY <1>5, <1>7, <2>1, <2>2 DEF WorkAt
<1>9. \A x \in Streams : /\ Put(x) \in Nat /\ done[x] \in Nat /\ Len(queue[x]) \in Nat /\ done[x] <= Put(x)
                         /\ Put(x) = done[x] + Len(queue[x])
  BY <1>1, PutType
<1>10. p = Put(s)' /\ p \in Nat
  BY <1>3, <1>4, <1>5
<1>11. HasWork(Here) => /\ Put(s) < p /\ queue'[s][Len(queue'[s])] = Work(Here, new)
                        /\ Len(queue'[s]) \in Nat
  <2>1. SUFFICES ASSUME HasWork(Here) PROVE Put(s) < p /\ Len(queue'[s]) \in Nat
    BY <1>3, <1>6, <1>7 DEF Added
  <2>2. Len(queue[s]) < Len(queue'[s]) /\ queue' \in [Streams -> Seq(Item)]
    BY <1>3, <1>7, <2>1 DEF Added
  <2>3. Len(queue'[s]) \in Nat
    BY <1>4, <2>2
  <2>. QED BY <1>3, <1>4, <1>9, <2>2, <2>3
<1>12. StreamsType'
  <2>1. cursor' \in 1..(Len(program') + 1) /\ Len(program) \in Nat
    BY <1>1, <1>4 DEF Numbers, ProgramOK
  <2>2. queue' \in [Streams -> Seq(Item')] /\ waiting' \subseteq Streams
    BY <1>4, <1>7 DEF Added
  <2>3. done' \in [Streams -> Nat] /\ started' \in [Streams -> BOOLEAN] /\ DOMAIN mem' = Blocks
    BY <1>1, <1>4 DEF StreamsType
  <2>4. ASSUME NEW x \in Streams, started'[x] PROVE queue'[x] # <<>> /\ Head(queue'[x]).wait = "none"
    <3>1. queue[x] # <<>> /\ Head(queue[x]).wait = "none" /\ queue[x] \in Seq(Item) /\ queue'[x] \in Seq(Item)
      BY <1>1, <1>4, <1>7, <2>4 DEF StreamsType, Added
    <3>2. Len(queue[x]) <= Len(queue'[x]) /\ \A k \in 1..Len(queue[x]) : queue'[x][k] = queue[x][k]
      BY <1>7 DEF Added
    <3>3. PICK q, q2 : q = queue[x] /\ q2 = queue'[x]
      OBVIOUS
    <3>4. Len(q) \in Nat \ {0} /\ Len(q2) \in Nat \ {0} /\ Head(q) = q[1] /\ Head(q2) = q2[1] /\ 1 \in 1..Len(q)
      BY <3>1, <3>2, <3>3
    <3>5. Head(q2) = Head(q) /\ q2 # <<>>
      BY <3>2, <3>3, <3>4
    <3>. QED BY <3>1, <3>3, <3>5
  <2>. QED BY <2>1, <2>2, <2>3, <2>4 DEF StreamsType
<1>13. WorkAt(longer, later, new)'
  <2>1. ASSUME NEW i \in Made, NEW x \in Streams, x = On(i)
        PROVE  later[i] \in 1..Put(x)' /\ longer[x][later[i]] = Work(program[i], new)
    <3>1. log[x][at[i]] = Work(program[i], blk)
      BY <1>7, <2>1 DEF WorkAt
    <3>2. at[i] \in 1..Put(x) /\ longer[x][at[i]] = log[x][at[i]]
      BY <1>5, <1>8, <2>1
    <3>3. at[i] \in 1..Put(x)'
      BY <1>5, <1>9, <3>2
    <3>. QED BY <1>6, <1>8, <3>1, <3>2, <3>3
  <2>2. HasWork(Here) => p \in 1..Put(s)' /\ longer[s][p] = Work(program[c], new)
    <3>1. SUFFICES ASSUME HasWork(Here) PROVE p \in 1..Put(s)' /\ longer[s][p] = Work(program[c], new)
      OBVIOUS
    <3>2. p \in 1..Put(s)' /\ p > Put(s) /\ p - done[s] = Len(queue'[s])
      <4>1. done[s] \in Nat /\ Put(s) \in Nat
        BY <1>4, <1>9
      <4>. QED BY <1>3, <1>10, <1>11, <3>1, <4>1
    <3>. QED BY <1>4, <1>5, <1>11, <3>1, <3>2
  <2>3. ASSUME NEW i \in Made', NEW x, x = On(i)
        PROVE  later[i] \in 1..Put(x)' /\ longer[x][later[i]] = Work(program[i], new)
    BY <1>4, <1>5, <1>8, <2>1, <2>2, <2>3
  <2>4. ASSUME NEW i \in Made'
        PROVE  later[i] \in 1..Put(On(i))' /\ longer[On(i)'][later[i]] = Work(program[i], new)
    <3>1. PICK x : x = On(i)
      OBVIOUS
    <3>2. x = On(i)'
      BY <1>4, <3>1
    <3>3. later[i] \in 1..Put(x)' /\ longer[x][later[i]] = Work(program[i], new)
      BY <2>3, <3>1
    <3>. QED BY <3>2, <3>3
  <2>. QED BY <1>4, <2>4 DEF WorkAt, Work
<1>14. OnlyWork(longer, later)'
  <2>1. ASSUME NEW x \in Streams, NEW k \in 1..Put(x)'
        PROVE  \/ \E y \in Streams : longer[x][k].wait = y /\ longer[x][k].at \in 0..Put(y)'
               \/ \E i \in Made' : On(i)' = x /\ later[i] = k
    <3>1. CASE k <= Put(x)
      <4>1. k \in 1..Put(x) /\ longer[x][k] = log[x][k]
        BY <1>5, <1>9, <2>1, <3>1
      <4>2. CASE \E i \in Made : On(i) = x /\ at[i] = k
        BY <1>4, <1>8, <4>2
      <4>3. CASE log[x][k].wait \in Streams /\ log[x][k].at \in 0..Put(log[x][k].wait)
        <5>1. PICK y \in Streams : y = log[x][k].wait
          BY <4>3
        <5>2. log[x][k].at \in 0..Put(y) /\ Put(y) <= Put(y)' /\ Put(y) \in Nat /\ Put(y)' \in Nat
          BY <1>5, <1>9, <4>3, <5>1
        <5>3. log[x][k].at \in 0..Put(y)'
          BY <5>2
        <5>. QED BY <4>1, <5>1, <5>3
      <4>. QED BY <1>7, <4>1, <4>2, <4>3 DEF OnlyWork
    <3>2. CASE k > Put(x)
      <4>1. longer[x][k] = queue'[x][k - done[x]] /\ k - done[x] \in (Len(queue[x]) + 1)..Len(queue'[x])
        BY <1>5, <2>1, <3>2
      <4>2. \/ \E y \in Streams : longer[x][k].wait = y /\ longer[x][k].at \in 0..(done[y] + Len(queue'[y]))
            \/ HasWork(Here) /\ x = s /\ k - done[x] = Len(queue'[x])
        BY <1>3, <1>7, <4>1 DEF Added
      <4>3. CASE HasWork(Here) /\ x = s /\ k - done[x] = Len(queue'[x])
        <5>1. k = p
          BY <1>3, <1>9, <2>1, <3>2, <4>3
        <5>. QED BY <1>4, <1>5, <4>3, <5>1
      <4>4. CASE \E y \in Streams : longer[x][k].wait = y /\ longer[x][k].at \in 0..(done[y] + Len(queue'[y]))
        BY <1>5, <4>4
      <4>. QED BY <4>2, <4>3, <4>4
    <3>. QED BY <1>5, <1>9, <2>1, <3>1, <3>2
  <2>2. ASSUME NEW x \in Streams, NEW k \in 1..Put(x)', NEW y \in Streams,
               longer[x][k].wait = y /\ longer[x][k].at \in 0..Put(y)'
        PROVE  longer[x][k].wait \in Streams /\ longer[x][k].at \in 0..Put(longer[x][k].wait)'
    BY <2>2
  <2>. QED BY <2>1, <2>2 DEF OnlyWork
<1>15. InOrder(later)'
  <2>1. ASSUME NEW i \in Made', NEW j \in Made', i < j, On(i) = On(j) PROVE later[i] < later[j]
    <3>1. i \in Made
      BY <1>4, <1>8, <2>1
    <3>2. CASE j \in Made
      BY <1>7, <1>8, <2>1, <3>1, <3>2 DEF InOrder
    <3>3. CASE j = c /\ HasWork(Here)
      <4>1. at[i] \in 1..Put(s) /\ Put(s) < p
        BY <1>4, <1>8, <1>11, <2>1, <3>1, <3>3
      <4>. QED BY <1>4, <1>5, <1>8, <1>9, <1>10, <3>1, <3>3, <4>1
    <3>. QED BY <1>4, <3>2, <3>3
  <2>. QED BY <1>4, <2>1 DEF InOrder
<1>16. Satisfied(longer)'
  <2>1. ASSUME NEW x \in Streams, NEW k \in 1..done[x], longer[x][k].wait # "none"
        PROVE  done[longer[x][k].wait] >= longer[x][k].at
    <3>1. k \in 1..Put(x)
      BY <1>9
    <3>. QED BY <1>5, <1>7, <2>1, <3>1 DEF Satisfied
  <2>. QED BY <1>4, <2>1 DEF Satisfied
<1>17. Joined(longer, later)'
  <2>1. ASSUME NEW i \in Made', On(i) # Current
        PROVE  done[On(i)] >= later[i] \/ On(i) \in waiting' \/ WaitsFor(longer, Current, Put(Current)', On(i), later[i])
    <3>1. CASE i \in Made
      <4>1. done[On(i)] >= at[i] \/ WaitsFor(log, Current, Put(Current), On(i), at[i])
        BY <1>7, <2>1, <3>1 DEF Joined, Ended
      <4>2. ASSUME NEW k \in 1..Put(Current), log[Current][k].wait = On(i), log[Current][k].at >= at[i]
            PROVE  WaitsFor(longer, Current, Put(Current)', On(i), later[i])
        <5>1. k \in 1..Put(Current)' /\ longer[Current][k] = log[Current][k]
          BY <1>5, <1>9, <4>2, StreamsAre
        <5>. QED BY <1>8, <3>1, <4>2, <5>1 DEF WaitsFor
      <4>. QED BY <1>8, <3>1, <4>1, <4>2 DEF WaitsFor
    <3>2. CASE i = c /\ HasWork(Here)
      <4>1. \/ s \in waiting'
            \/ \E k \in (Len(queue[Current]) + 1)..Len(queue'[Current]) :
                  queue'[Current][k].wait = s /\ queue'[Current][k].at = p
        BY <1>3, <1>4, <1>7, <2>1, <3>2 DEF Added
      <4>2. ASSUME NEW k \in (Len(queue[Current]) + 1)..Len(queue'[Current]),
                   queue'[Current][k].wait = s, queue'[Current][k].at = p
            PROVE  WaitsFor(longer, Current, Put(Current)', s, p)
        <5>1. PICK h : h = done[Current] + k
          OBVIOUS
        <5>2. /\ done[Current] \in Nat /\ Len(queue[Current]) \in Nat /\ Put(Current) = done[Current] + Len(queue[Current])
              /\ Put(Current)' = done[Current] + Len(queue'[Current]) /\ Put(Current)' \in Nat
              /\ Len(queue'[Current]) \in Nat
          <6>1. queue'[Current] \in Seq(Item)
            BY <1>7, StreamsAre DEF Added
          <6>. QED BY <1>5, <1>9, <6>1, StreamsAre
        <5>3. h \in 1..Put(Current)' /\ h > Put(Current) /\ h - done[Current] = k
          <6>1. PICK d, m, n : d = done[Current] /\ m = Len(queue[Current]) /\ n = Len(queue'[Current])
            OBVIOUS
          <6>2. /\ d \in Nat /\ m \in Nat /\ n \in Nat /\ k \in (m + 1)..n /\ h = d + k
                /\ Put(Current) = d + m /\ Put(Current)' = d + n
            BY <4>2, <5>1, <5>2, <6>1
          <6>. QED BY <6>1, <6>2
        <5>4. longer[Current][h] = queue'[Current][k]
          BY <1>5, <5>3, StreamsAre
        <5>. QED BY <1>10, <4>2, <5>3, <5>4 DEF WaitsFor
      <4>. QED BY <1>4, <1>5, <3>2, <4>1, <4>2
    <3>. QED BY <1>4, <2>1, <3>1, <3>2
  <2>. QED BY <1>4, <2>1 DEF Joined, Ended, WaitsFor
<1>18. Ordered(longer, later)'
  <2>1. ASSUME NEW i \in Made', NEW j \in Made', i < j, ~Exposed(j),
               NEW x, x = On(j), NEW k, k = later[j], NEW r, r = On(i), NEW l, l = later[i]
        PROVE  Behind(longer, x, k, r, l)'
    <3>1. i \in Made
      BY <1>4, <1>8, <2>1
    <3>2. r \in Streams /\ l = at[i] /\ l \in Nat
      BY <1>8, <2>1, <3>1
    <3>3. CASE j \in Made
      <4>1. /\ x \in Streams /\ k = at[j] /\ k \in Nat /\ k \in 1..Put(x)
        BY <1>8, <2>1, <3>3
      <4>2. Behind(log, x, k, r, l)
        BY <1>7, <2>1, <3>1, <3>2, <3>3, <4>1 DEF Ordered
      <4>3. k <= Put(x) + 1 /\ k <= k
        BY <1>9, <4>1
      <4>. QED BY <1>1, <1>4, <1>5, <1>7, <3>2, <4>1, <4>2, <4>3, BehindLonger
    <3>4. CASE j = c /\ HasWork(Here)
      <4>1. x = s /\ k = p /\ ~Exposed(cursor)
        BY <1>3, <1>4, <1>5, <2>1, <3>4
      <4>. QED BY <1>1, <1>2, <1>3, <2>1, <3>1, <3>2, <3>4, <4>1, NewBehind
    <3>. QED BY <1>4, <3>3, <3>4
  <2>2. ASSUME NEW i \in Made', NEW j \in Made', i < j, ~Exposed(j)'
        PROVE  Behind(longer, On(j), later[j], On(i), later[i])'
    <3>1. PICK x, k, r, l : x = On(j) /\ k = later[j] /\ r = On(i) /\ l = later[i]
      OBVIOUS
    <3>2. Behind(longer, x, k, r, l)'
      BY <1>4, <2>1, <2>2, <3>1
    <3>3. x = On(j)' /\ r = On(i)'
      BY <1>4, <3>1
    <3>. QED BY <3>1, <3>2, <3>3
  <2>. QED BY <2>2 DEF Ordered
<1>19. ASSUME NEW i \in Made'
       PROVE  (Begun(later, i)' \/ Ended(later, i)') => i \in Made /\ (Begun(later, i)' <=> Begun(at, i))
                                                      /\ (Ended(later, i)' <=> Ended(at, i))
  <2>1. /\ Ended(later, i)' <=> done[On(i)] >= later[i]
        /\ Begun(later, i)' <=> done[On(i)] >= later[i] \/ (started[On(i)] /\ done[On(i)] + 1 = later[i])
    BY <1>4 DEF Ended, Begun, UnderWay
  <2>2. CASE i \in Made
    BY <1>8, <2>1, <2>2 DEF Ended, Begun, UnderWay
  <2>3. CASE i = c /\ HasWork(Here)
    <3>1. /\ Put(s) < p /\ p \in Nat /\ done[s] \in Nat /\ Len(queue[s]) \in Nat /\ On(i) = s /\ later[i] = p
          /\ Put(s) = done[s] + Len(queue[s])
      BY <1>4, <1>5, <1>9, <1>10, <1>11, <2>3
    <3>2. started[s] => Len(queue[s]) # 0
      <4>1. started[s] => queue[s] # <<>> /\ queue[s] \in Seq(Item)
        BY <1>1, <1>4 DEF StreamsType
      <4>. QED BY <4>1
    <3>. QED BY <2>1, <3>1, <3>2
  <2>. QED BY <1>4, <2>2, <2>3
<1>20. FinishedOK(later)'
  <2>1. ASSUME NEW i \in Made', Ended(later, i)' PROVE program[i].returns \subseteq finished
    BY <1>7, <1>19, <2>1 DEF FinishedOK
  <2>. QED BY <1>4, <2>1 DEF FinishedOK
<1>21. MemOK(later, new)'
  <2>1. ASSUME NEW b \in Blocks, NEW u \in mem[b]
        PROVE  \E j \in Made' : Begun(later, j)' /\ Returns(j, u) /\ new[u] = b /\ NoOlder(later, new, b, j)'
    <3>1. PICK j \in Made : Begun(at, j) /\ Returns(j, u) /\ blk[u] = b /\ NoOlder(at, blk, b, j)
      BY <1>7 DEF MemOK
    <3>2. j \in Made' /\ new[u] = b
      BY <1>4, <1>6, <1>8, <3>1 DEF Returns
    <3>3. Begun(later, j)'
      BY <1>4, <1>8, <3>1 DEF Begun, Ended, UnderWay
    <3>4. ASSUME NEW w \in Made', NEW t \in Tensors, Returns(w, t), new[t] = b, Begun(later, w)', ~Exposed(w)
          PROVE  w <= j
      <4>1. w \in Made /\ Begun(at, w)
        BY <1>19, <3>4
      <4>2. blk[t] = b
        BY <1>6, <1>8, <3>4, <4>1 DEF Returns
      <4>. QED BY <3>1, <3>4, <4>1, <4>2 DEF NoOlder
    <3>5. NoOlder(later, new, b, j)'
      BY <1>4, <3>4 DEF NoOlder
    <3>. QED BY <3>1, <3>2, <3>3, <3>5
  <2>. QED BY <1>4, <2>1 DEF MemOK
<1>22. Remembered(longer, later, new)'
  BY <1>4, <1>5, <1>6, <1>13, <1>14, <1>15, <1>16, <1>17, <1>18, <1>20, <1>21 DEF Remembered
<1>. QED BY <1>4, <1>12, <1>22 DEF StreamsInv

LEMMA AppendIs ==
    ASSUME NEW S, NEW q \in Seq(S), NEW e \in S
    PROVE  /\ Append(q, e) \in Seq(S) /\ Len(q) \in Nat /\ Len(Append(q, e)) = Len(q) + 1
           /\ \A k \in 1..Len(q) : Append(q, e)[k] = q[k]
           /\ Append(q, e)[Len(q) + 1] = e
OBVIOUS

LEMMA WorkTyped ==
    ASSUME ProgramOK, StreamsType, NEW log, NEW at, NEW blk, Remembered(log, at, blk),
           cursor \in Numbers, NEW f \in [Here.returns -> Allocatable]
    PROVE  Work(Here, Holding(f)) \in Item
<1>1. /\ blk \in [Tensors -> Blocks] /\ HeldOK(blk) /\ Here = program[cursor] /\ Allocatable \subseteq Blocks
  BY DEF Remembered, Here, Allocatable
<1>2. ASSUME NEW t \in Here.returns PROVE t \in Tensors /\ Holding(f)[t] \in Blocks
  <2>1. t \in Tensors
    BY <1>1 DEF Tensors
  <2>2. Holding(f)[t] = f[t]
    BY DEF Holding
  <2>. QED BY <1>1, <2>1, <2>2
<1>3. ASSUME NEW t \in Here.reads PROVE t \in Tensors /\ Holding(f)[t] \in Blocks
  <2>1. PICK w \in 1..(cursor - 1) : Returns(w, t) /\ Kept(t, w, cursor)
    BY <1>1 DEF ProgramOK
  <2>2. w \in Numbers
    BY DEF Numbers, ProgramOK
  <2>3. t \in Tensors
    BY <2>1, <2>2, ReturnsIn
  <2>4. t \in DOMAIN held /\ held[t] = blk[t]
    BY <1>1, <2>1, <2>3 DEF HeldOK
  <2>5. t \notin Here.returns => Holding(f)[t] = held[t]
    BY <2>4 DEF Holding
  <2>. QED BY <1>1, <1>2, <2>3, <2>4, <2>5
<1>4. Work(Here, Holding(f)).reads \subseteq Tensors \X Blocks
  <2>1. Work(Here, Holding(f)).reads = {<<t, Holding(f)[t]>> : t \in {u \in Here.reads : Here.name # "broadcast"}}
    BY WorkIs
  <2>. QED BY <1>3, <2>1
<1>5. Work(Here, Holding(f)).writes \subseteq Tensors \X Blocks
  <2>1. Work(Here, Holding(f)).writes = {<<t, Holding(f)[t]>> : t \in Here.returns}
    BY WorkIs
  <2>. QED BY <1>2, <2>1
<1>. QED BY <1>4, <1>5 DEF Work, Item

LEMMA EventTyped ==
    ASSUME NEW x \in Streams, NEW q, done[x] + Len(q[x]) \in Nat
    PROVE  EventOn(x, q) \in Item /\ EventOn(x, q).wait = x /\ EventOn(x, q).at = done[x] + Len(q[x])
BY DEF EventOn, Item

LEMMA LaunchKeeps == ASSUME StreamsInv, Launch PROVE StreamsInv'
<1>1. ProgramOK /\ StreamsType
  BY DEF StreamsInv
<1>2. PICK log, at, blk : Remembered(log, at, blk)
  BY DEF StreamsInv
<1>3. PICK f \in [Here.returns -> Allocatable] :
        queue' = [queue EXCEPT ![Current] = Append(@, Work(Here, Holding(f)))] /\ Goes(Holding(f))
  BY DEF Launch
<1>4. cursor \in Numbers /\ Here.name = "kernel" /\ waiting = {} /\ waiting' = {}
  BY <1>1 DEF Launch, Ready, StreamsType, Numbers, ProgramOK
<1>5. Here.on = Current /\ HasWork(Here) /\ Here.name \notin Fenced
  BY <1>1, <1>4 DEF ProgramOK, CallOK, Here, HasWork, Fenced
<1>6. PICK w \in Item : w = Work(Here, Holding(f))
  BY <1>1, <1>2, <1>4, WorkTyped
<1>7. /\ queue \in [Streams -> Seq(Item)] /\ queue' = [queue EXCEPT ![Current] = Append(queue[Current], w)]
      /\ Current \in Streams
  BY <1>1, <1>3, <1>6, StreamsAre DEF StreamsType
<1>8. PICK q \in Seq(Item) : q = queue[Current]
  BY <1>7
<1>9. /\ Append(q, w) \in Seq(Item) /\ Len(q) \in Nat /\ Len(Append(q, w)) = Len(q) + 1
      /\ \A k \in 1..Len(q) : Append(q, w)[k] = q[k]
      /\ Append(q, w)[Len(q) + 1] = w
  BY AppendIs
<1>10. /\ queue' \in [Streams -> Seq(Item)] /\ queue'[Current] = Append(q, w)
       /\ \A x \in Streams : x # Current => queue'[x] = queue[x]
  BY <1>7, <1>8, <1>9
<1>11. ASSUME NEW x \in Streams
       PROVE  /\ Len(queue[x]) <= Len(queue'[x])
              /\ \A k \in 1..Len(queue[x]) : queue'[x][k] = queue[x][k]
              /\ \A k \in (Len(queue[x]) + 1)..Len(queue'[x]) : x = Current /\ k = Len(queue'[x])
  <2>1. CASE x = Current
    BY <1>8, <1>9, <1>10, <2>1
  <2>2. CASE x # Current
    <3>1. Len(queue[x]) \in Nat
      BY <1>7
    <3>. QED BY <1>10, <2>2, <3>1
  <2>. QED BY <2>1, <2>2
<1>12. Len(queue[Current]) < Len(queue'[Current]) /\ queue'[Current][Len(queue'[Current])] = w
  BY <1>8, <1>9, <1>10
<1>13. Added(f)
  BY <1>4, <1>5, <1>6, <1>10, <1>11, <1>12 DEF Added
<1>. QED BY <1>3, <1>4, <1>13, CallKeeps DEF Called

(* A call that returns nothing leaves the host with the tensors it has.    *)
LEMMA GoesIs ==
    ASSUME Here.returns = {}, Goes(held), NEW f \in [Here.returns -> Allocatable] PROVE Goes(Holding(f))
<1>1. DOMAIN Holding(f) = DOMAIN held /\ \A t \in DOMAIN held : Holding(f)[t] = held[t]
  BY DEF Holding
<1>. QED BY <1>1 DEF Goes

LEMMA ToCpuKeeps == ASSUME StreamsInv, ToCpu PROVE StreamsInv'
<1>1. ProgramOK /\ StreamsType
  BY DEF StreamsInv
<1>2. /\ cursor \in Numbers /\ Here.name = "to_cpu" /\ waiting = {} /\ waiting' = {Current} /\ Goes(held)
      /\ queue' = queue
  BY <1>1 DEF ToCpu, Ready, StreamsType, Numbers, ProgramOK
<1>3. ~HasWork(Here) /\ Here.returns = {}
  BY <1>1, <1>2 DEF ProgramOK, CallOK, Here, HasWork
<1>4. PICK f : f \in [Here.returns -> Allocatable]
  <2>1. [t \in {} |-> t] \in [Here.returns -> Allocatable]
    BY <1>3
  <2>. QED BY <2>1
<1>5. Goes(Holding(f))
  BY <1>2, <1>3, <1>4, GoesIs
<1>6. queue' \in [Streams -> Seq(Item)]
  BY <1>1, <1>2 DEF StreamsType
<1>7. ASSUME NEW x \in Streams
      PROVE  /\ Len(queue[x]) <= Len(queue'[x])
             /\ \A k \in 1..Len(queue[x]) : queue'[x][k] = queue[x][k]
             /\ \A k \in (Len(queue[x]) + 1)..Len(queue'[x]) : FALSE
  <2>1. Len(queue[x]) \in Nat
    BY <1>1, PutType
  <2>. QED BY <1>2, <2>1
<1>8. Added(f)
  BY <1>2, <1>3, <1>6, <1>7, StreamsAre DEF Added
<1>. QED BY <1>2, <1>4, <1>5, <1>8, CallKeeps DEF Called

LEMMA BarrierKeeps == ASSUME StreamsInv, Barrier PROVE StreamsInv'
<1>1. ProgramOK /\ StreamsType
  BY DEF StreamsInv
<1>2. PICK s : s = Here.on
  OBVIOUS
<1>3. /\ cursor \in Numbers /\ Here.name = "barrier" /\ waiting = {} /\ waiting' = {s} /\ Goes(held)
      /\ queue' = [queue EXCEPT ![s] = Append(queue[s], EventOn(Current, queue))]
  BY <1>1, <1>2 DEF Barrier, WaitCurrentStreamBeforeNccl, Ready, StreamsType, Numbers, ProgramOK
<1>4. ~HasWork(Here) /\ Here.returns = {} /\ s \in Streams /\ Current \in Streams
  BY <1>1, <1>2, <1>3, StreamsAre DEF ProgramOK, CallOK, Here, HasWork
<1>5. PICK f : f \in [Here.returns -> Allocatable]
  <2>1. [t \in {} |-> t] \in [Here.returns -> Allocatable]
    BY <1>4
  <2>. QED BY <2>1
<1>6. Goes(Holding(f))
  BY <1>3, <1>4, <1>5, GoesIs
<1>7. \A x \in Streams : /\ Put(x) = done[x] + Len(queue[x]) /\ Put(x) \in Nat /\ done[x] \in Nat
                         /\ Len(queue[x]) \in Nat /\ queue[x] \in Seq(Item)
  BY <1>1, PutType
<1>8. PICK e \in Item : e = EventOn(Current, queue) /\ e.wait = Current /\ e.at = Put(Current)
  BY <1>4, <1>7, EventTyped
<1>9. PICK q \in Seq(Item) : q = queue[s]
  BY <1>4, <1>7
<1>10. /\ Append(q, e) \in Seq(Item) /\ Len(q) \in Nat /\ Len(Append(q, e)) = Len(q) + 1
       /\ \A k \in 1..Len(q) : Append(q, e)[k] = q[k]
       /\ Append(q, e)[Len(q) + 1] = e
  BY AppendIs
<1>11. /\ queue' \in [Streams -> Seq(Item)] /\ queue'[s] = Append(q, e)
       /\ \A x \in Streams : x # s => queue'[x] = queue[x]
  BY <1>1, <1>3, <1>4, <1>8, <1>9, <1>10 DEF StreamsType
<1>12. ASSUME NEW x \in Streams
       PROVE  /\ Len(queue[x]) <= Len(queue'[x]) /\ Len(queue'[x]) \in Nat
              /\ \A k \in 1..Len(queue[x]) : queue'[x][k] = queue[x][k]
              /\ \A k \in (Len(queue[x]) + 1)..Len(queue'[x]) : queue'[x][k] = e
  <2>1. CASE x = s
    BY <1>9, <1>10, <1>11, <2>1
  <2>2. CASE x # s
    BY <1>7, <1>11, <2>2
  <2>. QED BY <2>1, <2>2
<1>13. e.at \in 0..(done[Current] + Len(queue'[Current]))
  BY <1>4, <1>7, <1>8, <1>12
<1>14. Added(f)
  BY <1>3, <1>4, <1>8, <1>11, <1>12, <1>13 DEF Added
<1>. QED BY <1>3, <1>5, <1>6, <1>14, CallKeeps DEF Called

LEMMA CollectiveKeeps == ASSUME StreamsInv, Collective PROVE StreamsInv'
<1>1. ProgramOK /\ StreamsType
  BY DEF StreamsInv
<1>2. PICK log, at, blk : Remembered(log, at, blk)
  BY DEF StreamsInv
<1>3. PICK s : s = Here.on
  OBVIOUS
<1>4. PICK before : before = IF Here.name \in Fenced THEN WaitCurrentStreamBeforeNccl(s) ELSE queue
  OBVIOUS
<1>5. PICK f, keep :
        /\ f \in [Here.returns -> Allocatable]
        /\ FinishNcclOp(s, keep, [before EXCEPT ![s] = Append(@, Work(Here, Holding(f)))])
        /\ Goes(Holding(f))
  BY <1>3, <1>4 DEF Collective
<1>. f \in [Here.returns -> Allocatable]
  BY <1>5
<1>6. PICK next : next = [before EXCEPT ![s] = Append(before[s], Work(Here, Holding(f)))]
  OBVIOUS
<1>7. /\ waiting' = {s} \/ waiting' = waiting
      /\ \/ queue' = next /\ waiting' = {s}
         \/ queue' = [next EXCEPT ![Current] = Append(next[Current], EventOn(s, next))]
  BY <1>5, <1>6 DEF FinishNcclOp
<1>8. /\ cursor \in Numbers /\ Here.name \in Fenced \cup Unfenced /\ waiting = {}
  BY <1>1 DEF Collective, Ready, StreamsType, Numbers, ProgramOK
<1>9. s \in Streams /\ s # Current /\ Current \in Streams /\ HasWork(Here)
  BY <1>1, <1>3, <1>8, StreamsAre DEF ProgramOK, CallOK, Here, HasWork, Fenced, Unfenced
<1>10. PICK w \in Item : w = Work(Here, Holding(f))
  BY <1>1, <1>2, <1>8, WorkTyped
<1>11. \A x \in Streams : /\ Put(x) = done[x] + Len(queue[x]) /\ Put(x) \in Nat /\ done[x] \in Nat
                          /\ Len(queue[x]) \in Nat /\ queue[x] \in Seq(Item)
  BY <1>1, PutType
<1>12. queue \in [Streams -> Seq(Item)]
  BY <1>1 DEF StreamsType
<1>13. PICK e \in Item : e = EventOn(Current, queue) /\ e.wait = Current /\ e.at = Put(Current)
  BY <1>9, <1>11, EventTyped
<1>14. PICK q \in Seq(Item), c \in Seq(Item) : q = queue[s] /\ c = queue[Current]
  BY <1>9, <1>11
<1>15. /\ before \in [Streams -> Seq(Item)]
       /\ before[s] = (IF Here.name \in Fenced THEN Append(q, e) ELSE q)
       /\ \A x \in Streams : x # s => before[x] = queue[x]
  BY <1>4, <1>9, <1>12, <1>13, <1>14, AppendIs DEF WaitCurrentStreamBeforeNccl
<1>16. PICK p \in Seq(Item) : p = before[s]
  BY <1>9, <1>15
<1>17. /\ next \in [Streams -> Seq(Item)] /\ next[s] = Append(p, w)
       /\ \A x \in Streams : x # s => next[x] = queue[x]
  BY <1>6, <1>9, <1>10, <1>15, <1>16, AppendIs
<1>18. /\ Append(p, w) \in Seq(Item) /\ Len(p) \in Nat /\ Len(Append(p, w)) = Len(p) + 1
       /\ \A k \in 1..Len(p) : Append(p, w)[k] = p[k]
       /\ Append(p, w)[Len(p) + 1] = w
  BY AppendIs
<1>19. /\ Append(q, e) \in Seq(Item) /\ Len(q) \in Nat /\ Len(Append(q, e)) = Len(q) + 1
       /\ \A k \in 1..Len(q) : Append(q, e)[k] = q[k]
       /\ Append(q, e)[Len(q) + 1] = e
  BY AppendIs
<1>20. /\ Len(q) <= Len(p) /\ \A k \in 1..Len(q) : p[k] = q[k]
       /\ \A k \in (Len(q) + 1)..Len(p) : p[k] = e
       /\ Here.name \in Fenced => Len(p) = Len(q) + 1
  <2>1. CASE Here.name \in Fenced
    <3>1. p = Append(q, e)
      BY <1>15, <1>16, <2>1
    <3>. QED BY <1>19, <3>1
  <2>2. CASE Here.name \notin Fenced
    BY <1>15, <1>16, <1>19, <2>2
  <2>. QED BY <2>1, <2>2
<1>21. done[s] + Len(next[s]) \in Nat
  BY <1>9, <1>11, <1>17, <1>18
<1>22. PICK g \in Item : g = EventOn(s, next) /\ g.wait = s /\ g.at = done[s] + Len(next[s])
  BY <1>9, <1>21, EventTyped
<1>23. /\ Append(c, g) \in Seq(Item) /\ Len(c) \in Nat /\ Len(Append(c, g)) = Len(c) + 1
       /\ \A k \in 1..Len(c) : Append(c, g)[k] = c[k]
       /\ Append(c, g)[Len(c) + 1] = g
  BY AppendIs
<1>24. next[Current] = c
  BY <1>9, <1>14, <1>17
<1>25. /\ queue' \in [Streams -> Seq(Item)] /\ queue'[s] = Append(p, w)
       /\ \A x \in Streams : x # s /\ x # Current => queue'[x] = queue[x]
       /\ (queue'[Current] = c /\ waiting' = {s}) \/ queue'[Current] = Append(c, g)
  <2>1. CASE queue' = next /\ waiting' = {s}
    BY <1>17, <1>24, <2>1
  <2>2. CASE queue' = [next EXCEPT ![Current] = Append(c, g)]
    BY <1>9, <1>17, <1>23, <1>24, <2>2
  <2>. QED BY <1>7, <1>22, <1>24, <2>1, <2>2
<1>26. /\ Len(Append(p, w)) \in Nat /\ Len(q) < Len(Append(p, w))
       /\ \A k \in 1..Len(q) : Append(p, w)[k] = q[k]
       /\ \A k \in (Len(q) + 1)..Len(Append(p, w)) : k = Len(Append(p, w)) \/ Append(p, w)[k] = e
       /\ Append(p, w)[Len(Append(p, w))] = w
       /\ Here.name \in Fenced => Len(q) + 1 < Len(Append(p, w)) /\ Append(p, w)[Len(q) + 1] = e
  <2>1. \A k \in 1..Len(q) : Append(p, w)[k] = q[k]
    <3>1. \A k \in 1..Len(q) : k \in 1..Len(p)
      BY <1>18, <1>19, <1>20
    <3>. QED BY <1>18, <1>20, <3>1
  <2>2. \A k \in (Len(q) + 1)..Len(Append(p, w)) : k = Len(Append(p, w)) \/ Append(p, w)[k] = e
    <3>1. \A k \in (Len(q) + 1)..Len(Append(p, w)) :
            k = Len(Append(p, w)) \/ (k \in (Len(q) + 1)..Len(p) /\ k \in 1..Len(p))
      BY <1>18, <1>19
    <3>. QED BY <1>18, <1>20, <3>1
  <2>3. Here.name \in Fenced => Append(p, w)[Len(q) + 1] = e
    <3>1. Here.name \in Fenced => Len(q) + 1 \in (Len(q) + 1)..Len(p) /\ Len(q) + 1 \in 1..Len(p)
      BY <1>18, <1>19, <1>20
    <3>. QED BY <1>18, <1>20, <3>1
  <2>. QED BY <1>18, <1>19, <1>20, <2>1, <2>2, <2>3
<1>27. g.at = done[s] + Len(queue'[s])
  BY <1>17, <1>22, <1>25
<1>28. /\ Len(queue'[Current]) \in Nat /\ Len(c) <= Len(queue'[Current])
       /\ \A k \in 1..Len(c) : queue'[Current][k] = c[k]
       /\ \A k \in (Len(c) + 1)..Len(queue'[Current]) : queue'[Current][k] = g
       /\ s \in waiting' \/ \E k \in (Len(c) + 1)..Len(queue'[Current]) : queue'[Current][k] = g
  <2>1. CASE queue'[Current] = c /\ waiting' = {s}
    BY <1>23, <2>1
  <2>2. CASE queue'[Current] = Append(c, g)
    <3>1. Len(c) + 1 \in (Len(c) + 1)..(Len(c) + 1)
      BY <1>23
    <3>2. \A k \in (Len(c) + 1)..(Len(c) + 1) : k = Len(c) + 1
      BY <1>23
    <3>. QED BY <1>23, <2>2, <3>1, <3>2
  <2>. QED BY <1>25, <2>1, <2>2
<1>29. /\ e.at \in 0..(done[Current] + Len(queue'[Current]))
       /\ g.at \in 0..(done[s] + Len(queue'[s]))
  <2>1. e.at \in 0..(done[Current] + Len(queue'[Current]))
    BY <1>9, <1>11, <1>13, <1>14, <1>28
  <2>2. done[s] + Len(queue'[s]) \in Nat
    BY <1>9, <1>11, <1>25, <1>26
  <2>. QED BY <1>27, <2>1, <2>2
<1>30. ASSUME NEW x \in Streams
       PROVE  /\ Len(queue[x]) <= Len(queue'[x])
              /\ \A k \in 1..Len(queue[x]) : queue'[x][k] = queue[x][k]
              /\ \A k \in (Len(queue[x]) + 1)..Len(queue'[x]) :
                   \/ \E y \in Streams : queue'[x][k].wait = y /\ queue'[x][k].at \in 0..(done[y] + Len(queue'[y]))
                   \/ x = s /\ k = Len(queue'[x])
  <2>1. CASE x = s
    <3>1. Len(q) <= Len(Append(p, w))
      BY <1>19, <1>26
    <3>2. Len(queue[x]) <= Len(queue'[x]) /\ \A k \in 1..Len(queue[x]) : queue'[x][k] = queue[x][k]
      BY <1>14, <1>25, <1>26, <2>1, <3>1
    <3>3. ASSUME NEW k \in (Len(queue[x]) + 1)..Len(queue'[x]) PROVE k = Len(queue'[x]) \/ queue'[x][k] = e
      BY <1>14, <1>25, <1>26, <2>1, <3>3
    <3>4. \E y \in Streams : e.wait = y /\ e.at \in 0..(done[y] + Len(queue'[y]))
      BY <1>9, <1>13, <1>29
    <3>. QED BY <2>1, <3>2, <3>3, <3>4
  <2>2. CASE x = Current
    BY <1>9, <1>14, <1>22, <1>28, <1>29, <2>2
  <2>3. CASE x # s /\ x # Current
    BY <1>11, <1>25, <2>3
  <2>. QED BY <2>1, <2>2, <2>3
<1>31. /\ Len(queue[s]) < Len(queue'[s]) /\ queue'[s][Len(queue'[s])] = Work(Here, Holding(f))
       /\ \/ s \in waiting'
          \/ \E k \in (Len(queue[Current]) + 1)..Len(queue'[Current]) :
                /\ queue'[Current][k].wait = s
                /\ queue'[Current][k].at = done[s] + Len(queue'[s])
       /\ Here.name \in Fenced =>
            /\ Len(queue[s]) + 1 < Len(queue'[s])
            /\ queue'[s][Len(queue[s]) + 1].wait = Current
            /\ queue'[s][Len(queue[s]) + 1].at = Put(Current)
  BY <1>10, <1>13, <1>14, <1>22, <1>25, <1>26, <1>27, <1>28
<1>32. Added(f)
  <2>1. waiting' \subseteq Streams
    BY <1>7, <1>8, <1>9
  <2>. QED BY <1>3, <1>9, <1>25, <1>30, <1>31, <2>1 DEF Added
<1>. QED BY <1>5, <1>8, <1>32, CallKeeps DEF Called

(* A stream with nothing left to do has ended all of its work.             *)
LEMMA SynchronizedKeeps == ASSUME StreamsInv, NEW s \in Streams, Synchronized(s) PROVE StreamsInv'
<1>1. ProgramOK /\ StreamsType
  BY DEF StreamsInv
<1>2. PICK log, at, blk : Remembered(log, at, blk)
  BY DEF StreamsInv
<1>3. /\ queue[s] = <<>> /\ waiting' = waiting \ {s}
      /\ (program' = program) /\ (cursor' = cursor) /\ (held' = held) /\ queue' = queue /\ done' = done
      /\ started' = started /\ mem' = mem /\ finished' = finished
  BY DEF Synchronized, device
<1>4. /\ ProgramOK' /\ Made' = Made /\ Numbers' = Numbers /\ Tensors' = Tensors /\ Item' = Item
      /\ \A i : On(i)' = On(i) /\ Exposed(i)' = Exposed(i)
      /\ \A i, t : Returns(i, t)' = Returns(i, t)
      /\ \A t, i, j : Kept(t, i, j)' = Kept(t, i, j)
  BY <1>1, <1>3, CallsKept
<1>5. StreamsType'
  BY <1>1, <1>3, <1>4 DEF StreamsType
<1>6. /\ at \in [Numbers -> Nat] /\ blk \in [Tensors -> Blocks]
      /\ LogsAre(log) /\ WorkAt(log, at, blk) /\ OnlyWork(log, at) /\ InOrder(at)
      /\ Satisfied(log) /\ Joined(log, at) /\ Ordered(log, at)
      /\ HeldOK(blk) /\ Apart(blk) /\ FinishedOK(at) /\ MemOK(at, blk)
  BY <1>2 DEF Remembered
<1>7. /\ \A x : Put(x)' = Put(x)
      /\ \A i : (Ended(at, i)' <=> Ended(at, i)) /\ (Begun(at, i)' <=> Begun(at, i))
  BY <1>3, <1>4 DEF Put, Ended, Begun, UnderWay
<1>8. Joined(log, at)'
  <2>1. ASSUME NEW i \in Made, On(i) = s PROVE Ended(at, i)
    <3>1. at[i] \in 1..Put(s) /\ Put(s) = done[s] + Len(queue[s]) /\ done[s] \in Nat
      BY <1>1, <1>6, <2>1, PutType DEF WorkAt
    <3>2. Len(queue[s]) = 0
      BY <1>3
    <3>. QED BY <2>1, <3>1, <3>2 DEF Ended
  <2>2. ASSUME NEW i \in Made, On(i) # Current
        PROVE  Ended(at, i) \/ On(i) \in waiting' \/ WaitsFor(log, Current, Put(Current), On(i), at[i])
    BY <1>3, <1>6, <2>1, <2>2 DEF Joined
  <2>. QED BY <1>4, <1>7, <2>2 DEF Joined, WaitsFor
<1>9. LogsAre(log)' /\ WorkAt(log, at, blk)' /\ OnlyWork(log, at)' /\ InOrder(at)' /\ Satisfied(log)'
  <2>1. LogsAre(log)' /\ Satisfied(log)' /\ InOrder(at)'
    BY <1>3, <1>4, <1>6 DEF LogsAre, Satisfied, InOrder
  <2>2. WorkAt(log, at, blk)'
    BY <1>3, <1>4, <1>6, <1>7 DEF WorkAt, Work
  <2>3. OnlyWork(log, at)'
    BY <1>4, <1>6, <1>7 DEF OnlyWork
  <2>. QED BY <2>1, <2>2, <2>3
<1>10. Ordered(log, at)'
  BY <1>3, <1>4, <1>6 DEF Ordered, Behind, WaitsFor
<1>11. HeldOK(blk)' /\ Apart(blk)' /\ FinishedOK(at)'
  BY <1>3, <1>4, <1>6, <1>7 DEF HeldOK, Apart, FinishedOK
<1>12. MemOK(at, blk)'
  BY <1>3, <1>4, <1>6, <1>7 DEF MemOK, NoOlder
<1>13. Remembered(log, at, blk)'
  BY <1>4, <1>6, <1>8, <1>9, <1>10, <1>11, <1>12 DEF Remembered
<1>. QED BY <1>4, <1>5, <1>13 DEF StreamsInv

LEMMA StreamsKeep == StreamsInv /\ [NextStreams]_gpu => StreamsInv'
<1>. SUFFICES ASSUME StreamsInv, [NextStreams]_gpu PROVE StreamsInv'
  OBVIOUS
<1>1. CASE Launch
  BY <1>1, LaunchKeeps
<1>2. CASE ToCpu
  BY <1>2, ToCpuKeeps
<1>3. CASE Collective
  BY <1>3, CollectiveKeeps
<1>4. CASE Barrier
  BY <1>4, BarrierKeeps
<1>5. ASSUME NEW s \in Streams, Synchronized(s) PROVE StreamsInv'
  BY <1>5, SynchronizedKeeps
<1>6. ASSUME NEW s \in Streams, Passes(s) PROVE StreamsInv'
  BY <1>6, PassesKeeps
<1>7. ASSUME NEW s \in Streams, Begins(s) PROVE StreamsInv'
  BY <1>7, BeginsKeeps
<1>8. ASSUME NEW s \in Streams, Ends(s) PROVE StreamsInv'
  BY <1>8, EndsKeeps
<1>9. CASE UNCHANGED gpu
  <2>1. /\ program' = program /\ cursor' = cursor /\ waiting' = waiting /\ held' = held /\ queue' = queue
        /\ done' = done /\ started' = started /\ mem' = mem /\ finished' = finished
    BY <1>9 DEF gpu, host, device
  <2>2. ProgramOK /\ StreamsType
    BY DEF StreamsInv
  <2>3. PICK log, at, blk : Remembered(log, at, blk)
    BY DEF StreamsInv
  <2>4. /\ Made' = Made /\ Tensors' = Tensors /\ Item' = Item
        /\ \A i : On(i)' = On(i) /\ Exposed(i)' = Exposed(i)
        /\ \A i, t : Returns(i, t)' = Returns(i, t)
    BY <2>1, <2>2, CallsKept
  <2>5. /\ \A x \in Streams : done[x] <= done'[x] /\ Put(x)' = Put(x)
        /\ \A i : (Ended(at, i)' <=> Ended(at, i)) /\ (Begun(at, i)' <=> Begun(at, i))
    BY <2>1, <2>2, <2>4, PutType DEF Put, Ended, Begun, UnderWay
  <2>6. StreamsType'
    BY <2>1, <2>2, <2>4 DEF StreamsType
  <2>7. LogsAre(log) /\ Satisfied(log) /\ FinishedOK(at) /\ MemOK(at, blk)
    BY <2>3 DEF Remembered
  <2>8. LogsAre(log)' /\ Satisfied(log)' /\ FinishedOK(at)'
    BY <2>1, <2>4, <2>5, <2>7 DEF LogsAre, Satisfied, FinishedOK
  <2>9. MemOK(at, blk)'
    BY <2>1, <2>4, <2>5, <2>7 DEF MemOK, NoOlder
  <2>. QED BY <1>9, <2>1, <2>2, <2>3, <2>5, <2>6, <2>8, <2>9, DeviceKeeps DEF gpu
<1>. QED BY <1>1, <1>2, <1>3, <1>4, <1>5, <1>6, <1>7, <1>8, <1>9 DEF NextStreams, Host, Device

(* Where the schedule has each micro-batch go forward and backward.        *)
FwdAt(s, m) == IF m < Warmup(s) THEN m + 1 ELSE 2 * m - Warmup(s) + 1
BwdAt(s, m) == IF m < M - Warmup(s) THEN Warmup(s) + 2 * m + 2 ELSE M + m + 1

LEMMA ScheduleAt ==
    ASSUME NEW s \in Stages, NEW k \in 1..(2 * M)
    PROVE  \E m \in 0..(M - 1) : \/ Schedule(s)[k] = Fwd(m) /\ k = FwdAt(s, m)
                                 \/ Schedule(s)[k] = Bwd(m) /\ k = BwdAt(s, m)
<1>1. PICK w \in 0..M : w = Warmup(s)
  BY WarmupType
<1>2. M \in Nat \ {0}
  BY Parameters
<1>3. Schedule(s)[k] = IF k <= w THEN Fwd(k - 1)
                       ELSE IF k <= w + 2 * (M - w)
                            THEN IF (k - w) % 2 = 1
                                 THEN Fwd(w + (k - w) \div 2)
                                 ELSE Bwd((k - w) \div 2 - 1)
                            ELSE Bwd(k - M - 1)
  BY <1>1 DEF Schedule
<1>4. \A m : /\ FwdAt(s, m) = IF m < w THEN m + 1 ELSE 2 * m - w + 1
             /\ BwdAt(s, m) = IF m < M - w THEN w + 2 * m + 2 ELSE M + m + 1
  BY <1>1 DEF FwdAt, BwdAt
<1>5. CASE k <= w
  <2>1. k - 1 \in 0..(M - 1) /\ k - 1 < w /\ Schedule(s)[k] = Fwd(k - 1)
    BY <1>1, <1>2, <1>3, <1>5
  <2>. QED BY <1>1, <1>2, <1>4, <2>1
<1>6. CASE k > w /\ k <= w + 2 * (M - w)
  <2>1. PICK j \in 0..M : k - w = 2 * j \/ k - w = 2 * j + 1
    <3>. DEFINE h == (k - w) \div 2
    <3>1. h \in 0..M /\ (k - w = 2 * h \/ k - w = 2 * h + 1)
      BY <1>1, <1>2, <1>6
    <3>. QED BY <3>1
  <2>2. CASE k - w = 2 * j
    <3>1. (k - w) % 2 = 0 /\ (k - w) \div 2 = j /\ j >= 1 /\ j <= M - w
      BY <1>1, <1>2, <1>6, <2>2
    <3>2. Schedule(s)[k] = Bwd(j - 1)
      BY <1>1, <1>2, <1>3, <1>6, <3>1
    <3>3. j - 1 \in 0..(M - 1) /\ j - 1 < M - w /\ w + 2 * (j - 1) + 2 = k
      BY <1>1, <1>2, <2>2, <3>1
    <3>. QED BY <1>4, <3>2, <3>3
  <2>3. CASE k - w = 2 * j + 1
    <3>1. (k - w) % 2 = 1 /\ (k - w) \div 2 = j /\ j < M - w
      <4>1. 2 * j + 1 <= 2 * (M - w)
        BY <1>1, <1>2, <1>6, <2>3
      <4>2. j < M - w
        BY <1>1, <1>2, <4>1
      <4>3. (k - w) % 2 = 1 /\ (k - w) \div 2 = j
        BY <2>3
      <4>. QED BY <4>2, <4>3
    <3>2. Schedule(s)[k] = Fwd(w + j)
      BY <1>1, <1>2, <1>3, <1>6, <3>1
    <3>3. w + j \in 0..(M - 1) /\ ~(w + j < w) /\ 2 * (w + j) - w + 1 = k
      BY <1>1, <1>2, <2>3, <3>1
    <3>. QED BY <1>4, <3>2, <3>3
  <2>. QED BY <2>1, <2>2, <2>3
<1>7. CASE k > w + 2 * (M - w)
  <2>1. Schedule(s)[k] = Bwd(k - M - 1)
    BY <1>1, <1>2, <1>3, <1>7
  <2>2. k - M - 1 \in 0..(M - 1) /\ ~(k - M - 1 < M - w) /\ M + (k - M - 1) + 1 = k
    BY <1>1, <1>2, <1>7
  <2>. QED BY <1>4, <2>1, <2>2
<1>. QED BY <1>1, <1>2, <1>5, <1>6, <1>7

LEMMA PlacesIn ==
    ASSUME NEW s \in Stages, NEW m \in 0..(M - 1)
    PROVE  FwdAt(s, m) \in 1..(2 * M) /\ BwdAt(s, m) \in 1..(2 * M) /\ FwdAt(s, m) < BwdAt(s, m)
<1>1. PICK w \in 0..M : w = Warmup(s)
  BY WarmupType
<1>2. M \in Nat \ {0}
  BY Parameters
<1>3. /\ FwdAt(s, m) = IF m < w THEN m + 1 ELSE 2 * m - w + 1
      /\ BwdAt(s, m) = IF m < M - w THEN w + 2 * m + 2 ELSE M + m + 1
  BY <1>1 DEF FwdAt, BwdAt
<1>. QED BY <1>1, <1>2, <1>3

LEMMA PlacesAre ==
    ASSUME NEW s \in Stages, NEW m \in 0..(M - 1)
    PROVE  Schedule(s)[FwdAt(s, m)] = Fwd(m) /\ Schedule(s)[BwdAt(s, m)] = Bwd(m)
<1>1. PICK w \in 0..M : w = Warmup(s)
  BY WarmupType
<1>2. M \in Nat \ {0}
  BY Parameters
<1>3. /\ FwdAt(s, m) = IF m < w THEN m + 1 ELSE 2 * m - w + 1
      /\ BwdAt(s, m) = IF m < M - w THEN w + 2 * m + 2 ELSE M + m + 1
  BY <1>1 DEF FwdAt, BwdAt
<1>4. \A k \in 1..(2 * M) :
        Schedule(s)[k] = IF k <= w THEN Fwd(k - 1)
                         ELSE IF k <= w + 2 * (M - w)
                              THEN IF (k - w) % 2 = 1
                                   THEN Fwd(w + (k - w) \div 2)
                                   ELSE Bwd((k - w) \div 2 - 1)
                              ELSE Bwd(k - M - 1)
  BY <1>1 DEF Schedule
<1>5. Schedule(s)[FwdAt(s, m)] = Fwd(m)
  <2>1. CASE m < w
    BY <1>1, <1>2, <1>3, <1>4, <2>1
  <2>2. CASE ~(m < w)
    <3>1. PICK k : k = 2 * m - w + 1
      OBVIOUS
    <3>2. k \in 1..(2 * M) /\ ~(k <= w) /\ k <= w + 2 * (M - w) /\ k - w = 2 * (m - w) + 1
      BY <1>1, <1>2, <2>2, <3>1
    <3>3. (k - w) % 2 = 1 /\ (k - w) \div 2 = m - w /\ w + (m - w) = m
      BY <1>1, <1>2, <2>2, <3>2
    <3>. QED BY <1>3, <1>4, <2>2, <3>1, <3>2, <3>3
  <2>. QED BY <2>1, <2>2
<1>6. Schedule(s)[BwdAt(s, m)] = Bwd(m)
  <2>1. CASE m < M - w
    <3>1. PICK k : k = w + 2 * m + 2
      OBVIOUS
    <3>2. k \in 1..(2 * M) /\ ~(k <= w) /\ k <= w + 2 * (M - w) /\ k - w = 2 * (m + 1)
      BY <1>1, <1>2, <2>1, <3>1
    <3>3. (k - w) % 2 = 0 /\ (k - w) \div 2 = m + 1 /\ (m + 1) - 1 = m
      BY <1>1, <1>2, <3>2
    <3>. QED BY <1>3, <1>4, <2>1, <3>1, <3>2, <3>3
  <2>2. CASE ~(m < M - w)
    <3>1. PICK k : k = M + m + 1
      OBVIOUS
    <3>2. k \in 1..(2 * M) /\ ~(k <= w) /\ ~(k <= w + 2 * (M - w)) /\ k - M - 1 = m
      BY <1>1, <1>2, <2>2, <3>1
    <3>. QED BY <1>3, <1>4, <2>2, <3>1, <3>2
  <2>. QED BY <2>1, <2>2
<1>. QED BY <1>5, <1>6

(* A program is well formed if every tensor has a call that returns it and *)
(* one up to which the host holds it.                                      *)
WellPlaced(home, gone, i) ==
    /\ CallOK(program[i])
    /\ \A t \in program[i].returns : home[t] = i
    /\ \A t \in program[i].drops : gone[t] <= i
    /\ \A t \in program[i].reads :
          home[t] \in 1..(i - 1) /\ t \in program[home[t]].returns /\ gone[t] \in Nat /\ i <= gone[t]
AllPlaced(home, gone) == \A i \in Numbers : WellPlaced(home, gone, i)
OneCommunicator ==
    \A i \in Numbers : \A j \in 1..(i - 1) :
       program[i].name \in Unfenced /\ program[j].on # Current => program[j].on = program[i].on

LEMMA HomesMakeProgram ==
    ASSUME Len(program) \in Nat, DOMAIN program = Numbers, OneCommunicator,
           NEW home, NEW gone, AllPlaced(home, gone)
    PROVE  ProgramOK
<1>0. /\ \A i \in Numbers : CallOK(program[i])
      /\ \A i \in Numbers : \A t \in program[i].returns : home[t] = i
      /\ \A i \in Numbers : \A t \in program[i].drops : gone[t] <= i
      /\ \A i \in Numbers : \A t \in program[i].reads :
            home[t] \in 1..(i - 1) /\ t \in program[home[t]].returns /\ gone[t] \in Nat /\ i <= gone[t]
  BY DEF AllPlaced, WellPlaced
<1>1. ASSUME NEW i \in Numbers, NEW t \in program[i].reads
      PROVE  \E w \in 1..(i - 1) : Returns(w, t) /\ Kept(t, w, i)
  <2>1. PICK w, g \in Nat : w = home[t] /\ g = gone[t] /\ w \in 1..(i - 1) /\ t \in program[w].returns /\ i <= g
    BY <1>0
  <2>2. ASSUME NEW d \in w..(i - 1), t \in program[d].drops PROVE FALSE
    <3>1. d \in Numbers /\ d \in Nat /\ i \in Nat /\ d < i
      BY <2>1 DEF Numbers
    <3>2. g <= d
      BY <1>0, <2>1, <2>2, <3>1
    <3>. QED BY <2>1, <3>1, <3>2
  <2>. QED BY <2>1, <2>2 DEF Returns, Kept
<1>2. ASSUME NEW i \in Numbers, NEW j \in Numbers, NEW t, Returns(i, t), Returns(j, t) PROVE i = j
  BY <1>0, <1>2 DEF Returns
<1>. QED BY <1>0, <1>1, <1>2 DEF ProgramOK, OneCommunicator

(* A micro-batch's calls, forward and backward, and those of a stage up to *)
(* the k-th entry of its schedule.                                         *)
ForwardSize(s) == IF IsLast(s) THEN 2 ELSE 3
BackwardSize(s) == IF IsFirst(s) THEN 2 ELSE 3
CallsUpTo(s, k) == ForwardSize(s) * FC(s, k) + BackwardSize(s) * BC(s, k)
EntryCalls(s, entry) == IF entry.op = "forward" THEN ForwardCalls(s, entry.mb) ELSE BackwardCalls(s, entry.mb)
EntrySize(s, entry) == IF entry.op = "forward" THEN ForwardSize(s) ELSE BackwardSize(s)

LEMMA ForwardAre ==
    ASSUME NEW s, NEW m, NEW p, p = ForwardCalls(s, m)
    PROVE  /\ IsList(p) /\ Len(p) = ForwardSize(s)
           /\ p[1] = IF IsFirst(s) THEN Kernel({}, {In(m)}, {}) ELSE Call("recv_like", "full", {}, {In(m)}, {})
           /\ p[2] = Kernel({In(m)}, {Out(m)}, {})
           /\ ~IsLast(s) => p[3] = Call("send", "full", {Out(m)}, {}, {})
<1>1. PICK a, b, c : /\ a = IF IsFirst(s) THEN Kernel({}, {In(m)}, {}) ELSE Call("recv_like", "full", {}, {In(m)}, {})
                     /\ b = Kernel({In(m)}, {Out(m)}, {})
                     /\ c = Call("send", "full", {Out(m)}, {}, {})
  OBVIOUS
<1>2. p = <<a, b>> \o IF IsLast(s) THEN <<>> ELSE <<c>>
  BY <1>1 DEF ForwardCalls
<1>3. CASE IsLast(s)
  <2>1. p = <<a, b>> \o <<>>
    BY <1>2, <1>3
  <2>2. p \in Seq({a, b})
    BY <2>1
  <2>3. Len(p) = 2 /\ p[1] = a /\ p[2] = b
    BY <2>1
  <2>. QED BY <1>1, <1>3, <2>2, <2>3 DEF ForwardSize, IsList
<1>4. CASE ~IsLast(s)
  <2>1. p = <<a, b>> \o <<c>>
    BY <1>2, <1>4
  <2>2. p \in Seq({a, b, c})
    BY <2>1
  <2>3. Len(p) = 3 /\ p[1] = a /\ p[2] = b /\ p[3] = c
    BY <2>1
  <2>. QED BY <1>1, <1>4, <2>2, <2>3 DEF ForwardSize, IsList
<1>. QED BY <1>3, <1>4

(* The tensors of a micro-batch, and the calls of its backward pass.       *)
BatchTensors(m) == {In(m), InGrad(m), Out(m), OutGrad(m)}

LEMMA BackwardAre ==
    ASSUME NEW s, NEW m, NEW p, p = BackwardCalls(s, m)
    PROVE  /\ IsList(p) /\ Len(p) = BackwardSize(s)
           /\ p[1] = IF IsLast(s) THEN Kernel({Out(m)}, {OutGrad(m)}, {})
                     ELSE Call("recv_like", "full", {}, {OutGrad(m)}, {})
           /\ p[2] = Kernel({In(m), Out(m), OutGrad(m)}, {InGrad(m)},
                            IF IsFirst(s) THEN BatchTensors(m) ELSE {OutGrad(m)})
           /\ ~IsFirst(s) => p[3] = Call("send", "full", {InGrad(m)}, {}, BatchTensors(m) \ {OutGrad(m)})
<1>1. PICK a, b, c, d :
        /\ a = IF IsLast(s) THEN Kernel({Out(m)}, {OutGrad(m)}, {}) ELSE Call("recv_like", "full", {}, {OutGrad(m)}, {})
        /\ b = Kernel({In(m), Out(m), OutGrad(m)}, {InGrad(m)}, BatchTensors(m))
        /\ c = Kernel({In(m), Out(m), OutGrad(m)}, {InGrad(m)}, {OutGrad(m)})
        /\ d = Call("send", "full", {InGrad(m)}, {}, BatchTensors(m) \ {OutGrad(m)})
  OBVIOUS
<1>2. p = <<a>> \o IF IsFirst(s) THEN <<b>> ELSE <<c, d>>
  BY <1>1 DEF BackwardCalls, BatchTensors
<1>3. CASE IsFirst(s)
  <2>1. p = <<a>> \o <<b>>
    BY <1>2, <1>3
  <2>2. p \in Seq({a, b})
    BY <2>1
  <2>3. Len(p) = 2 /\ p[1] = a /\ p[2] = b
    BY <2>1
  <2>. QED BY <1>1, <1>3, <2>2, <2>3 DEF BackwardSize, IsList
<1>4. CASE ~IsFirst(s)
  <2>1. p = <<a>> \o <<c, d>>
    BY <1>2, <1>4
  <2>2. p \in Seq({a, c, d})
    BY <2>1
  <2>3. Len(p) = 3 /\ p[1] = a /\ p[2] = c /\ p[3] = d
    BY <2>1
  <2>. QED BY <1>1, <1>4, <2>2, <2>3 DEF BackwardSize, IsList
<1>. QED BY <1>3, <1>4

(* The calls of the k-th entry start after those of the first k - 1.       *)
LEMMA CallsLaid ==
    ASSUME NEW s \in Stages, NEW seqs, seqs = [k \in 1..(2 * M) |-> EntryCalls(s, Schedule(s)[k])],
           NEW f, f = [k \in 0..(2 * M) |-> CallsUpTo(s, k)],
           NEW sizes, sizes = [k \in 1..(2 * M) |-> EntrySize(s, Schedule(s)[k])]
    PROVE  Parts(seqs, sizes) /\ Sums(f, sizes) /\ Len(sizes) = 2 * M /\ Laid(FlattenSeq(seqs), seqs, f, 2 * M)
<1>1. M \in Nat \ {0} /\ 2 * M \in Nat /\ ForwardSize(s) \in Nat /\ BackwardSize(s) \in Nat
  BY Parameters DEF ForwardSize, BackwardSize
<1>2. ASSUME NEW k \in 1..(2 * M)
      PROVE  EntrySize(s, Schedule(s)[k]) \in Nat /\ f[k] = f[k - 1] + EntrySize(s, Schedule(s)[k])
  <2>1. PICK j \in 0..(2 * M - 1) : j = k - 1 /\ j + 1 = k
    BY <1>1
  <2>2. f[k] = CallsUpTo(s, j + 1) /\ f[k - 1] = CallsUpTo(s, j)
    BY <1>1, <2>1
  <2>3. FC(s, j) \in 0..M /\ BC(s, j) \in 0..M
    BY Counting
  <2>4. CASE Schedule(s)[k] = Fwd(FC(s, j)) /\ FC(s, k) = FC(s, j) + 1 /\ BC(s, k) = BC(s, j)
    <3>1. EntrySize(s, Schedule(s)[k]) = ForwardSize(s)
      BY <2>4 DEF EntrySize, Fwd
    <3>2. PICK a, b, x, y :
            /\ a = ForwardSize(s) /\ b = BackwardSize(s) /\ x = FC(s, j) /\ y = BC(s, j)
            /\ (a = 2 \/ a = 3) /\ (b = 2 \/ b = 3) /\ x \in Nat /\ y \in Nat
      BY <2>3 DEF ForwardSize, BackwardSize
    <3>3. f[k - 1] = a * x + b * y /\ f[k] = a * (x + 1) + b * y
      BY <2>1, <2>2, <2>4, <3>2 DEF CallsUpTo
    <3>4. a * (x + 1) + b * y = a * x + b * y + a
      <4>1. CASE a = 2 /\ b = 2
        BY <3>2, <4>1
      <4>2. CASE a = 2 /\ b = 3
        BY <3>2, <4>2
      <4>3. CASE a = 3 /\ b = 2
        BY <3>2, <4>3
      <4>4. CASE a = 3 /\ b = 3
        BY <3>2, <4>4
      <4>. QED BY <3>2, <4>1, <4>2, <4>3, <4>4
    <3>5. f[k] = f[k - 1] + a
      BY <3>3, <3>4, Zenon
    <3>. QED BY <3>1, <3>2, <3>5
  <2>5. CASE Schedule(s)[k] = Bwd(BC(s, j)) /\ FC(s, k) = FC(s, j) /\ BC(s, k) = BC(s, j) + 1
    <3>1. EntrySize(s, Schedule(s)[k]) = BackwardSize(s)
      BY <2>5 DEF EntrySize, Bwd
    <3>2. PICK a, b, x, y :
            /\ a = ForwardSize(s) /\ b = BackwardSize(s) /\ x = FC(s, j) /\ y = BC(s, j)
            /\ (a = 2 \/ a = 3) /\ (b = 2 \/ b = 3) /\ x \in Nat /\ y \in Nat
      BY <2>3 DEF ForwardSize, BackwardSize
    <3>3. f[k - 1] = a * x + b * y /\ f[k] = a * x + b * (y + 1)
      BY <2>1, <2>2, <2>5, <3>2 DEF CallsUpTo
    <3>4. a * x + b * (y + 1) = a * x + b * y + b
      <4>1. CASE a = 2 /\ b = 2
        BY <3>2, <4>1
      <4>2. CASE a = 2 /\ b = 3
        BY <3>2, <4>2
      <4>3. CASE a = 3 /\ b = 2
        BY <3>2, <4>3
      <4>4. CASE a = 3 /\ b = 3
        BY <3>2, <4>4
      <4>. QED BY <3>2, <4>1, <4>2, <4>3, <4>4
    <3>5. f[k] = f[k - 1] + b
      BY <3>3, <3>4, Zenon
    <3>. QED BY <3>1, <3>2, <3>5
  <2>. QED BY <2>1, <2>4, <2>5, Counting
<1>3. sizes \in Seq(Nat) /\ Len(sizes) = 2 * M
  <2>1. PICK n \in Nat : n = 2 * M
    BY <1>1
  <2>2. sizes \in [1..n -> Nat]
    BY <1>2, <2>1
  <2>. QED BY <2>1, <2>2
<1>4. ASSUME NEW k \in 0..(2 * M) PROVE f[k] \in Nat
  <2>1. FC(s, k) \in Nat /\ BC(s, k) \in Nat
    <3>1. CASE k = 2 * M
      BY <1>1, <3>1, CountEnds
    <3>2. CASE k # 2 * M
      <4>1. k \in 0..(2 * M - 1)
        BY <1>1, <3>2
      <4>. QED BY <4>1, Counting
    <3>. QED BY <3>1, <3>2
  <2>. QED BY <1>1, <2>1 DEF CallsUpTo, ForwardSize, BackwardSize
<1>5. f[0] = 0
  BY <1>1, CountEnds DEF CallsUpTo, ForwardSize, BackwardSize
<1>6. Sums(f, sizes)
  <2>1. \A k \in 1..Len(sizes) : f[k] = f[k - 1] + sizes[k]
    BY <1>2, <1>3
  <2>. QED BY <1>3, <1>4, <1>5, <2>1 DEF Sums
<1>7. ASSUME NEW k \in 1..(2 * M) PROVE IsList(seqs[k]) /\ Len(seqs[k]) = sizes[k]
  <2>1. PICK e : e = Schedule(s)[k] /\ seqs[k] = EntryCalls(s, e) /\ sizes[k] = EntrySize(s, e)
    OBVIOUS
  <2>. QED BY <2>1, ForwardAre, BackwardAre DEF EntryCalls, EntrySize
<1>8. Parts(seqs, sizes)
  <2>1. IsList(seqs) /\ Len(seqs) = 2 * M
    BY <1>1, ListOf
  <2>. QED BY <1>3, <1>7, <2>1 DEF Parts
<1>. QED BY <1>3, <1>6, <1>8, FlattenAt

(* Where the calls of every micro-batch are in the program of a stage.     *)
Places(s, P, fs, bs, total) ==
    /\ total \in Nat /\ IsList(P) /\ Len(P) = total + 4
    /\ \A m \in 0..(M - 1) :
          /\ fs[m] \in Nat /\ bs[m] \in Nat
          /\ fs[m] + ForwardSize(s) <= bs[m] /\ bs[m] + BackwardSize(s) <= total
          /\ \A q \in 1..ForwardSize(s) : P[fs[m] + q] = ForwardCalls(s, m)[q]
          /\ \A q \in 1..BackwardSize(s) : P[bs[m] + q] = BackwardCalls(s, m)[q]
    /\ \A i \in 1..total : \E m \in 0..(M - 1) : \/ \E q \in 1..ForwardSize(s) : i = fs[m] + q
                                             \/ \E q \in 1..BackwardSize(s) : i = bs[m] + q
    /\ P[total + 1] = SyncCalls[1] /\ P[total + 2] = SyncCalls[2] /\ P[total + 3] = SyncCalls[3]
    /\ P[total + 4] = Call("to_cpu", Current, {}, {}, {})

LEMMA GradientPlaces ==
    ASSUME NEW s \in Stages, NEW P, P = GradientCalls(s)
    PROVE  \E fs, bs, total : Places(s, P, fs, bs, total)
<1>1. PICK seqs, f, sizes :
        /\ seqs = [k \in 1..(2 * M) |-> EntryCalls(s, Schedule(s)[k])]
        /\ f = [k \in 0..(2 * M) |-> CallsUpTo(s, k)]
        /\ sizes = [k \in 1..(2 * M) |-> EntrySize(s, Schedule(s)[k])]
  OBVIOUS
<1>2. Parts(seqs, sizes) /\ Sums(f, sizes) /\ Len(sizes) = 2 * M /\ Laid(FlattenSeq(seqs), seqs, f, 2 * M)
  BY <1>1, CallsLaid
<1>3. PICK n, all, total : n = 2 * M /\ all = FlattenSeq(seqs) /\ total = f[n]
  OBVIOUS
<1>. n \in Nat /\ total \in Nat
  BY <1>2, <1>3, Parameters DEF Sums
<1>4. sizes \in Seq(Nat) /\ Len(sizes) = n
  BY <1>2, <1>3 DEF Parts
<1>5. IsList(all) /\ Len(all) = total /\ \A i \in 1..n : \A k \in 1..Len(seqs[i]) : all[f[i - 1] + k] = seqs[i][k]
  BY <1>2, <1>3 DEF Laid
<1>6. \A k \in 0..n : f[k] \in Nat
  BY <1>2, <1>4 DEF Sums
<1>7. \A k \in 1..n : f[k] = f[k - 1] + sizes[k] /\ Len(seqs[k]) = sizes[k]
  BY <1>2, <1>4 DEF Sums, Parts
<1>8. \A j \in 0..n : \A i \in 0..j : f[i] <= f[j]
  BY <1>2, <1>4, SumsGrow
<1>. DEFINE fs == [m \in 0..(M - 1) |-> f[FwdAt(s, m) - 1]]
            bs == [m \in 0..(M - 1) |-> f[BwdAt(s, m) - 1]]
<1>9. P = (all \o SyncCalls) \o << Call("to_cpu", Current, {}, {}, {}) >>
  <2>1. GradientCalls(s) = FlattenSeq([k \in 1..(2 * M) |-> EntryCalls(s, Schedule(s)[k])])
                             \o SyncCalls \o << Call("to_cpu", Current, {}, {}, {}) >>
    BY DEF GradientCalls, EntryCalls
  <2>. QED BY <1>1, <1>3, <2>1
<1>10. /\ IsList(P) /\ Len(P) = total + 4
       /\ \A i \in 1..total : P[i] = all[i]
       /\ P[total + 1] = SyncCalls[1] /\ P[total + 2] = SyncCalls[2] /\ P[total + 3] = SyncCalls[3]
       /\ P[total + 4] = Call("to_cpu", Current, {}, {}, {})
  <2>1. PICK x, y, z : x = SyncCalls /\ y = Call("to_cpu", Current, {}, {}, {}) /\ z = all \o x /\ P = z \o <<y>>
    BY <1>9
  <2>2. IsList(x) /\ Len(x) = 3
    <3>1. PICK a, b, c : x = <<a, b, c>>
      BY <2>1 DEF SyncCalls
    <3>2. x \in Seq({a, b, c}) /\ Len(x) = 3
      BY <3>1
    <3>. QED BY <3>2 DEF IsList
  <2>3. /\ IsList(z) /\ Len(z) = total + 3
        /\ \A i \in 1..total : z[i] = all[i]
        /\ \A i \in 1..3 : z[total + i] = x[i]
    <3>1. IsList(all) /\ IsList(x) /\ z = all \o x
      BY <1>5, <2>1, <2>2
    <3>2. /\ IsList(z) /\ Len(z) = Len(all) + Len(x)
          /\ \A i \in 1..Len(all) : z[i] = all[i]
          /\ \A i \in 1..Len(x) : z[Len(all) + i] = x[i]
      BY <3>1, Concat
    <3>. QED BY <1>5, <2>2, <3>2
  <2>4. PICK w : w = <<y>> /\ P = z \o w
    BY <2>1
  <2>5. IsList(w) /\ Len(w) = 1 /\ w[1] = y
    <3>1. w \in Seq({y}) /\ Len(w) = 1 /\ w[1] = y
      BY <2>4
    <3>. QED BY <3>1 DEF IsList
  <2>6. /\ IsList(P) /\ Len(P) = Len(z) + Len(w)
        /\ \A i \in 1..Len(z) : P[i] = z[i]
        /\ \A i \in 1..Len(w) : P[Len(z) + i] = w[i]
    BY <2>3, <2>4, <2>5, Concat
  <2>7. IsList(P) /\ Len(P) = total + 4 /\ P[total + 4] = y
    <3>1. 1 \in 1..Len(w) /\ Len(z) + 1 = total + 4 /\ Len(z) + Len(w) = total + 4
      BY <2>3, <2>5
    <3>. QED BY <2>5, <2>6, <3>1
  <2>8. \A i \in 1..(total + 3) : P[i] = z[i]
    BY <2>3, <2>6
  <2>9. /\ total + 1 \in 1..(total + 3) /\ total + 2 \in 1..(total + 3) /\ total + 3 \in 1..(total + 3)
        /\ z[total + 1] = x[1] /\ z[total + 2] = x[2] /\ z[total + 3] = x[3]
    BY <2>3
  <2>10. \A i \in 1..total : P[i] = all[i]
    BY <2>3, <2>8
  <2>. QED BY <2>1, <2>7, <2>8, <2>9, <2>10
<1>11. ASSUME NEW k \in 1..n
       PROVE  \A q \in 1..sizes[k] : P[f[k - 1] + q] = EntryCalls(s, Schedule(s)[k])[q]
  <2>. SUFFICES ASSUME NEW q \in 1..sizes[k] PROVE P[f[k - 1] + q] = EntryCalls(s, Schedule(s)[k])[q]
    OBVIOUS
  <2>1. PICK b \in Nat, e \in Nat, z \in Nat : b = f[k - 1] /\ e = f[k] /\ z = sizes[k] /\ e = b + z /\ e <= total
    <3>1. k - 1 \in 0..n /\ k \in 0..n /\ n \in 0..n /\ k \in 0..n
      OBVIOUS
    <3>2. sizes[k] \in Nat
      BY <1>4
    <3>. QED BY <1>3, <1>6, <1>7, <1>8, <3>1, <3>2
  <2>2. b + q \in 1..total
    BY <2>1
  <2>3. P[b + q] = all[b + q]
    BY <1>10, <2>2
  <2>4. all[b + q] = seqs[k][q]
    BY <1>5, <1>7, <2>1
  <2>5. seqs[k] = EntryCalls(s, Schedule(s)[k])
    BY <1>1, <1>3
  <2>. QED BY <2>1, <2>3, <2>4, <2>5
<1>12. ASSUME NEW m \in 0..(M - 1)
       PROVE  /\ fs[m] \in Nat /\ bs[m] \in Nat
              /\ fs[m] + ForwardSize(s) <= bs[m] /\ bs[m] + BackwardSize(s) <= total
              /\ \A q \in 1..ForwardSize(s) : P[fs[m] + q] = ForwardCalls(s, m)[q]
              /\ \A q \in 1..BackwardSize(s) : P[bs[m] + q] = BackwardCalls(s, m)[q]
  <2>1. PICK k \in 1..n, j \in 1..n : k = FwdAt(s, m) /\ j = BwdAt(s, m) /\ k < j
    BY <1>3, PlacesIn
  <2>2. Schedule(s)[k] = Fwd(m) /\ Schedule(s)[j] = Bwd(m)
    BY <2>1, PlacesAre
  <2>3. /\ EntryCalls(s, Schedule(s)[k]) = ForwardCalls(s, m) /\ sizes[k] = ForwardSize(s)
        /\ EntryCalls(s, Schedule(s)[j]) = BackwardCalls(s, m) /\ sizes[j] = BackwardSize(s)
    BY <1>1, <1>3, <2>2 DEF EntryCalls, EntrySize, Fwd, Bwd
  <2>4. fs[m] = f[k - 1] /\ bs[m] = f[j - 1]
    BY <2>1
  <2>. HIDE DEF fs, bs
  <2>5. k - 1 \in 0..n /\ j - 1 \in 0..n /\ k \in 0..(j - 1) /\ j \in 0..n /\ n \in 0..n
    BY <2>1
  <2>6. f[k] = f[k - 1] + sizes[k] /\ f[j] = f[j - 1] + sizes[j] /\ f[k] <= f[j - 1] /\ f[j] <= total
    BY <1>3, <1>7, <1>8, <2>5
  <2>7. fs[m] \in Nat /\ bs[m] \in Nat
    BY <1>6, <2>4, <2>5
  <2>8. fs[m] + ForwardSize(s) <= bs[m] /\ bs[m] + BackwardSize(s) <= total
    BY <2>3, <2>4, <2>6
  <2>. QED BY <1>11, <2>3, <2>4, <2>7, <2>8
<1>13. ASSUME NEW i \in 1..total
       PROVE  \E m \in 0..(M - 1) : \/ \E q \in 1..ForwardSize(s) : i = fs[m] + q
                                    \/ \E q \in 1..BackwardSize(s) : i = bs[m] + q
  <2>1. PICK k \in 1..n : f[k - 1] < i /\ i <= f[k]
    BY <1>2, <1>3, <1>4, SumsCover DEF Covers
  <2>2. PICK m \in 0..(M - 1) : \/ Schedule(s)[k] = Fwd(m) /\ k = FwdAt(s, m)
                                \/ Schedule(s)[k] = Bwd(m) /\ k = BwdAt(s, m)
    BY <1>3, ScheduleAt
  <2>3. PICK b \in Nat, z \in Nat, q \in Nat : b = f[k - 1] /\ z = sizes[k] /\ q = i - b /\ q \in 1..z /\ i = b + q
    <3>1. f[k - 1] \in Nat /\ sizes[k] \in Nat /\ f[k] = f[k - 1] + sizes[k]
      BY <1>4, <1>6, <1>7
    <3>. QED BY <2>1, <3>1
  <2>4. CASE Schedule(s)[k] = Fwd(m) /\ k = FwdAt(s, m)
    <3>1. fs[m] = b /\ z = ForwardSize(s)
      BY <1>1, <1>3, <2>3, <2>4 DEF EntrySize, Fwd
    <3>. QED BY <2>3, <3>1
  <2>5. CASE Schedule(s)[k] = Bwd(m) /\ k = BwdAt(s, m)
    <3>1. bs[m] = b /\ z = BackwardSize(s)
      BY <1>1, <1>3, <2>3, <2>5 DEF EntrySize, Bwd
    <3>. QED BY <2>3, <3>1
  <2>. QED BY <2>2, <2>4, <2>5
<1>14. Places(s, P, fs, bs, total)
  <2>. HIDE DEF fs, bs
  <2>. QED BY <1>3, <1>10, <1>12, <1>13 DEF Places
<1>. QED BY <1>14

(* What the six kinds of tensors are for: where one is returned, and where *)
(* the host drops it.                                                      *)
GradTensors ==
    [kind : {"stage_input", "stage_output", "grad", "stage_input.grad", "flat", "synced"}, n : 0..(M - 1)]
GradHome(fs, bs, total) ==
    [t \in GradTensors |->
        IF t.kind = "stage_input" THEN fs[t.n] + 1
        ELSE IF t.kind = "stage_output" THEN fs[t.n] + 2
        ELSE IF t.kind = "grad" THEN bs[t.n] + 1
        ELSE IF t.kind = "stage_input.grad" THEN bs[t.n] + 2
        ELSE IF t.kind = "flat" THEN total + 1 ELSE total + 2]
GradGone(s, bs, total) ==
    [t \in GradTensors |->
        IF t.kind \in {"stage_input", "stage_output", "stage_input.grad"} THEN bs[t.n] + BackwardSize(s)
        ELSE IF t.kind = "grad" THEN bs[t.n] + 2 ELSE total + 3]

LEMMA GradHomes ==
    ASSUME NEW s \in Stages, NEW fs, NEW bs, NEW total, NEW home, home = GradHome(fs, bs, total),
           NEW gone, gone = GradGone(s, bs, total), NEW m \in 0..(M - 1)
    PROVE  /\ home[In(m)] = fs[m] + 1 /\ home[Out(m)] = fs[m] + 2
           /\ home[OutGrad(m)] = bs[m] + 1 /\ home[InGrad(m)] = bs[m] + 2
           /\ gone[In(m)] = bs[m] + BackwardSize(s) /\ gone[Out(m)] = bs[m] + BackwardSize(s)
           /\ gone[InGrad(m)] = bs[m] + BackwardSize(s) /\ gone[OutGrad(m)] = bs[m] + 2
<1>1. ASSUME NEW kind \in {"stage_input", "stage_output", "grad", "stage_input.grad"}
      PROVE  Tensor(kind, m) \in GradTensors /\ Tensor(kind, m).kind = kind /\ Tensor(kind, m).n = m
  BY DEF GradTensors, Tensor
<1>2. home[In(m)] = fs[m] + 1 /\ gone[In(m)] = bs[m] + BackwardSize(s)
  BY <1>1 DEF GradHome, GradGone, In
<1>3. home[Out(m)] = fs[m] + 2 /\ gone[Out(m)] = bs[m] + BackwardSize(s)
  BY <1>1 DEF GradHome, GradGone, Out
<1>4. home[OutGrad(m)] = bs[m] + 1 /\ gone[OutGrad(m)] = bs[m] + 2
  BY <1>1 DEF GradHome, GradGone, OutGrad
<1>5. home[InGrad(m)] = bs[m] + 2 /\ gone[InGrad(m)] = bs[m] + BackwardSize(s)
  BY <1>1 DEF GradHome, GradGone, InGrad
<1>. QED BY <1>2, <1>3, <1>4, <1>5

LEMMA SyncHomes ==
    ASSUME NEW s \in Stages, NEW fs, NEW bs, NEW total, NEW home, home = GradHome(fs, bs, total),
           NEW gone, gone = GradGone(s, bs, total)
    PROVE  /\ home[Tensor("flat", 0)] = total + 1 /\ home[Tensor("synced", 0)] = total + 2
           /\ gone[Tensor("flat", 0)] = total + 3 /\ gone[Tensor("synced", 0)] = total + 3
<1>1. ASSUME NEW kind \in {"flat", "synced"}
      PROVE  Tensor(kind, 0) \in GradTensors /\ Tensor(kind, 0).kind = kind /\ Tensor(kind, 0).n = 0
  BY Parameters DEF GradTensors, Tensor
<1>. QED BY <1>1 DEF GradHome, GradGone

(* The calls of one micro-batch, forward and backward.                     *)
LEMMA BatchPlaced ==
    ASSUME NEW s \in Stages, NEW fs, NEW bs, NEW total, Places(s, program, fs, bs, total),
           NEW home, home = GradHome(fs, bs, total), NEW gone, gone = GradGone(s, bs, total), NEW m \in 0..(M - 1)
    PROVE  /\ \A q \in 1..ForwardSize(s) : /\ WellPlaced(home, gone, fs[m] + q)
                                           /\ program[fs[m] + q].on \in {Current, "full"}
           /\ \A q \in 1..BackwardSize(s) : /\ WellPlaced(home, gone, bs[m] + q)
                                            /\ program[bs[m] + q].on \in {Current, "full"}
<1>1. PICK f, b, z, y : /\ f = fs[m] /\ b = bs[m] /\ z = BackwardSize(s) /\ y = ForwardSize(s)
                        /\ f \in Nat /\ b \in Nat /\ f + y <= b
  BY DEF Places
<1>2. /\ y = (IF IsLast(s) THEN 2 ELSE 3) /\ z = (IF IsFirst(s) THEN 2 ELSE 3)
  BY <1>1 DEF ForwardSize, BackwardSize
<1>3. /\ home[In(m)] = f + 1 /\ home[Out(m)] = f + 2 /\ home[OutGrad(m)] = b + 1 /\ home[InGrad(m)] = b + 2
      /\ gone[In(m)] = b + z /\ gone[Out(m)] = b + z /\ gone[InGrad(m)] = b + z /\ gone[OutGrad(m)] = b + 2
  BY <1>1, GradHomes
<1>4. /\ \A q \in 1..y : program[f + q] = ForwardCalls(s, m)[q]
      /\ \A q \in 1..z : program[b + q] = BackwardCalls(s, m)[q]
  BY <1>1 DEF Places
<1>5. /\ program[f + 1] = (IF IsFirst(s) THEN Kernel({}, {In(m)}, {}) ELSE Call("recv_like", "full", {}, {In(m)}, {}))
      /\ program[f + 2] = Kernel({In(m)}, {Out(m)}, {})
      /\ ~IsLast(s) => program[f + 3] = Call("send", "full", {Out(m)}, {}, {})
  <2>1. PICK p : p = ForwardCalls(s, m)
    OBVIOUS
  <2>2. 1 \in 1..y /\ 2 \in 1..y /\ (~IsLast(s) => 3 \in 1..y)
    BY <1>2
  <2>3. program[f + 1] = p[1] /\ program[f + 2] = p[2] /\ (~IsLast(s) => program[f + 3] = p[3])
    BY <1>4, <2>1, <2>2
  <2>. QED BY <2>1, <2>3, ForwardAre
<1>6. /\ program[b + 1] = (IF IsLast(s) THEN Kernel({Out(m)}, {OutGrad(m)}, {})
                           ELSE Call("recv_like", "full", {}, {OutGrad(m)}, {}))
      /\ program[b + 2] = Kernel({In(m), Out(m), OutGrad(m)}, {InGrad(m)},
                                 IF IsFirst(s) THEN BatchTensors(m) ELSE {OutGrad(m)})
      /\ ~IsFirst(s) => program[b + 3] = Call("send", "full", {InGrad(m)}, {}, BatchTensors(m) \ {OutGrad(m)})
  <2>1. PICK p : p = BackwardCalls(s, m)
    OBVIOUS
  <2>2. 1 \in 1..z /\ 2 \in 1..z /\ (~IsFirst(s) => 3 \in 1..z)
    BY <1>2
  <2>3. program[b + 1] = p[1] /\ program[b + 2] = p[2] /\ (~IsFirst(s) => program[b + 3] = p[3])
    BY <1>4, <2>1, <2>2
  <2>4. /\ p[1] = (IF IsLast(s) THEN Kernel({Out(m)}, {OutGrad(m)}, {})
                    ELSE Call("recv_like", "full", {}, {OutGrad(m)}, {}))
        /\ p[2] = Kernel({In(m), Out(m), OutGrad(m)}, {InGrad(m)}, IF IsFirst(s) THEN BatchTensors(m) ELSE {OutGrad(m)})
        /\ ~IsFirst(s) => p[3] = Call("send", "full", {InGrad(m)}, {}, BatchTensors(m) \ {OutGrad(m)})
    BY <2>1, BackwardAre
  <2>. QED BY <2>3, <2>4
<1>7. /\ program[f + 1].returns = {In(m)} /\ program[f + 2].returns = {Out(m)}
      /\ program[b + 1].returns = {OutGrad(m)} /\ program[b + 2].returns = {InGrad(m)}
  BY <1>5, <1>6 DEF Call, Kernel
<1>8. WellPlaced(home, gone, f + 1) /\ program[f + 1].on \in {Current, "full"}
  BY <1>3, <1>5 DEF Call, Kernel, WellPlaced, CallOK, HasWork, Streams, Comms, Current, Fenced, Unfenced
<1>9. WellPlaced(home, gone, f + 2) /\ program[f + 2].on \in {Current, "full"}
  <2>1. CallOK(program[f + 2]) /\ program[f + 2].on \in {Current, "full"}
    BY <1>5 DEF Call, Kernel, CallOK, HasWork, Streams, Comms, Current, Fenced, Unfenced
  <2>2. /\ program[f + 2].returns = {Out(m)} /\ program[f + 2].drops = {} /\ program[f + 2].reads = {In(m)}
    BY <1>5 DEF Call, Kernel
  <2>3. f + 1 \in 1..((f + 2) - 1) /\ b + z \in Nat /\ f + 2 <= b + z
    BY <1>1, <1>2
  <2>. QED BY <1>3, <1>7, <2>1, <2>2, <2>3 DEF WellPlaced
<1>10. ASSUME ~IsLast(s) PROVE WellPlaced(home, gone, f + 3) /\ program[f + 3].on \in {Current, "full"}
  <2>1. CallOK(program[f + 3]) /\ program[f + 3].on \in {Current, "full"}
    BY <1>5, <1>10 DEF Call, CallOK, HasWork, Streams, Comms, Current, Fenced, Unfenced
  <2>2. /\ program[f + 3].returns = {} /\ program[f + 3].drops = {} /\ program[f + 3].reads = {Out(m)}
    BY <1>5, <1>10 DEF Call
  <2>3. f + 2 \in 1..((f + 3) - 1) /\ b + z \in Nat /\ f + 3 <= b + z
    BY <1>1, <1>2, <1>10
  <2>. QED BY <1>3, <1>7, <2>1, <2>2, <2>3 DEF WellPlaced
<1>11. WellPlaced(home, gone, b + 1) /\ program[b + 1].on \in {Current, "full"}
  <2>1. CallOK(program[b + 1]) /\ program[b + 1].on \in {Current, "full"}
    BY <1>6 DEF Call, Kernel, CallOK, HasWork, Streams, Comms, Current, Fenced, Unfenced
  <2>2. /\ program[b + 1].returns = {OutGrad(m)} /\ program[b + 1].drops = {}
        /\ program[b + 1].reads \subseteq {Out(m)}
    BY <1>6 DEF Call, Kernel
  <2>3. f + 2 \in 1..((b + 1) - 1) /\ b + z \in Nat /\ b + 1 <= b + z
    BY <1>1, <1>2
  <2>. QED BY <1>3, <1>7, <2>1, <2>2, <2>3 DEF WellPlaced
<1>12. WellPlaced(home, gone, b + 2) /\ program[b + 2].on \in {Current, "full"}
  <2>1. CallOK(program[b + 2]) /\ program[b + 2].on \in {Current, "full"}
    BY <1>6 DEF Call, Kernel, CallOK, HasWork, Streams, Comms, Current, Fenced, Unfenced
  <2>2. /\ program[b + 2].returns = {InGrad(m)} /\ program[b + 2].reads = {In(m), Out(m), OutGrad(m)}
        /\ program[b + 2].drops = IF IsFirst(s) THEN BatchTensors(m) ELSE {OutGrad(m)}
    BY <1>6 DEF Call, Kernel
  <2>3. /\ f + 1 \in 1..((b + 2) - 1) /\ f + 2 \in 1..((b + 2) - 1) /\ b + 1 \in 1..((b + 2) - 1)
        /\ b + z \in Nat /\ b + 2 <= b + z /\ b + 2 \in Nat /\ b + 2 <= b + 2
    BY <1>1, <1>2
  <2>4. \A t \in program[b + 2].drops : gone[t] <= b + 2
    <3>1. CASE IsFirst(s)
      <4>1. b + z <= b + 2
        BY <1>1, <1>2, <3>1
      <4>. QED BY <1>3, <2>2, <2>3, <3>1, <4>1 DEF BatchTensors
    <3>2. CASE ~IsFirst(s)
      BY <1>3, <2>2, <2>3, <3>2
    <3>. QED BY <3>1, <3>2
  <2>. QED BY <1>3, <1>7, <2>1, <2>2, <2>3, <2>4 DEF WellPlaced
<1>13. ASSUME ~IsFirst(s) PROVE WellPlaced(home, gone, b + 3) /\ program[b + 3].on \in {Current, "full"}
  <2>1. CallOK(program[b + 3]) /\ program[b + 3].on \in {Current, "full"}
    BY <1>6, <1>13 DEF Call, CallOK, HasWork, Streams, Comms, Current, Fenced, Unfenced
  <2>2. /\ program[b + 3].returns = {} /\ program[b + 3].reads = {InGrad(m)}
        /\ program[b + 3].drops = BatchTensors(m) \ {OutGrad(m)}
    BY <1>6, <1>13 DEF Call
  <2>3. b + 2 \in 1..((b + 3) - 1) /\ b + z \in Nat /\ b + 3 <= b + z /\ b + z <= b + 3
    BY <1>1, <1>2, <1>13
  <2>4. \A t \in program[b + 3].drops : gone[t] <= b + 3
    BY <1>3, <2>2, <2>3 DEF BatchTensors
  <2>. QED BY <1>3, <1>7, <2>1, <2>2, <2>3, <2>4 DEF WellPlaced
<1>14. ASSUME NEW q \in 1..y PROVE WellPlaced(home, gone, f + q) /\ program[f + q].on \in {Current, "full"}
  <2>1. q = 1 \/ q = 2 \/ (q = 3 /\ ~IsLast(s))
    <3>1. CASE IsLast(s)
      BY <1>2, <3>1
    <3>2. CASE ~IsLast(s)
      BY <1>2, <3>2
    <3>. QED BY <3>1, <3>2
  <2>. QED BY <1>8, <1>9, <1>10, <2>1
<1>15. ASSUME NEW q \in 1..z PROVE WellPlaced(home, gone, b + q) /\ program[b + q].on \in {Current, "full"}
  <2>1. q = 1 \/ q = 2 \/ (q = 3 /\ ~IsFirst(s))
    <3>1. CASE IsFirst(s)
      BY <1>2, <3>1
    <3>2. CASE ~IsFirst(s)
      BY <1>2, <3>2
    <3>. QED BY <3>1, <3>2
  <2>. QED BY <1>11, <1>12, <1>13, <2>1
<1>. QED BY <1>1, <1>14, <1>15

LEMMA SyncPlaced ==
    ASSUME NEW s \in Stages, NEW fs, NEW bs, NEW total, Places(s, program, fs, bs, total),
           NEW home, home = GradHome(fs, bs, total), NEW gone, gone = GradGone(s, bs, total)
    PROVE  \A i \in {total + 1, total + 2, total + 3, total + 4} :
              WellPlaced(home, gone, i) /\ program[i].name \notin Unfenced
<1>1. PICK flat, synced : flat = Tensor("flat", 0) /\ synced = Tensor("synced", 0)
  OBVIOUS
<1>2. home[flat] = total + 1 /\ home[synced] = total + 2 /\ gone[flat] = total + 3 /\ gone[synced] = total + 3 /\ total \in Nat
  BY <1>1, SyncHomes DEF Places
<1>3. /\ SyncCalls[1] = Kernel({}, {flat}, {}) /\ SyncCalls[2] = Call("all_reduce", "data", {flat}, {synced}, {})
      /\ SyncCalls[3] = Kernel({synced}, {}, {flat, synced})
  BY <1>1 DEF SyncCalls
<1>4. /\ program[total + 1] = Kernel({}, {flat}, {})
      /\ program[total + 2] = Call("all_reduce", "data", {flat}, {synced}, {})
      /\ program[total + 3] = Kernel({synced}, {}, {flat, synced})
      /\ program[total + 4] = Call("to_cpu", Current, {}, {}, {})
  BY <1>3 DEF Places
<1>5. WellPlaced(home, gone, total + 1) /\ program[total + 1].name \notin Unfenced
  BY <1>2, <1>4 DEF Call, Kernel, WellPlaced, CallOK, HasWork, Streams, Comms, Current, Fenced, Unfenced
<1>6. WellPlaced(home, gone, total + 2) /\ program[total + 2].name \notin Unfenced
  <2>1. CallOK(program[total + 2]) /\ program[total + 2].name \notin Unfenced
    BY <1>4 DEF Call, CallOK, HasWork, Streams, Comms, Current, Fenced, Unfenced
  <2>2. /\ program[total + 2].returns = {synced} /\ program[total + 2].reads = {flat} /\ program[total + 2].drops = {}
        /\ program[total + 1].returns = {flat}
    BY <1>4 DEF Call, Kernel
  <2>3. total + 1 \in 1..((total + 2) - 1) /\ total + 3 \in Nat /\ total + 2 <= total + 3
    BY <1>2
  <2>. QED BY <1>2, <2>1, <2>2, <2>3 DEF WellPlaced
<1>7. WellPlaced(home, gone, total + 3) /\ program[total + 3].name \notin Unfenced
  <2>1. CallOK(program[total + 3]) /\ program[total + 3].name \notin Unfenced
    BY <1>4 DEF Call, Kernel, CallOK, HasWork, Streams, Comms, Current, Fenced, Unfenced
  <2>2. /\ program[total + 3].returns = {} /\ program[total + 3].reads = {synced} /\ program[total + 3].drops = {flat, synced}
        /\ program[total + 2].returns = {synced}
    BY <1>4 DEF Call, Kernel
  <2>3. total + 2 \in 1..((total + 3) - 1) /\ total + 3 \in Nat /\ total + 3 <= total + 3
    BY <1>2
  <2>. QED BY <1>2, <2>1, <2>2, <2>3 DEF WellPlaced
<1>8. WellPlaced(home, gone, total + 4) /\ program[total + 4].name \notin Unfenced
  BY <1>4 DEF Call, WellPlaced, CallOK, HasWork, Streams, Comms, Current, Fenced, Unfenced
<1>. QED BY <1>5, <1>6, <1>7, <1>8

LEMMA GradientProgram ==
    ASSUME NEW s \in Stages, program = GradientCalls(s)
    PROVE  ProgramOK
<1>1. PICK fs, bs, total : Places(s, program, fs, bs, total)
  BY GradientPlaces
<1>2. PICK home, gone : home = GradHome(fs, bs, total) /\ gone = GradGone(s, bs, total)
  OBVIOUS
<1>3. total \in Nat /\ IsList(program) /\ Len(program) = total + 4
  BY <1>1 DEF Places
<1>4. Len(program) \in Nat /\ DOMAIN program = Numbers
  BY <1>3, ListIs DEF Numbers
<1>5. ASSUME NEW i \in 1..total PROVE WellPlaced(home, gone, i) /\ program[i].on \in {Current, "full"}
  <2>1. PICK m \in 0..(M - 1) : \/ \E q \in 1..ForwardSize(s) : i = fs[m] + q
                                \/ \E q \in 1..BackwardSize(s) : i = bs[m] + q
    BY <1>1 DEF Places
  <2>2. /\ \A q \in 1..ForwardSize(s) : /\ WellPlaced(home, gone, fs[m] + q)
                                        /\ program[fs[m] + q].on \in {Current, "full"}
        /\ \A q \in 1..BackwardSize(s) : /\ WellPlaced(home, gone, bs[m] + q)
                                         /\ program[bs[m] + q].on \in {Current, "full"}
    BY <1>1, <1>2, BatchPlaced
  <2>. QED BY <2>1, <2>2
<1>6. \A i \in {total + 1, total + 2, total + 3, total + 4} : WellPlaced(home, gone, i) /\ program[i].name \notin Unfenced
  BY <1>1, <1>2, SyncPlaced
<1>7. \A i \in Numbers : i \in 1..total \/ i \in {total + 1, total + 2, total + 3, total + 4}
  BY <1>3 DEF Numbers
<1>8. \A i \in Numbers : WellPlaced(home, gone, i)
  BY <1>5, <1>6, <1>7
<1>9. ASSUME NEW i \in Numbers, NEW j \in 1..(i - 1), program[i].name \in Unfenced, program[j].on # Current
      PROVE  program[j].on = program[i].on
  <2>1. i \in 1..total
    BY <1>6, <1>7, <1>9
  <2>2. j \in 1..total
    BY <1>3, <2>1
  <2>3. CallOK(program[i])
    BY <1>8 DEF WellPlaced
  <2>4. program[i].on # Current
    BY <1>9, <2>3 DEF CallOK, Unfenced
  <2>. QED BY <1>5, <1>9, <2>1, <2>2, <2>4
<1>. QED BY <1>4, <1>8, <1>9, HomesMakeProgram DEF AllPlaced, OneCommunicator

(* The calls that share the parameters: three for each bucket.             *)
BucketCalls(me, k) ==
    << Kernel({}, {Tensor("payload", k)}, {}),
       Call(IF (k - 1) \div Buckets = me THEN "broadcast_root" ELSE "broadcast", "data",
            {Tensor("payload", k)}, {Tensor("shared", k)}, {}),
       Kernel({Tensor("shared", k)}, {}, {Tensor("payload", k), Tensor("shared", k)}) >>

LEMMA BucketsLaid ==
    ASSUME NEW me, NEW n \in Nat, NEW seqs, seqs = [k \in 1..n |-> BucketCalls(me, k)]
    PROVE  /\ IsList(FlattenSeq(seqs)) /\ Len(FlattenSeq(seqs)) = 3 * n
           /\ \A k \in 1..n : \A q \in 1..3 : FlattenSeq(seqs)[3 * (k - 1) + q] = BucketCalls(me, k)[q]
<1>1. PICK f, sizes : f = [k \in 0..n |-> 3 * k] /\ sizes = [k \in 1..n |-> 3]
  OBVIOUS
<1>2. sizes \in Seq(Nat) /\ Len(sizes) = n
  BY <1>1
<1>3. Sums(f, sizes)
  <2>1. f[0] = 0 /\ \A k \in 0..n : f[k] \in Nat
    BY <1>1
  <2>2. \A k \in 1..n : f[k] = f[k - 1] + sizes[k]
    BY <1>1
  <2>. QED BY <1>2, <2>1, <2>2 DEF Sums
<1>4. ASSUME NEW k \in 1..n PROVE IsList(seqs[k]) /\ Len(seqs[k]) = 3
  <2>1. PICK a, b, c : seqs[k] = <<a, b, c>>
    BY DEF BucketCalls
  <2>2. <<a, b, c>> \in Seq({a, b, c}) /\ Len(<<a, b, c>>) = 3
    OBVIOUS
  <2>. QED BY <2>1, <2>2 DEF IsList
<1>5. Parts(seqs, sizes)
  <2>1. IsList(seqs) /\ Len(seqs) = n
    BY ListOf
  <2>2. \A k \in 1..n : sizes[k] = 3
    BY <1>1
  <2>. QED BY <1>2, <1>4, <2>1, <2>2 DEF Parts
<1>6. Laid(FlattenSeq(seqs), seqs, f, n)
  BY <1>2, <1>3, <1>5, FlattenAt
<1>7. f[n] = 3 * n
  BY <1>1
<1>8. ASSUME NEW k \in 1..n, NEW q \in 1..3
      PROVE  FlattenSeq(seqs)[3 * (k - 1) + q] = BucketCalls(me, k)[q]
  <2>1. FlattenSeq(seqs)[f[k - 1] + q] = seqs[k][q]
    BY <1>4, <1>6 DEF Laid
  <2>2. f[k - 1] = 3 * (k - 1)
    BY <1>1
  <2>. QED BY <2>1, <2>2
<1>. QED BY <1>6, <1>7, <1>8 DEF Laid

ParamPlaces(me, P, n) ==
    /\ n \in Nat /\ IsList(P) /\ Len(P) = 3 * n + 3
    /\ P[1] = UpdateCalls[1] /\ P[2] = UpdateCalls[2]
    /\ \A k \in 1..n : \A q \in 1..3 : P[3 * k - 1 + q] = BucketCalls(me, k)[q]
    /\ P[3 * n + 3] = Call("barrier", "data", {}, {}, {})

LEMMA ParameterPlaces ==
    ASSUME NEW me, NEW P, P = ParameterCalls(me)
    PROVE  \E n : ParamPlaces(me, P, n)
<1>1. PICK n, seqs, all, b, e, u :
        /\ n = Owners * Buckets /\ seqs = [k \in 1..n |-> BucketCalls(me, k)] /\ all = FlattenSeq(seqs)
        /\ b = Call("barrier", "data", {}, {}, {}) /\ e = <<b>> /\ u = UpdateCalls
  OBVIOUS
<1>. n \in Nat
  BY <1>1, StreamsAssumption
<1>2. /\ IsList(all) /\ Len(all) = 3 * n
      /\ \A k \in 1..n : \A q \in 1..3 : all[3 * (k - 1) + q] = BucketCalls(me, k)[q]
  <2>1. seqs = [k \in 1..n |-> BucketCalls(me, k)]
    BY <1>1
  <2>2. /\ IsList(FlattenSeq(seqs)) /\ Len(FlattenSeq(seqs)) = 3 * n
        /\ \A k \in 1..n : \A q \in 1..3 : FlattenSeq(seqs)[3 * (k - 1) + q] = BucketCalls(me, k)[q]
    BY <2>1, BucketsLaid
  <2>. QED BY <1>1, <2>2
<1>3. IsList(e) /\ Len(e) = 1 /\ e[1] = b
  <2>1. e \in Seq({b}) /\ Len(e) = 1 /\ e[1] = b
    BY <1>1
  <2>. QED BY <2>1 DEF IsList
<1>4. IsList(u) /\ Len(u) = 2
  <2>1. PICK x, y : u = <<x, y>>
    BY <1>1 DEF UpdateCalls
  <2>2. u \in Seq({x, y}) /\ Len(u) = 2
    BY <2>1
  <2>. QED BY <2>2 DEF IsList
<1>5. PICK z : z = all \o e
  OBVIOUS
<1>6. P = u \o z
  <2>1. ParameterCalls(me) = UpdateCalls \o (FlattenSeq([k \in 1..(Owners * Buckets) |-> BucketCalls(me, k)])
                                              \o << Call("barrier", "data", {}, {}, {}) >>)
    BY DEF ParameterCalls, ShareCalls, BucketCalls
  <2>. QED BY <1>1, <1>5, <2>1
<1>7. /\ IsList(z) /\ Len(z) = Len(all) + Len(e)
      /\ \A i \in 1..Len(all) : z[i] = all[i]
      /\ \A i \in 1..Len(e) : z[Len(all) + i] = e[i]
  <2>1. IsList(all) /\ IsList(e)
    BY <1>2, <1>3
  <2>. QED BY <1>5, <2>1, Concat
<1>8. /\ Len(z) = 3 * n + 1 /\ (\A i \in 1..(3 * n) : z[i] = all[i]) /\ z[3 * n + 1] = b
  <2>1. 1 \in 1..Len(e) /\ Len(all) + 1 = 3 * n + 1 /\ Len(all) + Len(e) = 3 * n + 1
    BY <1>2, <1>3
  <2>. QED BY <1>2, <1>3, <1>7, <2>1
<1>9. /\ IsList(P) /\ Len(P) = Len(u) + Len(z)
      /\ \A i \in 1..Len(u) : P[i] = u[i]
      /\ \A i \in 1..Len(z) : P[Len(u) + i] = z[i]
  <2>1. IsList(u) /\ IsList(z)
    BY <1>4, <1>7
  <2>. QED BY <1>6, <2>1, Concat
<1>10. /\ Len(P) = 3 * n + 3 /\ P[1] = u[1] /\ P[2] = u[2]
       /\ \A i \in 1..(3 * n + 1) : P[2 + i] = z[i]
  BY <1>4, <1>8, <1>9
<1>11. P[3 * n + 3] = b
  <2>1. 3 * n + 1 \in 1..(3 * n + 1) /\ 2 + (3 * n + 1) = 3 * n + 3
    OBVIOUS
  <2>. QED BY <1>8, <1>10, <2>1
<1>12. ASSUME NEW k \in 1..n, NEW q \in 1..3 PROVE P[3 * k - 1 + q] = BucketCalls(me, k)[q]
  <2>1. PICK i \in 1..(3 * n) : i = 3 * (k - 1) + q /\ 2 + i = 3 * k - 1 + q
    <3>1. 3 * (k - 1) + q \in 1..(3 * n) /\ 2 + (3 * (k - 1) + q) = 3 * k - 1 + q
      OBVIOUS
    <3>. QED BY <3>1
  <2>2. i \in 1..(3 * n + 1)
    OBVIOUS
  <2>3. P[2 + i] = z[i] /\ z[i] = all[i]
    BY <1>8, <1>10, <2>2
  <2>4. all[i] = BucketCalls(me, k)[q]
    BY <1>2, <2>1
  <2>. QED BY <2>1, <2>3, <2>4
<1>13. ParamPlaces(me, P, n)
  BY <1>1, <1>9, <1>10, <1>11, <1>12 DEF ParamPlaces
<1>. QED BY <1>13

(* The tensors of the update and of the broadcasts.                        *)
ParamTensors == [kind : {"denom", "payload", "shared"}, n : Nat]
ParamHome ==
    [t \in ParamTensors |-> IF t.kind = "denom" THEN 1 ELSE IF t.kind = "payload" THEN 3 * t.n ELSE 3 * t.n + 1]
ParamGone == [t \in ParamTensors |-> IF t.kind = "denom" THEN 2 ELSE 3 * t.n + 2]

LEMMA ParamHomes ==
    ASSUME NEW k \in Nat
    PROVE  /\ ParamHome[Tensor("denom", 0)] = 1 /\ ParamGone[Tensor("denom", 0)] = 2
           /\ ParamHome[Tensor("payload", k)] = 3 * k /\ ParamGone[Tensor("payload", k)] = 3 * k + 2
           /\ ParamHome[Tensor("shared", k)] = 3 * k + 1 /\ ParamGone[Tensor("shared", k)] = 3 * k + 2
<1>1. ASSUME NEW kind \in {"denom", "payload", "shared"}, NEW j \in Nat
      PROVE  Tensor(kind, j) \in ParamTensors /\ Tensor(kind, j).kind = kind /\ Tensor(kind, j).n = j
  BY DEF ParamTensors, Tensor
<1>. QED BY <1>1 DEF ParamHome, ParamGone

(* The three calls of a bucket.                                            *)
LEMMA BucketPlaced ==
    ASSUME NEW me, NEW k \in Nat \ {0},
           \A q \in 1..3 : program[3 * k - 1 + q] = BucketCalls(me, k)[q],
           NEW home, home = ParamHome, NEW gone, gone = ParamGone
    PROVE  \A i \in {3 * k, 3 * k + 1, 3 * k + 2} :
              WellPlaced(home, gone, i) /\ program[i].on \in {Current, "data"}
<1>1. PICK x, y, h : x = Tensor("payload", k) /\ y = Tensor("shared", k) /\ h = 3 * k /\ h \in Nat
  OBVIOUS
<1>2. home[x] = h /\ gone[x] = h + 2 /\ home[y] = h + 1 /\ gone[y] = h + 2 /\ h >= 1
  <2>1. /\ ParamHome[x] = 3 * k /\ ParamGone[x] = 3 * k + 2
        /\ ParamHome[y] = 3 * k + 1 /\ ParamGone[y] = 3 * k + 2
    <3>1. k \in Nat
      OBVIOUS
    <3>. QED BY <1>1, <3>1, ParamHomes
  <2>. QED BY <1>1, <2>1
<1>3. PICK name \in {"broadcast_root", "broadcast"} :
        BucketCalls(me, k) = << Kernel({}, {x}, {}), Call(name, "data", {x}, {y}, {}), Kernel({y}, {}, {x, y}) >>
  BY <1>1 DEF BucketCalls
<1>4. /\ program[h] = Kernel({}, {x}, {}) /\ program[h + 1] = Call(name, "data", {x}, {y}, {})
      /\ program[h + 2] = Kernel({y}, {}, {x, y})
  <2>1. 3 * k - 1 + 1 = h /\ 3 * k - 1 + 2 = h + 1 /\ 3 * k - 1 + 3 = h + 2
    BY <1>1
  <2>2. /\ program[3 * k - 1 + 1] = BucketCalls(me, k)[1] /\ program[3 * k - 1 + 2] = BucketCalls(me, k)[2]
        /\ program[3 * k - 1 + 3] = BucketCalls(me, k)[3]
    OBVIOUS
  <2>3. /\ program[h] = BucketCalls(me, k)[1] /\ program[h + 1] = BucketCalls(me, k)[2]
        /\ program[h + 2] = BucketCalls(me, k)[3]
    BY <2>1, <2>2
  <2>. QED BY <1>3, <2>3
<1>5. WellPlaced(home, gone, h) /\ program[h].on \in {Current, "data"}
  BY <1>2, <1>4 DEF Call, Kernel, WellPlaced, CallOK, HasWork, Streams, Comms, Current, Fenced, Unfenced
<1>6. WellPlaced(home, gone, h + 1) /\ program[h + 1].on \in {Current, "data"}
  <2>1. CallOK(program[h + 1]) /\ program[h + 1].on \in {Current, "data"}
    BY <1>3, <1>4 DEF Call, CallOK, HasWork, Streams, Comms, Current, Fenced, Unfenced
  <2>2. /\ program[h + 1].returns = {y} /\ program[h + 1].reads = {x} /\ program[h + 1].drops = {}
        /\ program[h].returns = {x}
    BY <1>4 DEF Call, Kernel
  <2>3. h \in 1..((h + 1) - 1) /\ h + 2 \in Nat /\ h + 1 <= h + 2
    BY <1>1, <1>2
  <2>. QED BY <1>2, <2>1, <2>2, <2>3 DEF WellPlaced
<1>7. WellPlaced(home, gone, h + 2) /\ program[h + 2].on \in {Current, "data"}
  <2>1. CallOK(program[h + 2]) /\ program[h + 2].on \in {Current, "data"}
    BY <1>4 DEF Call, Kernel, CallOK, HasWork, Streams, Comms, Current, Fenced, Unfenced
  <2>2. /\ program[h + 2].returns = {} /\ program[h + 2].reads = {y} /\ program[h + 2].drops = {x, y}
        /\ program[h + 1].returns = {y}
    BY <1>4 DEF Call, Kernel
  <2>3. h + 1 \in 1..((h + 2) - 1) /\ h + 2 \in Nat /\ h + 2 <= h + 2
    BY <1>1
  <2>. QED BY <1>2, <2>1, <2>2, <2>3 DEF WellPlaced
<1>. QED BY <1>1, <1>5, <1>6, <1>7

LEMMA ParameterProgram ==
    ASSUME NEW me, program = ParameterCalls(me)
    PROVE  ProgramOK
<1>0. PICK n : ParamPlaces(me, program, n)
  BY ParameterPlaces
<1>1. /\ n \in Nat /\ IsList(program) /\ Len(program) = 3 * n + 3
      /\ program[1] = UpdateCalls[1] /\ program[2] = UpdateCalls[2]
      /\ \A k \in 1..n : \A q \in 1..3 : program[3 * k - 1 + q] = BucketCalls(me, k)[q]
      /\ program[3 * n + 3] = Call("barrier", "data", {}, {}, {})
  BY <1>0 DEF ParamPlaces
<1>2. PICK home, gone, denom : home = ParamHome /\ gone = ParamGone /\ denom = Tensor("denom", 0)
  OBVIOUS
<1>3. Len(program) \in Nat /\ DOMAIN program = Numbers
  BY <1>1, ListIs DEF Numbers
<1>4. program[1] = Kernel({}, {denom}, {}) /\ program[2] = Kernel({denom}, {}, {denom})
  BY <1>1, <1>2 DEF UpdateCalls
<1>5. home[denom] = 1 /\ gone[denom] = 2
  <2>1. ParamHome[Tensor("denom", 0)] = 1 /\ ParamGone[Tensor("denom", 0)] = 2
    BY ParamHomes
  <2>. QED BY <1>2, <2>1
<1>6. WellPlaced(home, gone, 1) /\ program[1].on \in {Current, "data"}
  BY <1>4, <1>5 DEF Call, Kernel, WellPlaced, CallOK, HasWork, Streams, Comms, Current, Fenced, Unfenced
<1>7. WellPlaced(home, gone, 2) /\ program[2].on \in {Current, "data"}
  <2>1. CallOK(program[2]) /\ program[2].on \in {Current, "data"}
    BY <1>4 DEF Call, Kernel, CallOK, HasWork, Streams, Comms, Current, Fenced, Unfenced
  <2>2. /\ program[2].returns = {} /\ program[2].reads = {denom} /\ program[2].drops = {denom}
        /\ program[1].returns = {denom}
    BY <1>4 DEF Call, Kernel
  <2>3. 1 \in 1..(2 - 1) /\ 2 \in Nat /\ 2 <= 2
    OBVIOUS
  <2>. QED BY <1>5, <2>1, <2>2, <2>3 DEF WellPlaced
<1>8. ASSUME NEW i, i = 3 * n + 3 PROVE WellPlaced(home, gone, i) /\ program[i].on \in {Current, "data"}
  BY <1>1, <1>8 DEF Call, WellPlaced, CallOK, HasWork, Streams, Comms, Current, Fenced, Unfenced
<1>9. ASSUME NEW i \in Numbers PROVE WellPlaced(home, gone, i) /\ program[i].on \in {Current, "data"}
  <2>1. CASE i <= 2
    <3>1. i = 1 \/ i = 2
      BY <1>1, <2>1 DEF Numbers
    <3>. QED BY <1>6, <1>7, <3>1
  <2>2. CASE i = 3 * n + 3
    BY <1>8, <2>2
  <2>3. CASE i > 2 /\ i # 3 * n + 3
    <3>1. PICK k \in 1..n : i = 3 * k \/ i = 3 * k + 1 \/ i = 3 * k + 2
      <4>1. PICK j \in Nat : j = i /\ j >= 3 /\ j <= 3 * n + 2
        BY <1>1, <2>3 DEF Numbers
      <4>2. PICK h : h = j \div 3
        OBVIOUS
      <4>3. h \in Int /\ (j = 3 * h \/ j = 3 * h + 1 \/ j = 3 * h + 2)
        BY <4>1, <4>2
      <4>4. h \in 1..n
        BY <1>1, <4>1, <4>3
      <4>. QED BY <4>1, <4>3, <4>4
    <3>2. k \in Nat \ {0} /\ \A q \in 1..3 : program[3 * k - 1 + q] = BucketCalls(me, k)[q]
      BY <1>1
    <3>3. \A j \in {3 * k, 3 * k + 1, 3 * k + 2} :
            WellPlaced(home, gone, j) /\ program[j].on \in {Current, "data"}
      BY <1>2, <3>2, BucketPlaced
    <3>. QED BY <3>1, <3>3
  <2>. QED BY <1>1, <2>1, <2>2, <2>3 DEF Numbers
<1>10. ASSUME NEW i \in Numbers, NEW j \in 1..(i - 1), program[i].name \in Unfenced, program[j].on # Current
       PROVE  program[j].on = program[i].on
  <2>1. j \in Numbers
    BY <1>3 DEF Numbers
  <2>2. CallOK(program[i])
    BY <1>9 DEF WellPlaced
  <2>3. program[i].on # Current
    BY <1>10, <2>2 DEF CallOK, Unfenced
  <2>. QED BY <1>9, <1>10, <2>1, <2>3
<1>11. \A i \in Numbers : WellPlaced(home, gone, i)
  BY <1>9
<1>. QED BY <1>3, <1>10, <1>11, HomesMakeProgram DEF AllPlaced, OneCommunicator

LEMMA StreamsStart == InitStreams => StreamsInv
<1>. SUFFICES ASSUME InitStreams PROVE StreamsInv
  OBVIOUS
<1>1. ProgramOK
  <2>1. CASE \E s \in Stages : program = GradientCalls(s)
    BY <2>1, GradientProgram
  <2>2. CASE \E me \in 0..(Owners - 1) : program = ParameterCalls(me)
    BY <2>2, ParameterProgram
  <2>. QED BY <2>1, <2>2 DEF InitStreams
<1>2. /\ cursor = 1 /\ waiting = {} /\ held = <<>> /\ queue = [s \in Streams |-> <<>>]
      /\ done = [s \in Streams |-> 0] /\ started = [s \in Streams |-> FALSE] /\ mem = [b \in Blocks |-> {}]
  BY DEF InitStreams
<1>3. StreamsType
  <2>1. Len(program) + 1 \in Nat /\ 1 \in 1..(Len(program) + 1)
    BY <1>1 DEF ProgramOK
  <2>2. queue \in [Streams -> Seq(Item)]
    <3>1. <<>> \in Seq(Item)
      OBVIOUS
    <3>. QED BY <1>2, <3>1
  <2>. QED BY <1>2, <2>1, <2>2 DEF StreamsType
<1>4. Made = {}
  BY <1>2 DEF Made, Numbers
<1>5. \A s \in Streams : done[s] = 0 /\ Len(queue[s]) = 0 /\ Put(s) = 0
  <2>1. \A s \in Streams : queue[s] = <<>> /\ done[s] = 0
    BY <1>2
  <2>2. Len(<<>>) = 0
    OBVIOUS
  <2>. QED BY <2>1, <2>2 DEF Put
<1>6. PICK log, at, blk : /\ log = [s \in Streams |-> <<>>] /\ at = [i \in Numbers |-> 0]
                          /\ blk = [t \in Tensors |-> 1]
  OBVIOUS
<1>7. at \in [Numbers -> Nat] /\ blk \in [Tensors -> Blocks]
  <2>1. 1 \in Blocks
    BY StreamsAssumption DEF Blocks
  <2>. QED BY <1>6, <2>1
<1>8. LogsAre(log) /\ OnlyWork(log, at) /\ Satisfied(log)
  BY <1>5 DEF LogsAre, OnlyWork, Satisfied
<1>9. WorkAt(log, at, blk) /\ InOrder(at) /\ Joined(log, at) /\ Ordered(log, at) /\ Apart(blk) /\ FinishedOK(at)
  BY <1>4 DEF WorkAt, InOrder, Joined, Ordered, Apart, FinishedOK
<1>10. HeldOK(blk)
  <2>1. DOMAIN held = {}
    BY <1>2
  <2>2. \A w : w \notin 1..(cursor - 1)
    BY <1>2
  <2>. QED BY <2>1, <2>2 DEF HeldOK
<1>11. MemOK(at, blk)
  BY <1>2 DEF MemOK
<1>12. Remembered(log, at, blk)
  BY <1>7, <1>8, <1>9, <1>10, <1>11 DEF Remembered
<1>. QED BY <1>1, <1>3, <1>12 DEF StreamsInv

(* ReadsAsWritten holds in every state, for any pipeline, number of owners *)
(* and of buckets, with as much memory as there is, in either mode of      *)
(* synchronization: whatever order the streams run in, a kernel or an      *)
(* operation of NcclCollectives reads what was written for it, except      *)
(* through the output of a receive or broadcast that does not wait for the *)
(* current stream while a kernel before it may still be running.           *)
THEOREM ReadsAreAsWritten == SpecStreams => []ReadsAsWritten
<1>1. InitStreams => StreamsInv
  BY StreamsStart
<1>2. StreamsInv /\ [NextStreams]_gpu => StreamsInv'
  BY StreamsKeep
<1>3. StreamsInv => ReadsAsWritten
  BY StreamsRead
<1>. QED BY <1>1, <1>2, <1>3, PTL DEF SpecStreams
=============================================================================
