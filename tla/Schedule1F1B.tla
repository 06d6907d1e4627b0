---------------------------- MODULE Schedule1F1B ----------------------------
(***************************************************************************)
(* pipeline_1f1b_schedule of pipeline.cc: the order in which a stage takes *)
(* its micro-batches forward and backward.                                 *)
(***************************************************************************)
EXTENDS Integers, FiniteSets

CONSTANTS
    PP,         \* pipeline_parallel
    M           \* micro_batches

(* Topology::validate and the check at the top of pipeline_1f1b_schedule.  *)
ScheduleParameters ==
    /\ PP \in Nat \ {0}
    /\ M \in Nat \ {0}
    /\ PP > 1 => M >= PP

Stages == 0..(PP - 1)
IsFirst(s) == s = 0
IsLast(s)  == s = PP - 1

(* Mutants: counted from the wrong end of the pipeline; one too many.      *)
Warmup_fromFirst(s) == IF s <= M THEN s ELSE M
Warmup_oneMore(s) == IF PP - s <= M THEN PP - s ELSE M

Warmup(s) == IF PP - s - 1 <= M THEN PP - s - 1 ELSE M

Fwd(mb) == [op |-> "forward", mb |-> mb]
Bwd(mb) == [op |-> "backward", mb |-> mb]

(* Mutants: each steady pair the other way round; a cooldown that starts   *)
(* at micro-batch 0 again.                                                 *)
Schedule_backwardFirst(s) ==
    LET w == Warmup(s)
        steady == M - w
    IN  [k \in 1..(2 * M) |->
            IF k <= w THEN Fwd(k - 1)
            ELSE IF k <= w + 2 * steady
                 THEN IF (k - w) % 2 = 1
                      THEN Bwd((k - w) \div 2)
                      ELSE Fwd(w + (k - w) \div 2 - 1)
                 ELSE Bwd(k - M - 1)]
Schedule_cooldownFromZero(s) ==
    LET w == Warmup(s)
        steady == M - w
    IN  [k \in 1..(2 * M) |->
            IF k <= w THEN Fwd(k - 1)
            ELSE IF k <= w + 2 * steady
                 THEN IF (k - w) % 2 = 1
                      THEN Fwd(w + (k - w) \div 2)
                      ELSE Bwd((k - w) \div 2 - 1)
                 ELSE Bwd(k - w - 2 * steady - 1)]

(* Warmup forwards, then pairs of one forward and one backward, then the   *)
(* remaining backwards.                                                    *)
Schedule(s) ==
    LET w == Warmup(s)
        steady == M - w
    IN  [k \in 1..(2 * M) |->
            IF k <= w THEN Fwd(k - 1)
            ELSE IF k <= w + 2 * steady
                 THEN IF (k - w) % 2 = 1
                      THEN Fwd(w + (k - w) \div 2)
                      ELSE Bwd((k - w) \div 2 - 1)
                 ELSE Bwd(k - M - 1)]

(* The schedule's live activations after k entries, and their maximum.     *)
LiveAfter(s, k) ==
    Cardinality({j \in 1..k : Schedule(s)[j].op = "forward"})
        - Cardinality({j \in 1..k : Schedule(s)[j].op = "backward"})
MaxLive(s) ==
    CHOOSE m \in 0..M : /\ \E k \in 0..(2 * M) : LiveAfter(s, k) = m
                        /\ \A k \in 0..(2 * M) : LiveAfter(s, k) <= m
=============================================================================
