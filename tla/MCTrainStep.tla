---------------------------- MODULE MCTrainStep ----------------------------
(* TLC instance of TrainStep: two ranks along each axis, alone and with    *)
(* the data axis, and three data ranks, whose shards need padding.         *)
EXTENDS TrainStep

Dims(d, pp, cp, t, e) ==
    [data |-> d, pipeline |-> pp, context |-> cp, tensor |-> t, expert |-> e, sequence |-> 1]
MCArrangements ==
    {Dims(2, 1, 1, 1, 1), Dims(3, 1, 1, 1, 1), Dims(2, 1, 1, 2, 1), Dims(2, 1, 2, 1, 1),
     Dims(2, 1, 1, 1, 2), Dims(1, 2, 1, 2, 1)}
MCSize == [embed |-> 1, norm |-> 1, proj |-> 3, expert |-> 2]
=============================================================================
