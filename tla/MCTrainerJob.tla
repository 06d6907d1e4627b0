---------------------------- MODULE MCTrainerJob ----------------------------
(* TLC instance of TrainerJob: one stage, two stages, and three stages     *)
(* with one that takes no batch.                                           *)
EXTENDS TrainerJob

Dims(pp, t) ==
    [data |-> 1, pipeline |-> pp, context |-> 1, tensor |-> t, expert |-> 1, sequence |-> 1]
MCArrangements == {Dims(1, 2), Dims(2, 1), Dims(3, 1)}
=============================================================================
