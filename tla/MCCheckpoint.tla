---------------------------- MODULE MCCheckpoint ----------------------------
(* TLC instance of Checkpoint.  Three ranks: the one that writes the       *)
(* manifest and two that may be at different points of a save.  Three      *)
(* launches: a save cut short, its directory rewritten by a second launch  *)
(* and cut short again, and a third to resume from what is left.           *)
EXTENDS Checkpoint
=============================================================================
