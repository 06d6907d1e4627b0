--------------------------- MODULE MCNcclStreams ---------------------------
(* TLC instance of NcclStreams.  The first of two stages has a warmup, a   *)
(* steady pair and a cooldown, the last one receives activations and sends *)
(* gradients; each of two owners has two buckets to broadcast, so a rank   *)
(* is in turn the root twice and not the root twice.  Nine blocks are      *)
(* never all in use.                                                       *)
EXTENDS NcclStreams
=============================================================================
