---------------------------- MODULE MCDeltaPhase ----------------------------
(* TLC instance of DeltaPhase: two kernels, two threads, and one column of *)
(* four rows, so that a column has elements of the other thread and two of *)
(* the thread's own.                                                       *)
EXTENDS DeltaPhase

MCKernels == {"full", "recompute"}
=============================================================================
