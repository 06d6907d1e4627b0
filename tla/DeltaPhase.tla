------------------------------ MODULE DeltaPhase ------------------------------
(***************************************************************************)
(* The last phase of an item in the backward kernels of the recurrent      *)
(* layer (qwen_linear_attention_cuda.cu 571-584, 1047-1058, 1209-1220,     *)
(* 1402-1413), between two barriers of a thread block.  The elements of    *)
(* the gradient of the state, dstate, are dealt to the threads; for each   *)
(* of its elements a thread adds up ddelta over the column of the element  *)
(* and then overwrites the element.                                        *)
(*                                                                         *)
(* The values are abstracted to what they were read from: an element of    *)
(* dstate is as the phase found it, or overwritten, and what a thread      *)
(* makes of an element is told by the rows it read overwritten.  Columns   *)
(* do not touch one another; threads of one warp that move together are    *)
(* some of the orders of single threads.  The kernels are run one beside   *)
(* the other to compare what they make of the same dstate.                 *)
(***************************************************************************)
EXTENDS Integers, FiniteSets

CONSTANTS
    Kernels,    \* variants of the backward kernel
    Threads,    \* threads of a block
    K,          \* rows of the state
    TileCols    \* columns of it a block works on

VARIABLES
    dstate,     \* the elements that are overwritten
    idx,        \* the element each thread is at
    kk2,        \* the row it reads next for ddelta
    late,       \* the rows it has read overwritten
    dpre        \* what came of each element

vars == <<dstate, idx, kk2, late, dpre>>

Elements == 0..(K * TileCols - 1)
ThreadIds == 0..(Threads - 1)
Column(i) == i % TileCols
InRow(row, i) == row * TileCols + Column(i)
None == {-1}

Init ==
    /\ dstate = [kernel \in Kernels |-> {}]
    /\ idx = [kernel \in Kernels |-> [t \in ThreadIds |-> t]]
    /\ kk2 = [kernel \in Kernels |-> [t \in ThreadIds |-> 0]]
    /\ late = [kernel \in Kernels |-> [t \in ThreadIds |-> {}]]
    /\ dpre = [kernel \in Kernels |-> [i \in Elements |-> None]]

(* ddelta += dstate[kk2 * tile_cols + local_j] * k                         *)
AddToDdelta(kernel, t) ==
    /\ idx[kernel][t] \in Elements
    /\ kk2[kernel][t] < K
    /\ IF InRow(kk2[kernel][t], idx[kernel][t]) \in dstate[kernel]
         THEN late' = [late EXCEPT ![kernel][t] = @ \cup {kk2[kernel][t]}]
         ELSE UNCHANGED late
    /\ kk2' = [kk2 EXCEPT ![kernel][t] = @ + 1]
    /\ UNCHANGED <<dstate, idx, dpre>>

(* dpre from ddelta and the element, and dstate[idx] = dpre * et           *)
Overwrite(kernel, t) ==
    /\ idx[kernel][t] \in Elements
    /\ kk2[kernel][t] = K
    /\ dpre' = [dpre EXCEPT ![kernel][idx[kernel][t]] = late[kernel][t]]
    /\ dstate' = [dstate EXCEPT ![kernel] = @ \cup {idx[kernel][t]}]
    /\ idx' = [idx EXCEPT ![kernel][t] = @ + Threads]
    /\ kk2' = [kk2 EXCEPT ![kernel][t] = 0]
    /\ late' = [late EXCEPT ![kernel][t] = {}]

Next == \E kernel \in Kernels, t \in ThreadIds : AddToDdelta(kernel, t) \/ Overwrite(kernel, t)
Spec == Init /\ [][Next]_vars

-----------------------------------------------------------------------------

AtBarrier(kernel) == \A t \in ThreadIds : idx[kernel][t] \notin Elements

(* What tests/model/test_qwen_linear_attention_cuda.cc 92-116 requires of  *)
(* the variants of the kernel: from the same dstate they come to the same  *)
(* gradients.                                                              *)
VariantsAgree ==
    \A k1, k2 \in Kernels : AtBarrier(k1) /\ AtBarrier(k2) => dpre[k1] = dpre[k2]
=============================================================================
