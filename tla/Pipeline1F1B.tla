---------------------------- MODULE Pipeline1F1B ----------------------------
(***************************************************************************)
(* One optimizer step of the pipeline: every stage runs the 1F1B schedule  *)
(* of pipeline.cc once per gradient-accumulation round, exchanging         *)
(* activations and gradients with its neighbours over ordered              *)
(* point-to-point channels.  A tensor is represented by the number of the  *)
(* micro-batch it belongs to, counted over all rounds.                     *)
(*                                                                         *)
(* A send is complete when at most `buffered' tensors sent on its channel  *)
(* are still to be received: 0 is a rendezvous, more the transport's       *)
(* buffer.  NCCL buffers small messages and makes larger ones wait; all    *)
(* activations of a model and their gradients have one size.  The GPU work *)
(* of a stage is in program order (every operation of NcclCollectives      *)
(* makes the current stream wait for it), so the stage does nothing else   *)
(* before its send is complete.                                            *)
(***************************************************************************)
EXTENDS Schedule1F1B, Sequences

CONSTANTS
    Rounds,     \* grad_accum_steps
    Capacities  \* tensors a channel may buffer

ASSUME PipelineAssumption ==
    /\ ScheduleParameters
    /\ Rounds \in Nat \ {0}
    /\ Capacities \subseteq Nat

Links  == 0..(PP - 2)      \* link s joins stages s and s + 1
Slots  == 0..(M - 1)
Undefined == -1            \* a default-constructed torch::Tensor
Batch(r, mb) == (r - 1) * M + mb
Batches == 0..(Rounds * M - 1)

VARIABLES
    buffered, \* how many tensors a channel buffers
    round,    \* accum_step + 1 of each stage
    pos,      \* next entry of the schedule, 2 * M + 1 at its end
    pc,       \* "ready", or "sending" until the send of that entry completes
    inputs,   \* stage_inputs
    outputs,  \* stage_outputs
    act,      \* activations under way on each link, oldest first
    grad,     \* gradients under way on each link
    applied   \* history: <<activation, gradient>> of each backward pass

vars == <<buffered, round, pos, pc, inputs, outputs, act, grad, applied>>

-----------------------------------------------------------------------------
(* The stages                                                              *)

NoSlots == [mb \in Slots |-> Undefined]

Init ==
    /\ buffered \in Capacities
    /\ round = [s \in Stages |-> 1]
    /\ pos = [s \in Stages |-> 1]
    /\ pc = [s \in Stages |-> "ready"]
    /\ inputs = [s \in Stages |-> NoSlots]
    /\ outputs = [s \in Stages |-> NoSlots]
    /\ act = [l \in Links |-> <<>>]
    /\ grad = [l \in Links |-> <<>>]
    /\ applied = [s \in Stages |-> <<>>]

Entry(s) == Schedule(s)[pos[s]]
At(s, op) == pc[s] = "ready" /\ pos[s] <= 2 * M /\ Entry(s).op = op

(* After its last operation an entry is over, unless that operation is a   *)
(* send that has yet to complete.                                          *)
Leave(s, sends) ==
    /\ pc' = [pc EXCEPT ![s] = IF sends THEN "sending" ELSE "ready"]
    /\ pos' = [pos EXCEPT ![s] = IF sends THEN @ ELSE @ + 1]

(* The first stage embeds the micro-batch; the others receive the          *)
(* activation.  All but the last send theirs.                              *)
Forward(s) ==
    /\ At(s, "forward")
    /\ ~IsFirst(s) => act[s - 1] # <<>>
    /\ LET mb == Entry(s).mb
           x  == IF IsFirst(s) THEN Batch(round[s], mb) ELSE Head(act[s - 1])
       IN  /\ inputs' = IF IsFirst(s) THEN inputs
                        ELSE [inputs EXCEPT ![s] = [@ EXCEPT ![mb] = x]]
           /\ outputs' = [outputs EXCEPT ![s] = [@ EXCEPT ![mb] = x]]
           /\ act' = [l \in Links |-> IF l = s THEN Append(act[l], x)
                                      ELSE IF l = s - 1 THEN Tail(act[l])
                                      ELSE act[l]]
    /\ Leave(s, ~IsLast(s))
    /\ UNCHANGED <<buffered, round, grad, applied>>

(* The last stage differentiates its loss; the others receive the gradient *)
(* of their output.  All but the first send the gradient of their input.   *)
(* Both slots are cleared.                                                 *)
Backward(s) ==
    /\ At(s, "backward")
    /\ ~IsLast(s) => grad[s] # <<>>
    /\ LET mb == Entry(s).mb
           g  == IF IsLast(s) THEN Batch(round[s], mb) ELSE Head(grad[s])
       IN  /\ applied' = [applied EXCEPT ![s] = Append(@, <<outputs[s][mb], g>>)]
           /\ grad' = [l \in Links |-> IF l = s - 1 THEN Append(grad[l], inputs[s][mb])
                                       ELSE IF l = s THEN Tail(grad[l])
                                       ELSE grad[l]]
           /\ inputs' = [inputs EXCEPT ![s] = [@ EXCEPT ![mb] = Undefined]]
           /\ outputs' = [outputs EXCEPT ![s] = [@ EXCEPT ![mb] = Undefined]]
    /\ Leave(s, ~IsFirst(s))
    /\ UNCHANGED <<buffered, round, act>>

SendComplete(s) ==
    /\ pc[s] = "sending"
    /\ Len(IF Entry(s).op = "forward" THEN act[s] ELSE grad[s - 1]) <= buffered
    /\ Leave(s, FALSE)
    /\ UNCHANGED <<buffered, round, inputs, outputs, act, grad, applied>>

(* Mutant: one round too many.                                             *)
NextRound_oneMore(s) ==
    /\ pos[s] = 2 * M + 1
    /\ round[s] <= Rounds
    /\ round' = [round EXCEPT ![s] = @ + 1]
    /\ pos' = [pos EXCEPT ![s] = 1]
    /\ inputs' = [inputs EXCEPT ![s] = NoSlots]
    /\ outputs' = [outputs EXCEPT ![s] = NoSlots]
    /\ UNCHANGED <<buffered, pc, act, grad, applied>>

(* The next accumulation round begins, without any synchronization.        *)
NextRound(s) ==
    /\ pos[s] = 2 * M + 1
    /\ round[s] < Rounds
    /\ round' = [round EXCEPT ![s] = @ + 1]
    /\ pos' = [pos EXCEPT ![s] = 1]
    /\ inputs' = [inputs EXCEPT ![s] = NoSlots]
    /\ outputs' = [outputs EXCEPT ![s] = NoSlots]
    /\ UNCHANGED <<buffered, pc, act, grad, applied>>

Stage(s) == Forward(s) \/ Backward(s) \/ SendComplete(s) \/ NextRound(s)

Next == \E s \in Stages : Stage(s)

Spec == Init /\ [][Next]_vars

(* Every stage is a process of its own that goes on as soon as it can.     *)
FairSpec == Spec /\ \A s \in Stages : WF_vars(Stage(s))

-----------------------------------------------------------------------------
(* Properties                                                              *)

Done(s) == pos[s] = 2 * M + 1 /\ round[s] = Rounds
AllDone == \A s \in Stages : Done(s)

(* Type invariant.                                                         *)
TypeOK ==
    /\ buffered \in Capacities
    /\ round \in [Stages -> 1..Rounds]
    /\ pos \in [Stages -> 1..(2 * M + 1)]
    /\ pc \in [Stages -> {"ready", "sending"}]
    /\ inputs \in [Stages -> [Slots -> Batches \cup {Undefined}]]
    /\ outputs \in [Stages -> [Slots -> Batches \cup {Undefined}]]
    /\ act \in [Links -> Seq(Batches)]
    /\ grad \in [Links -> Seq(Batches)]
    /\ applied \in [Stages -> Seq(Batches \X Batches)]

(* The trainer's "missing stage activation / input for backward" errors    *)
(* never happen, and a backward pass finds its own micro-batch there: what *)
(* was received in order belongs to the slot the schedule names.           *)
SlotsMatch ==
    \A s \in Stages : At(s, "backward") =>
        LET b == Batch(round[s], Entry(s).mb)
        IN  outputs[s][Entry(s).mb] = b /\ (~IsFirst(s) => inputs[s][Entry(s).mb] = b)

(* Each stage applies to every micro-batch of every round its own          *)
(* gradient, exactly once and in order.                                    *)
GradientsMatch ==
    \A s \in Stages :
        /\ \A k \in DOMAIN applied[s] : applied[s][k] = <<k - 1, k - 1>>
        /\ Done(s) => Len(applied[s]) = Rounds * M

(* A stage never holds more activations than the schedule's maximum, which *)
(* is the number of stages from it to the end; no link ever holds more.    *)
Live(s) == {mb \in Slots : outputs[s][mb] # Undefined}
LiveBound ==
    \A s \in Stages :
        /\ MaxLive(s) = PP - s
        /\ Cardinality(Live(s)) <= MaxLive(s)
        /\ s \in Links => Len(act[s]) <= MaxLive(s)

(* When all stages are done nothing is left on a link or in a slot for the *)
(* next step to stumble on.                                                *)
Drained ==
    AllDone => /\ \A l \in Links : act[l] = <<>> /\ grad[l] = <<>>
               /\ \A s \in Stages : Live(s) = {}

(* With a buffer for one tensor per channel the step always ends.          *)
Completes == buffered > 0 => <>AllDone

(* Stages s and s + 1 each wait for the other to receive.                  *)
CrossingSends(l) ==
    /\ pc[l] = "sending" /\ Entry(l).op = "forward"
    /\ pc[l + 1] = "sending" /\ Entry(l + 1).op = "backward"

(* What a stage can go on with: the guards of Stage(s).                    *)
CanStep(s) ==
    \/ At(s, "forward") /\ (~IsFirst(s) => act[s - 1] # <<>>)
    \/ At(s, "backward") /\ (~IsLast(s) => grad[s] # <<>>)
    \/ /\ pc[s] = "sending"
       /\ Len(IF Entry(s).op = "forward" THEN act[s] ELSE grad[s - 1]) <= buffered
    \/ pos[s] = 2 * M + 1 /\ round[s] < Rounds

(* The one way for the pipeline to stop is a pair of crossing sends, an    *)
(* activation against a gradient, and that only without any buffering.     *)
OnlyCrossingSendsBlock ==
    (\A s \in Stages : ~CanStep(s)) =>
        AllDone \/ (buffered = 0 /\ \E l \in Links : CrossingSends(l))
StopsOnlyAtCrossingSends ==
    /\ \A s \in Stages : CanStep(s) <=> ENABLED Stage(s)
    /\ OnlyCrossingSendsBlock
=============================================================================
