--------------------------- MODULE RolloutBatches ---------------------------
(***************************************************************************)
(* nccl_gpu_batch_transport.cc: how a rollout batch travels over a         *)
(* communicator.  A header first, then the tensors it describes: each in a *)
(* message of its own (DirectTensor), or those of one dtype end to end     *)
(* (SlabByDType).  Messages carry no tag: the receiver works out from the  *)
(* header what is to come, in which order and of which size.               *)
(*                                                                         *)
(* A batch is [step, weight_version, tensors]; tensors gives each kind a   *)
(* [dtype, data], where data is empty for a tensor that is not defined.    *)
(***************************************************************************)
EXTENDS Integers, Sequences

Kinds == <<"prompt_ids", "response_ids", "response_mask", "old_log_probs",
           "ref_log_probs", "rewards", "advantages", "group_ids">>
DTypeOrder == <<"int64", "float32", "bfloat16", "float16", "uint8">>
Required == {"prompt_ids", "response_ids", "response_mask", "advantages"}

(* The elements of a list that are wanted, in its order.                   *)
Kept(list, wanted) ==
    LET kept[i \in 0..Len(list)] ==
            IF i = 0 THEN <<>>
            ELSE IF list[i] \in wanted THEN Append(kept[i - 1], list[i])
            ELSE kept[i - 1]
    IN  kept[Len(list)]

(* describe_gpu_rollout_batch: the defined tensors, in the order of Kinds. *)
DefinedIn(batch) == {k \in DOMAIN batch.tensors : batch.tensors[k].data # <<>>}
Describe(batch) ==
    LET kinds == Kept(Kinds, DefinedIn(batch))
    IN  [i \in DOMAIN kinds |->
            [kind |-> kinds[i], dtype |-> batch.tensors[kinds[i]].dtype,
             numel |-> Len(batch.tensors[kinds[i]].data)]]

Header(batch, mode) ==
    [step |-> batch.step, weight_version |-> batch.weight_version, mode |-> mode,
     tensors |-> Describe(batch)]

DTypesIn(tensors) == Kept(DTypeOrder, {tensors[i].dtype : i \in DOMAIN tensors})

(* The elements of a dtype, and their number, in the first i tensors.      *)
NumelUpTo(tensors, dtype) ==
    LET upto[i \in 0..Len(tensors)] ==
            IF i = 0 THEN 0
            ELSE IF tensors[i].dtype = dtype THEN upto[i - 1] + tensors[i].numel
            ELSE upto[i - 1]
    IN  upto
SlabUpTo(batch, tensors, dtype) ==
    LET upto[i \in 0..Len(tensors)] ==
            IF i = 0 THEN <<>>
            ELSE IF tensors[i].dtype = dtype
              THEN upto[i - 1] \o batch.tensors[tensors[i].kind].data
            ELSE upto[i - 1]
    IN  upto

(* NCCLGpuBatchSender::send, after the header.                             *)
Payload(batch, mode) ==
    LET tensors == Describe(batch)
        dtypes == DTypesIn(tensors)
    IN  IF mode = "direct"
          THEN [i \in DOMAIN tensors |->
                    [dtype |-> tensors[i].dtype, data |-> batch.tensors[tensors[i].kind].data]]
        ELSE [i \in DOMAIN dtypes |->
                [dtype |-> dtypes[i],
                 data |-> SlabUpTo(batch, tensors, dtypes[i])[Len(tensors)]]]

(* What NCCLGpuBatchReceiver::recv receives after a header.                *)
Expected(header) ==
    LET tensors == header.tensors
        dtypes == DTypesIn(tensors)
    IN  IF header.mode = "direct"
          THEN [i \in DOMAIN tensors |-> [dtype |-> tensors[i].dtype, numel |-> tensors[i].numel]]
        ELSE [i \in DOMAIN dtypes |->
                [dtype |-> dtypes[i], numel |-> NumelUpTo(tensors, dtypes[i])[Len(tensors)]]]

(* The batch it makes of them: a tensor is a message, or the part of the   *)
(* slab of its dtype behind those described before it.                     *)
Unpack(header, payload) ==
    LET tensors == header.tensors
        Place(i) == [message |-> IF header.mode = "direct" THEN i
                                 ELSE CHOOSE m \in DOMAIN payload :
                                        payload[m].dtype = tensors[i].dtype,
                     offset |-> IF header.mode = "direct" THEN 0
                                ELSE NumelUpTo(tensors, tensors[i].dtype)[i - 1]]
        Tensor(i) == [dtype |-> tensors[i].dtype,
                      data |-> SubSeq(payload[Place(i).message].data,
                                      Place(i).offset + 1, Place(i).offset + tensors[i].numel)]
        At(k) == {i \in DOMAIN tensors : tensors[i].kind = k}
    IN  [step |-> header.step, weight_version |-> header.weight_version,
         tensors |-> [k \in {tensors[i].kind : i \in DOMAIN tensors} |->
                        Tensor(CHOOSE i \in At(k) : TRUE)]]

(* What a sent batch is to its receiver: undefined tensors stay undefined. *)
Delivered(batch) ==
    [batch EXCEPT !.tensors =
        [k \in DefinedIn(batch) |-> @[k]]]

(* Mutant: the step of the batch is not looked at.                         *)
Accepted_anyStep(batch, step) == Required \subseteq DOMAIN batch.tensors

(* The trainer's step check, and convert_gpu_rollout_batch's.              *)
Accepted(batch, step) == batch.step = step /\ Required \subseteq DOMAIN batch.tensors
=============================================================================
