# TLA+ models of cverl

cverl is a C++/CUDA stack for reinforcement-learning post-training: rollout
transports that bring generated text or GPU batches to a trainer, a distributed
trainer (data, pipeline, context, tensor and expert parallel), its optimizer
sharding, and checkpoints. This directory holds TLA+ modules of the parts whose
correctness depends on the order of events in several processes, TLC instances
that check them, and TLAPS proofs. Paths below are relative to the repository.

- [The system](#the-system)
- [The modules](#the-modules)
- [The runs](#the-runs)
- [The proofs](#the-proofs)
- [What the checks found](#what-the-checks-found)
- [What is not modelled](#what-is-not-modelled)
- [The plan](#the-plan)

## The system

| Part | State | Operations | Interacts through | Hard because |
|---|---|---|---|---|
| Shared-memory rollout transport (`src/rollout/shared_memory_transport.cc`, `shared_memory.cc`) | header, request and response buffer in shared memory, two semaphores | `generate`, `serve_one`, `serve_loop`, `create_client`, `attach_server` | shared memory between two processes | one slot, timeouts that do not take a request back, either side may be gone; objects found by a name that others use too |
| 1F1B pipeline (`src/distributed/pipeline.cc`, executed by the trainer) | per stage: schedule position, activation slots | forward, backward, send, receive | point-to-point NCCL between neighbouring stages | each stage has its own schedule, messages carry no tag, sends may block |
| Checkpoint and resume (`tools/model/qwen3_5_pp_tp_ppo_trainer.cc`) | files on a shared disk; parameters and optimizer of each rank | save rank, write manifest, write latest, load | barriers; files of earlier launches | any rank may die between any two renames |
| Trainer main loop (same file) | step, gradients, parameters, metrics | fetch batch, schedule, reduce, clip, step, save | all of the above, collectives | every rank must issue the same collectives in the same order |
| Topology (`src/distributed/topology.cc`) | none (pure) | `global_rank`, `rank_info`, `pipeline_layer_range` | every communicator is built from it | mixed-radix arithmetic over five axes |
| Weights of a stage (trainer, `src/model/qwen3_5_text.cc`) | parameters by name | which to load, cut, pack; `weight` | the model looks them up by name | a name that is missing is loaded from the disk and not trained |
| Optimizer sharding (`src/distributed/optimizer_sharding.cc`) | flat shard of each data rank | flatten, bucketed reduce-scatter, step, all-gather | data-parallel collectives | padding and straddling parameters, buckets that all ranks cut alike |
| FP32 master AdamW (`src/torch/fp32_master_adamw.cc`) | master weights, moments, accumulated gradients | accumulate, scale, step, load | trainer, checkpoint | which gradient, with which norm, of which step |
| Gradient synchronisation (`src/distributed/parallel_ops.cc`) | bucket under construction | all-reduce or reduce-scatter of buckets | data-parallel collectives | a parameter without gradient shifts the buckets of one rank |
| Weight synchronisation (`src/distributed/weight_sync.cc`) | bucket under construction | broadcast, send, receive | trainer ranks, trainer to rollout worker | both ends derive the buckets on their own |
| NCCL collectives (`src/distributed/nccl_collectives.cc`) | communicators, stream, pending operations | collectives, send/receive, id-file rendezvous | CUDA streams, a file | stale id files, stream ordering, lazy communicator splits |
| NCCL rollout batches (`src/rollout/nccl_gpu_batch_transport.cc`, `tools/rollout/nccl_rollout_batch_source.cc`) | step counter of the source, ingress queue | send, receive, push, pop | NCCL between source and trainer | step numbers after a resume, messages without tags, unchecked weight versions |
| Context parallelism (`src/distributed/context_parallel.cc`, `cuda/cp_attention_cuda.cu`) | key/value blocks of a ring, online softmax of a row | slice, gather, exchange, attend, and their gradients | NCCL ring | whose block arrives when, padding, gradients back to the owner |
| Tensor-parallel layers (`src/model/qwen3_5_text.cc`) | none | MLP, attention, recurrent layer, embedding, log-probabilities | all-reduce | fused and repeated heads, the way of the gradient |
| Expert parallelism (`src/distributed/expert_parallel.cc`, `qwen3_5_text.cc`) | none | dispatch, all-to-all, grouped experts, return | all-to-all | two sorts and a padding that have to be undone |
| Recurrent layer (`qwen3_5_text.cc`, `cuda/qwen_linear_attention_cuda.cu`) | recurrent state, checkpoints, replay buffers | scan, hand on the state, recompute backward | point-to-point NCCL, threads of a block | states in the right place at the right time |
| Rollout workers, CUDA IPC, vLLM drivers (`src/rollout`, `tools/rollout`, `python`) | plugin handle, exported handles | load, generate, reload weights | dlopen, HTTP, IPC | the other side is outside the repository |
| Tokenizer, data, losses, rewards | none | pure computation | calls | numerical or textual, not a protocol |

What makes the parts correct:

- *Transport*: a call is answered by its own response; an error or a timeout
  does not corrupt later calls; a live server answers, a stopped one stops;
  clients of one name do not get each other's objects.
- *Pipeline*: on every stage each micro-batch of each accumulation round goes
  forward and backward exactly once, with its own activation, input and
  gradient, within the activation bound of the schedule; the step ends.
- *Checkpoint*: what `latest_checkpoint.txt` names is always one whole
  checkpoint; ranks resume from one state of the model; a crash costs only time.
- *Topology*: ranks and coordinates are in bijection; the groups of an axis
  partition the ranks; the layer ranges partition the layers.
- *Step*: every element is reduced, updated and written back exactly once, every
  rank issues the same collectives, copies of a parameter stay equal.
- *Streams*: a kernel or collective reads what was written for it, although host,
  streams and memory reuse run apart.
- *Job*: processes meet in communicators of this launch, and train each step on
  the batch of that step.
- *Layers over a group*: together the ranks compute what one rank would, forward
  and backward.

The hazards this amounts to, each at its line, are listed in `PROJECT.json`.

## The modules

| Module | What it is |
|---|---|
| `RolloutRpc` | abstract: what `RolloutTransport::generate` promises, a synchronous call |
| `ShmTransport` | the shared-memory transport, one action per access to shared memory |
| `MCShmTransport`, `ShmTransportProofs` | its TLC instance and its proofs |
| `ShmLifecycle` | the region and the semaphores of a transport by name: create, attach, destroy, crash |
| `MCShmLifecycle` | instance; the proofs are in `ShmTransportProofs` |
| `Schedule1F1B` | the schedule of a stage, as operators |
| `Pipeline1F1B` | slots and links of all pipeline stages that follow it |
| `MCPipeline1F1B`, `Pipeline1F1BProofs` | instance and proofs |
| `NcclStreams` | streams, events and memory of one rank that follows it, to the end of a step |
| `MCNcclStreams` | its instance; the proofs are in `Pipeline1F1BProofs` |
| `Checkpoint` | saves, crashes, launches and resumes of the trainer's ranks |
| `MCCheckpoint`, `CheckpointProofs` | instance and proofs |
| `Topology` | the arrangement of ranks, as operators without state |
| `ParallelPlan` | the planning tool, which reports an arrangement rank by rank |
| `TopologyProofs` | lemmas about induction, lists and arrangements, which the proofs of the others use |
| `ParallelPlanProofs` | proofs about `ParallelPlan`, and about the weights of `ModelParallel` |
| `GradBuckets`, `FlatShard` | the cutting of gradients into buckets and of flat parameters into shards, as operators |
| `TrainStep` | composes them with `Topology`: gradients and parameters of all ranks through an optimizer step |
| `MCTrainStep`, `TrainStepProofs`, `ReplicaProofs` | instance, proofs that the collectives match, and proofs about what they compute |
| `RolloutBatches` | header and payload of a rollout batch, as operators |
| `TrainerJob` | composes it with `Topology`: trainer and rollout source from launch to end |
| `MCTrainerJob`, `TrainerJobProofs` | instance and proofs |
| `ContextParallel` | slices, ring, streaming attention and its kernels, gradients of a ring, as operators |
| `ContextLayer` | an attention layer and the loss on a context group, out of those |
| `LinearAttention` | the recurrent layer on a context group, and the states of its backward kernels |
| `TensorParallel` | the layers on a tensor group, and the way of gradients through them |
| `ExpertParallel` | the sparse MLP on an expert group |
| `StageWeights` | which weights a rank holds and which it reads |
| `ModelParallel` | composes the six: the inputs, and what they are checked for |
| `MCParallelPlan` | instance of `ParallelPlan` and `ModelParallel` |
| `DeltaPhase`, `MCDeltaPhase` | threads of a block in one phase of the recurrent backward kernels, and instance |

Definitions whose name contains an underscore (`Handle_withoutCatch`) are
mutants: each stands before the definition it varies and is the kind of bug one
of the properties must detect. No specification uses them.

### ShmTransport

Client and server are two sequential processes; `cpc` and `spc` say where
`generate` and `serve_one` are. The header fields, the two buffers and the two
semaphore values are the shared variables. Serializing takes two steps, so that
a half-written buffer is a state (`Partial`), and so does deserializing: a reader
keeps what the buffer held when it began (`cview`, `sview`), and if the buffer
was incomplete or changed in between, the outcome of the data race is any of the
old message, the new one, a mixture, or the exception a wrong length leads to.
A payload is the number of the call that wrote it together with the
`request_id` field it carries; the id that `generate` assigns on its own goes
into the header only, as in the code. The handler answers, throws, or returns a
response that does not fit. `ClientTimeout` and `ServerTimeout` are
`timeout_ms > 0` on either side; a timeout may strike whenever the semaphore
cannot be taken. The sidecar may die at any point (`ServerDies`) and attach to the
same objects again (`AttachServer`); what it had taken from the request semaphore
is not answered then (`lost`). `handled`, `posted`, `timeouts` and `lost` are
history variables. Both sides are attached when the module begins: how they come
to be is `ShmLifecycle`.

### ShmLifecycle

An object of the operating system is told by the client that created it; a name
stands for one object or none; an object whose name is gone lives on for those who
have it open. `create_client` is one action per call that touches a name: the two
`sem_unlink`s, `shm_open` with `O_EXCL`, `ftruncate` and `mmap` (which may fail),
the header, the two `sem_open`s (which may fail too). A failure continues in the
destructor, `Close`, as the exception does in the code. `attach_server` opens
region, semaphore and semaphore, in three steps, and may begin at any time. `Crash`
kills a client at any point and leaves its names. A client is not destroyed while a
server attaches or is attached, as `shared_memory_transport.h:42-43` asks of its
caller. Nothing in the code removes the region of a dead client: `RemoveRegion` is
somebody doing it by hand, while no other process uses the name.

### Schedule1F1B, Pipeline1F1B

`Schedule(s)` is the list `pipeline_1f1b_schedule` returns for stage `s` (the
phase labels and the four flags, which repeat `is_first_stage` and
`is_last_stage`, are left out). A stage goes through its entries; `Forward` and
`Backward` are the bodies of the two branches of the trainer's loop: receive,
compute, store in or clear the slot, send. A tensor is the number of the
micro-batch it belongs to, counted over all accumulation rounds, so a wrong
pairing is a visible inequality. Links are FIFO queues without tags, as
NCCL point-to-point operations of one communicator are.

The entry of a sending stage is over when its send is (`SendComplete`): NCCL
operations make the current stream wait (`finish_nccl_op`), so the GPU work of a
stage is in program order although the host runs ahead (`NcclStreams` is about
what that rests on). `buffered` is the number of tensors a link buffers, chosen
from `Capacities` at the start. NCCL buffers small messages and makes larger ones
wait for their receiver; which of the two applies depends on the size of the
activations, so both are checked. `applied` is a history variable.

The data, tensor, context and expert axes are left out: each of them has its own
copy of the pipeline, with the same schedule.

### NcclStreams

The device of one rank. `program` is the host's list of calls: either the micro-batch
schedule of its stage with the sync of the gradients after it, up to the copy of the
norms to the host, which waits for the device; or, from there, the update and the
broadcast of each owner's parameters. A call names the tensors it reads and returns
and those the host drops after it. The host runs ahead: `Launch` and `Collective`
only queue work, each on its own stream, behind the events that make one stream
wait for another (`WaitCurrentStreamBeforeNccl`, `FinishNcclOp`, with or without
`synchronize_after_collective`). Streams take their work one by one, in order, in
two steps, so that work of two streams overlaps. Memory is that of the caching
allocator: a block the host has dropped can be given to the next tensor at once,
unless a pending operation keeps it. `mem` says whose values a block holds; a reader
that finds anything else misreads.

All tensors have one size and a few kernels stand for many. What two ranks exchange
is the other modules' subject: here a receive completes when it likes.

### Checkpoint

The disk is what `step_<n>` directories hold per rank (`pt`, `meta`), their
`manifest`, and `latest`. Every file is written to a temporary name and renamed,
so its appearance is one step and a crash may come before or after it; nothing
ever reads a temporary file. The value of a file, and of a rank's memory, is the
pair of the launch and the optimizer step that produced it: training is a
function of the launch (data order, kernels and reductions are not reproducible
across launches), so two launches that reach step *n* have different weights.
The two checkpoint formats (`save_rank_checkpoint` and the flat-shard variant)
write the same files in the same order, pass the same barriers and make the same
checks; the module stands for both.

Barriers and all-rank reductions are counted: `arrived[r]` is how many rank `r`
has entered in this launch and `Released(r)` says that all ranks have entered as
many. Ranks leave a barrier one by one. `Launch` starts all ranks with a
`--resume-checkpoint` chosen by the operator: the checkpoint root, any step
directory, or none. `fromRoot` is a history variable: whether every launch so far
went on from the root, once that had a checkpoint. `Crash` takes any rank at any point; `TearDown` kills the ranks that are
left waiting, which whoever runs the launch script has to do (the script waits
for all of its processes).

Left out: `--checkpoint-every 0` and an empty `--checkpoint-dir` (nothing is
saved), `--skip-optimizer-step`, a change of topology or of the model between
launches (rejected by the loader's metadata checks), and a damaged disk.

### Topology and ParallelPlan

`Topology` translates `topology.cc` and `pipeline_peers` operator by operator: an
arrangement is the `ParallelDims`, a record of axis sizes, and a rank's
coordinates are the record `rank_info` fills in. The groups are sequences, in the
order in which the code pushes the ranks, because the position in a group is the
rank a process takes in the communicator. Every process computes all this on its
own, so the properties relate what different ranks compute.

`ParallelPlan` is the one program whose state is an arrangement: the planning
tool with `--all-ranks`. Its initial states are all arrangements within the
bounds, its steps go from rank to rank, and its invariants are about the rank
being reported. Arithmetic is on unbounded integers: the code's `int64_t`
overflows only for worlds no machine has.

### TrainStep, GradBuckets, FlatShard

`GradBuckets` is the loop `data_parallel_sync_gradients` and the weight broadcast
share: go through a list, close a bucket before what does not fit. `FlatShard` is
the flat layout of `optimizer_sharding.cc`: padding, shards, the ranges of
parameters in a shard, the pieces of a bucketed reduce-scatter, which take a
segment of every rank's shard, and the greedy ownership of whole parameters.

In `TrainStep` a rank has a `queue` of collectives it will issue, computed from
its own parameter list and its own defined gradients; a collective happens when
all ranks of its communicator have one on that communicator at the head of their
queues, and sets `bad` if they bring different operations or sizes (NCCL would
hang or corrupt memory). A gradient element records whose local gradients went
into it and what it was divided by; a parameter element is the sequence of its
updates, so two copies are equal only if all updates were. `mode` is how the
optimizer is divided: not at all (`full`), by owner (`owner`,
`--dp-sharded-optimizer`), or by flat shard (`flat`).

A parameter of each kind stands for all of its kind: `embed`, a replicated
`norm`, a sharded `proj`, the packed `expert`s. `routed` says on which data ranks
an expert gets a token at all: without one its gradient stays undefined (before
the first) or zero. Outside the flat mode the model assumes that data ranks agree
about it; where they do not, they cut different buckets, and nothing in
`data_parallel_sync_gradients` notices. Dtypes and accumulation in FP32 are left
out.

### TrainerJob, RolloutBatches

`main()` of the trainer and of the batch source are straight-line code around a
loop, so a process is a program, a sequence of operations (`TrainerProgram`,
`SourceProgram`), and a program counter. Id files hold the launch that wrote them.
`GiveUp` is the reader's five seconds being over; `Crash` takes a process at any
point; `Relaunch` is the launch scripts run again: they remove the id files and
start everything. `RolloutBatches` says what is sent: a header, then tensors one
by one or in slabs by dtype, and how the receiver takes them apart. An element of
a tensor is marked with its step, kind and place, so a tensor in the wrong place
is seen.

The communicators are those of `Topology`: `Paths` are the id files of a rank,
`Creates` who writes them. Groups of one are left out. The run assumes
`--dp-size 1`, as the scripts that compute the target ranks do.

### ModelParallel and what it composes

A layer over a group exchanges in a fixed order, with no choice anywhere, so what
the ranks compute is a function of the input: these modules have operators, and a
behaviour of the instance is one input. Numbers are abstracted to where they come
from, just as far as an error of the code shows: a token is its position, the row
of a softmax a bag of weighted entries, a recurrent state the sequence of updates
applied to zero (they do not commute), a weight the sequence of its rows, a
gradient the bag of its summands. What a rank computes from its part is compared
with the same layer on one rank.

`ContextLayer` has the five paths of attention: keys gathered, gathered in ring
order, passed around the ring, and the two CUDA kernels (narrow and wide head
dimension), with the recomputing backward and the loss the trainer divides by
`cp`. `LinearAttention` has the state handed from rank to rank, the exchanged
projections, and the backward kernels with saved, recomputed, checkpointed and
replayed states, tiled, with wide and compact buffers and byte budgets.
`TensorParallel` has the forward pass of every layer with shards cut by the loader
(`ShardIfNeeded`, `FusedShard`) or by the model (`LocalOrShard`), and `Incoming`,
the paths a gradient takes back. `FullPartial` is the gated attention of the dense
model; the sparse model's has no gate and is otherwise the same. `ExpertParallel`
goes from routes through dispatch, all-to-all, the sort by expert and the grouped
product back to the tokens, and back again for gradients. (Ties of the two sorts
are resolved by position; the code remembers the order it got, and any would do.)
`StageWeights` compares the names `stage_required_weight_names` yields for a rank
with those its part of the model looks up.

### DeltaPhase

One phase of a thread block, between two barriers, for two kernels side by side
that start from the same gradient of the state. An element is told only by
whether it has been overwritten, a result by the rows it was read late from.

## The runs

| Run | Instance | Properties | Result |
|---|---|---|---|
| `shm_blocking` | 3 calls, ids {0, 7}, blocking client, server with timeout | `TypeOK`, `RefinesRpc`, `ServedWhileRunning`, `ServerStops` | holds |
| `shm_timeouts` | 3 calls, client with timeout, blocking server | `TokenConservation`, `CleanUntilTimeout`, `LagBound`, `GenerateReturns` | holds |
| `shm_lifecycle` | 3 clients of one name, a server | `SessionsApart` | holds |
| `pipeline` | 4 stages, 5 micro-batches, 2 rounds, links that buffer 0 or 1 tensor | `TypeOK`, `SlotsMatch`, `GradientsMatch`, `LiveBound`, `StopsOnlyAtCrossingSends`, `Completes` | holds |
| `nccl_streams` | 2 stages, 2 micro-batches; 2 owners, 2 buckets each; both ways to wait | `ReadsAsWritten` | holds |
| `checkpoint` | 3 ranks, 5 steps, save every 2, 3 launches, any resume source | `TypeOK`, `LatestCoherent`, `RanksAgree`, `NoRankFails`, `SameStep`, `RefusesOnlyIncomplete`, `LatestAdvances`, `TrainingCompletes` | holds |
| `checkpoint_complete` | 3 ranks, 3 steps, save every step, 3 launches | `CompleteResumeAgrees` | violated |
| `train_step` | 6 arrangements of 2 to 4 ranks, 3 modes, bucket sizes 1, 3, 4, 2 steps | `CollectivesMatch`, `ReplicasAgree`, `EveryGradientOnce` | holds |
| `trainer_job` | 1, 2 and 3 stages, 2 steps from step 0 or 1, both payload modes, 2 launches | `IdsOfThisLaunch`, `BatchOfThisStep`, `JobEnds` | holds |
| `plan_all_ranks` | all arrangements with axes up to 4 and 12 ranks, up to 5 layers; the layer inputs below | `RankNumbering`, `GroupsAreClasses`, `LayersSplit`, `RingAttention`, `ContextGradients`, `RecurrentCarry`, `ReplayedStates`, `TensorForward`, `ExpertRouting`, `StageHoldsItsWeights` | holds |
| `tensor_gradients` | tensor groups of up to 3 ranks, up to 3 layers | `TensorGradients` | violated |
| `delta_phase` | 2 kernels of 2 threads, a column of 4 rows | `VariantsAgree` | violated |

All configurations but that of `train_step` disable TLC's deadlock check: a client that makes no further
call, a finished step, job or report is a state in which the system rightly
stops, and that the pipeline does not stop anywhere else is a property
(`Completes`).

**Bounds.** *Transport*: a call that times out, one that overwrites its request
while the server reads it, and one that takes the late response are three calls.
Id 0 is "not set"; 7 can never be an assigned id. In both runs the sidecar may die
and attach again, any number of times. *Pipeline*: four stages have
two middle stages; with one micro-batch more than stages every stage has steady
pairs on top of warmup and cooldown; two rounds let one stage begin the second
while its neighbour is in the first. *Lifecycle*: one client that dies, one that
meets what it left, and one that comes between or after. *Streams*: the first of two
stages has a warmup, a steady pair and a cooldown, the last one receives activations
and sends gradients; a rank that shares parameters is the root twice in a row and
not the root twice in a row. Nine blocks of memory are never all in use, so the
allocator is never short. A stage with both neighbours is too large for TLC.
*Checkpoint*: rank 0, which writes the
manifest, and two others that can be at different points of their saves; three
launches are a save that is cut short, a second launch that rewrites the
directory, cut short again, and a third that resumes from the result. The last
launch does not crash. With five steps and a save every two there are two saves,
an odd step after the last and a step before the first.
*Plan*: twelve ranks leave room for three axes above one at a time, in every
order, and for a sequence group that is half of a tensor group; five layers are
more than, equal to, and fewer than the stages. *Step*: the arrangements have two
ranks along each axis, alone or with the data axis, and three data ranks, whose
shards need padding; parameters have one to three elements, so that a shard begins
inside one; a bucket of one element holds nothing but an oversized first
tensor, one of three a tensor exactly, one of four two of them; two steps show an
expert's gradient that is left over from the first. *Job*: three stages have one
that takes no batch and still comes to the barrier; two launches are one that
breaks at any point and one that finds what it left. *Layers*: context groups of
two and three ranks, one not in the order of its numbers, sequences of up to five
tokens with logits 0 and 1 in any order and padding that would have the highest
(full, partly and wholly padded shards); up to seven items for the recurrent layer
and a convolution over up to three; kernels with up to five items, four columns in
tiles of any size, checkpoints every one to three items; tensor groups of up to
three ranks and up to six heads, columns or token ids, divisible or not; two ranks
with two experts each, and three with one, and every way for their tokens to choose
among four and three pairs of experts; models of up to three layers of either kind
on up to three stages. *Delta phase*: two threads and four rows are an element of
the other thread and a second of the thread's own in one column.

**Fairness.** *Transport*: weak fairness of client and server, two operating
system threads; nothing makes anybody call or stop. `GenerateReturns` assumes the
client alone is scheduled: the sidecar may be dead. *Pipeline*: weak fairness of
every stage; its next GPU operation runs when it can. *Checkpoint*: weak fairness
of every rank, and of the operator who tears a broken job down and starts it
again; that is the environment, not the code, and `TrainingCompletes` is about
what the code makes of such an operator. Crashes are never fair. *Job*: weak
fairness of `Work`, what processes and NCCL do when they can; giving up on an id
file, crashing and launching again are not fair, and `JobEnds` promises nothing
once a file was late or a process has died.

**What the properties say.** `TokenConservation`: a posted request is at any time
in exactly one place (request semaphore, server, response semaphore, consumed, or
lost with the sidecar that died serving it), and a timed-out call leaves its token in the circuit for good. `CleanUntilTimeout`:
before the first timeout no buffer is accessed from both sides and a response is
the one to its call. `LagBound`: after timeouts a response may be old, but by no
more calls than have timed out. `RefinesRpc`: with a blocking client the transport
implements `RolloutRpc` under `open <- cpc # "idle"`, `runs <- handled`.
`SessionsApart`: a name stands for an object of a client that is still going to
remove it or has died; a client that is up keeps the name of its region, and loses
those of its semaphores only to another `create_client`, which is then refused; and a
server on its region waits on its semaphores, although it opened the three one by
one. `StopsOnlyAtCrossingSends`: without buffering the one way the pipeline stops is an
activation and a gradient crossing on a link, each sender waiting for the other
to receive (`OnlyCrossingSendsBlock`, of `CanStep`, which it also compares with
`ENABLED`). That does happen (it is how the schedule behaves with blocking
sends), which is why `Completes` is stated for buffered links. `ReadsAsWritten`:
while a kernel or collective reads a tensor, its block holds what was written for
it and nothing else. The exception is what the code leaves open: the output of a
receive or broadcast that nothing orders after the kernels before it.
`LatestCoherent`, `RanksAgree`, `NoRankFails`, `LatestAdvances` and
`TrainingCompletes` are about jobs that only went on from the root (`fromRoot`),
`SameStep` and `RefusesOnlyIncomplete` about all.
`RefusesOnlyIncomplete`: overwriting a step directory may mix launches, but never
brings it into a state the loader rejects, so a directory that was completed once
can always be resumed from.

`GroupsAreClasses`: the group a rank computes for an axis is the set of all ranks
whose coordinates differ from its own on that axis only; since that is an
equivalence, the members agree on their group and the groups partition the ranks.
`SequenceBlocks` and `ReplicasSplit` are the same for the sequence and the model
group, and tie the latter to the `model_parallel_rank` the trainer computes by
itself for its communicator, and `PeersMeet` says that neighbours in a pipeline name
each other; they are proved, not run.

`CollectivesMatch`: ranks that meet in a collective bring the same operation and
number of elements, although each works out its own. `EveryGradientOnce`: after a
step the last update of every element is made of the local gradient of every rank
whose tokens reach it, once each, divided by what the averages come to.
`ReplicasAgree`: ranks with the same slice of a parameter have applied the same
updates to it. `IdsOfThisLaunch` rests on the scripts' `rm`, since the reader takes
any file of the right size. `BatchOfThisStep`: a first or last stage that trains a
step does so with the source's batch of that step, whole, also after a resume (when
the trainer rejects every batch, and the job stops).

`RingAttention`: every token attends itself and what comes before, at the right
rotary position, whatever path brings the keys. `ContextGradients`: and gets the
gradient of the dense layer back. `RecurrentCarry`, `ReplayedStates`: the states
and gradients of the recurrent layer are those of one scan. `TensorForward`: the
partial results of a tensor group add up to the dense layer, and only what does not
divide is refused. `ExpertRouting`: tokens get the results of the experts they
chose, experts the gradients of their tokens. `StageHoldsItsWeights`: a rank reads
exactly what it holds, and all ranks together hold everything once.

## The proofs

Checked by TLAPS for every value of the constants, from the named assumptions of
the modules (`ShmAssumption`, `LifecycleAssumption`, `PipelineAssumption`,
`StreamsAssumption`, `CheckpointAssumption`, `TrainAssumption`, `JobAssumption`). TLC evaluates them
on every run.

| Module | Theorem | Says |
|---|---|---|
| `ShmTransportProofs` | `TypeCorrect`, `TokensConserved`, `CleanUntilFirstTimeout`, `LagIsBounded` | `Spec` implies always `TypeOK`, `TokenConservation`, `CleanUntilTimeout`, `LagBound` |
| | `BlockingRefinesRpc` | without client timeouts `Spec` implements `RolloutRpc` |
| | `SessionsStayApart` | `SpecLifecycle` implies always `SessionsApart`, for any number of clients |
| `Pipeline1F1BProofs` | `TypeCorrect`, `SlotsAlwaysMatch`, `EveryGradientOnce`, `NothingLeftBehind`, `ActivationsAreBounded` | `Spec` implies always `TypeOK`, `SlotsMatch`, `GradientsMatch`, `Drained`, `LiveBound`, for any number of stages, micro-batches and rounds and any `Capacities` (`Drained`: a finished step leaves nothing in a slot or on a link) |
| | `DeadlockFree` | and always `OnlyCrossingSendsBlock`: where no stage can step, all have finished, or two neighbours send to each other at once over links that do not buffer |
| | `ReadsAreAsWritten` | `SpecStreams` implies always `ReadsAsWritten`, for the stages of any pipeline, any number of micro-batches, owners and buckets, any memory, and in both ways to wait |
| `CheckpointProofs` | `TypeCorrect`, `LatestIsWhole`, `NobodyFails`, `RanksHoldOneModel`, `LatestNeverRetreats`, `TrainTheSameStep`, `OnlyIncompleteIsRefused` | `Spec` implies always `TypeOK`, `LatestCoherent`, `NoRankFails`, `RanksAgree`, and `LatestAdvances`; and always `SameStep`, `RefusesOnlyIncomplete`; for any number of ranks, steps and launches |
| `ParallelPlanProofs` | `RanksNumbered`, `GroupsPartition`, `SequenceGroupsAgree`, `ReplicasAgree`, `LayersCovered`, `NeighboursMeet` | `Spec` implies always `RankNumbering`, `GroupsAreClasses`, `SequenceBlocks`, `ReplicasSplit`, `LayersSplit`, `PeersMeet`, for axes and numbers of layers of any size |
| | `EveryStageHoldsItsWeights` | `StageHoldsItsWeights`, for models of any depth with any number of experts |
| `TrainStepProofs` | `CollectivesAlwaysMatch` | `Spec` implies always `CollectivesMatch`, for parameters, arrangements, buckets and numbers of steps of any size, in every mode of the optimizer |
| | `NeverStuck` | and always `AllDone \/ SomebodyGoesOn`: some rank can go on by itself, or some group has met at a collective |
| `ReplicaProofs` | `ReplicasStayEqual` | `Spec` implies always `ReplicasAgree`: after every step ranks with the same part of a parameter hold the same values, with a replicated, an owned and a flat optimizer |
| | `GradientsCountedOnce` | and always `EveryGradientOnce`: every element has one update for each step behind it, and the last one counts the local gradient of every rank whose tokens reach it once, and no other |
| `TrainerJobProofs` | `IdsAreOfThisLaunch` | `Spec` implies always `IdsOfThisLaunch`, for any arrangement and any number of launches and crashes |
| | `BatchesArriveIntact` | `Unpack(Header(b, mode), Payload(b, mode)) = Delivered(b)` for every batch `b` there is, of any shape and content, in both payload modes |
| | `BatchesAreOfTheirStep`, `NoMessageIsMistaken` | `Spec` implies always `BatchOfThisStep`, and `MessagesInOrder`: the next message is the one the receiver waits for; for any arrangement, start step and number of steps and launches |

*Transport.* `TokenConservation` is inductive with `TypeOK`. `CleanUntilTimeout`
is not: `CleanInv` says what the single token in the circuit entails, as long as
nothing has timed out, about the buffers (`ClientInv`, `ServerInv`) and about how
often the handler has run (`HandledInv`). The refinement shows that every step of
the transport is a step of `RolloutRpc` or leaves its variables alone, with
`timeouts = 0` as the invariant that switches `CleanInv` on. After timeouts the
lag of one message is not enough to know: what the client takes next may be older
than what is in the buffer. `LagInv` says for every message how far behind it may
be given where it is: a request the server takes, by the requests still to be
taken; a response, by those and the ones being served or lost. Every post that
lets something fall further behind adds the token that accounts for it.

*Lifecycle.* The region's name is a lock, taken by `shm_open` with `O_EXCL` and held
until the destructor's last step (`Lock`). Who holds it is the only one whose
semaphores have names (`HolderOnly`), what it loses is lost to a `create_client` that
will find the lock taken (`LostToOther`), and whoever may still take it has removed
what a dead client left (`StaleGone`); so a server that found the region of a client
that is up finds its semaphores or none (`JoinsHolder`).

*Pipeline.* Everything is counted. `FC(s, k)` and `BC(s, k)` are the forwards and
backwards among the first `k` entries of a schedule; lemma `Counting` derives from
the definition of `Schedule` that the next entry is the next forward or the next
backward, of a micro-batch already gone forward. The invariant `PInv` says that a
link carries exactly the batches between the counts of the stages it joins, in
order, that exactly the slots between a stage's two counts are in use, and that
the gradients applied so far are those of the batches 0, 1, 2, ... `SendComplete`
changes no count, so the argument does not depend on the buffering. `LiveBound`
is the difference of the two counts. For `DeadlockFree`, give the `m`-th forward and
backward of each stage a time at which a pipeline without delays would do it: a
stage that waits does so for an earlier time of a neighbour, so a stage with the
earliest time of all can step, unless it is in the middle of a send that the
neighbour, sending too, does not receive.

*Streams.* Of the program `ProgramOK` is all that matters: what a call reads was
returned by an earlier call and has not been dropped since, each tensor is returned
once, and before an operation that does not wait for the current stream there are
only operations on its own communicator. That the programs of every stage and of every
owner are like that is a matter of where the calls are (`ScheduleAt`, `Places`,
`ParamPlaces`): each tensor has a place where it is returned and one where it is
dropped, and the readers lie between (`HomesMakeProgram`).

The state does not say what the argument needs: a queue forgets what has left it, and a
block whose it was. So `StreamsInv` says that there is a memory of it: `log`, all that was
ever put on each stream; `at`, the place of each call's work on its stream; `blk`, the
block of each tensor (`Remembered`). Its heart is `Ordered`: a call's work cannot begin
before that of an earlier call is over, because the two are on one stream, or the later
one's stream waits for the end of the earlier, itself or by way of the current stream
(`Behind`); only an exposed call is not ordered. It is kept because everything not on
the current stream is waited for by the host or by the current stream as soon as it is
launched (`Joined`). Memory then follows: two tensors have shared a block only if the
first was dropped before the second was made (`Apart`), and the values in a block
are those of the last writer to begin, but for exposed ones (`MemOK`). So a reader finds the
writer over (`EndsFirst`), and whoever else wrote there is either older, and so has been
overwritten, or comes after the tensor was dropped, so after the reader, or is exposed.
The memory of the allocator is never taken to be large enough: with few blocks the host stops.

*Checkpoint.* `Safe`, under `fromRoot`, is the invariant; a step never sets
`fromRoot` again (`FromRootStays`). It relates each rank's position to the number of barriers
it has entered (ranks are at most one barrier apart), to its step and to its
memory, which is one function of the launch and the step for all ranks; and says
of the disk which files of the directory being saved are already of this launch,
given where the ranks are. `LatestCoherent` follows because nothing writes into
the directory `latest` names: every later step saves to a later directory.
Without `fromRoot` the models of the ranks may differ; `AnyInv` keeps of `Safe` what
is left, the barriers and the steps (`Together`), and that a complete manifest stands
over files of every rank and of the step it names (`DiskOK`), whichever launch they
are of.

*Topology.* Rank numbers are five-digit numbers in a mixed radix. `DigitOrder` and
`DigitIs` state what a positional number is (its digits are unique and it is
ordered by them); applied axis by axis they make `Coordinates` and `GlobalRank`
inverse to each other (`RankOfCoords`, `CoordsOfRank`) and monotone
(`RanksInOrder`). That a group is a class of ranks, in order, follows for every
axis from moving one coordinate at a time (`AxisMove`, `AxisOrdered`). The bounds
`MaxAxis`, `MaxWorld`, `MaxLayers` play no part in the proofs.

*Weights.* The layer ranges of the stages follow each other without a gap, and so do
the blocks of experts; every weight therefore has exactly one owner per position on
the other axes, and reading by a range is the same as holding by ownership. The
exception is written into the property: the tied head of a model on several stages.

*Collectives.* What a rank still has to call is a function of configuration, step
and rank (`Script`), and a collective is found by its communicator. The proof cuts
the script into its part for each communicator and shows that two members of a group
compute the same part: gradients are cut into buckets by the shapes, which are equal
in the group, and by which gradients are defined, which `GradsAs` ties to
the step's mode. Running, the invariant `Balanced` says that the calls that two members
of a communicator have left on it are the same sequence; so what stands first for
both is the same call.

`NeverStuck` is the other half: matching calls can wait for each other in a circle
when communicators share ranks. They do not, because every rank goes through its
communicators in one order: context, tensor, expert, data, then the norm
(`BeforeNorm`, `NormInv`), then the communicator of the shards. Take the first
communicator in that order on which some rank has a call left, and such a rank. The
members of its group have as many calls left on it (`Balanced`), and none on an
earlier one; so all of them are at this call.

*What the collectives compute.* `ReplicasAgree` speaks of the end of a step only, so
it says nothing of the values on the way, and its invariant has to say all of it.
`WorthInv` gives every variable its worth at every point of a step, as a function of
the configuration, the step and the number of calls a rank has left. `GradsWorth`: a
gradient is the local one, merged along every communicator whose call for it has been
made (`FromTokens`, `PastContext`, `PastTensor`, `PastExpert`, `PastData`).
`NormWorth`: the norm agreed on is that of the gradients of the whole model group.
`ParamsWorth`: with `w` the parameters at the beginning of the step, a rank has `w`
brought up to date where it owns the parameter or its owner's bucket has come, and `w`
elsewhere. `FlatWorth` says the same of single elements, by their position in the flat
vector: how much of the shard has been reduced, updated and gathered follows from
the calls left. To keep it in a collective one needs that the members of the group are
at the same point (`Balanced`), what cutting into buckets and putting back does
(`FlattenAt`, `GatherIs`), and that the pieces of all shards together reach every
element once (`ReachedOnce`, `CoveredNext`, `ApplyRangesAt`). Then no rank compares
with another: the merged gradient is the same function on ranks that differ only
along the axes it was merged along (`Uniform`), the norm on a model group, and along the
other axes a parameter is split. So if `w` was uniform, what the step makes of it is.

`EveryGradientOnce` needs two things more. `Dated` makes `w` part of a history: it
has been loaded and updated once for each step before this one, so that the barrier
can take the end of a step for the beginning of the next (`SettledHistories`,
`FlatHistories`). That no element is passed over rests on every parameter having an
owner (`OwnersIn`) and on the shards covering the flat vector (`AllCovered`). And
`CountsOnce` says what the merged gradients are made of: after merging along some
axes, a gradient counts, once each, the local gradients of the ranks whose tokens
reach one of the ranks it was merged over (`Feeds`). One more axis keeps this
(`TalliesReduced`), since different places of a ring are fed by different ranks
(`FeedsAlong`); only an expert's gradient, which counts its whole expert group from
the start, must not be merged over that group again (`MayJoin`), and the code does
not. In the end the axes merged along are all those that do not tell parts of the
parameter apart (`SlicesNear`, `NearSlices`), and what was divided by is `Divisor`.

*Job.* The reader cannot tell an old id file from a new one, so `IdsInv` speaks of the
files: one that is there was written in this launch, because whoever starts the job
again removes the files before any process runs.

*Batches.* The offset of a tensor in its slab is the length of the tensors of its
dtype described before it, and pieces laid end to end can be cut out again there
(`Slices`); as `Kinds` and `DTypeOrder` name everything once (`KeptIs`), a slab is
found by its dtype and a tensor by its kind. So `Unpack` undoes `Payload`, and what
`Expected` makes of the header are the payload's messages (`ExpectedIsSent`). In the
job, `BatchInv` says that a receiver has nothing, a whole batch of some step, or
exactly what has been sent of the one under way; a part is never taken for a whole
batch, because its length is not what its header says. That the batch is of *this*
step is a matter of the programs: between a stage's receive and its training stands
only a barrier of the same step (`InOrder`), so the step checked at the receive is
still the step at the training (`TakenAs`).

*On recursion and induction.* The library's induction theorems take an operator as a
parameter and cannot be used. Induction over a *set* of naturals can be stated
without one (`NaturalsIn`, from the well-foundedness of `<`), and so can the existence
of a function that satisfies a recursive equation (`Recursion`). That is why the
modules below a proof write recursive functions, and why statements about them are
operators of their own, which lemmas cite unexpanded. These lemmas are in
`TopologyProofs`.

Model-checked only:

- the liveness properties (`ServedWhileRunning`, `GenerateReturns`, `ServerStops`,
  `Completes`, `TrainingCompletes`, `JobEnds`), and the half of
  `StopsOnlyAtCrossingSends` that compares `CanStep` with `ENABLED`: out of the
  prover's reach;
- `RingAttention`, `ContextGradients`, `RecurrentCarry`, `ReplayedStates`,
  `TensorForward`, `ExpertRouting` of `ModelParallel`: they compute with bags, sorted sequences and library folds, of
  which the provers know nothing.

## What the checks found

- Saving a step again after resuming from an older one overwrites the rank files
  in place while the old `manifest.json`, `complete: true`, remains. A crash in
  between leaves a directory the loader accepts, with ranks of two launches
  (`checkpoint_complete`). Optimizer steps agree, so no check notices. Resuming
  through `latest_checkpoint.txt` without rolling back never reaches such a
  directory (`LatestIsWhole`, `RanksHoldOneModel`).
- `all_reduce_sum_preserve_local_grad` hands the gradient of a sum to the rank's
  own summand, and nothing adds up the gradients of a layer's replicated input. A
  tensor-parallel shard is trained with the part of its gradient that comes back
  through the same rank's shards of the later layers and of the vocabulary
  (`tensor_gradients`). The forward pass is the dense one (`TensorForward`).
- In the last phase of an item the backward kernels of the recurrent layer add up
  columns of `dstate` while elements of them are being overwritten, by other threads
  and by the thread itself for its earlier rows (`delta_phase`). The test of the
  kernels compares the variants with each other, and all of them do it.

Met while modelling, not runs of their own:

- After a timeout `generate` neither takes its request back nor drains the response
  semaphore: the next call may consume the late response and return before the
  server has processed what it asked (`shared_memory_transport.h:36-38` says
  otherwise), with the `request_id` of an earlier call, which is compared with
  nothing (`shared_memory_transport.cc:470`, `transport.h:44-46`). `TokenConservation`
  and `LagBound` say how far that goes.
- `create_client` unlinks the semaphores of its name before it knows whether the name
  is in use (`shared_memory_transport.cc:386-391`). With a live client there it is
  then refused, but no server can attach to that client any more.
- After a client died, its region's name makes every later `create_client` fail, while
  the semaphores it left are cleaned up "from a previous crashed run" (`:386`). The
  name has to be removed by hand.
- `attach_server` before `ftruncate` reads a header beyond the end of the region
  (SIGBUS). And while one `create_client` fails at a semaphore, or a client is
  destroyed, and another follows, a server can join the region of the first with the
  semaphores of the second. `SessionsApart` is about clients that are up.
- `recv_like`, and `broadcast` on ranks other than the root, write their output without
  waiting for the current stream (`nccl_collectives.cc:336, 453`), unlike all other
  operations. A first stage in its cooldown receives directly after a backward, into
  memory whose previous owner a kernel may still be using, in either mode.
- The tensors that pending operations keep (`keep_alive`) need not be kept: without
  them `ReadsAsWritten` holds all the same, since the current stream waits for every
  operation before it gets to a new owner's kernels.
- With more than one stage a dense model's embedding and its tied head are two
  parameters, on two stages, and no collective joins them (trainer:389); README:335
  calls the head tied. A *sparse* model with a tied head on several stages is worse
  off: its last stage reads an embedding it does not hold, which the model loads from
  the disk as a constant. `ReplicasAgree` and `StageHoldsItsWeights` leave these out.
- The checkpoint manifest records coordinates that are computed without the expert
  axis (trainer:1015, 1083), on which rank numbers run fastest;
  `docs/distributed-runtime.md:260` says it records the axes. The loader does not
  read them back.
- All ranks of an expert group process the same batch, so the gradient of an expert
  counts every token `ep` times, while replicated parameters are averaged
  (`EveryGradientOnce` states what the code does).
- The compact replay ignores the replay byte budget (`qwen_linear_attention_cuda.cu:1669`;
  README:353 offers 0 to force recomputation).
- The global norm counts parameters that context and tensor ranks replicate several
  times, on every rank alike.

## What is not modelled

- *Arithmetic*: rounding, dtypes, the formulas of losses, advantages, Adam and
  rewards. Nothing in them depends on an order of events; the repository's unit tests
  cover them. What the models keep of a formula is which numbers enter it.
- *Communicators of subgroups* made by lazy splits (`nccl_collectives.cc:252`): they
  have no caller, every caller passes the ranks of a communicator of its own. The
  streams of `all_gather`, `reduce_scatter` and `all_to_all` are not composed into
  `NcclStreams`; they wait as `all_reduce` does.
- *Moving a region* and `make_name` (`shared_memory.cc`).
- *Called by tests only*: `send_parameter_shards` and `recv_parameter_shards`,
  `data_parallel_reduce_scatter_gradients`, `TrainerIngressQueue`, the non-tiled
  kernels of the recurrent layer, the single-process collectives.
- *Outside the repository*: vLLM and what its drivers make of it, the file system
  below a rename, NCCL itself (modelled from its use).
- *Text and files*: tokenizer, data loading, the reading of safetensors and
  configuration, printing and metrics.
- *A mixture of axes inside a layer*: a context group with expert parallelism, or a
  sparse MLP cut over both a tensor and an expert group, is not composed; each is
  modelled alone.

## The plan

What exists is above. Next, in this order:

1. Proofs: that the carry of the recurrent layer over a ring is one scan
   (`RecurrentCarry`), with the scan as a recursive function.
2. A stage with both neighbours in `NcclStreams`, by a smaller device: one event
   queue per pair of streams.
3. The tokenizer's merges against a reference definition.
