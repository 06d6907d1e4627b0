----------------------------- MODULE TrainerJob -----------------------------
(***************************************************************************)
(* A training job with a rollout source: how its processes find each other *)
(* through NCCL id files, build their communicators, pass a rollout batch  *)
(* to the first and last stages in each step, and leave.  The trainer      *)
(* ranks come before the source, which is process World; in the data       *)
(* communicator the source is rank 0.  What ranks do inside a step is in   *)
(* Pipeline1F1B and TrainStep, what they save in Checkpoint.               *)
(*                                                                         *)
(* main() of either program is straight-line code around a loop: a process *)
(* is its program, a sequence of operations, and how far it has come.      *)
(***************************************************************************)
EXTENDS Topology, RolloutBatches, SequencesExt, FiniteSets

CONSTANTS
    Arrangements,   \* the ParallelDims explored
    Starts,         \* start_step: 0, or that of a checkpoint
    Steps,          \* --steps, of the trainer and of the source
    MaxLaunches     \* bound on launches of the job

ASSUME JobAssumption ==
    /\ \A p \in Arrangements : IsDims(p)
    /\ Steps \in Nat \ {0}
    /\ Starts \subseteq 0..Steps
    /\ MaxLaunches \in Nat \ {0}

VARIABLES
    job,            \* [dims, start, mode]: the command lines
    code,           \* code[p]: the program of process p
    launch,         \* which launch of the job is running
    files,          \* the id in each file: the launch that made it, Absent or Removed
    pc,             \* pc[p]: the operation process p is at
    ids,            \* ids[p][path]: what p has read
    sent,           \* messages of the current batch the source has sent
    got,            \* got[p]: messages of the current batch p has received
    rollout_batch,  \* rollout_batch[p]: the last batch p has taken
    status          \* "running", "ended", "late", "vanished", "rejected", "crashed"

vars == <<job, code, launch, files, pc, ids, sent, got, rollout_batch, status>>

Absent == 0
Removed == -1
NoBatch == [step |-> 0]

Source == World(job.dims)
Trainers == Ranks(job.dims)
Processes == Trainers \cup {Source}
Info(g) == Coordinates(job.dims, g)

CommGroup(g, axis) ==
    CASE axis = "full"    -> [i \in 1..World(job.dims) |-> i - 1]
      [] axis = "model"   -> ModelGroup(job.dims, Info(g))
      [] axis = "rollout" -> [i \in 1..(World(job.dims) + 1) |-> i - 1]
      [] OTHER            -> Group(job.dims, Info(g), axis)

(* The id file of a communicator is named for its axis and what its        *)
(* members have in common: here, for its first member.                     *)
Path(g, axis) == <<axis, CommGroup(g, axis)[1]>>
RolloutPath == <<"rollout", 0>>
CommAxes == <<"full", "tensor", "context", "expert", "data", "model">>
MembersOf(path) == {CommGroup(path[2], path[1])[i] : i \in DOMAIN CommGroup(path[2], path[1])}

(* In a group of one a rank reads back the id it wrote and meets nobody:   *)
(* left out.                                                               *)
Paths(g) ==
    LET all == [i \in DOMAIN CommAxes |-> Path(g, CommAxes[i])]
    IN  Kept(all, {path \in Elements(all) :
                        path[1] = "full" \/ Cardinality(MembersOf(path)) > 1})

(* Who creates the id of a communicator: the member whose coordinates      *)
(* along its axes are zero.                                                *)
Creates(g, path) ==
    LET at == Info(g)
    IN  CASE path[1] = "full"  -> g = 0
          [] path[1] = "model" -> at.pipeline = 0 /\ at.context = 0 /\ at.tensor = 0 /\ at.expert = 0
          [] OTHER               -> at[path[1]] = 0

-----------------------------------------------------------------------------
(* The programs                                                            *)

Op(op, path, step) == [op |-> op, path |-> path, step |-> step]
NoPath == <<"none", 0>>
To(g) == <<"to", g>>
OnPaths(op, paths) == [i \in DOMAIN paths |-> Op(op, paths[i], 0)]

AtEnds(g) == Info(g).pipeline \in {0, job.dims.pipeline - 1}

(* All ids are written before the first is read.                           *)
TrainerSetup(g) ==
    OnPaths("write", Kept(Paths(g), {path \in Elements(Paths(g)) : Creates(g, path)}))
    \o OnPaths("read", Paths(g))
    \o OnPaths("init", Paths(g))
    \o <<Op("read", RolloutPath, 0), Op("init", RolloutPath, 0)>>

(* Mutant: only stages that take a batch come to the barrier.              *)
TrainerStep_endsOnly(g, s) ==
    <<Op("barrier", Path(g, "full"), s)>>
    \o (IF AtEnds(g) THEN <<Op("recv", RolloutPath, s), Op("barrier", RolloutPath, s)>> ELSE <<>>)
    \o <<Op("train", NoPath, s)>>

TrainerStep(g, s) ==
    <<Op("barrier", Path(g, "full"), s)>>
    \o (IF AtEnds(g) THEN <<Op("recv", RolloutPath, s)>> ELSE <<>>)
    \o <<Op("barrier", RolloutPath, s), Op("train", NoPath, s)>>

TrainerProgram(g) ==
    TrainerSetup(g)
    \o FlattenSeq([i \in 1..(Steps - job.start) |-> TrainerStep(g, job.start + i)])
    \o <<Op("barrier", Path(g, "full"), 0)>>
    \o (IF g = 0 THEN <<Op("remove", Path(g, "full"), 0)>> ELSE <<>>)

(* --target-ranks, in the order of the script.                             *)
Targets == Kept([i \in 1..World(job.dims) |-> i - 1], {g \in Trainers : AtEnds(g)})

(* nccl_rollout_batch_source numbers its batches from 1.                   *)
SourceStep(s) ==
    [i \in DOMAIN Targets |-> Op("send", To(Targets[i]), s)]
    \o <<Op("barrier", RolloutPath, s)>>
SourceProgram ==
    <<Op("write", RolloutPath, 0), Op("read", RolloutPath, 0), Op("init", RolloutPath, 0)>>
    \o FlattenSeq([i \in 1..Steps |-> SourceStep(i)])
    \o <<Op("remove", RolloutPath, 0)>>

-----------------------------------------------------------------------------
(* make_batch: all tensors but ref_log_probs; every element is marked with *)
(* the step, the kind and its place.                                       *)
Shape == [prompt_ids |-> 2, response_ids |-> 1, response_mask |-> 1, old_log_probs |-> 1,
          ref_log_probs |-> 0, rewards |-> 2, advantages |-> 1, group_ids |-> 2]
DType(k) == IF k \in {"prompt_ids", "response_ids", "group_ids"} THEN "int64" ELSE "float32"
Batch(s) ==
    [step |-> s, weight_version |-> s,
     tensors |-> [k \in DOMAIN Shape |->
                    [dtype |-> DType(k), data |-> [i \in 1..Shape[k] |-> <<s, k, i>>]]]]
Modes == {"direct", "slab"}
Messages ==
    [mode \in Modes |-> [s \in 1..Steps |->
        <<Header(Batch(s), mode)>> \o Payload(Batch(s), mode)]]
Whole(messages) == messages # <<>> /\ Len(messages) = 1 + Len(Expected(messages[1]))

-----------------------------------------------------------------------------

Fresh(what) == [p \in Processes |-> what]

Init ==
    /\ job \in [dims : Arrangements, start : Starts, mode : Modes]
    /\ code = [p \in Processes |-> IF p = Source THEN SourceProgram ELSE TrainerProgram(p)]
    /\ launch = 1
    /\ files = [path \in {RolloutPath} \cup
                    UNION {{Paths(g)[i] : i \in DOMAIN Paths(g)} : g \in Trainers} |-> Absent]
    /\ pc = [p \in Processes |-> 1]
    /\ ids = [p \in Processes |-> [path \in {} |-> 0]]
    /\ sent = 0
    /\ got = Fresh(<<>>)
    /\ rollout_batch = Fresh(NoBatch)
    /\ status = Fresh("running")

Running(p) == status[p] = "running" /\ pc[p] <= Len(code[p])
At(p, op) == Running(p) /\ code[p][pc[p]].op = op
Now(p) == code[p][pc[p]]
Advance(ps) == pc' = [p \in Processes |-> IF p \in ps THEN pc[p] + 1 ELSE pc[p]]

(* create_nccl_unique_id and write_nccl_unique_id_file: the rename makes   *)
(* the whole id appear at once.                                            *)
Write(p) ==
    /\ At(p, "write")
    /\ files' = [files EXCEPT ![Now(p).path] = launch]
    /\ Advance({p})
    /\ UNCHANGED <<job, code, launch, ids, sent, got, rollout_batch, status>>

(* The poll finds a file of an id's size.                                  *)
Read(p) ==
    /\ At(p, "read")
    /\ Now(p).path \in DOMAIN files
    /\ files[Now(p).path] > 0
    /\ ids' = [ids EXCEPT ![p] =
                 [path \in DOMAIN @ \cup {Now(p).path} |->
                     IF path = Now(p).path THEN files[path] ELSE @[path]]]
    /\ Advance({p})
    /\ UNCHANGED <<job, code, launch, files, sent, got, rollout_batch, status>>

(* 200 polls of 25 ms, then the file cannot be opened and main() returns.  *)
GiveUp(p) ==
    /\ At(p, "read")
    /\ files[Now(p).path] \in {Absent, Removed}
    /\ status' = [status EXCEPT ![p] =
                    IF files[Now(p).path] = Removed THEN "vanished" ELSE "late"]
    /\ UNCHANGED <<job, code, launch, files, pc, ids, sent, got, rollout_batch>>

(* ncclCommInitRank and the barrier return when all ranks of the           *)
(* communicator have come, with one id.                                    *)
Meet(path, op) ==
    /\ \A p \in MembersOf(path) : At(p, op) /\ Now(p).path = path
    /\ \A p, q \in MembersOf(path) : ids[p][path] = ids[q][path]
    /\ Advance(MembersOf(path))
    /\ UNCHANGED <<job, code, launch, files, ids, sent, got, rollout_batch, status>>

CommInit(path) == Meet(path, "init")
Barrier(path) == Meet(path, "barrier")

(* One message of a batch: the source sends it, the target receives what   *)
(* it expects by the header, which is the first.                           *)
Deliver(g) ==
    LET messages == Messages[job.mode][Now(Source).step]
        message == messages[sent + 1]
        expected == Expected(got[g][1])[Len(got[g])]
    IN  /\ At(Source, "send") /\ Now(Source).path = To(g)
        /\ At(g, "recv") /\ ~Whole(got[g])
        /\ got[g] # <<>> => message.dtype = expected.dtype /\ Len(message.data) = expected.numel
        /\ got' = [got EXCEPT ![g] = Append(@, message)]
        /\ IF sent + 1 = Len(messages)
             THEN /\ sent' = 0
                  /\ Advance({Source})
             ELSE /\ sent' = sent + 1
                  /\ UNCHANGED pc
        /\ UNCHANGED <<job, code, launch, files, ids, rollout_batch, status>>

(* The receive returns, and the trainer looks at what it got.              *)
Take(g) ==
    LET taken == Unpack(got[g][1], Tail(got[g]))
    IN  /\ At(g, "recv") /\ Whole(got[g])
        /\ got' = [got EXCEPT ![g] = <<>>]
        /\ rollout_batch' = [rollout_batch EXCEPT ![g] = taken]
        /\ IF Accepted(taken, Now(g).step)
             THEN /\ Advance({g})
                  /\ UNCHANGED status
             ELSE /\ status' = [status EXCEPT ![g] = "rejected"]
                  /\ UNCHANGED pc
        /\ UNCHANGED <<job, code, launch, files, ids, sent>>

(* The rest of the step.                                                   *)
Train(g) ==
    /\ At(g, "train")
    /\ Advance({g})
    /\ UNCHANGED <<job, code, launch, files, ids, sent, got, rollout_batch, status>>

(* Rank 0 of the trainer removes the files of all its communicators, the   *)
(* source its own.                                                         *)
RemoveFiles(p) ==
    /\ At(p, "remove")
    /\ files' = [path \in DOMAIN files |->
                    IF (path = RolloutPath) = (p = Source) THEN Removed ELSE files[path]]
    /\ Advance({p})
    /\ UNCHANGED <<job, code, launch, ids, sent, got, rollout_batch, status>>

Return(p) ==
    /\ status[p] = "running"
    /\ pc[p] > Len(code[p])
    /\ status' = [status EXCEPT ![p] = "ended"]
    /\ UNCHANGED <<job, code, launch, files, pc, ids, sent, got, rollout_batch>>

Crash(p) ==
    /\ launch < MaxLaunches
    /\ status[p] = "running"
    /\ status' = [status EXCEPT ![p] = "crashed"]
    /\ UNCHANGED <<job, code, launch, files, pc, ids, sent, got, rollout_batch>>

Troubled == \E p \in Processes : status[p] \notin {"running", "ended"}

(* Mutant: the scripts leave the files of the last launch in place.        *)
Relaunch_keepsFiles ==
    /\ Troubled /\ launch < MaxLaunches
    /\ launch' = launch + 1
    /\ pc' = Fresh(1)
    /\ ids' = [p \in Processes |-> [path \in {} |-> 0]]
    /\ sent' = 0
    /\ got' = Fresh(<<>>)
    /\ rollout_batch' = Fresh(NoBatch)
    /\ status' = Fresh("running")
    /\ UNCHANGED <<job, code, files>>

(* Whoever runs the scripts ends what hangs and starts the job again; the  *)
(* scripts remove the id files first.                                      *)
Relaunch ==
    /\ Troubled /\ launch < MaxLaunches
    /\ launch' = launch + 1
    /\ files' = [path \in DOMAIN files |-> Absent]
    /\ pc' = Fresh(1)
    /\ ids' = [p \in Processes |-> [path \in {} |-> 0]]
    /\ sent' = 0
    /\ got' = Fresh(<<>>)
    /\ rollout_batch' = Fresh(NoBatch)
    /\ status' = Fresh("running")
    /\ UNCHANGED <<job, code>>

(* What processes do, and what NCCL completes once all its ranks have      *)
(* called it.                                                              *)
Work ==
    \/ \E p \in Processes :
            Write(p) \/ Read(p) \/ Train(p) \/ RemoveFiles(p) \/ Return(p)
    \/ \E path \in DOMAIN files : CommInit(path) \/ Barrier(path)
    \/ \E g \in Trainers : Deliver(g) \/ Take(g)

Next ==
    \/ Work
    \/ \E p \in Processes : GiveUp(p) \/ Crash(p)
    \/ Relaunch

(* The job goes on as long as something in it can.  Nothing obliges a      *)
(* process to give up, or anybody to launch the job again.                 *)
Spec == Init /\ [][Next]_vars /\ WF_vars(Work)

-----------------------------------------------------------------------------
(* Properties                                                              *)

(* No process builds a communicator with an id that an earlier launch left *)
(* behind: the reader takes any file of the right size (nccl_collectives   *)
(* 180-186), so it is the scripts' rm that this rests on.                  *)
IdsOfThisLaunch ==
    \A p \in Processes : \A path \in DOMAIN ids[p] : ids[p][path] = launch

(* A stage that computes embeddings or losses does so with the source's    *)
(* batch of the very step, every tensor intact, in both payload modes,     *)
(* also when the job has been resumed and the source numbers its batches   *)
(* from 1 again (trainer 2236-2247).                                       *)
BatchOfThisStep ==
    \A g \in Trainers :
        At(g, "train") /\ AtEnds(g) => rollout_batch[g] = Delivered(Batch(Now(g).step))

(* Unless a file came late, a process died or the job was resumed, the job *)
(* ends: in particular nobody misses an id file because it was removed,    *)
(* and the barriers of the data communicator are met by every stage.       *)
Ended == \A p \in Processes : status[p] = "ended"
JobEnds ==
    <>(Ended \/ job.start > 0 \/ \E p \in Processes : status[p] \in {"late", "crashed"})
=============================================================================
