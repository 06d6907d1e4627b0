----------------------------- MODULE Checkpoint -----------------------------
(***************************************************************************)
(* The checkpoints of the PP/TP PPO trainer: every rank saves its own      *)
(* archive and metadata under <checkpoint_dir>/step_<n>, rank 0 then       *)
(* writes the manifest and latest_checkpoint.txt, and a later launch of    *)
(* the job resumes from what it finds.  Ranks run on their own and meet in *)
(* barriers; any of them may die at any point.                             *)
(*                                                                         *)
(* What a rank holds in memory, and what its archive, its metadata and a   *)
(* manifest record of it, is the launch that computed it and its optimizer *)
(* step: two launches that both train step n reach different weights.      *)
(* Every file is written to a .tmp and renamed, so it appears whole; a     *)
(* .tmp left by a crash is never read.                                     *)
(***************************************************************************)
EXTENDS Integers

CONSTANTS
    N,             \* world_size
    Steps,         \* --steps
    Every,         \* --checkpoint-every
    MaxLaunches    \* bound on launches; the last of them does not crash

ASSUME CheckpointAssumption ==
    /\ N \in Nat \ {0}
    /\ Steps \in Nat \ {0}
    /\ Every \in Nat \ {0}
    /\ MaxLaunches \in Nat \ {0}

Ranks  == 0..(N - 1)
Dirs   == {n \in 1..Steps : n % Every = 0}
NoDir  == 0
States == [run : 0..MaxLaunches, step : 0..Steps]
Absent == [run |-> 0, step |-> -1]                   \* no such file
Pretrained == [run |-> 0, step |-> 0]

(* --resume-checkpoint: not given, the root directory, a step directory.   *)
Scratch == [kind |-> "scratch", dir |-> NoDir]
Root    == [kind |-> "root", dir |-> NoDir]
StepDir(d) == [kind |-> "dir", dir |-> d]
Sources == {Scratch, Root} \cup {StepDir(d) : d \in Dirs}

VARIABLES
    pt, meta,   \* rank_<r>.pt and rank_<r>.json of each step directory
    manifest,   \* manifest.json of each step directory
    latest,     \* latest_checkpoint.txt
    run,        \* launches so far
    source,     \* --resume-checkpoint of the current launch
    fromRoot,   \* history: whether all launches went on from the latest
                \* checkpoint, or from scratch while there was none
    up,         \* whether the process of each rank is there
    pc, step,   \* of each rank: where it is, the steps it has completed
    mem,        \* of each rank: parameters and optimizer state
    arrived     \* of each rank: full_comm barriers entered in this launch

disk == <<pt, meta, manifest, latest>>
vars == <<pt, meta, manifest, latest, run, source, fromRoot, up, pc,
          step, mem, arrived>>

Labels == {"load", "begin", "train", "reduce", "save_pt", "save_meta", "saved",
           "manifest", "latest", "written", "finishing", "done", "failed"}

Init ==
    /\ pt = [d \in Dirs |-> [r \in Ranks |-> Absent]]
    /\ meta = [d \in Dirs |-> [r \in Ranks |-> Absent]]
    /\ manifest = [d \in Dirs |-> Absent]
    /\ latest = NoDir
    /\ run = 0
    /\ source = Scratch
    /\ fromRoot = TRUE
    /\ up = [r \in Ranks |-> FALSE]
    /\ pc = [r \in Ranks |-> "load"]
    /\ step = [r \in Ranks |-> 0]
    /\ mem = [r \in Ranks |-> Pretrained]
    /\ arrived = [r \in Ranks |-> 0]

At(r, l) == up[r] /\ pc[r] = l
Goto(r, l) == pc' = [pc EXCEPT ![r] = l]

(* Entering the barrier whose label is l, and leaving it: an all-reduce of *)
(* all ranks, matched by the order of the calls.                           *)
Enter(r, l) == Goto(r, l) /\ arrived' = [arrived EXCEPT ![r] = @ + 1]

(* Mutant: nobody is waited for.                                           *)
Released_atOnce(r) == arrived[r] > 0

Released(r) == \A s \in Ranks : arrived[s] >= arrived[r]

(* Where a rank that has completed n steps goes: to the barrier that       *)
(* begins the next step, or to the one after the loop.                     *)
EnterStep(r, n) == Enter(r, IF n < Steps THEN "begin" ELSE "finishing")

Stopped(r) == ~up[r] \/ pc[r] \in {"done", "failed"}

-----------------------------------------------------------------------------
(* Launch and resume                                                       *)

(* The operator starts the job again once no process of it is left.        *)
Launch(src) ==
    /\ run < MaxLaunches
    /\ \A r \in Ranks : Stopped(r)
    /\ \E r \in Ranks : pc[r] # "done"
    /\ run' = run + 1
    /\ source' = src
    /\ fromRoot' = (fromRoot /\ src = (IF latest = NoDir THEN Scratch ELSE Root))
    /\ up' = [r \in Ranks |-> TRUE]
    /\ pc' = [r \in Ranks |-> "load"]
    /\ step' = [r \in Ranks |-> 0]
    /\ mem' = [r \in Ranks |-> Pretrained]
    /\ arrived' = [r \in Ranks |-> 0]
    /\ UNCHANGED disk

(* Without --resume-checkpoint training starts from the pretrained model.  *)
LoadNothing(r) ==
    /\ At(r, "load") /\ source = Scratch
    /\ EnterStep(r, 0)
    /\ UNCHANGED <<disk, run, source, fromRoot, up, step, mem>>

(* The root holds no rank metadata, so there the loader follows            *)
(* latest_checkpoint.txt when it exists.                                   *)
ResumeDir == IF source = Root THEN latest ELSE source.dir

(* The checks of the loader, in terms of what is on disk: the rank's files *)
(* exist and the archive's step is that of the manifest or, where there is *)
(* no manifest, of the rank metadata.                                      *)
Loadable(d, r) ==
    /\ d # NoDir
    /\ meta[d][r] # Absent /\ pt[d][r] # Absent
    /\ pt[d][r].step = (IF manifest[d] # Absent THEN manifest[d].step ELSE meta[d][r].step)

(* Mutant: the step of the checkpoint is not used.                         *)
LoadRank_fromStepZero(r) ==
    /\ At(r, "load") /\ source # Scratch
    /\ Loadable(ResumeDir, r)
    /\ mem' = [mem EXCEPT ![r] = pt[ResumeDir][r]]
    /\ EnterStep(r, 0)
    /\ UNCHANGED <<disk, run, source, fromRoot, up, step>>

LoadRank(r) ==
    /\ At(r, "load") /\ source # Scratch
    /\ Loadable(ResumeDir, r)
    /\ mem' = [mem EXCEPT ![r] = pt[ResumeDir][r]]
    /\ step' = [step EXCEPT ![r] = pt[ResumeDir][r].step]
    /\ EnterStep(r, pt[ResumeDir][r].step)
    /\ UNCHANGED <<disk, run, source, fromRoot, up>>

LoadFails(r) ==
    /\ At(r, "load") /\ source # Scratch
    /\ ~Loadable(ResumeDir, r)
    /\ Goto(r, "failed")
    /\ UNCHANGED <<disk, run, source, fromRoot, up, step, mem, arrived>>

-----------------------------------------------------------------------------
(* The step loop                                                           *)

Begin(r) ==
    /\ At(r, "begin") /\ Released(r)
    /\ Goto(r, "train")
    /\ UNCHANGED <<disk, run, source, fromRoot, up, step, mem, arrived>>

(* The end of an iteration.  It also gathers the metrics of all ranks,     *)
(* which waits for nothing the barrier that follows does not wait for.     *)
EndStep(r) ==
    /\ step' = [step EXCEPT ![r] = @ + 1]
    /\ EnterStep(r, step[r] + 1)

(* Forward and backward, then the gradient reductions.  The flat optimizer *)
(* reduces the norm over all ranks, the others reduce gradients over the   *)
(* data replicas and then the norm over each replica: either way no rank   *)
(* leaves before all have entered.                                         *)
Backward(r) ==
    /\ At(r, "train")
    /\ Enter(r, "reduce")
    /\ UNCHANGED <<disk, run, source, fromRoot, up, step, mem>>

(* The optimizer step.                                                     *)
Update(r) ==
    /\ At(r, "reduce") /\ Released(r)
    /\ mem' = [mem EXCEPT ![r] = [run |-> run, step |-> @.step + 1]]
    /\ IF (step[r] + 1) % Every = 0
       THEN Goto(r, "save_pt") /\ UNCHANGED <<step, arrived>>
       ELSE EndStep(r)
    /\ UNCHANGED <<disk, run, source, fromRoot, up>>

-----------------------------------------------------------------------------
(* Saving step + 1                                                         *)

SavePt(r) ==
    /\ At(r, "save_pt")
    /\ pt' = [pt EXCEPT ![step[r] + 1] = [@ EXCEPT ![r] = mem[r]]]
    /\ Goto(r, "save_meta")
    /\ UNCHANGED <<meta, manifest, latest, run, source, fromRoot, up, step, mem, arrived>>

SaveMeta(r) ==
    /\ At(r, "save_meta")
    /\ meta' = [meta EXCEPT ![step[r] + 1] = [@ EXCEPT ![r] = mem[r]]]
    /\ Enter(r, "saved")
    /\ UNCHANGED <<pt, manifest, latest, run, source, fromRoot, up, step, mem>>

(* Mutants: without the barrier; the other ranks skip the second barrier.  *)
AfterSave_atOnce(r) ==
    /\ At(r, "saved")
    /\ IF r = 0 THEN Goto(r, "manifest") /\ UNCHANGED arrived
                ELSE Enter(r, "written")
    /\ UNCHANGED <<disk, run, source, fromRoot, up, step, mem>>
AfterSave_othersGoOn(r) ==
    /\ At(r, "saved") /\ Released(r)
    /\ IF r = 0 THEN Goto(r, "manifest") /\ UNCHANGED <<arrived, step>>
                ELSE EndStep(r)
    /\ UNCHANGED <<disk, run, source, fromRoot, up, mem>>

(* All ranks have saved: rank 0 goes on to the manifest.                   *)
AfterSave(r) ==
    /\ At(r, "saved") /\ Released(r)
    /\ IF r = 0 THEN Goto(r, "manifest") /\ UNCHANGED arrived
                ELSE Enter(r, "written")
    /\ UNCHANGED <<disk, run, source, fromRoot, up, step, mem>>

AllSaved(d) == \A r \in Ranks : pt[d][r] # Absent /\ meta[d][r] # Absent

(* Mutant: the step of the loop instead of the optimizer's.                *)
WriteManifest_loopStep(r) ==
    /\ At(r, "manifest")
    /\ IF AllSaved(step[r] + 1)
       THEN /\ manifest' = [manifest EXCEPT ![step[r] + 1] = [mem[r] EXCEPT !.step = step[r]]]
            /\ Goto(r, "latest")
       ELSE Goto(r, "failed") /\ UNCHANGED manifest
    /\ UNCHANGED <<pt, meta, latest, run, source, fromRoot, up, step, mem, arrived>>

(* With a file missing, "checkpoint is incomplete before manifest write".  *)
WriteManifest(r) ==
    /\ At(r, "manifest")
    /\ IF AllSaved(step[r] + 1)
       THEN /\ manifest' = [manifest EXCEPT ![step[r] + 1] = mem[r]]
            /\ Goto(r, "latest")
       ELSE Goto(r, "failed") /\ UNCHANGED manifest
    /\ UNCHANGED <<pt, meta, latest, run, source, fromRoot, up, step, mem, arrived>>

(* Mutant: the name of the step as it was before it was incremented.       *)
WriteLatest_previousStep(r) ==
    /\ At(r, "latest")
    /\ latest' = step[r]
    /\ Enter(r, "written")
    /\ UNCHANGED <<pt, meta, manifest, run, source, fromRoot, up, step, mem>>

WriteLatest(r) ==
    /\ At(r, "latest")
    /\ latest' = step[r] + 1
    /\ Enter(r, "written")
    /\ UNCHANGED <<pt, meta, manifest, run, source, fromRoot, up, step, mem>>

AfterManifest(r) ==
    /\ At(r, "written") /\ Released(r)
    /\ EndStep(r)
    /\ UNCHANGED <<disk, run, source, fromRoot, up, mem>>

Finish(r) ==
    /\ At(r, "finishing") /\ Released(r)
    /\ Goto(r, "done")
    /\ UNCHANGED <<disk, run, source, fromRoot, up, step, mem, arrived>>

-----------------------------------------------------------------------------

(* A process dies: killed, out of memory, an exception, a full disk.       *)
Crash(r) ==
    /\ run < MaxLaunches
    /\ ~Stopped(r)
    /\ up' = [up EXCEPT ![r] = FALSE]
    /\ UNCHANGED <<disk, run, source, fromRoot, pc, step, mem, arrived>>

(* The launch script only waits for its processes, so whoever runs it      *)
(* kills those that a dead rank has left waiting.                          *)
TearDown(r) ==
    /\ ~Stopped(r)
    /\ \E s \in Ranks : ~up[s] \/ pc[s] = "failed"
    /\ up' = [up EXCEPT ![r] = FALSE]
    /\ UNCHANGED <<disk, run, source, fromRoot, pc, step, mem, arrived>>

Load(r) == LoadNothing(r) \/ LoadRank(r) \/ LoadFails(r)
Save(r) == \/ SavePt(r) \/ SaveMeta(r) \/ AfterSave(r)
           \/ WriteManifest(r) \/ WriteLatest(r) \/ AfterManifest(r)
Proceed(r) == Load(r) \/ Begin(r) \/ Backward(r) \/ Update(r) \/ Save(r) \/ Finish(r)

Next ==
    \/ \E src \in Sources : Launch(src)
    \/ \E r \in Ranks : Proceed(r) \/ Crash(r) \/ TearDown(r)

Spec == Init /\ [][Next]_vars

(* The processes run, and the job is torn down and started again for as    *)
(* long as it has not finished; no fairness makes a process crash.         *)
FairSpec ==
    /\ Spec
    /\ WF_vars(\E src \in Sources : Launch(src))
    /\ \A r \in Ranks : WF_vars(Proceed(r)) /\ WF_vars(TearDown(r))

-----------------------------------------------------------------------------
(* Properties                                                              *)

(* Type invariant.                                                         *)
TypeOK ==
    /\ pt \in [Dirs -> [Ranks -> States \cup {Absent}]]
    /\ meta \in [Dirs -> [Ranks -> States \cup {Absent}]]
    /\ manifest \in [Dirs -> States \cup {Absent}]
    /\ latest \in Dirs \cup {NoDir}
    /\ run \in 0..MaxLaunches
    /\ source \in Sources
    /\ fromRoot \in BOOLEAN
    /\ up \in [Ranks -> BOOLEAN]
    /\ pc \in [Ranks -> Labels]
    /\ step \in [Ranks -> 0..Steps]
    /\ mem \in [Ranks -> States]
    /\ arrived \in [Ranks -> Nat]

(* All files of step directory d are of one save.                          *)
Coherent(d) ==
    /\ manifest[d].step = d
    /\ \A r \in Ranks : pt[d][r] = manifest[d] /\ meta[d][r] = manifest[d]

(* What holds for as long as every launch has gone on from the root        *)
(* directory (fromRoot):                                                   *)

(* At every moment, and so after a crash at any point of a later save, the *)
(* directory latest_checkpoint.txt names is one whole checkpoint.          *)
LatestCoherent == fromRoot /\ latest # NoDir => Coherent(latest)

(* Ranks that train a step together hold one state of the model: no rank   *)
(* is in a step on weights its peers do not have.                          *)
Training == {r \in Ranks : At(r, "train")}
OneModel == \A r, s \in Training : mem[r] = mem[s] /\ step[r] = step[s]
RanksAgree == fromRoot => OneModel

(* The errors the loader and the manifest writer throw are unreachable.    *)
NoRankFails == fromRoot => \A r \in Ranks : pc[r] # "failed"

(* No step makes latest_checkpoint.txt name an older checkpoint.           *)
LatestAdvances == [][fromRoot' => latest' >= latest]_<<latest, fromRoot>>

(* Crashes only delay training: all ranks get to the end, with the last    *)
(* checkpoint of it on disk.                                               *)
TrainingCompletes ==
    []fromRoot => <>[](/\ \A r \in Ranks : pc[r] = "done" /\ mem[r].step = Steps
                       /\ latest = Steps - (Steps % Every))

(* Whatever the operator resumes from, ranks that train together are in    *)
(* the same step, each having read it from its own archive.                *)
SameStep == \A r, s \in Training : step[r] = step[s] /\ mem[r].step = mem[s].step

(* A rank gives up only where no checkpoint was ever completed: rewriting  *)
(* a step directory never leaves it in a state the loader rejects, such as *)
(* an "optimizer step mismatch" or a missing file.                         *)
RefusesOnlyIncomplete ==
    (\E r \in Ranks : pc[r] = "failed") => ResumeDir = NoDir \/ manifest[ResumeDir] = Absent

(* The loader's test for "complete": ranks that resume from a directory    *)
(* with a manifest, which is written as complete, hold one state of the    *)
(* model.                                                                  *)
CompleteResumeAgrees ==
    source # Scratch /\ ResumeDir # NoDir /\ manifest[ResumeDir] # Absent => OneModel
=============================================================================
