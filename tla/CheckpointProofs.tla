-------------------------- MODULE CheckpointProofs --------------------------
(***************************************************************************)
(* What Checkpoint guarantees for any number of ranks, steps and launches, *)
(* checked by TLAPS.                                                       *)
(*                                                                         *)
(* TypeInv and AnyInv hold whatever the operator resumes from.  Lockstep   *)
(* says how far the ranks of a launch can be apart, counted in barriers;   *)
(* with it and FilesOfStep, what the files of a step directory can be of,  *)
(* ranks that train together train the same step, and a loader refuses     *)
(* only what was never complete.                                           *)
(*                                                                         *)
(* Safe holds for as long as all launches went on from the root directory  *)
(* (fromRoot): from Lockstep follow what ranks hold in memory (SameMemory),*)
(* which files of a step directory are written when (FilesSaved) and that  *)
(* no directory is written to that latest_checkpoint.txt names             *)
(* (LatestBehind).                                                         *)
(***************************************************************************)
EXTENDS Checkpoint, TLAPS

(* Labels at which a rank has done the optimizer step of the step it is in,*)
(* has its files of that step written, and is past the barrier it entered  *)
(* last.                                                                   *)
Looping == Labels \ {"load", "finishing", "done", "failed"}
Updated == {"save_pt", "save_meta", "saved", "manifest", "latest", "written"}
FilesWritten == {"saved", "manifest", "latest", "written"}
Past == {"train", "save_pt", "save_meta", "manifest", "latest", "done"}

(* Type correctness, strengthened with what each label says of the rank's  *)
(* step and of the step of what it holds.                                  *)
StepOK(r) ==
    /\ pc[r] \in Looping => step[r] + 1 \in 1..Steps
    /\ pc[r] \in Updated => step[r] + 1 \in Dirs
    /\ pc[r] \in Updated => mem[r].step = step[r] + 1
    /\ pc[r] \notin Updated \cup {"failed"} => mem[r].step = step[r]
    /\ pc[r] = "load" => step[r] = 0 /\ mem[r] = Pretrained
TypeInv == TypeOK /\ \A r \in Ranks : StepOK(r)

LEMMA AbsentIsNoState == Absent \notin States
BY DEF Absent, States

LEMMA DirFacts == ASSUME NEW d \in Dirs PROVE d \in 1..Steps /\ d # NoDir
BY CheckpointAssumption DEF Dirs, NoDir

LEMMA TypeInit == Init => TypeInv
BY CheckpointAssumption
   DEF Init, TypeInv, TypeOK, StepOK, States, Absent, Pretrained, Sources, Scratch, Labels,
       Looping, Updated, NoDir, Ranks

(* EnterStep from a step that lies within the run.                         *)
LEMMA EnterStepOK ==
    ASSUME TypeOK, NEW r \in Ranks, NEW n \in 0..Steps, EnterStep(r, n)
    PROVE  /\ pc' \in [Ranks -> Labels]
           /\ arrived' \in [Ranks -> Nat]
           /\ pc'[r] \in {"begin", "finishing"}
           /\ pc'[r] = "begin" => n + 1 \in 1..Steps
           /\ \A s \in Ranks \ {r} : pc'[s] = pc[s]
BY CheckpointAssumption DEF EnterStep, Enter, Goto, TypeOK, Labels

(* A rank that stands still, while others move, keeps what holds of it.    *)
LEMMA StandsStill ==
    ASSUME NEW q \in Ranks, StepOK(q), pc'[q] = pc[q], step'[q] = step[q], mem'[q] = mem[q]
    PROVE  StepOK(q)'
BY DEF StepOK

LEMMA TypeStep == TypeInv /\ [Next]_vars => TypeInv'
<1>. SUFFICES ASSUME TypeInv, [Next]_vars PROVE TypeInv'
  OBVIOUS
<1>1. TypeOK /\ \A r \in Ranks : StepOK(r)
  BY DEF TypeInv
<1>2. ASSUME NEW src \in Sources, Launch(src) PROVE TypeInv'
  <2>1. TypeOK'
    BY <1>1, <1>2, CheckpointAssumption
       DEF Launch, disk, TypeOK, States, Pretrained, Labels
  <2>2. ASSUME NEW r \in Ranks PROVE StepOK(r)'
    BY <1>2 DEF Launch, StepOK, Pretrained, Looping, Updated
  <2>. QED BY <2>1, <2>2 DEF TypeInv
<1>3. ASSUME NEW r \in Ranks, LoadNothing(r) PROVE TypeInv'
  <2>1. 0 \in 0..Steps /\ EnterStep(r, 0)
    BY <1>3, CheckpointAssumption DEF LoadNothing
  <2>2. TypeOK'
    BY <1>1, <1>3, <2>1, EnterStepOK DEF LoadNothing, disk, TypeOK
  <2>3. ASSUME NEW q \in Ranks \ {r} PROVE StepOK(q)'
    BY <1>1, <1>3, <2>1, EnterStepOK, StandsStill DEF LoadNothing
  <2>4. StepOK(r)'
    BY <1>1, <1>3, <2>1, EnterStepOK
       DEF LoadNothing, At, TypeOK, StepOK, Labels, Looping, Updated
  <2>. QED BY <2>2, <2>3, <2>4 DEF TypeInv
<1>4. ASSUME NEW r \in Ranks, LoadRank(r) PROVE TypeInv'
  <2>1. pt[ResumeDir][r] \in States
    BY <1>1, <1>4 DEF LoadRank, Loadable, ResumeDir, TypeOK, Sources, Scratch, Root, StepDir
  <2>2. pt[ResumeDir][r].step \in 0..Steps /\ EnterStep(r, pt[ResumeDir][r].step)
    BY <1>4, <2>1 DEF LoadRank, States
  <2>3. TypeOK'
    BY <1>1, <1>4, <2>1, <2>2, EnterStepOK DEF LoadRank, disk, TypeOK
  <2>4. ASSUME NEW q \in Ranks \ {r} PROVE StepOK(q)'
    BY <1>1, <1>4, <2>2, EnterStepOK, StandsStill DEF LoadRank, TypeOK
  <2>5. StepOK(r)'
    BY <1>1, <1>4, <2>1, <2>2, EnterStepOK DEF LoadRank, TypeOK, StepOK, Looping, Updated
  <2>. QED BY <2>3, <2>4, <2>5 DEF TypeInv
<1>5. ASSUME NEW r \in Ranks, LoadFails(r) PROVE TypeInv'
  <2>1. TypeOK'
    BY <1>1, <1>5 DEF LoadFails, Goto, disk, TypeOK, Labels
  <2>2. ASSUME NEW q \in Ranks PROVE StepOK(q)'
    BY <1>1, <1>5, StandsStill DEF LoadFails, Goto, TypeOK, StepOK, Looping, Updated
  <2>. QED BY <2>1, <2>2 DEF TypeInv
<1>6. ASSUME NEW r \in Ranks, Begin(r) PROVE TypeInv'
  <2>1. TypeOK'
    BY <1>1, <1>6 DEF Begin, Goto, disk, TypeOK, Labels
  <2>2. ASSUME NEW q \in Ranks PROVE StepOK(q)'
    BY <1>1, <1>6 DEF Begin, At, Goto, TypeOK, StepOK, Labels, Looping, Updated
  <2>. QED BY <2>1, <2>2 DEF TypeInv
<1>7. ASSUME NEW r \in Ranks, Backward(r) PROVE TypeInv'
  <2>1. TypeOK'
    BY <1>1, <1>7 DEF Backward, Enter, Goto, disk, TypeOK, Labels
  <2>2. ASSUME NEW q \in Ranks PROVE StepOK(q)'
    BY <1>1, <1>7 DEF Backward, At, Enter, Goto, TypeOK, StepOK, Labels, Looping, Updated
  <2>. QED BY <2>1, <2>2 DEF TypeInv
<1>8. ASSUME NEW r \in Ranks, Update(r) PROVE TypeInv'
  <2>1. /\ pc[r] = "reduce" /\ step[r] + 1 \in 1..Steps /\ mem[r].step = step[r]
        /\ mem' = [mem EXCEPT ![r] = [run |-> run, step |-> mem[r].step + 1]]
    BY <1>1, <1>8 DEF Update, At, StepOK, Labels, Looping, Updated
  <2>2. mem' \in [Ranks -> States]
    BY <1>1, <2>1, CheckpointAssumption DEF TypeOK, States
  <2>3. CASE (step[r] + 1) % Every = 0
    <3>1. /\ pc' = [pc EXCEPT ![r] = "save_pt"] /\ UNCHANGED <<step, arrived>>
          /\ UNCHANGED <<disk, run, source, fromRoot, up>>
      BY <1>8, <2>3 DEF Update, Goto
    <3>2. TypeOK'
      BY <1>1, <2>2, <3>1 DEF disk, TypeOK, Labels
    <3>3. step[r] + 1 \in Dirs
      BY <2>1, <2>3 DEF Dirs
    <3>4. ASSUME NEW q \in Ranks PROVE StepOK(q)'
      BY <1>1, <2>1, <3>1, <3>3, StandsStill DEF TypeOK, StepOK, Looping, Updated
    <3>. QED BY <3>2, <3>4 DEF TypeInv
  <2>4. CASE (step[r] + 1) % Every # 0
    <3>1. /\ step' = [step EXCEPT ![r] = step[r] + 1]
          /\ EnterStep(r, step[r] + 1)
          /\ UNCHANGED <<disk, run, source, fromRoot, up>>
      BY <1>8, <2>4 DEF Update, EndStep
    <3>2. step[r] + 1 \in 0..Steps
      BY <2>1, CheckpointAssumption
    <3>3. TypeOK'
      BY <1>1, <2>2, <3>1, <3>2, EnterStepOK DEF disk, TypeOK
    <3>4. ASSUME NEW q \in Ranks \ {r} PROVE StepOK(q)'
      BY <1>1, <2>1, <3>1, <3>2, EnterStepOK, StandsStill DEF TypeOK
    <3>5. StepOK(r)'
      BY <1>1, <2>1, <3>1, <3>2, EnterStepOK DEF TypeOK, StepOK, Looping, Updated
    <3>. QED BY <3>3, <3>4, <3>5 DEF TypeInv
  <2>. QED BY <2>3, <2>4
<1>9. ASSUME NEW r \in Ranks, SavePt(r) PROVE TypeInv'
  <2>1. pc[r] = "save_pt" /\ step[r] + 1 \in Dirs
    BY <1>1, <1>9 DEF SavePt, At, StepOK, Updated
  <2>2. TypeOK'
    BY <1>1, <1>9, <2>1 DEF SavePt, Goto, TypeOK, Labels
  <2>3. ASSUME NEW q \in Ranks PROVE StepOK(q)'
    BY <1>1, <1>9, <2>1 DEF SavePt, Goto, TypeOK, StepOK, Labels, Looping, Updated
  <2>. QED BY <2>2, <2>3 DEF TypeInv
<1>10. ASSUME NEW r \in Ranks, SaveMeta(r) PROVE TypeInv'
  <2>1. pc[r] = "save_meta" /\ step[r] + 1 \in Dirs
    BY <1>1, <1>10 DEF SaveMeta, At, StepOK, Updated
  <2>2. TypeOK'
    BY <1>1, <1>10, <2>1 DEF SaveMeta, Enter, Goto, TypeOK, Labels
  <2>3. ASSUME NEW q \in Ranks PROVE StepOK(q)'
    BY <1>1, <1>10, <2>1 DEF SaveMeta, Enter, Goto, TypeOK, StepOK, Labels, Looping, Updated
  <2>. QED BY <2>2, <2>3 DEF TypeInv
<1>11. ASSUME NEW r \in Ranks, AfterSave(r) PROVE TypeInv'
  <2>1. TypeOK'
    <3>1. pc \in [Ranks -> Labels] /\ arrived \in [Ranks -> Nat]
      BY <1>1 DEF TypeOK
    <3>2. CASE r = 0
      <4>1. pc' = [pc EXCEPT ![r] = "manifest"] /\ arrived' = arrived
        BY <1>11, <3>2 DEF AfterSave, Goto
      <4>2. pc' \in [Ranks -> Labels] /\ arrived' \in [Ranks -> Nat]
        BY <3>1, <4>1 DEF Labels
      <4>. QED BY <1>1, <1>11, <4>2 DEF AfterSave, disk, TypeOK
    <3>3. CASE r # 0
      <4>1. pc' = [pc EXCEPT ![r] = "written"] /\ arrived' = [arrived EXCEPT ![r] = @ + 1]
        BY <1>11, <3>3 DEF AfterSave, Enter, Goto
      <4>2. pc' \in [Ranks -> Labels] /\ arrived' \in [Ranks -> Nat]
        BY <3>1, <4>1 DEF Labels
      <4>. QED BY <1>1, <1>11, <4>2 DEF AfterSave, disk, TypeOK
    <3>. QED BY <3>2, <3>3
  <2>2. ASSUME NEW q \in Ranks PROVE StepOK(q)'
    BY <1>1, <1>11 DEF AfterSave, At, Enter, Goto, TypeOK, StepOK, Labels, Looping, Updated
  <2>. QED BY <2>1, <2>2 DEF TypeInv
<1>12. ASSUME NEW r \in Ranks, WriteManifest(r) PROVE TypeInv'
  <2>1. pc[r] = "manifest" /\ step[r] + 1 \in Dirs
    BY <1>1, <1>12 DEF WriteManifest, At, StepOK, Updated
  <2>2. TypeOK'
    BY <1>1, <1>12, <2>1 DEF WriteManifest, Goto, TypeOK, Labels
  <2>3. ASSUME NEW q \in Ranks PROVE StepOK(q)'
    BY <1>1, <1>12, <2>1 DEF WriteManifest, Goto, TypeOK, StepOK, Labels, Looping, Updated
  <2>. QED BY <2>2, <2>3 DEF TypeInv
<1>13. ASSUME NEW r \in Ranks, WriteLatest(r) PROVE TypeInv'
  <2>1. pc[r] = "latest" /\ step[r] + 1 \in Dirs
    BY <1>1, <1>13 DEF WriteLatest, At, StepOK, Updated
  <2>2. TypeOK'
    BY <1>1, <1>13, <2>1 DEF WriteLatest, Enter, Goto, TypeOK, Labels
  <2>3. ASSUME NEW q \in Ranks PROVE StepOK(q)'
    BY <1>1, <1>13, <2>1 DEF WriteLatest, Enter, Goto, TypeOK, StepOK, Labels, Looping, Updated
  <2>. QED BY <2>2, <2>3 DEF TypeInv
<1>14. ASSUME NEW r \in Ranks, AfterManifest(r) PROVE TypeInv'
  <2>1. pc[r] = "written" /\ step[r] + 1 \in 1..Steps /\ mem[r].step = step[r] + 1
    BY <1>1, <1>14 DEF AfterManifest, At, StepOK, Labels, Looping, Updated
  <2>2. /\ step' = [step EXCEPT ![r] = step[r] + 1] /\ EnterStep(r, step[r] + 1)
        /\ UNCHANGED <<disk, run, source, fromRoot, up, mem>>
    BY <1>14 DEF AfterManifest, EndStep
  <2>3. step[r] + 1 \in 0..Steps
    BY <2>1, CheckpointAssumption
  <2>4. TypeOK'
    BY <1>1, <2>2, <2>3, EnterStepOK DEF disk, TypeOK
  <2>5. ASSUME NEW q \in Ranks \ {r} PROVE StepOK(q)'
    BY <1>1, <2>2, <2>3, EnterStepOK, StandsStill DEF TypeOK
  <2>6. StepOK(r)'
    BY <1>1, <2>1, <2>2, <2>3, EnterStepOK DEF TypeOK, StepOK, Looping, Updated
  <2>. QED BY <2>4, <2>5, <2>6 DEF TypeInv
<1>15. ASSUME NEW r \in Ranks, Finish(r) PROVE TypeInv'
  <2>1. TypeOK'
    BY <1>1, <1>15 DEF Finish, Goto, disk, TypeOK, Labels
  <2>2. ASSUME NEW q \in Ranks PROVE StepOK(q)'
    BY <1>1, <1>15 DEF Finish, At, Goto, TypeOK, StepOK, Labels, Looping, Updated
  <2>. QED BY <2>1, <2>2 DEF TypeInv
<1>16. ASSUME NEW r \in Ranks, Crash(r) \/ TearDown(r) PROVE TypeInv'
  <2>1. TypeOK'
    BY <1>1, <1>16 DEF Crash, TearDown, disk, TypeOK
  <2>2. ASSUME NEW q \in Ranks PROVE StepOK(q)'
    BY <1>1, <1>16 DEF Crash, TearDown, StepOK
  <2>. QED BY <2>1, <2>2 DEF TypeInv
<1>17. CASE UNCHANGED vars
  BY <1>1, <1>17 DEF vars, TypeInv, TypeOK, StepOK
<1>. QED
  BY <1>2, <1>3, <1>4, <1>5, <1>6, <1>7, <1>8, <1>9, <1>10, <1>11, <1>12, <1>13, <1>14, <1>15,
     <1>16, <1>17
     DEF Next, Proceed, Load, Save

(* Whatever the operator resumes from, the state is well typed.            *)
THEOREM TypeCorrect == Spec => []TypeOK
<1>1. TypeInv => TypeOK
  BY DEF TypeInv
<1>. QED BY <1>1, TypeInit, TypeStep, PTL DEF Spec

-----------------------------------------------------------------------------
(* Resuming from the root directory only                                   *)

(* The barrier a rank entered last, as a step and one of the four barriers *)
(* of a step, and the one that follows it.                                 *)
Phase(l) ==
    IF l \in {"begin", "train", "finishing", "done"} THEN 1
    ELSE IF l \in {"reduce", "save_pt", "save_meta"} THEN 2
    ELSE IF l \in {"saved", "manifest", "latest"} THEN 3
    ELSE IF l = "written" THEN 4 ELSE 0
Point(r) == <<step[r], Phase(pc[r])>>
NextPoint(p) ==
    IF p[2] = 1 THEN <<p[1], 2>>
    ELSE IF p[2] = 2 /\ p[1] + 1 \in Dirs THEN <<p[1], 3>>
    ELSE IF p[2] = 3 THEN <<p[1], 4>>
    ELSE <<p[1] + 1, 1>>

(* Ranks are at most one barrier apart, and the same number of barriers    *)
(* means the same barrier.                                                 *)
Lockstep ==
    \A r, s \in Ranks :
        /\ arrived[s] <= arrived[r] + 1
        /\ arrived[r] > 0 /\ arrived[s] = arrived[r] => Point(s) = Point(r)
        /\ arrived[r] > 0 /\ arrived[s] = arrived[r] + 1 => Point(s) = NextPoint(Point(r))

LabelOK(r) ==
    /\ pc[r] # "failed"
    /\ pc[r] = "load" <=> arrived[r] = 0
    /\ pc[r] \in Updated \cup {"reduce"} => arrived[r] >= 2
    /\ pc[r] \in {"manifest", "latest"} => r = 0
    /\ pc[r] \in Past => \A s \in Ranks : arrived[s] >= arrived[r]

(* While some rank has yet to load, those that have hold what is on disk.  *)
StartState == IF source = Scratch THEN Pretrained ELSE manifest[latest]
Starting == \E q \in Ranks : arrived[q] = 0
StartOK ==
    /\ source = Scratch \/ (source = Root /\ latest # NoDir)
    /\ Starting /\ source = Scratch => latest = NoDir
    /\ Starting => \A s \in Ranks :
                      arrived[s] = 1 => Point(s) = <<StartState.step, 1>> /\ mem[s] = StartState

SameMemory ==
    \A r, s \in Ranks :
        arrived[r] > 0 /\ arrived[s] > 0 /\ mem[r].step = mem[s].step => mem[r] = mem[s]
UpdatedHere ==
    \A r \in Ranks :
        (\/ pc[r] \in Updated
         \/ arrived[r] > 2
         \/ pc[r] # "reduce" /\ arrived[r] > 1) => mem[r].run = run

FilesSaved ==
    \A r \in Ranks :
        /\ pc[r] \in FilesWritten \cup {"save_meta"} => pt[step[r] + 1][r] = mem[r]
        /\ pc[r] \in FilesWritten => meta[step[r] + 1][r] = mem[r]

(* latest_checkpoint.txt names no later step than the one a rank is in; it *)
(* names that step only once the rank has saved it.                        *)
LatestBehind ==
    \A r \in Ranks : arrived[r] > 0 =>
        /\ latest <= step[r] + 1
        /\ pc[r] \notin FilesWritten => latest <= step[r]
        /\ r = 0 /\ pc[r] # "written" => latest <= step[r]

ManifestWhole == pc[0] = "latest" => Coherent(step[0] + 1)

(* The directory latest_checkpoint.txt names is one whole checkpoint.      *)
LatestWhole == latest # NoDir => Coherent(latest)

Safe ==
    /\ Lockstep
    /\ \A r \in Ranks : LabelOK(r)
    /\ StartOK
    /\ SameMemory
    /\ UpdatedHere
    /\ FilesSaved
    /\ LatestBehind
    /\ ManifestWhole
    /\ LatestWhole
IInv == TypeInv /\ (fromRoot => Safe)

LEMMA ZeroIsRank == 0 \in Ranks
BY CheckpointAssumption DEF Ranks

(* A step in which no rank moves from one barrier to another keeps them in *)
(* lockstep, and so does one in which a rank that nobody is behind does.   *)
LEMMA LockstepKept ==
    ASSUME Lockstep, arrived' = arrived, \A s \in Ranks : Point(s)' = Point(s)
    PROVE  Lockstep'
BY DEF Lockstep

LEMMA LockstepAdvance ==
    ASSUME TypeOK, Lockstep, NEW r \in Ranks,
           arrived[r] > 0, \A s \in Ranks : arrived[s] >= arrived[r],
           arrived' = [arrived EXCEPT ![r] = @ + 1],
           Point(r)' = NextPoint(Point(r)),
           \A s \in Ranks \ {r} : Point(s)' = Point(s)
    PROVE  Lockstep'
<1>1. arrived \in [Ranks -> Nat]
  BY DEF TypeOK
<1>2. ASSUME NEW p \in Ranks, NEW q \in Ranks
      PROVE  /\ arrived'[q] <= arrived'[p] + 1
             /\ arrived'[p] > 0 /\ arrived'[q] = arrived'[p] => Point(q)' = Point(p)'
             /\ arrived'[p] > 0 /\ arrived'[q] = arrived'[p] + 1 => Point(q)' = NextPoint(Point(p)')
  <2>1. CASE p = r /\ q = r
    BY <1>1, <2>1
  <2>2. CASE p = r /\ q # r
    <3>1. /\ arrived'[p] = arrived[p] + 1 /\ arrived'[q] = arrived[q] /\ Point(q)' = Point(q)
          /\ arrived[q] <= arrived[p] + 1 /\ Point(p)' = NextPoint(Point(p))
          /\ arrived[q] = arrived[p] + 1 => Point(q) = NextPoint(Point(p))
      BY <1>1, <2>2 DEF Lockstep
    <3>. QED BY <1>1, <3>1
  <2>3. CASE p # r /\ q = r
    <3>1. /\ arrived'[q] = arrived[q] + 1 /\ arrived'[p] = arrived[p] /\ Point(p)' = Point(p)
          /\ arrived[p] >= arrived[q] /\ arrived[p] <= arrived[q] + 1
          /\ Point(q)' = NextPoint(Point(q))
          /\ arrived[p] = arrived[q] => Point(q) = Point(p)
          /\ arrived[p] = arrived[q] + 1 => Point(p) = NextPoint(Point(q))
      BY <1>1, <2>3 DEF Lockstep
    <3>. QED BY <1>1, <3>1
  <2>4. CASE p # r /\ q # r
    BY <1>1, <2>4 DEF Lockstep
  <2>. QED BY <2>1, <2>2, <2>3, <2>4
<1>. QED BY <1>2 DEF Lockstep

(* A rank that joins the first barrier of the launch.                      *)
LEMMA LockstepJoin ==
    ASSUME TypeOK, Lockstep, NEW r \in Ranks, NEW first,
           arrived[r] = 0, arrived' = [arrived EXCEPT ![r] = @ + 1],
           Point(r)' = first,
           \A s \in Ranks : arrived[s] = 1 => Point(s) = first,
           \A s \in Ranks \ {r} : Point(s)' = Point(s)
    PROVE  Lockstep'
<1>1. arrived \in [Ranks -> Nat]
  BY DEF TypeOK
<1>2. \A s \in Ranks : arrived[s] <= 1
  BY <1>1 DEF Lockstep
<1>3. \A s \in Ranks : /\ arrived'[s] \in {0, 1}
                       /\ arrived'[s] = 1 => Point(s)' = first
  BY <1>1, <1>2
<1>. QED BY <1>3 DEF Lockstep

(* A rank past the barrier it entered last, or let out of it, knows that   *)
(* everybody has loaded; where they are follows from its own point.        *)
LEMMA EverybodyLoaded ==
    ASSUME TypeOK, NEW r \in Ranks, LabelOK(r), pc[r] # "load", pc[r] \in Past \/ Released(r)
    PROVE  ~Starting /\ arrived[r] > 0 /\ \A s \in Ranks : arrived[s] >= arrived[r]
BY DEF TypeOK, LabelOK, Released, Starting

(* A rank that stands still, while others enter barriers.                  *)
LEMMA LabelKept ==
    ASSUME NEW q \in Ranks, LabelOK(q), arrived \in [Ranks -> Nat], arrived' \in [Ranks -> Nat],
           pc'[q] = pc[q], arrived'[q] = arrived[q], \A s \in Ranks : arrived'[s] >= arrived[s]
    PROVE  LabelOK(q)'
BY DEF LabelOK

(* Ranks in the same or the next barrier when one is at the third.         *)
LEMMA AllSavedTogether ==
    ASSUME TypeInv, Safe, pc[0] \in {"manifest", "latest"}, NEW s \in Ranks
    PROVE  /\ pc[s] \in FilesWritten /\ step[s] = step[0]
           /\ mem[s] = mem[0] /\ mem[0].step = step[0] + 1
           /\ pt[step[0] + 1][s] = mem[0] /\ meta[step[0] + 1][s] = mem[0]
<1>1. TypeOK /\ StepOK(0) /\ StepOK(s) /\ LabelOK(0) /\ LabelOK(s) /\ Lockstep /\ FilesSaved
  BY ZeroIsRank DEF TypeInv, Safe
<1>2. arrived[0] \in Nat /\ arrived[s] \in Nat /\ step[0] \in Nat /\ step[s] \in Nat /\ pc[s] \in Labels
  BY <1>1, ZeroIsRank, CheckpointAssumption DEF TypeOK
<1>3. arrived[0] > 0 /\ arrived[s] >= arrived[0] /\ arrived[s] <= arrived[0] + 1
  BY <1>1, <1>2, ZeroIsRank DEF LabelOK, Past, Lockstep, Updated
<1>4. Point(0) = <<step[0], 3>>
  BY DEF Point, Phase
<1>5. Point(s) = <<step[0], 3>> \/ Point(s) = <<step[0], 4>>
  <2>1. NextPoint(Point(0)) = <<step[0], 4>>
    BY <1>4 DEF NextPoint
  <2>. QED BY <1>1, <1>2, <1>3, <1>4, <2>1, ZeroIsRank DEF Lockstep
<1>6. pc[s] \in FilesWritten /\ step[s] = step[0]
  BY <1>2, <1>5 DEF Point, Phase, FilesWritten, Labels
<1>7. mem[0].step = step[0] + 1 /\ mem[s].step = step[0] + 1
  BY <1>1, <1>6 DEF StepOK, Updated, FilesWritten
<1>8. mem[s] = mem[0]
  BY <1>2, <1>3, <1>7, ZeroIsRank DEF Safe, SameMemory
<1>. QED BY <1>1, <1>6, <1>7, <1>8 DEF FilesSaved

(* A rank that has loaded what the others of its launch load.              *)
LEMMA SafeJoin ==
    ASSUME TypeInv, TypeInv', Safe, NEW r \in Ranks, pc[r] = "load",
           NEW l \in {"begin", "finishing"}, pc' = [pc EXCEPT ![r] = l],
           StartState.step = latest,
           mem' = [mem EXCEPT ![r] = StartState],
           step' = [step EXCEPT ![r] = StartState.step],
           arrived' = [arrived EXCEPT ![r] = @ + 1],
           UNCHANGED <<disk, run, source>>
    PROVE  Safe'
<1>1. TypeOK /\ TypeOK' /\ (\A q \in Ranks : LabelOK(q)) /\ Lockstep /\ StartOK
  BY DEF TypeInv, Safe
<1>2. /\ arrived[r] = 0 /\ Starting /\ arrived \in [Ranks -> Nat] /\ arrived' \in [Ranks -> Nat]
      /\ arrived'[r] = 1
  BY <1>1 DEF LabelOK, Starting, TypeOK
<1>3. Point(r)' = <<StartState.step, 1>> /\ \A s \in Ranks \ {r} : Point(s)' = Point(s)
  BY <1>1 DEF TypeOK, Point, Phase
<1>4. \A s \in Ranks : arrived[s] <= 1
  BY <1>1, <1>2 DEF Lockstep
<1>5. Lockstep'
  BY <1>1, <1>2, <1>3, LockstepJoin DEF StartOK
<1>6. ASSUME NEW q \in Ranks PROVE LabelOK(q)'
  <2>1. CASE q = r
    BY <1>1, <1>2, <2>1 DEF LabelOK, TypeOK, Updated, Past
  <2>2. CASE q # r
    <3>1. \A x \in Ranks : arrived'[x] >= arrived[x]
      BY <1>2
    <3>2. pc'[q] = pc[q] /\ arrived'[q] = arrived[q]
      BY <1>1, <1>2, <2>2 DEF TypeOK
    <3>. QED BY <1>1, <1>2, <3>1, <3>2, LabelKept
  <2>. QED BY <2>1, <2>2
<1>7. StartOK'
  <2>1. StartState' = StartState /\ latest' = latest /\ source' = source
    BY DEF StartState, disk
  <2>2. ASSUME NEW s \in Ranks, arrived'[s] = 1
        PROVE  Point(s)' = <<StartState.step, 1>> /\ mem'[s] = StartState
    BY <1>1, <1>2, <1>3, <2>2 DEF StartOK, TypeOK
  <2>. QED BY <1>1, <1>2, <2>1, <2>2 DEF StartOK
<1>8. SameMemory'
  <2>1. \A s \in Ranks : arrived'[s] > 0 => mem'[s] = StartState
    BY <1>1, <1>2, <1>4 DEF StartOK, TypeOK
  <2>. QED BY <2>1 DEF SameMemory
<1>9. UpdatedHere'
  BY <1>1, <1>2, <1>4 DEF UpdatedHere, LabelOK, TypeOK, Updated
<1>10. FilesSaved'
  BY <1>1 DEF Safe, FilesSaved, FilesWritten, disk, TypeOK
<1>11. LatestBehind'
  <2>1. latest \in Nat /\ latest' = latest
    BY <1>1, CheckpointAssumption DEF TypeOK, Dirs, NoDir, disk
  <2>2. ASSUME NEW s \in Ranks, s # r
        PROVE  pc'[s] = pc[s] /\ step'[s] = step[s] /\ arrived'[s] = arrived[s]
    BY <1>1, <2>2 DEF TypeOK
  <2>3. step'[r] = latest
    BY <1>1 DEF TypeOK
  <2>. QED BY <2>1, <2>2, <2>3 DEF Safe, LatestBehind
<1>12. ManifestWhole' /\ LatestWhole'
  BY <1>1, ZeroIsRank DEF Safe, ManifestWhole, LatestWhole, Coherent, disk, TypeOK
<1>. QED BY <1>5, <1>6, <1>7, <1>8, <1>9, <1>10, <1>11, <1>12 DEF Safe

LEMMA SafeLoadNothing ==
    ASSUME TypeInv, TypeInv', Safe, NEW r \in Ranks, LoadNothing(r)
    PROVE  Safe'
<1>1. TypeOK /\ StepOK(r) /\ LabelOK(r) /\ StartOK
  BY DEF TypeInv, Safe
<1>2. pc[r] = "load" /\ source = Scratch /\ Starting /\ latest = NoDir
  BY <1>1 DEF LoadNothing, At, LabelOK, Starting, StartOK
<1>3. step[r] = 0 /\ mem[r] = Pretrained /\ StartState = Pretrained /\ latest = 0
  BY <1>1, <1>2 DEF StepOK, StartState, NoDir
<1>4. mem' = [mem EXCEPT ![r] = StartState] /\ step' = [step EXCEPT ![r] = StartState.step]
  BY <1>1, <1>3 DEF LoadNothing, TypeOK, Pretrained
<1>. DEFINE l == IF 0 < Steps THEN "begin" ELSE "finishing"
<1>5. l \in {"begin", "finishing"} /\ pc' = [pc EXCEPT ![r] = l]
  BY DEF LoadNothing, EnterStep, Enter, Goto
<1>6. arrived' = [arrived EXCEPT ![r] = @ + 1] /\ UNCHANGED <<disk, run, source>>
  BY DEF LoadNothing, EnterStep, Enter
<1>7. StartState.step = latest
  BY <1>3 DEF Pretrained
<1>. HIDE DEF l
<1>. QED BY <1>2, <1>4, <1>5, <1>6, <1>7, SafeJoin

(* Everything the loader looks at is there and is of one save.             *)
LEMMA RootLoadable ==
    ASSUME TypeInv, Safe, NEW r \in Ranks, pc[r] = "load", source # Scratch
    PROVE  /\ source = Root /\ ResumeDir = latest /\ Loadable(latest, r)
           /\ pt[latest][r] = manifest[latest] /\ manifest[latest].step = latest
<1>1. source = Root /\ latest # NoDir /\ latest \in Dirs /\ Coherent(latest)
  BY DEF Safe, StartOK, LatestWhole, TypeInv, TypeOK
<1>2. /\ manifest[latest].step = latest
      /\ pt[latest][r] = manifest[latest] /\ meta[latest][r] = manifest[latest]
  BY <1>1 DEF Coherent
<1>3. manifest[latest] # Absent
  BY <1>1, <1>2, DirFacts, CheckpointAssumption DEF Absent
<1>. QED BY <1>1, <1>2, <1>3 DEF ResumeDir, Loadable

LEMMA SafeLoadRank ==
    ASSUME TypeInv, TypeInv', Safe, NEW r \in Ranks, LoadRank(r)
    PROVE  Safe'
<1>1. pc[r] = "load" /\ source # Scratch
  BY DEF LoadRank, At
<1>2. /\ source = Root /\ ResumeDir = latest
      /\ pt[latest][r] = manifest[latest] /\ manifest[latest].step = latest
      /\ StartState = manifest[latest]
  BY <1>1, RootLoadable DEF StartState
<1>3. mem' = [mem EXCEPT ![r] = StartState] /\ step' = [step EXCEPT ![r] = StartState.step]
  BY <1>2 DEF LoadRank
<1>. DEFINE l == IF StartState.step < Steps THEN "begin" ELSE "finishing"
<1>4. l \in {"begin", "finishing"} /\ pc' = [pc EXCEPT ![r] = l]
  BY <1>2 DEF LoadRank, EnterStep, Enter, Goto
<1>5. arrived' = [arrived EXCEPT ![r] = @ + 1] /\ UNCHANGED <<disk, run, source>>
  BY DEF LoadRank, EnterStep, Enter
<1>. HIDE DEF l
<1>. QED BY <1>1, <1>2, <1>3, <1>4, <1>5, SafeJoin

LEMMA SafeLoadFails ==
    ASSUME TypeInv, Safe, NEW r \in Ranks, LoadFails(r)
    PROVE  FALSE
BY RootLoadable DEF LoadFails, At

(* What a rank leaves untouched when it goes on to the next barrier, and   *)
(* when it stays between the same two.                                     *)
LEMMA AdvanceFrame ==
    ASSUME TypeInv, TypeInv', Safe, NEW r \in Ranks,
           pc[r] # "load", pc[r] \in Past \/ Released(r),
           arrived' = [arrived EXCEPT ![r] = @ + 1],
           Point(r)' = NextPoint(Point(r)),
           \A s \in Ranks \ {r} : pc'[s] = pc[s] /\ step'[s] = step[s],
           source' = source, latest' = NoDir => latest = NoDir
    PROVE  /\ Lockstep' /\ StartOK'
           /\ \A q \in Ranks \ {r} : LabelOK(q)'
           /\ arrived[r] > 0 /\ arrived'[r] = arrived[r] + 1
           /\ \A s \in Ranks : arrived[s] > 0 /\ arrived'[s] > 0
<1>1. TypeOK /\ TypeOK' /\ (\A q \in Ranks : LabelOK(q)) /\ Lockstep /\ StartOK
  BY DEF TypeInv, Safe
<1>2. ~Starting /\ arrived[r] > 0 /\ \A s \in Ranks : arrived[s] >= arrived[r]
  BY <1>1, EverybodyLoaded
<1>3. arrived \in [Ranks -> Nat] /\ arrived' \in [Ranks -> Nat]
  BY <1>1 DEF TypeOK
<1>4. \A s \in Ranks \ {r} : Point(s)' = Point(s)
  BY DEF Point
<1>5. Lockstep'
  BY <1>1, <1>2, <1>4, LockstepAdvance
<1>6. (\A s \in Ranks : arrived'[s] >= arrived[s]) /\ arrived'[r] = arrived[r] + 1
  BY <1>3
<1>7. \A s \in Ranks : arrived[s] > 0 /\ arrived'[s] > 0
  BY <1>2, <1>3, <1>6
<1>8. StartOK'
  BY <1>1, <1>7 DEF StartOK, Starting
<1>9. ASSUME NEW q \in Ranks \ {r} PROVE LabelOK(q)'
  <2>1. pc'[q] = pc[q] /\ arrived'[q] = arrived[q]
    BY <1>3
  <2>. QED BY <1>1, <1>3, <1>6, <2>1, LabelKept
<1>. QED BY <1>2, <1>5, <1>6, <1>7, <1>8, <1>9

LEMMA StayFrame ==
    ASSUME TypeInv, TypeInv', Safe, NEW r \in Ranks,
           pc[r] # "load", pc[r] \in Past \/ Released(r),
           arrived' = arrived,
           Point(r)' = Point(r),
           \A s \in Ranks \ {r} : pc'[s] = pc[s] /\ step'[s] = step[s],
           source' = source, latest' = latest
    PROVE  /\ Lockstep' /\ StartOK'
           /\ \A q \in Ranks \ {r} : LabelOK(q)'
           /\ arrived[r] > 0 /\ \A s \in Ranks : arrived[s] >= arrived[r]
<1>1. TypeOK /\ TypeOK' /\ (\A q \in Ranks : LabelOK(q)) /\ Lockstep /\ StartOK
  BY DEF TypeInv, Safe
<1>2. ~Starting /\ arrived[r] > 0 /\ \A s \in Ranks : arrived[s] >= arrived[r]
  BY <1>1, EverybodyLoaded
<1>3. \A s \in Ranks : Point(s)' = Point(s)
  BY DEF Point
<1>4. Lockstep'
  BY <1>1, <1>3, LockstepKept
<1>5. StartOK'
  BY <1>1, <1>2 DEF StartOK, Starting
<1>6. ASSUME NEW q \in Ranks \ {r} PROVE LabelOK(q)'
  BY <1>1 DEF LabelOK
<1>. QED BY <1>2, <1>4, <1>5, <1>6

LEMMA SafeBegin ==
    ASSUME TypeInv, TypeInv', Safe, NEW r \in Ranks, Begin(r)
    PROVE  Safe'
<1>1. TypeOK /\ TypeOK' /\ LabelOK(r)
  BY DEF TypeInv, Safe
<1>2. /\ pc[r] = "begin" /\ Released(r) /\ pc' = [pc EXCEPT ![r] = "train"]
      /\ UNCHANGED <<disk, run, source, step, mem, arrived>>
  BY DEF Begin, At, Goto
<1>3. Point(r)' = Point(r) /\ \A s \in Ranks \ {r} : pc'[s] = pc[s] /\ step'[s] = step[s]
  BY <1>1, <1>2 DEF TypeOK, Point, Phase
<1>4. /\ Lockstep' /\ StartOK' /\ \A q \in Ranks \ {r} : LabelOK(q)'
      /\ arrived[r] > 0 /\ \A s \in Ranks : arrived[s] >= arrived[r]
  BY <1>2, <1>3, StayFrame DEF disk
<1>5. LabelOK(r)'
  BY <1>1, <1>2, <1>4 DEF LabelOK, TypeOK, Updated, Past
<1>6. SameMemory' /\ UpdatedHere'
  BY <1>1, <1>2, <1>3 DEF Safe, SameMemory, UpdatedHere, TypeOK, Updated
<1>7. FilesSaved' /\ LatestBehind'
  BY <1>1, <1>2, <1>3 DEF Safe, FilesSaved, LatestBehind, FilesWritten, TypeOK, disk
<1>8. ManifestWhole' /\ LatestWhole'
  BY <1>1, <1>2, ZeroIsRank DEF Safe, ManifestWhole, LatestWhole, Coherent, TypeOK, disk
<1>. QED BY <1>4, <1>5, <1>6, <1>7, <1>8 DEF Safe

LEMMA SafeFinish ==
    ASSUME TypeInv, TypeInv', Safe, NEW r \in Ranks, Finish(r)
    PROVE  Safe'
<1>1. TypeOK /\ TypeOK' /\ LabelOK(r)
  BY DEF TypeInv, Safe
<1>2. /\ pc[r] = "finishing" /\ Released(r) /\ pc' = [pc EXCEPT ![r] = "done"]
      /\ UNCHANGED <<disk, run, source, step, mem, arrived>>
  BY DEF Finish, At, Goto
<1>3. Point(r)' = Point(r) /\ \A s \in Ranks \ {r} : pc'[s] = pc[s] /\ step'[s] = step[s]
  BY <1>1, <1>2 DEF TypeOK, Point, Phase
<1>4. /\ Lockstep' /\ StartOK' /\ \A q \in Ranks \ {r} : LabelOK(q)'
      /\ arrived[r] > 0 /\ \A s \in Ranks : arrived[s] >= arrived[r]
  BY <1>2, <1>3, StayFrame DEF disk
<1>5. LabelOK(r)'
  BY <1>1, <1>2, <1>4 DEF LabelOK, TypeOK, Updated, Past
<1>6. SameMemory' /\ UpdatedHere'
  BY <1>1, <1>2, <1>3 DEF Safe, SameMemory, UpdatedHere, TypeOK, Updated
<1>7. FilesSaved' /\ LatestBehind'
  BY <1>1, <1>2, <1>3 DEF Safe, FilesSaved, LatestBehind, FilesWritten, TypeOK, disk
<1>8. ManifestWhole' /\ LatestWhole'
  BY <1>1, <1>2, ZeroIsRank DEF Safe, ManifestWhole, LatestWhole, Coherent, TypeOK, disk
<1>. QED BY <1>4, <1>5, <1>6, <1>7, <1>8 DEF Safe

LEMMA SafeBackward ==
    ASSUME TypeInv, TypeInv', Safe, NEW r \in Ranks, Backward(r)
    PROVE  Safe'
<1>1. TypeOK /\ TypeOK' /\ LabelOK(r)
  BY DEF TypeInv, Safe
<1>2. /\ pc[r] = "train" /\ pc' = [pc EXCEPT ![r] = "reduce"]
      /\ arrived' = [arrived EXCEPT ![r] = @ + 1]
      /\ UNCHANGED <<disk, run, source, step, mem>>
  BY DEF Backward, At, Enter, Goto
<1>3. Point(r)' = NextPoint(Point(r)) /\ \A s \in Ranks \ {r} : pc'[s] = pc[s] /\ step'[s] = step[s]
  BY <1>1, <1>2 DEF TypeOK, Point, Phase, NextPoint
<1>4. /\ Lockstep' /\ StartOK' /\ \A q \in Ranks \ {r} : LabelOK(q)'
      /\ arrived[r] > 0 /\ arrived'[r] = arrived[r] + 1
      /\ \A s \in Ranks : arrived[s] > 0 /\ arrived'[s] > 0
  BY <1>2, <1>3, AdvanceFrame DEF disk, Past
<1>5. arrived'[r] >= 2 /\ arrived[r] \in Nat /\ pc'[r] = "reduce"
  BY <1>1, <1>2, <1>4 DEF TypeOK
<1>6. LabelOK(r)'
  BY <1>4, <1>5 DEF LabelOK, Past
<1>7. SameMemory'
  BY <1>2, <1>4 DEF Safe, SameMemory
<1>8. UpdatedHere'
  <2>1. ASSUME NEW q \in Ranks, q # r PROVE arrived'[q] = arrived[q] /\ pc'[q] = pc[q]
    BY <1>1, <1>2, <2>1 DEF TypeOK
  <2>2. arrived'[r] > 2 => mem[r].run = run
    BY <1>2, <1>4, <1>5 DEF Safe, UpdatedHere
  <2>. QED BY <1>2, <1>5, <2>1, <2>2 DEF Safe, UpdatedHere, Updated
<1>9. FilesSaved' /\ LatestBehind'
  BY <1>1, <1>2, <1>3, <1>4 DEF Safe, FilesSaved, LatestBehind, FilesWritten, TypeOK, disk
<1>10. ManifestWhole' /\ LatestWhole'
  BY <1>1, <1>2, ZeroIsRank DEF Safe, ManifestWhole, LatestWhole, Coherent, TypeOK, disk
<1>. QED BY <1>4, <1>6, <1>7, <1>8, <1>9, <1>10 DEF Safe

(* The optimizer step: ranks that have done it before r did it here, and   *)
(* hold what r will.                                                       *)
LEMMA UpdateAgrees ==
    ASSUME TypeInv, Safe, NEW r \in Ranks, pc[r] = "reduce", Released(r),
           NEW s \in Ranks \ {r}, mem[s].step = mem[r].step + 1
    PROVE  mem[s] = [run |-> run, step |-> mem[r].step + 1]
<1>1. /\ TypeOK /\ Lockstep /\ StepOK(r) /\ StepOK(s) /\ LabelOK(r) /\ LabelOK(s)
  BY DEF TypeInv, Safe
<1>2. /\ arrived[r] \in Nat /\ arrived[s] \in Nat /\ mem[s] \in States /\ pc[s] \in Labels
      /\ step[r] \in Nat /\ step[s] \in Nat
  BY <1>1, CheckpointAssumption DEF TypeOK
<1>3. arrived[r] >= 2 /\ arrived[s] >= arrived[r] /\ arrived[s] <= arrived[r] + 1
  BY <1>1 DEF LabelOK, Released, Lockstep
<1>4. Point(r) = <<step[r], 2>> /\ mem[r].step = step[r]
  BY <1>1 DEF Point, Phase, StepOK, Updated
<1>5. mem[s].run = run
  <2>1. CASE arrived[s] = arrived[r]
    <3>1. Point(s) = <<step[r], 2>>
      BY <1>1, <1>2, <1>3, <1>4, <2>1 DEF Lockstep
    <3>2. pc[s] \in {"reduce", "save_pt", "save_meta"} /\ step[s] = step[r]
      BY <1>2, <3>1 DEF Point, Phase, Labels
    <3>3. pc[s] # "reduce"
      BY <1>1, <1>2, <1>4, <3>2 DEF StepOK, Updated
    <3>. QED BY <3>2, <3>3 DEF Safe, UpdatedHere, Updated
  <2>2. CASE arrived[s] = arrived[r] + 1
    BY <1>2, <1>3, <2>2 DEF Safe, UpdatedHere
  <2>. QED BY <1>2, <1>3, <2>1, <2>2
<1>. QED BY <1>2, <1>5 DEF States

LEMMA SafeUpdate ==
    ASSUME TypeInv, TypeInv', Safe, NEW r \in Ranks, Update(r)
    PROVE  Safe'
<1>1. TypeOK /\ TypeOK' /\ LabelOK(r) /\ StepOK(r)
  BY DEF TypeInv, Safe
<1>2. /\ pc[r] = "reduce" /\ Released(r) /\ mem[r].step = step[r]
      /\ mem' = [mem EXCEPT ![r] = [run |-> run, step |-> mem[r].step + 1]]
      /\ UNCHANGED <<disk, run, source>>
  BY <1>1 DEF Update, At, StepOK, Updated
<1>3. step[r] \in Nat /\ arrived[r] \in Nat /\ latest \in Nat /\ step[r] + 1 \in 1..Steps
  BY <1>1, <1>2, CheckpointAssumption DEF TypeOK, Dirs, NoDir, StepOK, Looping, Labels
<1>4. SameMemory'
  <2>1. arrived[r] > 0 /\ \A s \in Ranks : arrived[s] > 0
    BY <1>1, <1>2, EverybodyLoaded DEF TypeOK, Starting
  <2>2. mem'[r] = [run |-> run, step |-> mem[r].step + 1]
    BY <1>1, <1>2 DEF TypeOK
  <2>3. ASSUME NEW s \in Ranks, s # r, mem'[s].step = mem'[r].step PROVE mem'[s] = mem'[r]
    <3>1. mem'[s] = mem[s] /\ mem'[r].step = mem[r].step + 1
      BY <1>1, <1>2, <2>2, <2>3 DEF TypeOK
    <3>. QED BY <1>2, <2>2, <2>3, <3>1, UpdateAgrees
  <2>4. ASSUME NEW s \in Ranks, NEW t \in Ranks, s # r, t # r, mem'[s].step = mem'[t].step
        PROVE  mem'[s] = mem'[t]
    BY <1>1, <1>2, <2>1, <2>4 DEF TypeOK, Safe, SameMemory
  <2>. QED BY <2>3, <2>4 DEF SameMemory
<1>5. CASE (step[r] + 1) % Every = 0
  <2>1. pc' = [pc EXCEPT ![r] = "save_pt"] /\ UNCHANGED <<step, arrived>>
    BY <1>5 DEF Update, Goto
  <2>2. Point(r)' = Point(r) /\ \A s \in Ranks \ {r} : pc'[s] = pc[s] /\ step'[s] = step[s]
    BY <1>1, <1>2, <2>1 DEF TypeOK, Point, Phase
  <2>3. /\ Lockstep' /\ StartOK' /\ \A q \in Ranks \ {r} : LabelOK(q)'
        /\ arrived[r] > 0 /\ \A s \in Ranks : arrived[s] >= arrived[r]
    BY <1>2, <2>1, <2>2, StayFrame DEF disk
  <2>4. LabelOK(r)'
    BY <1>1, <1>2, <2>1, <2>3 DEF LabelOK, TypeOK, Past
  <2>5. UpdatedHere'
    BY <1>1, <1>2, <2>1 DEF Safe, UpdatedHere, TypeOK, Updated
  <2>6. FilesSaved' /\ LatestBehind'
    BY <1>1, <1>2, <1>3, <2>1, <2>2 DEF Safe, FilesSaved, LatestBehind, FilesWritten, TypeOK, disk
  <2>7. ManifestWhole' /\ LatestWhole'
    BY <1>1, <1>2, <2>1, ZeroIsRank
       DEF Safe, ManifestWhole, LatestWhole, Coherent, TypeOK, disk
  <2>. QED BY <1>4, <2>3, <2>4, <2>5, <2>6, <2>7 DEF Safe
<1>6. CASE (step[r] + 1) % Every # 0
  <2>. DEFINE l == IF step[r] + 1 < Steps THEN "begin" ELSE "finishing"
  <2>1. /\ l \in {"begin", "finishing"} /\ pc' = [pc EXCEPT ![r] = l]
        /\ step' = [step EXCEPT ![r] = @ + 1] /\ arrived' = [arrived EXCEPT ![r] = @ + 1]
    BY <1>6 DEF Update, EndStep, EnterStep, Enter, Goto
  <2>. HIDE DEF l
  <2>2. step[r] + 1 \notin Dirs
    BY <1>6 DEF Dirs
  <2>3. Point(r)' = NextPoint(Point(r)) /\ \A s \in Ranks \ {r} : pc'[s] = pc[s] /\ step'[s] = step[s]
    BY <1>1, <1>2, <2>1, <2>2 DEF TypeOK, Point, Phase, NextPoint
  <2>4. /\ Lockstep' /\ StartOK' /\ \A q \in Ranks \ {r} : LabelOK(q)'
        /\ arrived[r] > 0 /\ arrived'[r] = arrived[r] + 1
        /\ \A s \in Ranks : arrived[s] > 0 /\ arrived'[s] > 0
    BY <1>2, <2>1, <2>3, AdvanceFrame DEF disk
  <2>5. LabelOK(r)'
    BY <1>1, <1>2, <1>3, <2>1, <2>4 DEF LabelOK, TypeOK, Past, Updated
  <2>6. UpdatedHere'
    BY <1>1, <1>2, <2>1 DEF Safe, UpdatedHere, TypeOK, Updated
  <2>7. FilesSaved' /\ LatestBehind'
    BY <1>1, <1>2, <1>3, <2>1, <2>3, <2>4
       DEF Safe, FilesSaved, LatestBehind, FilesWritten, TypeOK, disk
  <2>8. ManifestWhole' /\ LatestWhole'
    BY <1>1, <1>2, <2>1, ZeroIsRank
       DEF Safe, ManifestWhole, LatestWhole, Coherent, TypeOK, disk
  <2>. QED BY <1>4, <2>4, <2>5, <2>6, <2>7, <2>8 DEF Safe
<1>. QED BY <1>5, <1>6

(* A rank that writes files of its step: that is not the directory         *)
(* latest_checkpoint.txt names, nor one whose manifest is about to be      *)
(* announced.                                                              *)
LEMMA WritesElsewhere ==
    ASSUME TypeInv, Safe, NEW r \in Ranks, pc[r] \in {"save_pt", "save_meta"}
    PROVE  latest < step[r] + 1 /\ pc[0] # "latest"
<1>1. TypeOK /\ LabelOK(r) /\ LabelOK(0) /\ Lockstep /\ LatestBehind
  BY ZeroIsRank DEF TypeInv, Safe
<1>2. latest \in Nat /\ step[r] \in Nat /\ arrived[r] \in Nat /\ arrived[0] \in Nat
  BY <1>1, ZeroIsRank, CheckpointAssumption DEF TypeOK, Dirs, NoDir
<1>3. arrived[r] > 0 /\ arrived[0] >= arrived[r]
  BY <1>1, <1>2, ZeroIsRank DEF LabelOK, Past, Updated
<1>4. latest <= step[r]
  BY <1>1, <1>3 DEF LatestBehind, FilesWritten
<1>5. ASSUME pc[0] = "latest" PROVE FALSE
  <2>1. arrived[r] >= arrived[0]
    BY <1>1, <1>5 DEF LabelOK, Past
  <2>2. Point(r) = Point(0)
    BY <1>1, <1>2, <1>3, <2>1, ZeroIsRank DEF Lockstep
  <2>. QED BY <1>5, <2>2 DEF Point, Phase
<1>. QED BY <1>2, <1>4, <1>5

LEMMA SafeSavePt ==
    ASSUME TypeInv, TypeInv', Safe, NEW r \in Ranks, SavePt(r)
    PROVE  Safe'
<1>1. TypeOK /\ TypeOK' /\ LabelOK(r) /\ StepOK(r)
  BY DEF TypeInv, Safe
<1>2. /\ pc[r] = "save_pt" /\ pc' = [pc EXCEPT ![r] = "save_meta"]
      /\ pt' = [pt EXCEPT ![step[r] + 1] = [@ EXCEPT ![r] = mem[r]]]
      /\ UNCHANGED <<meta, manifest, latest, run, source, step, mem, arrived>>
  BY DEF SavePt, At, Goto
<1>3. step[r] + 1 \in Dirs /\ latest < step[r] + 1 /\ pc[0] # "latest"
  BY <1>1, <1>2, WritesElsewhere DEF StepOK, Updated
<1>4. Point(r)' = Point(r) /\ \A s \in Ranks \ {r} : pc'[s] = pc[s] /\ step'[s] = step[s]
  BY <1>1, <1>2 DEF TypeOK, Point, Phase
<1>5. /\ Lockstep' /\ StartOK' /\ \A q \in Ranks \ {r} : LabelOK(q)'
      /\ arrived[r] > 0 /\ \A s \in Ranks : arrived[s] >= arrived[r]
  BY <1>2, <1>4, StayFrame DEF Past
<1>6. LabelOK(r)'
  BY <1>1, <1>2, <1>5 DEF LabelOK, TypeOK, Updated
<1>7. SameMemory' /\ UpdatedHere'
  BY <1>1, <1>2, <1>4 DEF Safe, SameMemory, UpdatedHere, TypeOK, Updated
<1>8. FilesSaved'
  <2>1. pt'[step[r] + 1][r] = mem[r]
    BY <1>1, <1>2, <1>3 DEF TypeOK
  <2>2. ASSUME NEW q \in Ranks, q # r, NEW d \in Dirs PROVE pt'[d][q] = pt[d][q]
    BY <1>1, <1>2, <1>3, <2>2 DEF TypeOK
  <2>3. \A q \in Ranks : pc[q] \in FilesWritten \cup {"save_meta"} => step[q] + 1 \in Dirs
    BY DEF TypeInv, StepOK, Updated, FilesWritten
  <2>. QED BY <1>1, <1>2, <1>4, <2>1, <2>2, <2>3 DEF Safe, FilesSaved, FilesWritten, TypeOK
<1>9. LatestBehind'
  BY <1>1, <1>2, <1>4 DEF Safe, LatestBehind, FilesWritten, TypeOK
<1>10. ManifestWhole'
  BY <1>1, <1>2, <1>3, ZeroIsRank DEF ManifestWhole, TypeOK
<1>11. LatestWhole'
  <2>1. latest # NoDir => latest \in Dirs /\ latest # step[r] + 1
    BY <1>1, <1>3, CheckpointAssumption DEF TypeOK, Dirs
  <2>2. ASSUME NEW d \in Dirs, d # step[r] + 1 PROVE pt'[d] = pt[d]
    BY <1>1, <1>2, <2>2 DEF TypeOK
  <2>. QED BY <1>2, <2>1, <2>2 DEF Safe, LatestWhole, Coherent
<1>. QED BY <1>5, <1>6, <1>7, <1>8, <1>9, <1>10, <1>11 DEF Safe

LEMMA SafeSaveMeta ==
    ASSUME TypeInv, TypeInv', Safe, NEW r \in Ranks, SaveMeta(r)
    PROVE  Safe'
<1>1. TypeOK /\ TypeOK' /\ LabelOK(r) /\ StepOK(r)
  BY DEF TypeInv, Safe
<1>2. /\ pc[r] = "save_meta" /\ pc' = [pc EXCEPT ![r] = "saved"]
      /\ meta' = [meta EXCEPT ![step[r] + 1] = [@ EXCEPT ![r] = mem[r]]]
      /\ arrived' = [arrived EXCEPT ![r] = @ + 1]
      /\ UNCHANGED <<pt, manifest, latest, run, source, step, mem>>
  BY DEF SaveMeta, At, Enter, Goto
<1>3. step[r] + 1 \in Dirs /\ latest < step[r] + 1 /\ pc[0] # "latest"
  BY <1>1, <1>2, WritesElsewhere DEF StepOK, Updated
<1>4. Point(r)' = NextPoint(Point(r)) /\ \A s \in Ranks \ {r} : pc'[s] = pc[s] /\ step'[s] = step[s]
  BY <1>1, <1>2, <1>3 DEF TypeOK, Point, Phase, NextPoint
<1>5. /\ Lockstep' /\ StartOK' /\ \A q \in Ranks \ {r} : LabelOK(q)'
      /\ arrived[r] > 0 /\ arrived'[r] = arrived[r] + 1
      /\ \A s \in Ranks : arrived[s] > 0 /\ arrived'[s] > 0
  BY <1>2, <1>4, AdvanceFrame DEF Past
<1>6. LabelOK(r)'
  BY <1>1, <1>2, <1>5 DEF LabelOK, TypeOK, Updated, Past
<1>7. SameMemory' /\ UpdatedHere'
  BY <1>1, <1>2, <1>4, <1>5 DEF Safe, SameMemory, UpdatedHere, TypeOK, Updated
<1>8. FilesSaved'
  <2>1. meta'[step[r] + 1][r] = mem[r]
    BY <1>1, <1>2, <1>3 DEF TypeOK
  <2>2. ASSUME NEW q \in Ranks, q # r, NEW d \in Dirs PROVE meta'[d][q] = meta[d][q]
    BY <1>1, <1>2, <1>3, <2>2 DEF TypeOK
  <2>3. \A q \in Ranks : pc[q] \in FilesWritten \cup {"save_meta"} => step[q] + 1 \in Dirs
    BY DEF TypeInv, StepOK, Updated, FilesWritten
  <2>. QED BY <1>1, <1>2, <1>4, <2>1, <2>2, <2>3 DEF Safe, FilesSaved, FilesWritten, TypeOK
<1>9. LatestBehind'
  <2>1. latest \in Nat /\ step[r] \in Nat
    BY <1>1, CheckpointAssumption DEF TypeOK, Dirs, NoDir
  <2>. QED BY <1>1, <1>2, <1>3, <1>4, <1>5, <2>1 DEF Safe, LatestBehind, FilesWritten, TypeOK
<1>10. ManifestWhole'
  BY <1>1, <1>2, <1>3, ZeroIsRank DEF ManifestWhole, TypeOK
<1>11. LatestWhole'
  <2>1. latest # NoDir => latest \in Dirs /\ latest # step[r] + 1
    BY <1>1, <1>3, CheckpointAssumption DEF TypeOK, Dirs
  <2>2. ASSUME NEW d \in Dirs, d # step[r] + 1 PROVE meta'[d] = meta[d]
    BY <1>1, <1>2, <2>2 DEF TypeOK
  <2>. QED BY <1>2, <2>1, <2>2 DEF Safe, LatestWhole, Coherent
<1>. QED BY <1>5, <1>6, <1>7, <1>8, <1>9, <1>10, <1>11 DEF Safe

LEMMA SafeAfterSave ==
    ASSUME TypeInv, TypeInv', Safe, NEW r \in Ranks, AfterSave(r)
    PROVE  Safe'
<1>1. TypeOK /\ TypeOK' /\ LabelOK(r) /\ StepOK(r)
  BY DEF TypeInv, Safe
<1>2. /\ pc[r] = "saved" /\ Released(r)
      /\ UNCHANGED <<disk, run, source, step, mem>>
  BY DEF AfterSave, At
<1>3. ManifestWhole' /\ LatestWhole'
  <2>1. pc'[0] # "latest" \/ pc'[0] = pc[0]
    BY <1>1, ZeroIsRank DEF AfterSave, Enter, Goto, TypeOK
  <2>. QED BY <1>2, <2>1 DEF Safe, ManifestWhole, LatestWhole, Coherent, disk
<1>4. CASE r = 0
  <2>1. pc' = [pc EXCEPT ![r] = "manifest"] /\ arrived' = arrived
    BY <1>4 DEF AfterSave, Goto
  <2>2. Point(r)' = Point(r) /\ \A s \in Ranks \ {r} : pc'[s] = pc[s] /\ step'[s] = step[s]
    BY <1>1, <1>2, <2>1 DEF TypeOK, Point, Phase
  <2>3. /\ Lockstep' /\ StartOK' /\ \A q \in Ranks \ {r} : LabelOK(q)'
        /\ arrived[r] > 0 /\ \A s \in Ranks : arrived[s] >= arrived[r]
    BY <1>2, <2>1, <2>2, StayFrame DEF disk
  <2>4. LabelOK(r)'
    BY <1>1, <1>2, <1>4, <2>1, <2>3 DEF LabelOK, TypeOK, Updated
  <2>5. SameMemory' /\ UpdatedHere'
    BY <1>1, <1>2, <2>1, <2>2 DEF Safe, SameMemory, UpdatedHere, TypeOK, Updated
  <2>6. FilesSaved' /\ LatestBehind'
    BY <1>1, <1>2, <2>1, <2>2 DEF Safe, FilesSaved, LatestBehind, FilesWritten, TypeOK, disk
  <2>. QED BY <1>3, <2>3, <2>4, <2>5, <2>6 DEF Safe
<1>5. CASE r # 0
  <2>1. pc' = [pc EXCEPT ![r] = "written"] /\ arrived' = [arrived EXCEPT ![r] = @ + 1]
    BY <1>5 DEF AfterSave, Enter, Goto
  <2>2. Point(r)' = NextPoint(Point(r)) /\ \A s \in Ranks \ {r} : pc'[s] = pc[s] /\ step'[s] = step[s]
    BY <1>1, <1>2, <2>1 DEF TypeOK, Point, Phase, NextPoint
  <2>3. /\ Lockstep' /\ StartOK' /\ \A q \in Ranks \ {r} : LabelOK(q)'
        /\ arrived[r] > 0 /\ arrived'[r] = arrived[r] + 1
        /\ \A s \in Ranks : arrived[s] > 0 /\ arrived'[s] > 0
    BY <1>2, <2>1, <2>2, AdvanceFrame DEF disk
  <2>4. LabelOK(r)'
    BY <1>1, <1>2, <2>1, <2>3 DEF LabelOK, TypeOK, Updated, Past
  <2>5. SameMemory' /\ UpdatedHere'
    BY <1>1, <1>2, <2>1, <2>2, <2>3 DEF Safe, SameMemory, UpdatedHere, TypeOK, Updated
  <2>6. FilesSaved' /\ LatestBehind'
    BY <1>1, <1>2, <1>5, <2>1, <2>2, <2>3
       DEF Safe, FilesSaved, LatestBehind, FilesWritten, TypeOK, disk
  <2>. QED BY <1>3, <2>3, <2>4, <2>5, <2>6 DEF Safe
<1>. QED BY <1>4, <1>5

LEMMA SafeWriteManifest ==
    ASSUME TypeInv, TypeInv', Safe, NEW r \in Ranks, WriteManifest(r)
    PROVE  Safe'
<1>1. TypeOK /\ TypeOK' /\ LabelOK(r) /\ StepOK(r)
  BY DEF TypeInv, Safe
<1>2. pc[r] = "manifest" /\ r = 0 /\ UNCHANGED <<pt, meta, latest, run, source, step, mem, arrived>>
  BY <1>1 DEF WriteManifest, At, LabelOK
<1>3. \A s \in Ranks : /\ pt[step[r] + 1][s] = mem[r] /\ meta[step[r] + 1][s] = mem[r]
                       /\ mem[r].step = step[r] + 1
  BY <1>2, AllSavedTogether
<1>4. AllSaved(step[r] + 1)
  BY <1>1, <1>3, AbsentIsNoState DEF AllSaved, TypeOK
<1>5. /\ pc' = [pc EXCEPT ![r] = "latest"]
      /\ manifest' = [manifest EXCEPT ![step[r] + 1] = mem[r]]
  BY <1>4 DEF WriteManifest, Goto
<1>6. step[r] + 1 \in Dirs /\ latest <= step[r] /\ latest \in Nat /\ step[r] \in Nat
  <2>1. arrived[r] > 0
    BY <1>1, <1>2 DEF LabelOK, TypeOK, Updated
  <2>. QED BY <1>1, <1>2, <2>1, CheckpointAssumption
           DEF Safe, LatestBehind, StepOK, Updated, TypeOK, Dirs, NoDir
<1>7. Point(r)' = Point(r) /\ \A s \in Ranks \ {r} : pc'[s] = pc[s] /\ step'[s] = step[s]
  BY <1>1, <1>2, <1>5 DEF TypeOK, Point, Phase
<1>8. /\ Lockstep' /\ StartOK' /\ \A q \in Ranks \ {r} : LabelOK(q)'
      /\ arrived[r] > 0 /\ \A s \in Ranks : arrived[s] >= arrived[r]
  BY <1>2, <1>7, StayFrame DEF Past
<1>9. LabelOK(r)'
  BY <1>1, <1>2, <1>5, <1>8 DEF LabelOK, TypeOK, Updated
<1>10. SameMemory' /\ UpdatedHere'
  BY <1>1, <1>2, <1>5, <1>7 DEF Safe, SameMemory, UpdatedHere, TypeOK, Updated
<1>11. FilesSaved' /\ LatestBehind'
  BY <1>1, <1>2, <1>5, <1>7 DEF Safe, FilesSaved, LatestBehind, FilesWritten, TypeOK
<1>12. manifest'[step[r] + 1] = mem[r]
  BY <1>1, <1>5, <1>6 DEF TypeOK
<1>13. ManifestWhole'
  BY <1>2, <1>3, <1>12 DEF ManifestWhole, Coherent
<1>14. LatestWhole'
  <2>1. ASSUME latest # NoDir PROVE manifest'[latest] = manifest[latest]
    BY <1>1, <1>5, <1>6, <2>1 DEF TypeOK
  <2>. QED BY <1>2, <2>1 DEF Safe, LatestWhole, Coherent
<1>. QED BY <1>8, <1>9, <1>10, <1>11, <1>13, <1>14 DEF Safe

LEMMA SafeWriteLatest ==
    ASSUME TypeInv, TypeInv', Safe, NEW r \in Ranks, WriteLatest(r)
    PROVE  Safe' /\ latest' > latest
<1>1. TypeOK /\ TypeOK' /\ LabelOK(r) /\ StepOK(r)
  BY DEF TypeInv, Safe
<1>2. /\ pc[r] = "latest" /\ r = 0 /\ latest' = step[r] + 1
      /\ pc' = [pc EXCEPT ![r] = "written"] /\ arrived' = [arrived EXCEPT ![r] = @ + 1]
      /\ UNCHANGED <<pt, meta, manifest, run, source, step, mem>>
  BY <1>1 DEF WriteLatest, At, Enter, Goto, LabelOK
<1>3. step[r] + 1 \in Dirs /\ latest <= step[r] /\ latest \in Nat /\ step[r] \in Nat
  <2>1. arrived[r] > 0
    BY <1>1, <1>2 DEF LabelOK, TypeOK, Updated
  <2>. QED BY <1>1, <1>2, <2>1, CheckpointAssumption
           DEF Safe, LatestBehind, StepOK, Updated, TypeOK, Dirs, NoDir
<1>4. \A s \in Ranks : pc[s] \in FilesWritten /\ step[s] = step[r]
  BY <1>2, AllSavedTogether
<1>5. Point(r)' = NextPoint(Point(r)) /\ \A s \in Ranks \ {r} : pc'[s] = pc[s] /\ step'[s] = step[s]
  BY <1>1, <1>2 DEF TypeOK, Point, Phase, NextPoint
<1>6. latest' # NoDir
  BY <1>2, <1>3 DEF NoDir
<1>7. /\ Lockstep' /\ StartOK' /\ \A q \in Ranks \ {r} : LabelOK(q)'
      /\ arrived[r] > 0 /\ arrived'[r] = arrived[r] + 1
      /\ \A s \in Ranks : arrived[s] > 0 /\ arrived'[s] > 0
  BY <1>2, <1>5, <1>6, AdvanceFrame DEF Past
<1>8. LabelOK(r)'
  BY <1>1, <1>2, <1>7 DEF LabelOK, TypeOK, Updated, Past
<1>9. SameMemory' /\ UpdatedHere'
  BY <1>1, <1>2, <1>5, <1>7 DEF Safe, SameMemory, UpdatedHere, TypeOK, Updated
<1>10. FilesSaved'
  BY <1>1, <1>2, <1>5 DEF Safe, FilesSaved, FilesWritten, TypeOK
<1>11. LatestBehind'
  BY <1>1, <1>2, <1>3, <1>4, <1>5 DEF LatestBehind, FilesWritten, TypeOK
<1>12. ManifestWhole' /\ LatestWhole'
  BY <1>1, <1>2, ZeroIsRank DEF Safe, ManifestWhole, LatestWhole, Coherent, TypeOK
<1>. QED BY <1>2, <1>3, <1>7, <1>8, <1>9, <1>10, <1>11, <1>12 DEF Safe

LEMMA SafeAfterManifest ==
    ASSUME TypeInv, TypeInv', Safe, NEW r \in Ranks, AfterManifest(r)
    PROVE  Safe'
<1>1. TypeOK /\ TypeOK' /\ LabelOK(r) /\ StepOK(r)
  BY DEF TypeInv, Safe
<1>. DEFINE l == IF step[r] + 1 < Steps THEN "begin" ELSE "finishing"
<1>2. /\ pc[r] = "written" /\ Released(r)
      /\ l \in {"begin", "finishing"} /\ pc' = [pc EXCEPT ![r] = l]
      /\ step' = [step EXCEPT ![r] = @ + 1] /\ arrived' = [arrived EXCEPT ![r] = @ + 1]
      /\ UNCHANGED <<disk, run, source, mem>>
  BY DEF AfterManifest, At, EndStep, EnterStep, Enter, Goto
<1>. HIDE DEF l
<1>3. step[r] \in Nat /\ latest \in Nat
  BY <1>1, CheckpointAssumption DEF TypeOK, Dirs, NoDir
<1>4. Point(r)' = NextPoint(Point(r)) /\ \A s \in Ranks \ {r} : pc'[s] = pc[s] /\ step'[s] = step[s]
  BY <1>1, <1>2 DEF TypeOK, Point, Phase, NextPoint
<1>5. /\ Lockstep' /\ StartOK' /\ \A q \in Ranks \ {r} : LabelOK(q)'
      /\ arrived[r] > 0 /\ arrived'[r] = arrived[r] + 1
      /\ \A s \in Ranks : arrived[s] > 0 /\ arrived'[s] > 0
  BY <1>2, <1>4, AdvanceFrame DEF disk
<1>6. LabelOK(r)'
  BY <1>1, <1>2, <1>5 DEF LabelOK, TypeOK, Updated, Past
<1>7. SameMemory' /\ UpdatedHere'
  BY <1>1, <1>2, <1>4, <1>5 DEF Safe, SameMemory, UpdatedHere, TypeOK, Updated
<1>8. FilesSaved' /\ LatestBehind'
  BY <1>1, <1>2, <1>3, <1>4, <1>5 DEF Safe, FilesSaved, LatestBehind, FilesWritten, TypeOK, disk
<1>9. ManifestWhole' /\ LatestWhole'
  BY <1>1, <1>2, ZeroIsRank DEF Safe, ManifestWhole, LatestWhole, Coherent, TypeOK, disk
<1>. QED BY <1>5, <1>6, <1>7, <1>8, <1>9 DEF Safe

LEMMA SafeLaunch ==
    ASSUME TypeInv, TypeInv', Safe, fromRoot', NEW src \in Sources, Launch(src)
    PROVE  Safe'
<1>1. /\ pc' = [q \in Ranks |-> "load"] /\ arrived' = [q \in Ranks |-> 0]
      /\ source' = (IF latest = NoDir THEN Scratch ELSE Root)
      /\ UNCHANGED disk
  BY DEF Launch
<1>2. StartOK'
  BY <1>1 DEF StartOK, disk, Scratch, Root
<1>3. Lockstep' /\ SameMemory' /\ LatestBehind'
  BY <1>1 DEF Lockstep, SameMemory, LatestBehind
<1>4. FilesSaved' /\ UpdatedHere' /\ ManifestWhole'
  BY <1>1, ZeroIsRank DEF FilesSaved, UpdatedHere, ManifestWhole, FilesWritten, Updated
<1>5. ASSUME NEW q \in Ranks PROVE LabelOK(q)'
  BY <1>1 DEF LabelOK, Updated, Past
<1>6. LatestWhole'
  BY <1>1 DEF Safe, LatestWhole, Coherent, disk
<1>. QED BY <1>2, <1>3, <1>4, <1>5, <1>6 DEF Safe

(* The processes that are up matter to none of it.                         *)
LEMMA SafeStutter ==
    ASSUME Safe, UNCHANGED <<disk, run, source, pc, step, mem, arrived>>
    PROVE  Safe'
<1>1. Lockstep' /\ StartOK' /\ \A q \in Ranks : LabelOK(q)'
  BY DEF Safe, Lockstep, StartOK, Starting, StartState, LabelOK, Point, disk
<1>2. SameMemory' /\ UpdatedHere' /\ FilesSaved' /\ LatestBehind'
  BY DEF Safe, SameMemory, UpdatedHere, FilesSaved, LatestBehind, disk
<1>3. ManifestWhole' /\ LatestWhole'
  BY DEF Safe, ManifestWhole, LatestWhole, Coherent, disk
<1>. QED BY <1>1, <1>2, <1>3 DEF Safe

LEMMA SafeInit == Init => Safe
<1>. SUFFICES ASSUME Init PROVE Safe
  OBVIOUS
<1>1. /\ pc = [q \in Ranks |-> "load"] /\ arrived = [q \in Ranks |-> 0]
      /\ source = Scratch /\ latest = NoDir
  BY DEF Init
<1>2. StartOK /\ Lockstep /\ SameMemory /\ LatestBehind
  BY <1>1 DEF StartOK, Lockstep, SameMemory, LatestBehind
<1>3. FilesSaved /\ UpdatedHere /\ ManifestWhole /\ LatestWhole
  BY <1>1, ZeroIsRank
     DEF FilesSaved, UpdatedHere, ManifestWhole, LatestWhole, FilesWritten, Updated
<1>4. ASSUME NEW q \in Ranks PROVE LabelOK(q)
  BY <1>1 DEF LabelOK, Updated, Past
<1>. QED BY <1>2, <1>3, <1>4 DEF Safe

(* No step makes the history true again.                                   *)
LEMMA FromRootStays == ASSUME [Next]_vars, fromRoot' PROVE fromRoot
<1>1. ASSUME NEW src \in Sources, Launch(src) PROVE fromRoot
  BY <1>1 DEF Launch
<1>2. ASSUME NEW r \in Ranks, Load(r) \/ Begin(r) \/ Backward(r) \/ Update(r) \/ Finish(r)
      PROVE  fromRoot
  BY <1>2 DEF Load, LoadNothing, LoadRank, LoadFails, Begin, Backward, Update, Finish
<1>3. ASSUME NEW r \in Ranks, Save(r) PROVE fromRoot
  BY <1>3 DEF Save, SavePt, SaveMeta, AfterSave, WriteManifest, WriteLatest, AfterManifest
<1>4. ASSUME NEW r \in Ranks, Crash(r) \/ TearDown(r) PROVE fromRoot
  BY <1>4 DEF Crash, TearDown
<1>5. CASE UNCHANGED vars
  BY <1>5 DEF vars
<1>. QED BY <1>1, <1>2, <1>3, <1>4, <1>5 DEF Next, Proceed

LEMMA SafeStep ==
    ASSUME TypeInv, Safe, fromRoot', [Next]_vars
    PROVE  Safe' /\ latest' >= latest
<1>1. TypeInv /\ TypeInv' /\ Safe
  BY TypeStep
<1>2. latest \in Nat
  BY <1>1, CheckpointAssumption DEF TypeInv, TypeOK, Dirs, NoDir
<1>3. ASSUME NEW src \in Sources, Launch(src) PROVE Safe' /\ latest' = latest
  BY <1>1, <1>3, SafeLaunch DEF Launch, disk
<1>4. ASSUME NEW r \in Ranks, Load(r) PROVE Safe' /\ latest' = latest
  BY <1>1, <1>4, SafeLoadNothing, SafeLoadRank, SafeLoadFails
     DEF Load, LoadNothing, LoadRank, disk
<1>5. ASSUME NEW r \in Ranks, Begin(r) \/ Backward(r) \/ Update(r) \/ Finish(r)
      PROVE  Safe' /\ latest' = latest
  BY <1>1, <1>5, SafeBegin, SafeBackward, SafeUpdate, SafeFinish
     DEF Begin, Backward, Update, Finish, disk
<1>6. ASSUME NEW r \in Ranks, SavePt(r) \/ SaveMeta(r) \/ AfterSave(r)
      PROVE  Safe' /\ latest' = latest
  BY <1>1, <1>6, SafeSavePt, SafeSaveMeta, SafeAfterSave DEF SavePt, SaveMeta, AfterSave, disk
<1>7. ASSUME NEW r \in Ranks, WriteManifest(r) \/ AfterManifest(r)
      PROVE  Safe' /\ latest' = latest
  BY <1>1, <1>7, SafeWriteManifest, SafeAfterManifest DEF WriteManifest, AfterManifest, disk
<1>8. ASSUME NEW r \in Ranks, WriteLatest(r) PROVE Safe' /\ latest' > latest
  BY <1>1, <1>8, SafeWriteLatest
<1>9. ASSUME NEW r \in Ranks, Crash(r) \/ TearDown(r) PROVE Safe' /\ latest' = latest
  BY <1>1, <1>9, SafeStutter DEF Crash, TearDown, disk
<1>10. ASSUME UNCHANGED vars PROVE Safe' /\ latest' = latest
  BY <1>1, <1>10, SafeStutter DEF vars, disk
<1>11. latest' \in Nat
  <2>1. latest' \in Dirs \cup {NoDir}
    BY <1>1 DEF TypeInv, TypeOK
  <2>2. \A d \in Dirs \cup {NoDir} : d \in Nat
    BY CheckpointAssumption DEF Dirs, NoDir
  <2>. QED BY <2>1, <2>2
<1>12. Safe' /\ (latest' = latest \/ latest' > latest)
  BY <1>3, <1>4, <1>5, <1>6, <1>7, <1>8, <1>9, <1>10 DEF Next, Proceed, Save
<1>. QED BY <1>2, <1>11, <1>12

LEMMA IInvStep ==
    ASSUME IInv, [Next]_vars
    PROVE  IInv' /\ (fromRoot' => latest' >= latest)
<1>1. TypeInv'
  BY TypeStep DEF IInv
<1>2. ASSUME fromRoot' PROVE Safe' /\ latest' >= latest
  BY <1>2, FromRootStays, SafeStep DEF IInv
<1>. QED BY <1>1, <1>2 DEF IInv

LEMMA Inductive == Spec => []IInv
<1>1. Init => IInv
  BY TypeInit, SafeInit DEF IInv
<1>2. IInv /\ [Next]_vars => IInv'
  BY IInvStep
<1>. QED BY <1>1, <1>2, PTL DEF Spec

(* A crash at any point of a save, and of any number of launches, leaves   *)
(* latest_checkpoint.txt naming one whole checkpoint.                      *)
THEOREM LatestIsWhole == Spec => []LatestCoherent
<1>1. IInv => LatestCoherent
  BY DEF IInv, Safe, LatestCoherent, LatestWhole
<1>. QED BY <1>1, Inductive, PTL

(* The loader's and the manifest writer's errors are unreachable.          *)
THEOREM NobodyFails == Spec => []NoRankFails
<1>1. IInv => NoRankFails
  BY DEF IInv, Safe, LabelOK, NoRankFails
<1>. QED BY <1>1, Inductive, PTL

(* Ranks that train a step together hold one state of the model.           *)
THEOREM RanksHoldOneModel == Spec => []RanksAgree
<1>1. ASSUME IInv, fromRoot, NEW r \in Training, NEW s \in Training
      PROVE  mem[r] = mem[s] /\ step[r] = step[s]
  <2>1. /\ r \in Ranks /\ s \in Ranks /\ pc[r] = "train" /\ pc[s] = "train"
        /\ TypeOK /\ LabelOK(r) /\ LabelOK(s) /\ StepOK(r) /\ StepOK(s) /\ Lockstep
    BY <1>1 DEF Training, At, IInv, TypeInv, Safe
  <2>2. arrived[r] \in Nat /\ arrived[s] \in Nat /\ arrived[r] = arrived[s] /\ arrived[r] > 0
    <3>1. arrived[r] \in Nat /\ arrived[s] \in Nat
      BY <2>1 DEF TypeOK
    <3>2. arrived[s] >= arrived[r] /\ arrived[r] >= arrived[s] /\ arrived[r] # 0
      BY <2>1 DEF LabelOK, Past
    <3>. QED BY <3>1, <3>2
  <2>3. step[r] = step[s]
    BY <2>1, <2>2 DEF Lockstep, Point
  <2>4. mem[r].step = mem[s].step
    BY <2>1, <2>3 DEF StepOK, Updated
  <2>. QED BY <1>1, <2>1, <2>2, <2>3, <2>4 DEF IInv, Safe, SameMemory
<1>2. IInv => RanksAgree
  BY <1>1 DEF RanksAgree, OneModel
<1>. QED BY <1>2, Inductive, PTL

(* latest_checkpoint.txt never names an older checkpoint than before.      *)
THEOREM LatestNeverRetreats == Spec => LatestAdvances
<1>1. IInv /\ [Next]_vars => [fromRoot' => latest' >= latest]_<<latest, fromRoot>>
  BY IInvStep
<1>. QED BY <1>1, Inductive, PTL DEF Spec, LatestAdvances

-----------------------------------------------------------------------------
(* Whatever the operator resumes from                                      *)

(* As LabelOK, but a rank may have failed, in its loader and nowhere else. *)
AnyLabelOK(r) ==
    /\ pc[r] \in {"load", "failed"} <=> arrived[r] = 0
    /\ pc[r] \in Updated \cup {"reduce"} => arrived[r] >= 2
    /\ pc[r] \in {"manifest", "latest"} => r = 0
    /\ pc[r] \in Past => \A s \in Ranks : arrived[s] >= arrived[r]

(* While some rank has yet to load, or could not, those that have loaded   *)
(* are at the first barrier after the step of the directory they read.     *)
StartsTogether ==
    Starting => \A s \in Ranks : arrived[s] = 1 => Point(s) = <<ResumeDir, 1>>

Together ==
    /\ Lockstep
    /\ \A r \in Ranks : AnyLabelOK(r)
    /\ StartsTogether
    /\ RefusesOnlyIncomplete

(* Files of a step directory, from however many launches, are of its step; *)
(* one with a manifest has all of them, and latest_checkpoint.txt names    *)
(* such a one.                                                             *)
FilesOfStep(d) ==
    /\ \A r \in Ranks : /\ pt[d][r] # Absent => pt[d][r].step = d
                        /\ meta[d][r] # Absent => meta[d][r].step = d
    /\ manifest[d] # Absent => manifest[d].step = d /\ AllSaved(d)
FilesThere(r) ==
    /\ pc[r] \in FilesWritten \cup {"save_meta"} => pt[step[r] + 1][r] # Absent
    /\ pc[r] \in FilesWritten => meta[step[r] + 1][r] # Absent
    /\ pc[r] = "latest" => manifest[step[r] + 1] # Absent
DiskOK ==
    /\ \A d \in Dirs : FilesOfStep(d)
    /\ \A r \in Ranks : FilesThere(r)
    /\ latest # NoDir => manifest[latest] # Absent

AnyInv == TypeInv /\ Together /\ DiskOK

(* Everybody has loaded once a rank is past a barrier.                     *)
LEMMA PastMeansLoaded ==
    ASSUME TypeInv, Together, NEW r \in Ranks, pc[r] \notin {"load", "failed"},
           pc[r] \in Past \/ Released(r)
    PROVE  /\ arrived[r] > 0 /\ \A s \in Ranks : arrived[s] >= arrived[r]
           /\ \A s \in Ranks : arrived[s] > 0 /\ pc[s] \notin {"load", "failed"}
<1>1. AnyLabelOK(r) /\ arrived \in [Ranks -> Nat] /\ \A s \in Ranks : AnyLabelOK(s)
  BY DEF Together, TypeInv, TypeOK
<1>2. arrived[r] > 0 /\ \A s \in Ranks : arrived[s] >= arrived[r]
  BY <1>1 DEF AnyLabelOK, Released
<1>. QED BY <1>1, <1>2 DEF AnyLabelOK

(* A rank moves from one label to the next, with or without entering a     *)
(* barrier, once everybody has loaded.                                     *)
LEMMA TogetherMove ==
    ASSUME TypeInv, TypeInv', Together, NEW r \in Ranks,
           pc[r] \notin {"load", "failed"}, pc'[r] \notin {"load", "failed"},
           pc[r] \in Past \/ Released(r),
           \/ arrived' = arrived /\ Point(r)' = Point(r)
           \/ arrived' = [arrived EXCEPT ![r] = @ + 1] /\ Point(r)' = NextPoint(Point(r)),
           \A s \in Ranks \ {r} : pc'[s] = pc[s] /\ step'[s] = step[s],
           pc'[r] \in Updated \cup {"reduce"} =>
               pc[r] \in Updated \cup {"reduce"} \/ arrived' # arrived,
           pc'[r] \in {"manifest", "latest"} => r = 0,
           pc'[r] \in Past => arrived' = arrived
    PROVE  Together'
<1>1. /\ Lockstep /\ TypeOK /\ arrived \in [Ranks -> Nat] /\ arrived' \in [Ranks -> Nat]
      /\ \A s \in Ranks : AnyLabelOK(s)
  BY DEF Together, TypeInv, TypeOK
<1>2. /\ arrived[r] > 0 /\ \A s \in Ranks : arrived[s] >= arrived[r]
      /\ \A s \in Ranks : arrived[s] > 0 /\ pc[s] \notin {"load", "failed"}
  BY PastMeansLoaded
<1>3. \A s \in Ranks \ {r} : Point(s)' = Point(s)
  BY DEF Point
<1>4. Lockstep'
  <2>1. CASE arrived' = arrived /\ Point(r)' = Point(r)
    BY <1>1, <1>3, <2>1, LockstepKept
  <2>2. CASE arrived' = [arrived EXCEPT ![r] = @ + 1] /\ Point(r)' = NextPoint(Point(r))
    BY <1>1, <1>2, <1>3, <2>2, LockstepAdvance
  <2>. QED BY <2>1, <2>2
<1>5. /\ \A s \in Ranks : arrived'[s] >= arrived[s] /\ arrived'[s] > 0
      /\ \A s \in Ranks \ {r} : arrived'[s] = arrived[s]
  BY <1>1, <1>2
<1>6. StartsTogether'
  BY <1>1, <1>5 DEF StartsTogether, Starting
<1>7. RefusesOnlyIncomplete'
  BY <1>2 DEF RefusesOnlyIncomplete
<1>8. ASSUME NEW q \in Ranks PROVE AnyLabelOK(q)'
  <2>1. CASE q = r
    <3>1. arrived' = arrived \/ arrived'[r] = arrived[r] + 1
      BY <1>1
    <3>2. pc'[r] \in Updated \cup {"reduce"} => arrived'[r] >= 2
      BY <1>1, <1>2, <3>1 DEF AnyLabelOK
    <3>3. pc'[r] \in Past => \A s \in Ranks : arrived'[s] >= arrived'[r]
      BY <1>2
    <3>4. pc'[r] \notin {"load", "failed"} /\ arrived'[r] # 0
      BY <1>5
    <3>. QED BY <2>1, <3>2, <3>3, <3>4 DEF AnyLabelOK
  <2>2. CASE q # r
    <3>1. pc'[q] = pc[q] /\ arrived'[q] = arrived[q]
      BY <1>5, <2>2
    <3>2. \A s \in Ranks : arrived[s] >= arrived[q] => arrived'[s] >= arrived'[q]
      BY <1>1, <1>5, <3>1
    <3>. QED BY <1>1, <3>1, <3>2 DEF AnyLabelOK
  <2>. QED BY <2>1, <2>2
<1>. QED BY <1>4, <1>6, <1>7, <1>8 DEF Together

(* The step of the directory resumed from is the step a loader reads.      *)
LEMMA LoadsItsStep ==
    ASSUME AnyInv, NEW r \in Ranks, Loadable(ResumeDir, r)
    PROVE  pt[ResumeDir][r].step = ResumeDir /\ ResumeDir \in Dirs
<1>1. ResumeDir \in Dirs
  BY DEF Loadable, ResumeDir, AnyInv, TypeInv, TypeOK, Sources, Scratch, Root, StepDir
<1>. QED BY <1>1 DEF Loadable, AnyInv, DiskOK, FilesOfStep

(* A rank that has loaded joins the others at the first barrier.           *)
LEMMA TogetherJoin ==
    ASSUME TypeInv, TypeInv', Together, NEW r \in Ranks, pc[r] = "load",
           NEW l \in {"begin", "finishing"}, pc' = [pc EXCEPT ![r] = l],
           step' = [step EXCEPT ![r] = ResumeDir],
           arrived' = [arrived EXCEPT ![r] = @ + 1],
           UNCHANGED <<disk, source>>
    PROVE  Together'
<1>1. /\ Lockstep /\ TypeOK /\ TypeOK' /\ arrived \in [Ranks -> Nat] /\ arrived' \in [Ranks -> Nat]
      /\ StartsTogether /\ \A s \in Ranks : AnyLabelOK(s)
  BY DEF Together, TypeInv, TypeOK
<1>2. arrived[r] = 0 /\ Starting /\ arrived'[r] = 1 /\ ResumeDir' = ResumeDir
  BY <1>1 DEF AnyLabelOK, Starting, ResumeDir, disk
<1>3. Point(r)' = <<ResumeDir, 1>> /\ \A s \in Ranks \ {r} : Point(s)' = Point(s)
  BY <1>1 DEF TypeOK, Point, Phase
<1>4. Lockstep'
  BY <1>1, <1>2, <1>3, LockstepJoin DEF StartsTogether
<1>5. \A s \in Ranks \ {r} : arrived'[s] = arrived[s] /\ pc'[s] = pc[s]
  BY <1>1 DEF TypeOK
<1>6. StartsTogether'
  BY <1>1, <1>2, <1>3, <1>5 DEF StartsTogether
<1>7. RefusesOnlyIncomplete'
  <2>1. (\E q \in Ranks : pc'[q] = "failed") => \E q \in Ranks : pc[q] = "failed"
    BY <1>1 DEF TypeOK
  <2>. QED BY <1>2, <2>1 DEF Together, RefusesOnlyIncomplete, disk
<1>8. ASSUME NEW q \in Ranks PROVE AnyLabelOK(q)'
  <2>1. CASE q = r
    BY <1>1, <1>2, <2>1 DEF AnyLabelOK, TypeOK, Updated, Past
  <2>2. CASE q # r
    <3>1. \A s \in Ranks : arrived'[s] >= arrived[s]
      BY <1>1
    <3>. QED BY <1>1, <1>5, <2>2, <3>1 DEF AnyLabelOK
  <2>. QED BY <2>1, <2>2
<1>. QED BY <1>4, <1>6, <1>7, <1>8 DEF Together

(* A step that leaves the disk alone, and takes a rank to no label before  *)
(* which it has files to write.                                            *)
LEMMA DiskKept ==
    ASSUME TypeInv, DiskOK, NEW r \in Ranks, UNCHANGED disk,
           \A s \in Ranks \ {r} : pc'[s] = pc[s] /\ step'[s] = step[s],
           \/ pc'[r] \notin FilesWritten \cup {"save_meta"}
           \/ pc[r] \in FilesWritten /\ pc'[r] # "latest" /\ step'[r] = step[r]
    PROVE  DiskOK'
<1>1. \A d \in Dirs : FilesOfStep(d)'
  BY DEF DiskOK, FilesOfStep, AllSaved, disk
<1>2. ASSUME NEW s \in Ranks PROVE FilesThere(s)'
  <2>1. CASE s = r
    BY <2>1 DEF DiskOK, FilesThere, disk, FilesWritten
  <2>2. CASE s # r
    BY <2>2 DEF DiskOK, FilesThere, disk
  <2>. QED BY <2>1, <2>2
<1>3. (latest # NoDir => manifest[latest] # Absent)'
  BY DEF DiskOK, disk
<1>. QED BY <1>1, <1>2, <1>3 DEF DiskOK

LEMMA AnyInit == Init => AnyInv
<1>. SUFFICES ASSUME Init PROVE AnyInv
  OBVIOUS
<1>1. /\ pc = [q \in Ranks |-> "load"] /\ arrived = [q \in Ranks |-> 0] /\ latest = NoDir
      /\ pt = [d \in Dirs |-> [q \in Ranks |-> Absent]]
      /\ meta = [d \in Dirs |-> [q \in Ranks |-> Absent]]
      /\ manifest = [d \in Dirs |-> Absent]
  BY DEF Init
<1>2. Lockstep /\ StartsTogether /\ RefusesOnlyIncomplete
  BY <1>1 DEF Lockstep, StartsTogether, RefusesOnlyIncomplete
<1>3. \A q \in Ranks : AnyLabelOK(q)
  BY <1>1 DEF AnyLabelOK, Updated, Past
<1>4. DiskOK
  BY <1>1 DEF DiskOK, FilesOfStep, FilesThere, FilesWritten
<1>. QED BY <1>2, <1>3, <1>4, TypeInit DEF AnyInv, Together

LEMMA AnyLaunch ==
    ASSUME AnyInv, NEW src \in Sources, Launch(src)
    PROVE  Together' /\ DiskOK'
<1>1. /\ pc' = [q \in Ranks |-> "load"] /\ arrived' = [q \in Ranks |-> 0]
      /\ UNCHANGED disk
  BY DEF Launch
<1>2. Lockstep' /\ StartsTogether' /\ RefusesOnlyIncomplete'
  BY <1>1 DEF Lockstep, StartsTogether, RefusesOnlyIncomplete
<1>3. \A q \in Ranks : AnyLabelOK(q)'
  BY <1>1 DEF AnyLabelOK, Updated, Past
<1>4. DiskOK'
  BY <1>1 DEF AnyInv, DiskOK, FilesOfStep, AllSaved, FilesThere, FilesWritten, disk
<1>. QED BY <1>2, <1>3, <1>4 DEF Together

LEMMA AnyLoad ==
    ASSUME AnyInv, TypeInv', NEW r \in Ranks, Load(r)
    PROVE  Together' /\ DiskOK'
<1>1. TypeInv /\ Together /\ DiskOK /\ TypeOK /\ StepOK(r) /\ AnyLabelOK(r)
  BY DEF AnyInv, TypeInv, Together
<1>2. pc[r] = "load" /\ UNCHANGED <<disk, source>>
  BY DEF Load, LoadNothing, LoadRank, LoadFails, At
<1>3. ASSUME LoadNothing(r) \/ LoadRank(r) PROVE Together' /\ DiskOK'
  <2>1. step' = [step EXCEPT ![r] = ResumeDir] /\ EnterStep(r, ResumeDir)
    <3>1. CASE LoadNothing(r)
      <4>1. ResumeDir = 0 /\ step[r] = 0 /\ step' = step /\ EnterStep(r, 0)
        BY <1>1, <1>2, <3>1 DEF LoadNothing, ResumeDir, Scratch, Root, NoDir, StepOK
      <4>. QED BY <1>1, <4>1 DEF TypeOK
    <3>2. CASE LoadRank(r)
      BY <3>2, LoadsItsStep DEF LoadRank
    <3>. QED BY <1>3, <3>1, <3>2
  <2>. DEFINE l == IF ResumeDir < Steps THEN "begin" ELSE "finishing"
  <2>2. /\ l \in {"begin", "finishing"} /\ pc' = [pc EXCEPT ![r] = l]
        /\ arrived' = [arrived EXCEPT ![r] = @ + 1]
    BY <2>1 DEF EnterStep, Enter, Goto
  <2>. HIDE DEF l
  <2>3. Together'
    BY <1>1, <1>2, <2>1, <2>2, TogetherJoin
  <2>4. /\ pc'[r] \notin FilesWritten \cup {"save_meta"}
        /\ \A s \in Ranks \ {r} : pc'[s] = pc[s] /\ step'[s] = step[s]
    BY <1>1, <2>1, <2>2 DEF TypeOK, FilesWritten
  <2>. QED BY <1>1, <1>2, <2>3, <2>4, DiskKept
<1>4. ASSUME LoadFails(r) PROVE Together' /\ DiskOK'
  <2>1. /\ pc' = [pc EXCEPT ![r] = "failed"] /\ ~Loadable(ResumeDir, r)
        /\ UNCHANGED <<step, arrived>> /\ ResumeDir' = ResumeDir
    BY <1>2, <1>4 DEF LoadFails, Goto, ResumeDir, disk
  <2>2. \A s \in Ranks \ {r} : pc'[s] = pc[s] /\ step'[s] = step[s]
    BY <1>1, <2>1 DEF TypeOK
  <2>3. pc'[r] = "failed" /\ arrived[r] = 0
    BY <1>1, <1>2, <2>1 DEF TypeOK, AnyLabelOK
  <2>4. ResumeDir = NoDir \/ manifest[ResumeDir] = Absent
    <3>1. ResumeDir \in Dirs \cup {NoDir}
      BY <1>1 DEF ResumeDir, TypeOK, Sources, Scratch, Root, StepDir
    <3>. QED BY <1>1, <2>1, <3>1 DEF Loadable, DiskOK, FilesOfStep, AllSaved
  <2>5. RefusesOnlyIncomplete'
    BY <1>2, <2>1, <2>4 DEF RefusesOnlyIncomplete, disk
  <2>6. Lockstep'
    <3>1. \A s \in Ranks \ {r} : Point(s)' = Point(s)
      BY <2>2 DEF Point
    <3>2. arrived' = arrived /\ arrived \in [Ranks -> Nat]
      BY <1>1, <2>1 DEF TypeOK
    <3>. QED BY <1>1, <2>3, <3>1, <3>2 DEF Together, Lockstep
  <2>7. StartsTogether'
    BY <1>1, <2>1, <2>2, <2>3 DEF Together, StartsTogether, Starting, Point
  <2>8. ASSUME NEW q \in Ranks PROVE AnyLabelOK(q)'
    BY <1>1, <2>1, <2>2, <2>3 DEF Together, AnyLabelOK, Updated, Past
  <2>9. DiskOK'
    BY <1>1, <1>2, <2>2, <2>3, DiskKept DEF FilesWritten
  <2>. QED BY <2>5, <2>6, <2>7, <2>8, <2>9 DEF Together
<1>. QED BY <1>3, <1>4 DEF Load

(* The steps of the loop that write no file.                               *)
LEMMA AnyTrain ==
    ASSUME AnyInv, TypeInv', NEW r \in Ranks,
           Begin(r) \/ Backward(r) \/ Update(r) \/ Finish(r) \/ AfterSave(r) \/ AfterManifest(r)
    PROVE  Together' /\ DiskOK'
<1>1. TypeInv /\ Together /\ DiskOK /\ TypeOK /\ StepOK(r) /\ AnyLabelOK(r)
  BY DEF AnyInv, TypeInv, Together
<1>. DEFINE l == IF step[r] + 1 < Steps THEN "begin" ELSE "finishing"
<1>2. CASE Begin(r) \/ Finish(r)
  <2>1. /\ Released(r) /\ UNCHANGED <<disk, source, step, arrived>>
        /\ \/ pc[r] = "begin" /\ pc' = [pc EXCEPT ![r] = "train"]
           \/ pc[r] = "finishing" /\ pc' = [pc EXCEPT ![r] = "done"]
    BY <1>2 DEF Begin, Finish, At, Goto
  <2>2. /\ Point(r)' = Point(r) /\ pc'[r] \in {"train", "done"}
        /\ \A s \in Ranks \ {r} : pc'[s] = pc[s] /\ step'[s] = step[s]
    BY <1>1, <2>1 DEF TypeOK, Point, Phase
  <2>3. Together'
    BY <1>1, <2>1, <2>2, TogetherMove DEF Updated
  <2>. QED BY <1>1, <2>1, <2>2, <2>3, DiskKept DEF FilesWritten
<1>3. CASE Backward(r)
  <2>1. /\ pc[r] = "train" /\ pc' = [pc EXCEPT ![r] = "reduce"]
        /\ arrived' = [arrived EXCEPT ![r] = @ + 1] /\ UNCHANGED <<disk, source, step>>
    BY <1>3 DEF Backward, At, Enter, Goto
  <2>2. /\ Point(r)' = NextPoint(Point(r)) /\ pc'[r] = "reduce" /\ arrived' # arrived
        /\ \A s \in Ranks \ {r} : pc'[s] = pc[s] /\ step'[s] = step[s]
    BY <1>1, <2>1 DEF TypeOK, Point, Phase, NextPoint
  <2>3. Together'
    BY <1>1, <2>1, <2>2, TogetherMove DEF Past
  <2>. QED BY <1>1, <2>1, <2>2, <2>3, DiskKept DEF FilesWritten
<1>4. CASE Update(r) /\ (step[r] + 1) % Every = 0
  <2>1. /\ pc[r] = "reduce" /\ Released(r) /\ pc' = [pc EXCEPT ![r] = "save_pt"]
        /\ UNCHANGED <<disk, source, step, arrived>>
    BY <1>4 DEF Update, At, Goto
  <2>2. /\ Point(r)' = Point(r) /\ pc'[r] = "save_pt"
        /\ \A s \in Ranks \ {r} : pc'[s] = pc[s] /\ step'[s] = step[s]
    BY <1>1, <2>1 DEF TypeOK, Point, Phase
  <2>3. Together'
    BY <1>1, <2>1, <2>2, TogetherMove
  <2>. QED BY <1>1, <2>1, <2>2, <2>3, DiskKept DEF FilesWritten
<1>5. CASE (Update(r) /\ (step[r] + 1) % Every # 0) \/ AfterManifest(r)
  <2>1. /\ Released(r) /\ UNCHANGED <<disk, source>>
        /\ pc[r] = "written" \/ (pc[r] = "reduce" /\ step[r] + 1 \notin Dirs)
        /\ l \in {"begin", "finishing"} /\ pc' = [pc EXCEPT ![r] = l]
        /\ step' = [step EXCEPT ![r] = @ + 1] /\ arrived' = [arrived EXCEPT ![r] = @ + 1]
    BY <1>5 DEF Update, AfterManifest, At, EndStep, EnterStep, Enter, Goto, Dirs
  <2>. HIDE DEF l
  <2>2. /\ Point(r)' = NextPoint(Point(r)) /\ pc'[r] \in {"begin", "finishing"}
        /\ \A s \in Ranks \ {r} : pc'[s] = pc[s] /\ step'[s] = step[s]
    BY <1>1, <2>1 DEF TypeOK, Point, Phase, NextPoint
  <2>3. Together'
    BY <1>1, <2>1, <2>2, TogetherMove DEF Past, Updated
  <2>. QED BY <1>1, <2>1, <2>2, <2>3, DiskKept DEF FilesWritten
<1>6. CASE AfterSave(r)
  <2>1. pc[r] = "saved" /\ Released(r) /\ UNCHANGED <<disk, source, step>>
    BY <1>6 DEF AfterSave, At
  <2>2. CASE r = 0
    <3>1. pc' = [pc EXCEPT ![r] = "manifest"] /\ arrived' = arrived
      BY <1>6, <2>2 DEF AfterSave, Goto
    <3>2. /\ Point(r)' = Point(r) /\ pc'[r] = "manifest"
          /\ \A s \in Ranks \ {r} : pc'[s] = pc[s] /\ step'[s] = step[s]
      BY <1>1, <2>1, <3>1 DEF TypeOK, Point, Phase
    <3>3. Together'
      BY <1>1, <2>1, <2>2, <3>1, <3>2, TogetherMove DEF Updated
    <3>. QED BY <1>1, <2>1, <3>2, <3>3, DiskKept DEF FilesWritten, TypeOK
  <2>3. CASE r # 0
    <3>1. pc' = [pc EXCEPT ![r] = "written"] /\ arrived' = [arrived EXCEPT ![r] = @ + 1]
      BY <1>6, <2>3 DEF AfterSave, Enter, Goto
    <3>2. /\ Point(r)' = NextPoint(Point(r)) /\ pc'[r] = "written"
          /\ \A s \in Ranks \ {r} : pc'[s] = pc[s] /\ step'[s] = step[s]
      BY <1>1, <2>1, <3>1 DEF TypeOK, Point, Phase, NextPoint
    <3>3. Together'
      BY <1>1, <2>1, <3>1, <3>2, TogetherMove DEF Past, Updated
    <3>. QED BY <1>1, <2>1, <3>2, <3>3, DiskKept DEF FilesWritten, TypeOK
  <2>. QED BY <2>2, <2>3
<1>. QED BY <1>2, <1>3, <1>4, <1>5, <1>6

(* Two ranks of which one is past the third barrier of a step are both in  *)
(* that step, with their files of it written.                              *)
LEMMA AllThere ==
    ASSUME AnyInv, pc[0] \in {"manifest", "latest"}, NEW s \in Ranks
    PROVE  pc[s] \in FilesWritten /\ step[s] = step[0]
<1>1. TypeOK /\ Lockstep /\ AnyLabelOK(0) /\ AnyLabelOK(s)
  BY ZeroIsRank DEF AnyInv, TypeInv, Together
<1>2. arrived[0] \in Nat /\ arrived[s] \in Nat /\ step[0] \in Nat /\ step[s] \in Nat /\ pc[s] \in Labels
  BY <1>1, ZeroIsRank, CheckpointAssumption DEF TypeOK
<1>3. arrived[0] > 0 /\ arrived[s] >= arrived[0] /\ arrived[s] <= arrived[0] + 1
  BY <1>1, <1>2, ZeroIsRank DEF AnyLabelOK, Past, Lockstep, Updated
<1>4. Point(0) = <<step[0], 3>> /\ NextPoint(Point(0)) = <<step[0], 4>>
  BY DEF Point, Phase, NextPoint
<1>5. Point(s) = <<step[0], 3>> \/ Point(s) = <<step[0], 4>>
  BY <1>1, <1>2, <1>3, <1>4, ZeroIsRank DEF Lockstep
<1>. QED BY <1>2, <1>5 DEF Point, Phase, FilesWritten, Labels

(* The steps that write one file.                                          *)
LEMMA AnySavePt ==
    ASSUME AnyInv, TypeInv', NEW r \in Ranks, SavePt(r)
    PROVE  Together' /\ DiskOK'
<1>1. TypeInv /\ Together /\ DiskOK /\ TypeOK /\ StepOK(r)
  BY DEF AnyInv, TypeInv
<1>2. /\ pc[r] = "save_pt" /\ pc' = [pc EXCEPT ![r] = "save_meta"]
      /\ pt' = [pt EXCEPT ![step[r] + 1] = [@ EXCEPT ![r] = mem[r]]]
      /\ UNCHANGED <<meta, manifest, latest, source, step, arrived>>
  BY DEF SavePt, At, Goto
<1>3. step[r] + 1 \in Dirs /\ mem[r].step = step[r] + 1 /\ mem[r] # Absent
  BY <1>1, <1>2, AbsentIsNoState DEF StepOK, Updated, TypeOK
<1>4. /\ Point(r)' = Point(r) /\ pc'[r] = "save_meta"
      /\ \A s \in Ranks \ {r} : pc'[s] = pc[s] /\ step'[s] = step[s]
  BY <1>1, <1>2 DEF TypeOK, Point, Phase
<1>5. Together'
  BY <1>1, <1>2, <1>4, TogetherMove DEF Past, Updated
<1>6. \A d \in Dirs, s \in Ranks :
          pt'[d][s] = IF d = step[r] + 1 /\ s = r THEN mem[r] ELSE pt[d][s]
  BY <1>1, <1>2, <1>3 DEF TypeOK
<1>7. ASSUME NEW d \in Dirs PROVE FilesOfStep(d)'
  BY <1>1, <1>2, <1>3, <1>6 DEF DiskOK, FilesOfStep, AllSaved
<1>8. ASSUME NEW s \in Ranks PROVE FilesThere(s)'
  <2>1. pc[s] \in FilesWritten \cup {"save_meta"} => step[s] + 1 \in Dirs
    BY DEF AnyInv, TypeInv, StepOK, Updated, FilesWritten
  <2>2. CASE s = r
    BY <1>2, <1>3, <1>4, <1>6, <2>2 DEF FilesThere, FilesWritten
  <2>3. CASE s # r
    BY <1>1, <1>2, <1>4, <1>6, <2>1, <2>3 DEF DiskOK, FilesThere, FilesWritten
  <2>. QED BY <2>2, <2>3
<1>. QED BY <1>1, <1>2, <1>5, <1>7, <1>8 DEF DiskOK

LEMMA AnySaveMeta ==
    ASSUME AnyInv, TypeInv', NEW r \in Ranks, SaveMeta(r)
    PROVE  Together' /\ DiskOK'
<1>1. TypeInv /\ Together /\ DiskOK /\ TypeOK /\ StepOK(r)
  BY DEF AnyInv, TypeInv
<1>2. /\ pc[r] = "save_meta" /\ pc' = [pc EXCEPT ![r] = "saved"]
      /\ meta' = [meta EXCEPT ![step[r] + 1] = [@ EXCEPT ![r] = mem[r]]]
      /\ arrived' = [arrived EXCEPT ![r] = @ + 1]
      /\ UNCHANGED <<pt, manifest, latest, source, step>>
  BY DEF SaveMeta, At, Enter, Goto
<1>3. step[r] + 1 \in Dirs /\ mem[r].step = step[r] + 1 /\ mem[r] # Absent
  BY <1>1, <1>2, AbsentIsNoState DEF StepOK, Updated, TypeOK
<1>4. /\ Point(r)' = NextPoint(Point(r)) /\ pc'[r] = "saved"
      /\ \A s \in Ranks \ {r} : pc'[s] = pc[s] /\ step'[s] = step[s]
  BY <1>1, <1>2, <1>3 DEF TypeOK, Point, Phase, NextPoint
<1>5. Together'
  BY <1>1, <1>2, <1>4, TogetherMove DEF Past, Updated
<1>6. \A d \in Dirs, s \in Ranks :
          meta'[d][s] = IF d = step[r] + 1 /\ s = r THEN mem[r] ELSE meta[d][s]
  BY <1>1, <1>2, <1>3 DEF TypeOK
<1>7. ASSUME NEW d \in Dirs PROVE FilesOfStep(d)'
  BY <1>1, <1>2, <1>3, <1>6 DEF DiskOK, FilesOfStep, AllSaved
<1>8. ASSUME NEW s \in Ranks PROVE FilesThere(s)'
  <2>1. pc[s] \in FilesWritten => step[s] + 1 \in Dirs
    BY DEF AnyInv, TypeInv, StepOK, Updated, FilesWritten
  <2>2. CASE s = r
    BY <1>1, <1>2, <1>3, <1>4, <1>6, <2>2 DEF DiskOK, FilesThere, FilesWritten
  <2>3. CASE s # r
    BY <1>1, <1>2, <1>4, <1>6, <2>1, <2>3 DEF DiskOK, FilesThere, FilesWritten
  <2>. QED BY <2>2, <2>3
<1>. QED BY <1>1, <1>2, <1>5, <1>7, <1>8 DEF DiskOK

LEMMA AnyWriteManifest ==
    ASSUME AnyInv, TypeInv', NEW r \in Ranks, WriteManifest(r)
    PROVE  Together' /\ DiskOK'
<1>1. TypeInv /\ Together /\ DiskOK /\ TypeOK /\ StepOK(r) /\ AnyLabelOK(r)
  BY DEF AnyInv, TypeInv, Together
<1>2. pc[r] = "manifest" /\ r = 0 /\ UNCHANGED <<pt, meta, latest, source, step, arrived>>
  BY <1>1 DEF WriteManifest, At, AnyLabelOK
<1>3. step[r] + 1 \in Dirs /\ mem[r].step = step[r] + 1 /\ mem[r] # Absent
  BY <1>1, <1>2, AbsentIsNoState DEF StepOK, Updated, TypeOK
<1>4. AllSaved(step[r] + 1)
  BY <1>1, <1>2, AllThere DEF DiskOK, FilesThere, AllSaved
<1>5. /\ pc' = [pc EXCEPT ![r] = "latest"]
      /\ manifest' = [manifest EXCEPT ![step[r] + 1] = mem[r]]
  BY <1>4 DEF WriteManifest, Goto
<1>6. /\ Point(r)' = Point(r) /\ pc'[r] = "latest"
      /\ \A s \in Ranks \ {r} : pc'[s] = pc[s] /\ step'[s] = step[s]
  BY <1>1, <1>2, <1>5 DEF TypeOK, Point, Phase
<1>7. Together'
  BY <1>1, <1>2, <1>6, TogetherMove DEF Past, Updated
<1>8. \A d \in Dirs : manifest'[d] = IF d = step[r] + 1 THEN mem[r] ELSE manifest[d]
  BY <1>1, <1>3, <1>5 DEF TypeOK
<1>9. ASSUME NEW d \in Dirs PROVE FilesOfStep(d)'
  BY <1>1, <1>2, <1>3, <1>4, <1>8 DEF DiskOK, FilesOfStep, AllSaved
<1>10. ASSUME NEW s \in Ranks PROVE FilesThere(s)'
  <2>1. pc[s] = "latest" => step[s] + 1 \in Dirs
    BY DEF AnyInv, TypeInv, StepOK, Updated
  <2>2. CASE s = r
    BY <1>1, <1>2, <1>3, <1>6, <1>8, <2>2 DEF DiskOK, FilesThere, FilesWritten
  <2>3. CASE s # r
    BY <1>1, <1>2, <1>3, <1>6, <1>8, <2>1, <2>3 DEF DiskOK, FilesThere
  <2>. QED BY <2>2, <2>3
<1>11. latest # NoDir => latest \in Dirs
  BY <1>1 DEF TypeOK
<1>. QED BY <1>1, <1>2, <1>3, <1>7, <1>8, <1>9, <1>10, <1>11 DEF DiskOK

LEMMA AnyWriteLatest ==
    ASSUME AnyInv, TypeInv', NEW r \in Ranks, WriteLatest(r)
    PROVE  Together' /\ DiskOK'
<1>1. TypeInv /\ Together /\ DiskOK /\ TypeOK /\ AnyLabelOK(r)
  BY DEF AnyInv, TypeInv, Together
<1>2. /\ pc[r] = "latest" /\ r = 0 /\ latest' = step[r] + 1
      /\ pc' = [pc EXCEPT ![r] = "written"] /\ arrived' = [arrived EXCEPT ![r] = @ + 1]
      /\ UNCHANGED <<pt, meta, manifest, source, step>>
  BY <1>1 DEF WriteLatest, At, Enter, Goto, AnyLabelOK
<1>3. /\ Point(r)' = NextPoint(Point(r)) /\ pc'[r] = "written"
      /\ \A s \in Ranks \ {r} : pc'[s] = pc[s] /\ step'[s] = step[s]
  BY <1>1, <1>2 DEF TypeOK, Point, Phase, NextPoint
<1>4. Together'
  BY <1>1, <1>2, <1>3, TogetherMove DEF Past, Updated
<1>5. ASSUME NEW d \in Dirs PROVE FilesOfStep(d)'
  BY <1>1, <1>2 DEF DiskOK, FilesOfStep, AllSaved
<1>6. ASSUME NEW s \in Ranks PROVE FilesThere(s)'
  <2>1. CASE s = r
    BY <1>1, <1>2, <1>3, <2>1 DEF DiskOK, FilesThere, FilesWritten
  <2>2. CASE s # r
    BY <1>1, <1>2, <1>3, <2>2 DEF DiskOK, FilesThere
  <2>. QED BY <2>1, <2>2
<1>7. manifest'[latest'] # Absent
  BY <1>1, <1>2 DEF DiskOK, FilesThere
<1>. QED BY <1>4, <1>5, <1>6, <1>7 DEF DiskOK

(* The processes that are up matter to none of it.                         *)
LEMMA AnyStutter ==
    ASSUME AnyInv, UNCHANGED <<disk, source, pc, step, arrived>>
    PROVE  Together' /\ DiskOK'
<1>1. Lockstep' /\ StartsTogether' /\ RefusesOnlyIncomplete' /\ \A q \in Ranks : AnyLabelOK(q)'
  BY DEF AnyInv, Together, Lockstep, StartsTogether, Starting, RefusesOnlyIncomplete, ResumeDir,
         AnyLabelOK, Point, disk
<1>2. DiskOK'
  BY DEF AnyInv, DiskOK, FilesOfStep, AllSaved, FilesThere, disk
<1>. QED BY <1>1, <1>2 DEF Together

LEMMA AnyStep == AnyInv /\ [Next]_vars => AnyInv'
<1>. SUFFICES ASSUME AnyInv, [Next]_vars PROVE AnyInv'
  OBVIOUS
<1>1. TypeInv'
  BY TypeStep DEF AnyInv
<1>2. ASSUME NEW src \in Sources, Launch(src) PROVE Together' /\ DiskOK'
  BY <1>2, AnyLaunch
<1>3. ASSUME NEW r \in Ranks, Load(r) PROVE Together' /\ DiskOK'
  BY <1>1, <1>3, AnyLoad
<1>4. ASSUME NEW r \in Ranks, Begin(r) \/ Backward(r) \/ Update(r) \/ Finish(r)
      PROVE  Together' /\ DiskOK'
  BY <1>1, <1>4, AnyTrain
<1>5. ASSUME NEW r \in Ranks, Save(r) PROVE Together' /\ DiskOK'
  BY <1>1, <1>5, AnyTrain, AnySavePt, AnySaveMeta, AnyWriteManifest, AnyWriteLatest DEF Save
<1>6. ASSUME NEW r \in Ranks, Crash(r) \/ TearDown(r) PROVE Together' /\ DiskOK'
  BY <1>6, AnyStutter DEF Crash, TearDown
<1>7. ASSUME UNCHANGED vars PROVE Together' /\ DiskOK'
  BY <1>7, AnyStutter DEF vars, disk
<1>. QED
  BY <1>1, <1>2, <1>3, <1>4, <1>5, <1>6, <1>7 DEF Next, Proceed, AnyInv

LEMMA AnyInductive == Spec => []AnyInv
BY AnyInit, AnyStep, PTL DEF Spec

(* Whatever the operator resumes from, and whatever earlier launches left  *)
(* half rewritten, ranks that train together train the same step.          *)
THEOREM TrainTheSameStep == Spec => []SameStep
<1>1. ASSUME AnyInv, NEW r \in Training, NEW s \in Training
      PROVE  step[r] = step[s] /\ mem[r].step = mem[s].step
  <2>1. /\ r \in Ranks /\ s \in Ranks /\ pc[r] = "train" /\ pc[s] = "train"
        /\ TypeOK /\ AnyLabelOK(r) /\ AnyLabelOK(s) /\ StepOK(r) /\ StepOK(s) /\ Lockstep
    BY <1>1 DEF Training, At, AnyInv, TypeInv, Together
  <2>2. arrived[r] \in Nat /\ arrived[s] \in Nat
    BY <2>1 DEF TypeOK
  <2>3. arrived[s] >= arrived[r] /\ arrived[r] >= arrived[s] /\ arrived[r] # 0
    BY <2>1 DEF AnyLabelOK, Past
  <2>4. step[r] = step[s]
    <3>1. arrived[r] > 0 /\ arrived[s] = arrived[r]
      BY <2>2, <2>3
    <3>2. Point(s) = Point(r)
      BY <2>1, <3>1 DEF Lockstep
    <3>. QED BY <3>2 DEF Point
  <2>. QED BY <2>1, <2>4 DEF StepOK, Updated
<1>2. AnyInv => SameStep
  BY <1>1 DEF SameStep
<1>. QED BY <1>2, AnyInductive, PTL

(* The loader refuses only a directory that no save ever completed, and    *)
(* the manifest writer nothing: rewriting a complete directory, cut short  *)
(* at any point, leaves one that every rank still loads.                   *)
THEOREM OnlyIncompleteIsRefused == Spec => []RefusesOnlyIncomplete
<1>1. AnyInv => RefusesOnlyIncomplete
  BY DEF AnyInv, Together
<1>. QED BY <1>1, AnyInductive, PTL
=============================================================================
