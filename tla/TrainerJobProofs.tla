--------------------------- MODULE TrainerJobProofs ---------------------------
(***************************************************************************)
(* Proofs about TrainerJob for any arrangements, number of steps and of    *)
(* launches.                                                               *)
(***************************************************************************)
EXTENDS TrainerJob, TopologyProofs

(* An id that can be read is one of this launch: whoever starts the job    *)
(* again removes the files first.                                          *)
IdsInv ==
    /\ launch \in Nat \ {0}
    /\ \A path \in DOMAIN files : files[path] \in {Absent, Removed, launch}
    /\ \A p \in Processes : p \in DOMAIN ids
    /\ IdsOfThisLaunch

LEMMA IdsInit == Init => IdsInv
BY DEF Init, IdsInv, IdsOfThisLaunch, Absent, Removed

LEMMA IdsStep == IdsInv /\ [Next]_vars => IdsInv'
<1>. SUFFICES ASSUME IdsInv, [Next]_vars PROVE IdsInv'
  OBVIOUS
<1>0. launch \in Nat \ {0} /\ IdsOfThisLaunch
  BY DEF IdsInv
<1>1. ASSUME UNCHANGED <<job, launch, files, ids>> PROVE IdsInv'
  BY <1>1 DEF IdsInv, IdsOfThisLaunch, Processes, Trainers, Source, Ranks, World
<1>2. ASSUME NEW p \in Processes, Write(p) PROVE IdsInv'
  <2>1. /\ files' = [files EXCEPT ![Now(p).path] = launch]
        /\ UNCHANGED <<job, launch, ids>>
    BY <1>2 DEF Write
  <2>2. \A path \in DOMAIN files' : files'[path] \in {Absent, Removed, launch}
    BY <2>1 DEF IdsInv
  <2>. QED BY <2>1, <2>2 DEF IdsInv, IdsOfThisLaunch, Processes, Trainers, Source, Ranks, World
<1>3. ASSUME NEW p \in Processes, Read(p) PROVE IdsInv'
  <2>. DEFINE at == Now(p).path
              mine == [path \in DOMAIN ids[p] \cup {at} |->
                          IF path = at THEN files[path] ELSE ids[p][path]]
  <2>1. files[at] > 0 /\ ids' = [ids EXCEPT ![p] = mine] /\ UNCHANGED <<job, launch, files>>
    BY <1>3 DEF Read
  <2>2. p \in DOMAIN ids /\ at \in DOMAIN files
    BY <1>3 DEF IdsInv, Read
  <2>3. files[at] = launch
    BY <2>1, <2>2 DEF IdsInv, Absent, Removed
  <2>4. \A path \in DOMAIN mine : mine[path] = launch
    BY <2>3 DEF IdsInv, IdsOfThisLaunch
  <2>. HIDE DEF at, mine
  <2>5. Processes' = Processes
    BY <2>1 DEF Processes, Trainers, Source, Ranks, World
  <2>6. IdsOfThisLaunch'
    BY <2>1, <2>2, <2>4, <2>5 DEF IdsInv, IdsOfThisLaunch
  <2>. QED BY <2>1, <2>5, <2>6 DEF IdsInv
<1>4. ASSUME NEW p \in Processes, RemoveFiles(p) PROVE IdsInv'
  <2>1. UNCHANGED <<job, launch, ids>> /\ Processes' = Processes
    BY <1>4 DEF RemoveFiles, Processes, Trainers, Source, Ranks, World
  <2>2. \A path \in DOMAIN files' : files'[path] \in {Absent, Removed, launch}
    BY <1>4 DEF RemoveFiles, IdsInv
  <2>. QED BY <2>1, <2>2 DEF IdsInv, IdsOfThisLaunch
<1>5. CASE Relaunch
  <2>1. job' = job /\ Processes' = Processes /\ launch' = launch + 1
    BY <1>5 DEF Relaunch, Processes, Trainers, Source, Ranks, World
  <2>2. \A path \in DOMAIN files' : files'[path] \in {Absent, Removed, launch'}
    BY <1>5 DEF Relaunch
  <2>3. ids' = [p \in Processes |-> [path \in {} |-> 0]]
    BY <1>5 DEF Relaunch
  <2>. QED BY <1>0, <2>1, <2>2, <2>3 DEF IdsInv, IdsOfThisLaunch
<1>6. ASSUME NEW p \in Processes, Train(p) \/ Return(p) \/ GiveUp(p) \/ Crash(p) PROVE IdsInv'
  BY <1>1, <1>6 DEF Train, Return, GiveUp, Crash
<1>7. ASSUME NEW path, CommInit(path) \/ Barrier(path) PROVE IdsInv'
  BY <1>1, <1>7 DEF CommInit, Barrier, Meet
<1>8. ASSUME NEW g, Deliver(g) \/ Take(g) PROVE IdsInv'
  BY <1>1, <1>8 DEF Deliver, Take
<1>9. CASE UNCHANGED vars
  BY <1>1, <1>9 DEF vars
<1>. QED BY <1>2, <1>3, <1>4, <1>5, <1>6, <1>7, <1>8, <1>9 DEF Next, Work

(* However processes die, give up and are started again, none of them ever *)
(* builds a communicator with an id of an earlier launch.                  *)
THEOREM IdsAreOfThisLaunch == Spec => []IdsOfThisLaunch
<1>1. IdsInv => IdsOfThisLaunch
  BY DEF IdsInv
<1>. QED BY <1>1, IdsInit, IdsStep, PTL DEF Spec
-----------------------------------------------------------------------------
(* A batch arrives as it was sent                                          *)

Distinct(s) == \A i, j \in DOMAIN s : s[i] = s[j] => i = j

LEMMA Appended ==
    ASSUME NEW s, IsList(s), NEW e
    PROVE  /\ IsList(Append(s, e)) /\ Elements(Append(s, e)) = Elements(s) \cup {e}
           /\ Distinct(s) /\ e \notin Elements(s) => Distinct(Append(s, e))
<1>1. PICK S : s \in Seq(S)
  BY DEF IsList
<1>. DEFINE U == S \cup {e}
            n == Len(s)
            t == Append(s, e)
<1>2. s \in Seq(U) /\ e \in U
  BY <1>1
<1>. HIDE DEF U
<1>3. /\ t \in Seq(U) /\ Len(t) = n + 1 /\ n \in Nat /\ DOMAIN s = 1..n /\ DOMAIN t = 1..(n + 1)
      /\ t[n + 1] = e /\ \A i \in 1..n : t[i] = s[i]
  BY <1>2
<1>. HIDE DEF n, t
<1>4. \A i \in 1..(n + 1) : i \in 1..n \/ i = n + 1
  BY <1>3
<1>5. 1..n \subseteq 1..(n + 1) /\ n + 1 \in 1..(n + 1)
  BY <1>3
<1>6. Elements(t) = Elements(s) \cup {e}
  BY <1>3, <1>4, <1>5 DEF Elements
<1>7. ASSUME Distinct(s), e \notin Elements(s) PROVE Distinct(t)
  <2>1. \A i \in 1..n : s[i] # e
    BY <1>3, <1>7 DEF Elements
  <2>2. \A i, j \in 1..(n + 1) : t[i] = t[j] => i = j
    BY <1>3, <1>4, <1>7, <2>1 DEF Distinct
  <2>. QED BY <1>3, <2>2 DEF Distinct
<1>8. IsList(t)
  BY <1>3 DEF IsList
<1>. QED BY <1>6, <1>7, <1>8 DEF t

(* The kept elements of a list are its wanted ones, each once if it has    *)
(* them once.                                                              *)
LEMMA KeptIs ==
    ASSUME NEW list, IsList(list), NEW wanted
    PROVE  /\ IsList(Kept(list, wanted))
           /\ Elements(Kept(list, wanted)) = Elements(list) \cap wanted
           /\ Distinct(list) => Distinct(Kept(list, wanted))
<1>. DEFINE n == Len(list)
            T == {s \in Seq(Elements(list)) : TRUE}
            Step(x, i) == IF list[i] \in wanted THEN Append(x, list[i]) ELSE x
            Rec(f) == f = [i \in 0..n |-> IF i = 0 THEN <<>>
                                          ELSE IF list[i] \in wanted THEN Append(f[i - 1], list[i])
                                          ELSE f[i - 1]]
            next == [x \in T \X (1..n) |-> Step(x[1], x[2])]
<1>1. n \in Nat /\ DOMAIN list = 1..n /\ \A i \in 1..n : list[i] \in Elements(list)
  BY ListIs DEF Elements
<1>2. <<>> \in T /\ \A x \in T, i \in 1..n : Step(x, i) \in T
  BY <1>1
<1>3. \E f : Rec(f)
  <2>1. \A x \in T, i \in 1..n : next[<<x, i>>] = Step(x, i)
    OBVIOUS
  <2>. HIDE DEF next, T, n
  <2>2. StaysIn(T, n, <<>>, next)
    BY <1>1, <1>2, <2>1 DEF StaysIn
  <2>3. PICK f : RunsAlong(f, T, n, <<>>, next)
    BY <2>2, Recursion
  <2>4. f \in [0..n -> T] /\ f[0] = <<>> /\ \A i \in 1..n : f[i] = next[<<f[i - 1], i>>]
    BY <2>3 DEF RunsAlong
  <2>5. \A i \in 1..n : f[i] = Step(f[i - 1], i)
    <3>1. ASSUME NEW i \in 1..n PROVE f[i] = Step(f[i - 1], i)
      <4>1. f[i - 1] \in T
        BY <1>1, <2>4
      <4>. QED BY <2>1, <2>4, <4>1
    <3>. QED BY <3>1
  <2>6. \A i \in 0..n : i = 0 \/ (i # 0 /\ i \in 1..n)
    BY <1>1
  <2>7. ASSUME NEW i \in 0..n
        PROVE  f[i] = IF i = 0 THEN <<>> ELSE IF list[i] \in wanted THEN Append(f[i - 1], list[i])
                      ELSE f[i - 1]
    BY <2>4, <2>5, <2>6
  <2>8. f = [i \in 0..n |-> f[i]]
    BY <2>4
  <2>. QED BY <2>7, <2>8
<1>4. PICK f : Rec(f) /\ Kept(list, wanted) = f[n]
  <2>. DEFINE f == CHOOSE g : Rec(g)
  <2>1. Rec(f)
    BY <1>3
  <2>2. Kept(list, wanted) = f[n]
    BY DEF Kept
  <2>. QED BY <2>1, <2>2
<1>5. \A i \in 0..n : f[i] = IF i = 0 THEN <<>>
                             ELSE IF list[i] \in wanted THEN Append(f[i - 1], list[i])
                             ELSE f[i - 1]
  BY <1>4, Zenon
<1>. DEFINE upto(m) == {list[j] : j \in 1..m}
            Good(m) == /\ IsList(f[m]) /\ Elements(f[m]) = upto(m) \cap wanted
                       /\ Distinct(list) => Distinct(f[m])
            GoodOnes == {m \in Nat : m <= n => Good(m)}
<1>. HIDE DEF n
<1>6. 0 \in GoodOnes
  <2>1. f[0] = <<>>
    BY <1>1, <1>5
  <2>2. IsList(<<>>) /\ Elements(<<>>) = {} /\ Distinct(<<>>)
    <3>1. <<>> \in Seq({})
      OBVIOUS
    <3>. QED BY <3>1 DEF IsList, Elements, Distinct
  <2>3. upto(0) = {}
    OBVIOUS
  <2>. QED BY <2>1, <2>2, <2>3
<1>7. ASSUME NEW m \in Nat, m \in GoodOnes PROVE m + 1 \in GoodOnes
  <2>. SUFFICES ASSUME m + 1 <= n PROVE Good(m + 1)
    OBVIOUS
  <2>1. Good(m)
    BY <1>1, <1>7
  <2>2. f[m + 1] = IF list[m + 1] \in wanted THEN Append(f[m], list[m + 1]) ELSE f[m]
    <3>1. m + 1 \in 0..n /\ m + 1 # 0 /\ (m + 1) - 1 = m
      BY <1>1
    <3>. QED BY <1>5, <3>1
  <2>3. upto(m + 1) = upto(m) \cup {list[m + 1]}
    <3>1. \A j : j \in 1..(m + 1) <=> j \in 1..m \/ j = m + 1
      OBVIOUS
    <3>. QED BY <3>1
  <2>4. Distinct(list) => list[m + 1] \notin upto(m)
    <3>1. \A j \in 1..m : j \in DOMAIN list /\ m + 1 \in DOMAIN list /\ j # m + 1
      BY <1>1
    <3>. QED BY <3>1 DEF Distinct
  <2>. HIDE DEF upto
  <2>5. CASE list[m + 1] \in wanted
    <3>1. /\ IsList(f[m + 1]) /\ Elements(f[m + 1]) = Elements(f[m]) \cup {list[m + 1]}
          /\ Distinct(f[m]) /\ list[m + 1] \notin Elements(f[m]) => Distinct(f[m + 1])
      BY <2>1, <2>2, <2>5, Appended
    <3>. QED BY <2>1, <2>3, <2>4, <2>5, <3>1
  <2>6. CASE list[m + 1] \notin wanted
    BY <2>1, <2>2, <2>3, <2>6
  <2>. QED BY <2>5, <2>6
<1>. HIDE DEF GoodOnes
<1>8. n \in GoodOnes
  BY <1>1, <1>6, <1>7, NaturalsIn
<1>9. Good(n)
  BY <1>1, <1>8 DEF GoodOnes
<1>10. upto(n) = Elements(list)
  BY <1>1 DEF Elements
<1>. HIDE DEF upto
<1>. QED BY <1>4, <1>9, <1>10
(* Pieces laid end to end, where each begins at the length of those before *)
(* it, can be cut out again.                                               *)
LaidOut(f, g, p, n, V) ==
    /\ n \in Nat /\ p \in [1..n -> Seq(V)]
    /\ f[0] = <<>> /\ \A i \in 1..n : f[i] = f[i - 1] \o p[i]
    /\ g[0] = 0 /\ \A i \in 1..n : g[i] = g[i - 1] + Len(p[i])

LEMMA Slices ==
    ASSUME NEW f, NEW g, NEW p, NEW n, NEW V, LaidOut(f, g, p, n, V)
    PROVE  /\ Len(f[n]) = g[n] /\ f[n] \in Seq(V)
           /\ \A i \in 1..n : SubSeq(f[n], g[i - 1] + 1, g[i - 1] + Len(p[i])) = p[i]
<1>1. /\ n \in Nat /\ f[0] = <<>> /\ g[0] = 0
      /\ \A i \in 1..n : /\ p[i] \in Seq(V) /\ Len(p[i]) \in Nat
                         /\ f[i] = f[i - 1] \o p[i] /\ g[i] = g[i - 1] + Len(p[i])
  <2>1. /\ n \in Nat /\ p \in [1..n -> Seq(V)] /\ f[0] = <<>> /\ g[0] = 0
        /\ \A i \in 1..n : f[i] = f[i - 1] \o p[i]
        /\ \A i \in 1..n : g[i] = g[i - 1] + Len(p[i])
    BY DEF LaidOut
  <2>2. ASSUME NEW i \in 1..n PROVE p[i] \in Seq(V) /\ Len(p[i]) \in Nat
    <3>1. p[i] \in Seq(V)
      BY <2>1
    <3>. QED BY <3>1
  <2>. QED BY <2>1, <2>2
<1>. DEFINE In(m, i) == /\ g[i - 1] \in Nat /\ g[i - 1] + Len(p[i]) <= g[m]
                        /\ \A k \in 1..Len(p[i]) : f[m][g[i - 1] + k] = p[i][k]
            Good(m) == /\ f[m] \in Seq(V) /\ Len(f[m]) = g[m] /\ g[m] \in Nat
                       /\ \A i \in 1..m : In(m, i)
            GoodOnes == {m \in Nat : m <= n => Good(m)}
<1>2. 0 \in GoodOnes
  <2>1. f[0] \in Seq(V) /\ Len(f[0]) = g[0] /\ g[0] \in Nat
    BY <1>1
  <2>2. \A i \in 1..0 : In(0, i)
    OBVIOUS
  <2>. HIDE DEF In
  <2>. QED BY <2>1, <2>2
<1>3. ASSUME NEW m \in Nat, m \in GoodOnes PROVE m + 1 \in GoodOnes
  <2>. SUFFICES ASSUME m + 1 <= n PROVE Good(m + 1)
    OBVIOUS
  <2>1. Good(m)
    BY <1>1, <1>3
  <2>2. /\ p[m + 1] \in Seq(V) /\ Len(p[m + 1]) \in Nat
        /\ f[m + 1] = f[m] \o p[m + 1] /\ g[m + 1] = g[m] + Len(p[m + 1])
    <3>1. m + 1 \in 1..n /\ (m + 1) - 1 = m
      BY <1>1
    <3>. QED BY <1>1, <3>1
  <2>3. /\ f[m + 1] \in Seq(V) /\ Len(f[m + 1]) = g[m + 1] /\ g[m + 1] \in Nat
        /\ \A x \in 1..g[m] : f[m + 1][x] = f[m][x]
        /\ \A k \in 1..Len(p[m + 1]) : f[m + 1][g[m] + k] = p[m + 1][k]
    <3>. DEFINE s == f[m]
                t == p[m + 1]
    <3>1. s \in Seq(V) /\ t \in Seq(V) /\ Len(s) = g[m]
      BY <2>1, <2>2
    <3>2. f[m + 1] = s \o t /\ g[m + 1] = Len(s) + Len(t)
      BY <2>1, <2>2
    <3>. HIDE DEF s, t
    <3>3. /\ s \o t \in Seq(V) /\ Len(s \o t) = Len(s) + Len(t) /\ Len(s) \in Nat /\ Len(t) \in Nat
          /\ \A x \in 1..Len(s) : (s \o t)[x] = s[x]
          /\ \A k \in 1..Len(t) : (s \o t)[Len(s) + k] = t[k]
      BY <3>1
    <3>4. Len(s) = g[m]
      BY <3>1
    <3>5. /\ f[m + 1] \in Seq(V) /\ Len(f[m + 1]) = g[m + 1] /\ g[m + 1] \in Nat
          /\ \A x \in 1..Len(s) : f[m + 1][x] = s[x]
          /\ \A k \in 1..Len(t) : f[m + 1][Len(s) + k] = t[k]
      BY <3>2, <3>3
    <3>6. /\ \A x \in 1..g[m] : f[m + 1][x] = s[x]
          /\ \A k \in 1..Len(t) : f[m + 1][g[m] + k] = t[k]
      BY <3>4, <3>5
    <3>. QED BY <3>5, <3>6 DEF s, t
  <2>4. ASSUME NEW i \in 1..(m + 1) PROVE In(m + 1, i)
    <3>1. CASE i = m + 1
      <4>1. i - 1 = m
        BY <3>1
      <4>2. g[i - 1] \in Nat /\ g[i - 1] + Len(p[i]) <= g[m + 1]
        <5>1. g[m] \in Nat /\ Len(p[i]) \in Nat /\ g[m + 1] = g[m] + Len(p[i])
          BY <2>1, <2>2, <3>1
        <5>. QED BY <4>1, <5>1
      <4>3. \A k \in 1..Len(p[i]) : f[m + 1][g[i - 1] + k] = p[i][k]
        BY <2>3, <3>1, <4>1
      <4>. QED BY <4>2, <4>3
    <3>2. CASE i # m + 1
      <4>1. i \in 1..m /\ i \in 1..n
        BY <1>1, <3>2
      <4>2. In(m, i) /\ Len(p[i]) \in Nat
        BY <1>1, <2>1, <4>1
      <4>3. g[i - 1] + Len(p[i]) <= g[m + 1]
        <5>1. g[m] \in Nat /\ g[m + 1] \in Nat /\ g[m] <= g[m + 1]
          BY <2>1, <2>2
        <5>2. g[i - 1] \in Nat /\ g[i - 1] + Len(p[i]) <= g[m]
          BY <4>2
        <5>. QED BY <4>2, <5>1, <5>2
      <4>4. ASSUME NEW k \in 1..Len(p[i]) PROVE f[m + 1][g[i - 1] + k] = p[i][k]
        <5>1. g[i - 1] + k \in 1..g[m]
          BY <2>1, <4>2
        <5>. QED BY <2>3, <4>2, <5>1
      <4>. QED BY <4>2, <4>3, <4>4
    <3>. QED BY <3>1, <3>2
  <2>. HIDE DEF In
  <2>. QED BY <2>3, <2>4
<1>. HIDE DEF GoodOnes
<1>4. n \in GoodOnes
  BY <1>1, <1>2, <1>3, NaturalsIn
<1>5. Good(n)
  BY <1>1, <1>4 DEF GoodOnes
<1>6. ASSUME NEW i \in 1..n PROVE SubSeq(f[n], g[i - 1] + 1, g[i - 1] + Len(p[i])) = p[i]
  <2>. DEFINE s == f[n]
              a == g[i - 1]
              l == Len(p[i])
              t == p[i]
  <2>1. /\ s \in Seq(V) /\ a \in Nat /\ l \in Nat /\ a + l <= Len(s)
        /\ t \in Seq(V) /\ Len(t) = l /\ \A k \in 1..l : s[a + k] = t[k]
    BY <1>1, <1>5
  <2>. HIDE DEF s, a, l, t
  <2>2. SubSeq(s, a + 1, a + l) = [k \in 1..l |-> s[a + k]]
    <3>1. SubSeq(s, a + 1, a + l) = [k \in 1..((a + l) - (a + 1) + 1) |-> s[(a + 1) + k - 1]]
      BY <2>1
    <3>2. (a + l) - (a + 1) + 1 = l /\ \A k \in 1..l : (a + 1) + k - 1 = a + k
      BY <2>1
    <3>. QED BY <3>1, <3>2
  <2>3. t = [k \in 1..l |-> t[k]]
    BY <2>1
  <2>4. SubSeq(s, a + 1, a + l) = t
    BY <2>1, <2>2, <2>3
  <2>. QED BY <2>4 DEF s, a, l, t
<1>. QED BY <1>5, <1>6
(* The batches that can be described: any content, of the dtypes there     *)
(* are, where a tensor that is not defined has no elements.                *)
Contents(V) == [dtype : Elements(DTypeOrder), data : Seq(V)]
Batches(V) == [step : Int, weight_version : Int, tensors : [Elements(Kinds) -> Contents(V)]]

LEMMA Names ==
    /\ IsList(Kinds) /\ Distinct(Kinds)
    /\ IsList(DTypeOrder) /\ Distinct(DTypeOrder)
<1>1. /\ Kinds \in Seq({"prompt_ids", "response_ids", "response_mask", "old_log_probs",
                        "ref_log_probs", "rewards", "advantages", "group_ids"})
      /\ DTypeOrder \in Seq({"int64", "float32", "bfloat16", "float16", "uint8"})
  BY DEF Kinds, DTypeOrder
<1>2. Distinct(Kinds)
  BY DEF Distinct, Kinds
<1>3. Distinct(DTypeOrder)
  BY DEF Distinct, DTypeOrder
<1>. QED BY <1>1, <1>2, <1>3 DEF IsList

TensorAt(b, ts, i) == b.tensors[ts[i].kind]

LEMMA DescribeIs ==
    ASSUME NEW V, NEW b \in Batches(V), NEW ts, ts = Describe(b)
    PROVE  /\ IsList(ts)
           /\ \A i \in DOMAIN ts :
                 /\ ts[i].kind \in DefinedIn(b) /\ TensorAt(b, ts, i) \in Contents(V)
                 /\ ts[i].dtype = TensorAt(b, ts, i).dtype
                 /\ ts[i].numel = Len(TensorAt(b, ts, i).data)
           /\ {ts[i].kind : i \in DOMAIN ts} = DefinedIn(b)
           /\ \A i, j \in DOMAIN ts : ts[i].kind = ts[j].kind => i = j
<1>. DEFINE kinds == Kept(Kinds, DefinedIn(b))
            entry(i) == [kind |-> kinds[i], dtype |-> b.tensors[kinds[i]].dtype,
                         numel |-> Len(b.tensors[kinds[i]].data)]
<1>1. DOMAIN b.tensors = Elements(Kinds) /\ \A k \in Elements(Kinds) : b.tensors[k] \in Contents(V)
  BY DEF Batches
<1>2. DefinedIn(b) \subseteq Elements(Kinds)
  BY <1>1 DEF DefinedIn
<1>3. IsList(kinds) /\ Elements(kinds) = DefinedIn(b) /\ Distinct(kinds)
  BY <1>2, Names, KeptIs
<1>4. ts = [i \in DOMAIN kinds |-> entry(i)]
  BY DEF Describe
<1>. HIDE DEF kinds
<1>5. DOMAIN kinds = 1..Len(kinds) /\ Len(kinds) \in Nat
  BY <1>3, ListIs
<1>6. DOMAIN ts = DOMAIN kinds /\ \A i \in DOMAIN ts : ts[i] = entry(i)
  BY <1>4
<1>7. \A i \in DOMAIN ts : /\ ts[i].kind = kinds[i] /\ ts[i].dtype = b.tensors[kinds[i]].dtype
                           /\ ts[i].numel = Len(b.tensors[kinds[i]].data)
  BY <1>6
<1>8. IsList(ts)
  <2>1. ts = [i \in 1..Len(kinds) |-> ts[i]]
    BY <1>4, <1>5
  <2>. QED BY <1>5, <2>1, ListOf
<1>9. \A i \in DOMAIN ts : kinds[i] \in DefinedIn(b)
  BY <1>3, <1>6 DEF Elements
<1>10. {ts[i].kind : i \in DOMAIN ts} = DefinedIn(b)
  BY <1>3, <1>6, <1>7 DEF Elements
<1>11. \A i, j \in DOMAIN ts : ts[i].kind = ts[j].kind => i = j
  BY <1>3, <1>6, <1>7 DEF Distinct
<1>12. \A i \in DOMAIN ts : TensorAt(b, ts, i) = b.tensors[kinds[i]]
  BY <1>7 DEF TensorAt
<1>. HIDE DEF entry
<1>. QED BY <1>1, <1>2, <1>7, <1>8, <1>9, <1>10, <1>11, <1>12

Counted(g, ts, dtype) ==
    /\ g[0] = 0
    /\ \A i \in 1..Len(ts) : g[i] = IF ts[i].dtype = dtype THEN g[i - 1] + ts[i].numel ELSE g[i - 1]

LEMMA NumelIs ==
    ASSUME NEW ts, IsList(ts), \A i \in 1..Len(ts) : ts[i].numel \in Nat, NEW dtype
    PROVE  Counted(NumelUpTo(ts, dtype), ts, dtype) /\ \A i \in 0..Len(ts) : NumelUpTo(ts, dtype)[i] \in Nat
<1>. DEFINE n == Len(ts)
            Step(x, i) == IF ts[i].dtype = dtype THEN x + ts[i].numel ELSE x
            Rec(f) == f = [i \in 0..n |-> IF i = 0 THEN 0
                                          ELSE IF ts[i].dtype = dtype THEN f[i - 1] + ts[i].numel
                                          ELSE f[i - 1]]
            next == [x \in Nat \X (1..n) |-> Step(x[1], x[2])]
<1>1. n \in Nat
  BY ListIs
<1>2. \A x \in Nat, i \in 1..n : Step(x, i) \in Nat
  OBVIOUS
<1>3. \E f \in [0..n -> Nat] : Rec(f)
  <2>1. \A x \in Nat, i \in 1..n : next[<<x, i>>] = Step(x, i)
    OBVIOUS
  <2>. HIDE DEF next, n
  <2>2. StaysIn(Nat, n, 0, next)
    BY <1>1, <1>2, <2>1 DEF StaysIn
  <2>3. PICK f : RunsAlong(f, Nat, n, 0, next)
    BY <2>2, Recursion
  <2>4. f \in [0..n -> Nat] /\ f[0] = 0 /\ \A i \in 1..n : f[i] = next[<<f[i - 1], i>>]
    BY <2>3 DEF RunsAlong
  <2>5. \A i \in 1..n : f[i] = Step(f[i - 1], i)
    <3>1. ASSUME NEW i \in 1..n PROVE f[i] = Step(f[i - 1], i)
      <4>1. f[i - 1] \in Nat
        BY <1>1, <2>4
      <4>. QED BY <2>1, <2>4, <4>1
    <3>. QED BY <3>1
  <2>6. \A i \in 0..n : i = 0 \/ (i # 0 /\ i \in 1..n)
    BY <1>1
  <2>7. ASSUME NEW i \in 0..n
        PROVE  f[i] = IF i = 0 THEN 0 ELSE IF ts[i].dtype = dtype THEN f[i - 1] + ts[i].numel
                      ELSE f[i - 1]
    BY <2>4, <2>5, <2>6
  <2>8. f = [i \in 0..n |-> f[i]]
    BY <2>4
  <2>9. Rec(f)
    BY <2>7, <2>8
  <2>. QED BY <2>4, <2>9
<1>4. Rec(NumelUpTo(ts, dtype))
  <2>. DEFINE f == CHOOSE g : Rec(g)
  <2>1. Rec(f)
    BY <1>3
  <2>2. NumelUpTo(ts, dtype) = f
    BY DEF NumelUpTo
  <2>. QED BY <2>1, <2>2
<1>. DEFINE f == NumelUpTo(ts, dtype)
<1>5. \A i \in 0..n : f[i] = IF i = 0 THEN 0 ELSE IF ts[i].dtype = dtype THEN f[i - 1] + ts[i].numel
                             ELSE f[i - 1]
  BY <1>4, Zenon
<1>. HIDE DEF f
<1>6. f[0] = 0 /\ \A i \in 1..n : f[i] = Step(f[i - 1], i)
  <2>1. 0 \in 0..n /\ \A i \in 1..n : i \in 0..n /\ i # 0
    BY <1>1
  <2>. QED BY <1>5, <2>1
<1>7. ASSUME NEW i \in 0..n PROVE f[i] \in Nat
  <2>1. KeepsTo(f, Nat, i)
    <3>1. \A j \in 1..i : f[j - 1] \in Nat => f[j] \in Nat
      <4>1. \A j \in 1..i : j \in 1..n
        BY <1>1
      <4>. HIDE DEF Step
      <4>. QED BY <1>2, <1>6, <4>1
    <3>. QED BY <1>6, <3>1 DEF KeepsTo
  <2>. QED BY <2>1, AlongType
<1>8. Counted(f, ts, dtype)
  BY <1>6 DEF Counted
<1>. QED BY <1>7, <1>8 DEF f

Filled(f, b, ts, dtype) ==
    /\ f[0] = <<>>
    /\ \A i \in 1..Len(ts) : f[i] = IF ts[i].dtype = dtype THEN f[i - 1] \o TensorAt(b, ts, i).data
                                    ELSE f[i - 1]

LEMMA SlabIs ==
    ASSUME NEW V, NEW b, NEW ts, IsList(ts), NEW dtype,
           \A i \in 1..Len(ts) : TensorAt(b, ts, i).data \in Seq(V)
    PROVE  /\ Filled(SlabUpTo(b, ts, dtype), b, ts, dtype)
           /\ \A i \in 0..Len(ts) : SlabUpTo(b, ts, dtype)[i] \in Seq(V)
<1>. DEFINE n == Len(ts)
            Data(i) == b.tensors[ts[i].kind].data
            Step(x, i) == IF ts[i].dtype = dtype THEN x \o Data(i) ELSE x
            Rec(f) == f = [i \in 0..n |-> IF i = 0 THEN <<>>
                                          ELSE IF ts[i].dtype = dtype THEN f[i - 1] \o Data(i)
                                          ELSE f[i - 1]]
            next == [x \in Seq(V) \X (1..n) |-> Step(x[1], x[2])]
<1>1. n \in Nat
  BY ListIs
<1>2. \A x \in Seq(V), i \in 1..n : Step(x, i) \in Seq(V)
  BY DEF TensorAt
<1>3. \E f \in [0..n -> Seq(V)] : Rec(f)
  <2>1. \A x \in Seq(V), i \in 1..n : next[<<x, i>>] = Step(x, i)
    OBVIOUS
  <2>. HIDE DEF next, n
  <2>2. StaysIn(Seq(V), n, <<>>, next)
    <3>1. <<>> \in Seq(V)
      OBVIOUS
    <3>. HIDE DEF Step
    <3>. QED BY <1>1, <1>2, <2>1, <3>1 DEF StaysIn
  <2>3. PICK f : RunsAlong(f, Seq(V), n, <<>>, next)
    BY <2>2, Recursion
  <2>4. f \in [0..n -> Seq(V)] /\ f[0] = <<>> /\ \A i \in 1..n : f[i] = next[<<f[i - 1], i>>]
    BY <2>3 DEF RunsAlong
  <2>5. \A i \in 1..n : f[i] = Step(f[i - 1], i)
    <3>1. ASSUME NEW i \in 1..n PROVE f[i] = Step(f[i - 1], i)
      <4>1. f[i - 1] \in Seq(V)
        BY <1>1, <2>4
      <4>. QED BY <2>1, <2>4, <4>1
    <3>. QED BY <3>1
  <2>6. \A i \in 0..n : i = 0 \/ (i # 0 /\ i \in 1..n)
    BY <1>1
  <2>. HIDE DEF Data
  <2>7. ASSUME NEW i \in 0..n
        PROVE  f[i] = IF i = 0 THEN <<>> ELSE IF ts[i].dtype = dtype THEN f[i - 1] \o Data(i)
                      ELSE f[i - 1]
    BY <2>4, <2>5, <2>6
  <2>8. f = [i \in 0..n |-> f[i]]
    BY <2>4
  <2>9. Rec(f)
    BY <2>7, <2>8
  <2>. QED BY <2>4, <2>9
<1>4. Rec(SlabUpTo(b, ts, dtype))
  <2>. DEFINE f == CHOOSE g : Rec(g)
  <2>1. Rec(f)
    BY <1>3
  <2>2. SlabUpTo(b, ts, dtype) = f
    BY DEF SlabUpTo
  <2>. QED BY <2>1, <2>2
<1>. DEFINE f == SlabUpTo(b, ts, dtype)
<1>5. \A i \in 0..n : f[i] = IF i = 0 THEN <<>> ELSE IF ts[i].dtype = dtype THEN f[i - 1] \o Data(i)
                             ELSE f[i - 1]
  BY <1>4, Zenon
<1>. HIDE DEF f, Data
<1>6. f[0] = <<>> /\ \A i \in 1..n : f[i] = Step(f[i - 1], i)
  <2>1. 0 \in 0..n /\ \A i \in 1..n : i \in 0..n /\ i # 0
    BY <1>1
  <2>. QED BY <1>5, <2>1
<1>7. ASSUME NEW i \in 0..n PROVE f[i] \in Seq(V)
  <2>1. KeepsTo(f, Seq(V), i)
    <3>1. \A j \in 1..i : f[j - 1] \in Seq(V) => f[j] \in Seq(V)
      <4>1. \A j \in 1..i : j \in 1..n
        BY <1>1
      <4>. HIDE DEF Step
      <4>. QED BY <1>2, <1>6, <4>1
    <3>. QED BY <1>6, <3>1 DEF KeepsTo
  <2>. QED BY <2>1, AlongType
<1>8. Filled(f, b, ts, dtype)
  BY <1>6 DEF Filled, TensorAt, Data
<1>. QED BY <1>7, <1>8 DEF f
(* The message that carries a tensor, and where it begins there.           *)
LEMMA SlabsIs ==
    ASSUME NEW V, NEW b \in Batches(V), NEW ts, ts = Describe(b), NEW dtype
    PROVE  /\ SlabUpTo(b, ts, dtype)[Len(ts)] \in Seq(V)
           /\ Len(SlabUpTo(b, ts, dtype)[Len(ts)]) = NumelUpTo(ts, dtype)[Len(ts)]
           /\ \A i \in DOMAIN ts : ts[i].dtype = dtype =>
                 SubSeq(SlabUpTo(b, ts, dtype)[Len(ts)], NumelUpTo(ts, dtype)[i - 1] + 1,
                        NumelUpTo(ts, dtype)[i - 1] + ts[i].numel) = TensorAt(b, ts, i).data
<1>. DEFINE n == Len(ts)
            f == SlabUpTo(b, ts, dtype)
            g == NumelUpTo(ts, dtype)
            p == [i \in 1..n |-> IF ts[i].dtype = dtype THEN TensorAt(b, ts, i).data ELSE <<>>]
<1>1. /\ IsList(ts) /\ n \in Nat /\ DOMAIN ts = 1..n
      /\ \A i \in 1..n : /\ TensorAt(b, ts, i).data \in Seq(V)
                         /\ ts[i].numel = Len(TensorAt(b, ts, i).data) /\ ts[i].numel \in Nat
  <2>1. IsList(ts) /\ \A i \in DOMAIN ts : /\ TensorAt(b, ts, i) \in Contents(V)
                                           /\ ts[i].numel = Len(TensorAt(b, ts, i).data)
    BY DescribeIs
  <2>2. n \in Nat /\ DOMAIN ts = 1..n
    BY <2>1, ListIs
  <2>3. \A i \in 1..n : TensorAt(b, ts, i).data \in Seq(V)
    BY <2>1, <2>2 DEF Contents
  <2>4. \A i \in 1..n : Len(TensorAt(b, ts, i).data) \in Nat
    BY <2>3
  <2>. QED BY <2>1, <2>2, <2>3, <2>4
<1>2. Counted(g, ts, dtype) /\ \A i \in 0..n : g[i] \in Nat
  BY <1>1, NumelIs
<1>3. Filled(f, b, ts, dtype) /\ \A i \in 0..n : f[i] \in Seq(V)
  BY <1>1, SlabIs
<1>. HIDE DEF f, g, n
<1>4. LaidOut(f, g, p, n, V)
  <2>1. p \in [1..n -> Seq(V)]
    BY <1>1
  <2>2. ASSUME NEW i \in 1..n PROVE f[i] = f[i - 1] \o p[i] /\ g[i] = g[i - 1] + Len(p[i])
    <3>1. f[i - 1] \in Seq(V) /\ g[i - 1] \in Nat
      BY <1>1, <1>2, <1>3
    <3>2. f[i] = IF ts[i].dtype = dtype THEN f[i - 1] \o TensorAt(b, ts, i).data ELSE f[i - 1]
      BY <1>3 DEF Filled, n
    <3>3. g[i] = IF ts[i].dtype = dtype THEN g[i - 1] + ts[i].numel ELSE g[i - 1]
      BY <1>2 DEF Counted, n
    <3>4. p[i] = IF ts[i].dtype = dtype THEN TensorAt(b, ts, i).data ELSE <<>>
      OBVIOUS
    <3>. HIDE DEF p
    <3>5. CASE ts[i].dtype = dtype
      BY <1>1, <3>2, <3>3, <3>4, <3>5
    <3>6. CASE ts[i].dtype # dtype
      <4>1. p[i] = <<>> /\ f[i] = f[i - 1] /\ g[i] = g[i - 1]
        BY <3>2, <3>3, <3>4, <3>6
      <4>2. f[i - 1] \o <<>> = f[i - 1] /\ Len(<<>>) = 0 /\ g[i - 1] + 0 = g[i - 1]
        BY <3>1
      <4>. QED BY <4>1, <4>2
    <3>. QED BY <3>5, <3>6
  <2>3. f[0] = <<>> /\ g[0] = 0
    BY <1>2, <1>3 DEF Counted, Filled
  <2>. HIDE DEF p
  <2>. QED BY <1>1, <2>1, <2>2, <2>3 DEF LaidOut
<1>5. /\ Len(f[n]) = g[n] /\ f[n] \in Seq(V)
      /\ \A i \in 1..n : SubSeq(f[n], g[i - 1] + 1, g[i - 1] + Len(p[i])) = p[i]
  <2>. HIDE DEF p
  <2>. QED BY <1>4, Slices
<1>6. ASSUME NEW i \in 1..n, ts[i].dtype = dtype
      PROVE  SubSeq(f[n], g[i - 1] + 1, g[i - 1] + ts[i].numel) = TensorAt(b, ts, i).data
  <2>1. p[i] = TensorAt(b, ts, i).data /\ Len(p[i]) = ts[i].numel
    BY <1>1, <1>6
  <2>. HIDE DEF p
  <2>. QED BY <1>5, <2>1
<1>. QED BY <1>1, <1>5, <1>6 DEF f, g, n

LEMMA DTypesAre ==
    ASSUME NEW V, NEW b \in Batches(V), NEW ts, ts = Describe(b)
    PROVE  /\ IsList(DTypesIn(ts)) /\ Distinct(DTypesIn(ts))
           /\ \A i \in DOMAIN ts : \E m \in DOMAIN DTypesIn(ts) : DTypesIn(ts)[m] = ts[i].dtype
<1>. DEFINE here == {ts[i].dtype : i \in DOMAIN ts}
            dtypes == DTypesIn(ts)
<1>1. dtypes = Kept(DTypeOrder, here)
  BY DEF DTypesIn
<1>2. IsList(dtypes) /\ Elements(dtypes) = Elements(DTypeOrder) \cap here /\ Distinct(dtypes)
  <2>. HIDE DEF here, dtypes
  <2>. QED BY <1>1, Names, KeptIs
<1>3. \A i \in DOMAIN ts : ts[i].dtype \in Elements(DTypeOrder)
  BY DescribeIs DEF Contents
<1>4. \A i \in DOMAIN ts : ts[i].dtype \in Elements(dtypes)
  BY <1>2, <1>3
<1>. HIDE DEF dtypes
<1>5. \A i \in DOMAIN ts : \E m \in DOMAIN dtypes : dtypes[m] = ts[i].dtype
  BY <1>4 DEF Elements
<1>. QED BY <1>2, <1>5 DEF dtypes

(* For any batch the receiver expects the messages that are sent, ...      *)
LEMMA ExpectedIsSent ==
    ASSUME NEW V, NEW b \in Batches(V), NEW mode \in Modes
    PROVE  /\ IsList(Payload(b, mode)) /\ Len(Expected(Header(b, mode))) = Len(Payload(b, mode))
           /\ \A i \in DOMAIN Payload(b, mode) :
                 /\ Payload(b, mode)[i].dtype = Expected(Header(b, mode))[i].dtype
                 /\ Len(Payload(b, mode)[i].data) = Expected(Header(b, mode))[i].numel
<1>. DEFINE ts == Describe(b)
            dtypes == DTypesIn(ts)
            payload == Payload(b, mode)
            due == Expected(Header(b, mode))
<1>1. IsList(ts) /\ \A i \in DOMAIN ts : /\ ts[i].dtype = TensorAt(b, ts, i).dtype
                                         /\ ts[i].numel = Len(TensorAt(b, ts, i).data)
  BY DescribeIs
<1>2. DOMAIN ts = 1..Len(ts) /\ Len(ts) \in Nat
  BY <1>1, ListIs
<1>3. IsList(dtypes) /\ DOMAIN dtypes = 1..Len(dtypes) /\ Len(dtypes) \in Nat
  <2>1. IsList(dtypes)
    BY DTypesAre
  <2>. QED BY <2>1, ListIs
<1>4. Header(b, mode).tensors = ts /\ Header(b, mode).mode = mode
  BY DEF Header
<1>5. \A d : Len(SlabUpTo(b, ts, d)[Len(ts)]) = NumelUpTo(ts, d)[Len(ts)]
  BY SlabsIs
<1>6. CASE mode = "direct"
  <2>1. payload = [i \in 1..Len(ts) |-> [dtype |-> ts[i].dtype, data |-> TensorAt(b, ts, i).data]]
    BY <1>2, <1>6 DEF Payload, TensorAt
  <2>2. due = [i \in 1..Len(ts) |-> [dtype |-> ts[i].dtype, numel |-> ts[i].numel]]
    BY <1>2, <1>4, <1>6 DEF Expected
  <2>. HIDE DEF payload, due, ts
  <2>3. IsList(payload) /\ Len(payload) = Len(ts) /\ Len(due) = Len(ts)
    <3>1. payload = [i \in 1..Len(ts) |-> payload[i]] /\ due = [i \in 1..Len(ts) |-> due[i]]
      BY <2>1, <2>2
    <3>. QED BY <1>2, <3>1, ListOf
  <2>. QED BY <1>1, <1>2, <2>1, <2>2, <2>3 DEF payload, due, ts
<1>7. CASE mode # "direct"
  <2>1. payload = [i \in 1..Len(dtypes) |-> [dtype |-> dtypes[i],
                                           data |-> SlabUpTo(b, ts, dtypes[i])[Len(ts)]]]
    BY <1>3, <1>7 DEF Payload
  <2>2. due = [i \in 1..Len(dtypes) |-> [dtype |-> dtypes[i],
                                         numel |-> NumelUpTo(ts, dtypes[i])[Len(ts)]]]
    BY <1>3, <1>4, <1>7 DEF Expected
  <2>. HIDE DEF payload, due, dtypes, ts
  <2>3. IsList(payload) /\ Len(payload) = Len(dtypes) /\ Len(due) = Len(dtypes)
    <3>1. payload = [i \in 1..Len(dtypes) |-> payload[i]] /\ due = [i \in 1..Len(dtypes) |-> due[i]]
      BY <2>1, <2>2
    <3>. QED BY <1>3, <3>1, ListOf
  <2>. QED BY <1>3, <1>5, <2>1, <2>2, <2>3 DEF payload, due, ts
<1>. QED BY <1>6, <1>7
(* ... and makes the batch of them again, whatever its shape, in a message *)
(* for each tensor as in slabs of a dtype (NCCLGpuBatchSender::send,       *)
(* NCCLGpuBatchReceiver::recv).                                            *)
THEOREM BatchesArriveIntact ==
    ASSUME NEW V, NEW b \in Batches(V), NEW mode \in Modes
    PROVE  Unpack(Header(b, mode), Payload(b, mode)) = Delivered(b)
<1>. DEFINE ts == Describe(b)
            dtypes == DTypesIn(ts)
            payload == Payload(b, mode)
            direct == mode = "direct"
            message(i) == IF direct THEN i
                          ELSE CHOOSE m \in DOMAIN payload : payload[m].dtype = ts[i].dtype
            offset(i) == IF direct THEN 0 ELSE NumelUpTo(ts, ts[i].dtype)[i - 1]
            tensor(i) == [dtype |-> ts[i].dtype,
                          data |-> SubSeq(payload[message(i)].data, offset(i) + 1, offset(i) + ts[i].numel)]
            at(k) == {i \in DOMAIN ts : ts[i].kind = k}
            kinds == {ts[i].kind : i \in DOMAIN ts}
<1>1. /\ IsList(ts) /\ kinds = DefinedIn(b)
      /\ \A i \in DOMAIN ts : /\ TensorAt(b, ts, i) \in Contents(V)
                              /\ ts[i].dtype = TensorAt(b, ts, i).dtype
                              /\ ts[i].numel = Len(TensorAt(b, ts, i).data)
      /\ \A i, j \in DOMAIN ts : ts[i].kind = ts[j].kind => i = j
  BY DescribeIs
<1>2. DOMAIN ts = 1..Len(ts) /\ Len(ts) \in Nat
  BY <1>1, ListIs
<1>3. Unpack(Header(b, mode), payload) =
          [step |-> b.step, weight_version |-> b.weight_version,
           tensors |-> [k \in kinds |-> tensor(CHOOSE i \in at(k) : TRUE)]]
  BY DEF Unpack, Header
<1>4. ASSUME NEW i \in DOMAIN ts PROVE tensor(i) = TensorAt(b, ts, i)
  <2>. DEFINE whole == TensorAt(b, ts, i)
              part == SubSeq(payload[message(i)].data, offset(i) + 1, offset(i) + ts[i].numel)
  <2>1. whole \in Contents(V) /\ ts[i].dtype = whole.dtype /\ ts[i].numel = Len(whole.data)
    BY <1>1
  <2>2. part = whole.data
    <3>1. CASE direct
      <4>1. payload = [j \in DOMAIN ts |-> [dtype |-> ts[j].dtype, data |-> TensorAt(b, ts, j).data]]
        BY <3>1 DEF Payload, TensorAt
      <4>2. payload[i].data = whole.data /\ message(i) = i /\ offset(i) = 0
        <5>. HIDE DEF payload
        <5>. QED BY <3>1, <4>1
      <4>3. whole.data \in Seq(V)
        BY <2>1 DEF Contents
      <4>. HIDE DEF payload, whole, message, offset, ts
      <4>. QED BY <2>1, <4>2, <4>3
    <3>2. CASE ~direct
      <4>. DEFINE d == ts[i].dtype
      <4>1. payload = [m \in DOMAIN dtypes |->
                          [dtype |-> dtypes[m], data |-> SlabUpTo(b, ts, dtypes[m])[Len(ts)]]]
        BY <3>2 DEF Payload
      <4>2. PICK m \in DOMAIN dtypes : dtypes[m] = d
        BY DTypesAre
      <4>. HIDE DEF payload, dtypes, ts
      <4>3. \A x \in DOMAIN payload : /\ payload[x].dtype = dtypes[x]
                                      /\ payload[x].data = SlabUpTo(b, ts, dtypes[x])[Len(ts)]
        BY <4>1
      <4>4. m \in DOMAIN payload /\ payload[m].dtype = d
        BY <4>1, <4>2, <4>3
      <4>5. message(i) \in DOMAIN payload /\ payload[message(i)].dtype = d
        BY <3>2, <4>4
      <4>6. payload[message(i)].data = SlabUpTo(b, ts, d)[Len(ts)]
        <5>. HIDE DEF message
        <5>. QED BY <4>3, <4>5
      <4>7. offset(i) = NumelUpTo(ts, d)[i - 1]
        BY <3>2
      <4>8. SubSeq(SlabUpTo(b, ts, d)[Len(ts)], NumelUpTo(ts, d)[i - 1] + 1,
                   NumelUpTo(ts, d)[i - 1] + ts[i].numel) = whole.data
        BY SlabsIs DEF ts
      <4>. HIDE DEF message, offset, whole, d
      <4>. QED BY <4>6, <4>7, <4>8
    <3>. QED BY <3>1, <3>2
  <2>. HIDE DEF whole, part
  <2>3. [dtype |-> ts[i].dtype, data |-> part] = whole
    BY <2>1, <2>2 DEF Contents
  <2>. QED BY <2>3 DEF whole, part
<1>. HIDE DEF tensor
<1>5. [k \in kinds |-> tensor(CHOOSE i \in at(k) : TRUE)] = [k \in DefinedIn(b) |-> b.tensors[k]]
  <2>1. ASSUME NEW k \in kinds PROVE tensor(CHOOSE i \in at(k) : TRUE) = b.tensors[k]
    <3>1. PICK i \in DOMAIN ts : ts[i].kind = k
      OBVIOUS
    <3>2. (CHOOSE j \in at(k) : TRUE) \in at(k)
      BY <3>1
    <3>3. (CHOOSE j \in at(k) : TRUE) = i
      BY <1>1, <3>1, <3>2
    <3>4. tensor(i) = b.tensors[k]
      BY <1>4, <3>1 DEF TensorAt
    <3>. QED BY <3>3, <3>4
  <2>. HIDE DEF kinds, at
  <2>. QED BY <1>1, <2>1
<1>6. Delivered(b) = [step |-> b.step, weight_version |-> b.weight_version,
                      tensors |-> [k \in DefinedIn(b) |-> b.tensors[k]]]
  BY DEF Delivered, Batches
<1>. HIDE DEF kinds, at, ts, payload
<1>. QED BY <1>3, <1>5, <1>6 DEF payload
-----------------------------------------------------------------------------
(* Who trains has the batch of the step                                    *)

(* In the program of a stage that takes batches, from the receive of a     *)
(* step to its training there is only the barrier of that step.  The       *)
(* source sends batches of the steps there are.                            *)
Waits(o) == o.op = "train" \/ (o.op = "barrier" /\ o.path = RolloutPath)
Follows(o, next) == Waits(next) => o.step = next.step /\ (o.op = "recv" \/ Waits(o))
InOrder(s) ==
    /\ Len(s) > 0 => ~Waits(s[1])
    /\ \A k \in 1..(Len(s) - 1) : Follows(s[k], s[k + 1])
SendsSteps(s) == \A k \in 1..Len(s) : s[k].op = "send" => s[k].step \in 1..Steps
WellFormed(s, sender) == IsList(s) /\ IF sender THEN SendsSteps(s) ELSE InOrder(s)

LEMMA Joined ==
    ASSUME NEW s, NEW t, NEW sender, WellFormed(s, sender), WellFormed(t, sender)
    PROVE  WellFormed(s \o t, sender)
<1>. DEFINE m == Len(s)
            n == Len(t)
            u == s \o t
<1>1. IsList(s) /\ IsList(t) /\ m \in Nat /\ n \in Nat
  BY ListIs DEF WellFormed
<1>2. /\ IsList(u) /\ Len(u) = m + n
      /\ \A i \in 1..m : u[i] = s[i]
      /\ \A i \in 1..n : u[m + i] = t[i]
  BY <1>1, Concat
<1>. HIDE DEF m, n, u
<1>3. \A k \in 1..(m + n) : k \in 1..m \/ (k - m \in 1..n /\ u[k] = t[k - m])
  <2>1. ASSUME NEW k \in 1..(m + n), k \notin 1..m PROVE k - m \in 1..n /\ u[k] = t[k - m]
    <3>1. k - m \in 1..n /\ m + (k - m) = k
      BY <1>1, <2>1
    <3>2. u[m + (k - m)] = t[k - m]
      BY <1>2, <3>1
    <3>. QED BY <3>1, <3>2
  <2>. QED BY <2>1
<1>4. CASE sender
  <2>1. SendsSteps(s) /\ SendsSteps(t)
    BY <1>4 DEF WellFormed
  <2>2. ASSUME NEW k \in 1..(m + n), u[k].op = "send" PROVE u[k].step \in 1..Steps
    <3>1. CASE k \in 1..m
      BY <1>2, <2>1, <2>2, <3>1 DEF SendsSteps, m
    <3>2. CASE k \notin 1..m
      BY <1>3, <2>1, <2>2, <3>2 DEF SendsSteps, n
    <3>. QED BY <3>1, <3>2
  <2>. QED BY <1>2, <1>4, <2>2 DEF WellFormed, SendsSteps, u
<1>5. CASE ~sender
  <2>1. /\ m > 0 => ~Waits(s[1])
        /\ \A k \in 1..(m - 1) : Follows(s[k], s[k + 1])
        /\ n > 0 => ~Waits(t[1])
        /\ \A k \in 1..(n - 1) : Follows(t[k], t[k + 1])
    BY <1>5 DEF WellFormed, InOrder, m, n
  <2>2. ASSUME m + n > 0 PROVE ~Waits(u[1])
    <3>1. CASE m > 0
      <4>1. 1 \in 1..m
        BY <1>1, <3>1
      <4>2. u[1] = s[1]
        BY <1>2, <4>1
      <4>. QED BY <2>1, <3>1, <4>2
    <3>2. CASE m = 0
      <4>1. 1 \in 1..(m + n) /\ 1 \notin 1..m /\ n > 0 /\ 1 - m = 1
        BY <1>1, <2>2, <3>2
      <4>2. u[1] = t[1]
        BY <1>3, <4>1
      <4>. QED BY <2>1, <4>1, <4>2
    <3>. QED BY <1>1, <3>1, <3>2
  <2>3. ASSUME NEW k \in 1..(m + n - 1) PROVE Follows(u[k], u[k + 1])
    <3>1. CASE k < m
      <4>1. k \in 1..m /\ k + 1 \in 1..m /\ k \in 1..(m - 1)
        BY <1>1, <3>1
      <4>2. u[k] = s[k] /\ u[k + 1] = s[k + 1]
        BY <1>2, <4>1
      <4>. QED BY <2>1, <4>1, <4>2
    <3>2. CASE k = m
      <4>1. k + 1 \in 1..(m + n) /\ k + 1 \notin 1..m /\ (k + 1) - m = 1 /\ n > 0
        BY <1>1, <3>2
      <4>2. u[k + 1] = t[1]
        BY <1>3, <4>1
      <4>3. ~Waits(u[k + 1])
        BY <2>1, <4>1, <4>2
      <4>. QED BY <4>3 DEF Follows
    <3>3. CASE k > m
      <4>. DEFINE j == k - m
      <4>1. /\ k \in 1..(m + n) /\ k \notin 1..m /\ k + 1 \in 1..(m + n) /\ k + 1 \notin 1..m
            /\ j \in 1..(n - 1) /\ (k + 1) - m = j + 1
        BY <1>1, <3>3
      <4>2. u[k] = t[j] /\ u[k + 1] = t[j + 1]
        BY <1>3, <4>1
      <4>. HIDE DEF j
      <4>. QED BY <2>1, <4>1, <4>2
    <3>. QED BY <1>1, <3>1, <3>2, <3>3
  <2>4. InOrder(u)
    BY <1>1, <1>2, <2>2, <2>3 DEF InOrder
  <2>5. WellFormed(u, sender)
    BY <1>2, <1>5, <2>4 DEF WellFormed
  <2>. QED BY <2>5 DEF u
<1>. QED BY <1>4, <1>5 DEF u

LEMMA JoinedAll ==
    ASSUME NEW n \in Nat, NEW sender, NEW seqs, seqs = [i \in 1..n |-> seqs[i]],
           \A i \in 1..n : WellFormed(seqs[i], sender)
    PROVE  WellFormed(FlattenSeq(seqs), sender)
<1>. DEFINE O == UNION {Elements(seqs[i]) : i \in 1..n}
            T == {s \in Seq(O) : WellFormed(s, sender)}
<1>1. Len(seqs) = n
  BY ListOf
<1>2. CASE n = 0
  <2>1. seqs = <<>>
    BY <1>2
  <2>2. FlattenSeq(seqs) = <<>>
    BY <2>1 DEF FlattenSeq
  <2>3. IsList(<<>>)
    <3>1. <<>> \in Seq({})
      OBVIOUS
    <3>. QED BY <3>1 DEF IsList
  <2>4. SendsSteps(<<>>) /\ InOrder(<<>>)
    BY DEF SendsSteps, InOrder
  <2>5. WellFormed(<<>>, sender)
    BY <2>3, <2>4 DEF WellFormed
  <2>. QED BY <2>2, <2>5
<1>3. CASE n # 0
  <2>1. ASSUME NEW i \in 1..n PROVE seqs[i] \in T
    <3>1. IsList(seqs[i]) /\ Elements(seqs[i]) \subseteq O
      BY <2>1 DEF WellFormed
    <3>2. seqs[i] \in Seq(Elements(seqs[i]))
      BY <3>1 DEF IsList, Elements
    <3>. HIDE DEF O
    <3>. QED BY <3>1, <3>2
  <2>2. Closed(T)
    <3>1. ASSUME NEW x \in T, NEW y \in T PROVE x \o y \in T
      BY <3>1, Joined
    <3>. QED BY <3>1 DEF Closed
  <2>. HIDE DEF T
  <2>3. seqs \in Seq(T) /\ seqs # <<>>
    BY <1>1, <1>3, <2>1
  <2>4. FlattenSeq(seqs) \in T
    BY <2>2, <2>3, FlattenIn
  <2>. QED BY <2>4 DEF T
<1>. QED BY <1>2, <1>3
LEMMA PathsAre ==
    ASSUME NEW g
    PROVE  IsList(Paths(g)) /\ \A i \in DOMAIN Paths(g) : Paths(g)[i] # RolloutPath
<1>. DEFINE all == [i \in DOMAIN CommAxes |-> Path(g, CommAxes[i])]
            wanted == {path \in Elements(all) : path[1] = "full" \/ Cardinality(MembersOf(path)) > 1}
<1>1. DOMAIN CommAxes = 1..6 /\ \A i \in 1..6 : CommAxes[i] # "rollout"
  BY DEF CommAxes
<1>2. IsList(all)
  <2>1. all = [i \in 1..6 |-> all[i]]
    BY <1>1
  <2>. HIDE DEF all
  <2>. QED BY <2>1, ListOf
<1>3. \A path \in Elements(all) : path # RolloutPath
  BY <1>1 DEF Elements, Path, RolloutPath
<1>4. Paths(g) = Kept(all, wanted)
  BY DEF Paths
<1>. HIDE DEF all, wanted
<1>5. IsList(Paths(g)) /\ Elements(Paths(g)) = Elements(all) \cap wanted
  BY <1>2, <1>4, KeptIs
<1>. QED BY <1>3, <1>5 DEF Elements

(* Operations nobody waits behind.                                         *)
LEMMA Unordered ==
    ASSUME NEW n \in Nat, NEW s, s = [i \in 1..n |-> s[i]], \A i \in 1..n : ~Waits(s[i])
    PROVE  WellFormed(s, FALSE)
<1>1. IsList(s) /\ Len(s) = n
  BY ListOf
<1>2. Len(s) > 0 => ~Waits(s[1])
  BY <1>1
<1>3. \A k \in 1..(Len(s) - 1) : k + 1 \in 1..n
  BY <1>1
<1>4. InOrder(s)
  BY <1>2, <1>3 DEF InOrder, Follows
<1>. QED BY <1>1, <1>4 DEF WellFormed

LEMMA OnPathsAre ==
    ASSUME NEW op, op \notin {"train", "barrier"}, NEW paths, IsList(paths)
    PROVE  WellFormed(OnPaths(op, paths), FALSE)
<1>. DEFINE s == OnPaths(op, paths)
            n == Len(paths)
<1>1. n \in Nat /\ DOMAIN paths = 1..n
  BY ListIs
<1>2. s = [i \in 1..n |-> s[i]] /\ \A i \in 1..n : s[i].op = op
  BY <1>1 DEF OnPaths, Op
<1>3. \A i \in 1..n : ~Waits(s[i])
  BY <1>2 DEF Waits
<1>. HIDE DEF s, n
<1>4. WellFormed(s, FALSE)
  BY <1>1, <1>2, <1>3, Unordered
<1>. QED BY <1>4 DEF s

LEMMA TrainerStepIs ==
    ASSUME NEW g, AtEnds(g), NEW s
    PROVE  WellFormed(TrainerStep(g, s), FALSE)
<1>. DEFINE a == Op("barrier", Path(g, "full"), s)
            b == Op("recv", RolloutPath, s)
            c == Op("barrier", RolloutPath, s)
            d == Op("train", NoPath, s)
            p == <<a>>
            q == <<b>>
            r == <<c, d>>
            t == (p \o q) \o r
<1>1. TrainerStep(g, s) = t
  BY DEF TrainerStep
<1>2. ~Waits(a) /\ ~Waits(b) /\ Waits(c) /\ b.op = "recv" /\ b.step = s /\ c.step = s /\ d.step = s
  BY DEF Waits, Op, Path, RolloutPath
<1>. HIDE DEF a, b, c, d
<1>3. /\ IsList(p) /\ Len(p) = 1 /\ p[1] = a
      /\ IsList(q) /\ Len(q) = 1 /\ q[1] = b
      /\ IsList(r) /\ Len(r) = 2 /\ r[1] = c /\ r[2] = d
  <2>1. p \in Seq({a}) /\ q \in Seq({b}) /\ r \in Seq({c, d})
    OBVIOUS
  <2>. QED BY <2>1 DEF IsList
<1>. HIDE DEF p, q, r
<1>4. IsList(p \o q) /\ Len(p \o q) = 2 /\ (p \o q)[1] = a /\ (p \o q)[2] = b
  <2>1. /\ IsList(p \o q) /\ Len(p \o q) = Len(p) + Len(q)
        /\ \A i \in 1..Len(p) : (p \o q)[i] = p[i]
        /\ \A i \in 1..Len(q) : (p \o q)[Len(p) + i] = q[i]
    BY <1>3, Concat
  <2>. QED BY <1>3, <2>1
<1>5. IsList(t) /\ Len(t) = 4 /\ t[1] = a /\ t[2] = b /\ t[3] = c /\ t[4] = d
  <2>. DEFINE u == p \o q
  <2>1. IsList(u) /\ Len(u) = 2 /\ u[1] = a /\ u[2] = b
    BY <1>4
  <2>. HIDE DEF u
  <2>2. /\ IsList(u \o r) /\ Len(u \o r) = Len(u) + Len(r)
        /\ \A i \in 1..Len(u) : (u \o r)[i] = u[i]
        /\ \A i \in 1..Len(r) : (u \o r)[Len(u) + i] = r[i]
    <3>1. IsList(u) /\ IsList(r)
      BY <1>3, <2>1
    <3>. HIDE DEF t
    <3>. QED BY <3>1, Concat
  <2>3. /\ IsList(u \o r) /\ Len(u \o r) = 4
        /\ (u \o r)[1] = a /\ (u \o r)[2] = b /\ (u \o r)[3] = c /\ (u \o r)[4] = d
    BY <1>3, <2>1, <2>2
  <2>. QED BY <2>3 DEF u
<1>. HIDE DEF t
<1>6. Follows(a, b) /\ Follows(b, c) /\ Follows(c, d)
  BY <1>2 DEF Follows
<1>7. ASSUME NEW k \in 1..(Len(t) - 1) PROVE Follows(t[k], t[k + 1])
  <2>1. k = 1 \/ k = 2 \/ k = 3
    BY <1>5
  <2>2. CASE k = 1
    BY <1>5, <1>6, <2>2
  <2>3. CASE k = 2
    BY <1>5, <1>6, <2>3
  <2>4. CASE k = 3
    BY <1>5, <1>6, <2>4
  <2>. QED BY <2>1, <2>2, <2>3, <2>4
<1>8. InOrder(t)
  BY <1>2, <1>5, <1>7 DEF InOrder
<1>. QED BY <1>1, <1>5, <1>8 DEF WellFormed

LEMMA TrainerProgramIs ==
    ASSUME NEW g, AtEnds(g), Steps - job.start \in Nat
    PROVE  WellFormed(TrainerProgram(g), FALSE)
<1>. DEFINE n == Steps - job.start
            writes == OnPaths("write", Kept(Paths(g), {path \in Elements(Paths(g)) : Creates(g, path)}))
            reads == OnPaths("read", Paths(g))
            inits == OnPaths("init", Paths(g))
            join == <<Op("read", RolloutPath, 0), Op("init", RolloutPath, 0)>>
            steps == [i \in 1..n |-> TrainerStep(g, job.start + i)]
            meet == <<Op("barrier", Path(g, "full"), 0)>>
            remove == IF g = 0 THEN <<Op("remove", Path(g, "full"), 0)>> ELSE <<>>
<1>1. WellFormed(reads, FALSE) /\ WellFormed(inits, FALSE)
  BY PathsAre, OnPathsAre
<1>2. WellFormed(writes, FALSE)
  <2>. DEFINE mine == Kept(Paths(g), {path \in Elements(Paths(g)) : Creates(g, path)})
  <2>1. IsList(Paths(g))
    BY PathsAre
  <2>2. IsList(mine)
    BY <2>1, KeptIs
  <2>. HIDE DEF mine
  <2>3. WellFormed(OnPaths("write", mine), FALSE)
    BY <2>2, OnPathsAre
  <2>. QED BY <2>3 DEF mine
<1>3. WellFormed(join, FALSE)
  <2>1. join = [i \in 1..2 |-> join[i]] /\ \A i \in 1..2 : ~Waits(join[i])
    BY DEF Waits, Op
  <2>. HIDE DEF join
  <2>. QED BY <2>1, Unordered
<1>4. WellFormed(FlattenSeq(steps), FALSE)
  <2>1. steps = [i \in 1..n |-> steps[i]]
    OBVIOUS
  <2>2. \A i \in 1..n : WellFormed(steps[i], FALSE)
    BY TrainerStepIs
  <2>. HIDE DEF steps
  <2>. QED BY <2>1, <2>2, JoinedAll
<1>5. WellFormed(meet, FALSE)
  <2>1. meet = [i \in 1..1 |-> meet[i]] /\ \A i \in 1..1 : ~Waits(meet[i])
    BY DEF Waits, Op, Path, RolloutPath
  <2>. HIDE DEF meet
  <2>. QED BY <2>1, Unordered
<1>6. WellFormed(remove, FALSE)
  <2>1. CASE g = 0
    <3>1. remove = [i \in 1..1 |-> remove[i]] /\ \A i \in 1..1 : ~Waits(remove[i])
      BY <2>1 DEF Waits, Op
    <3>. HIDE DEF remove
    <3>. QED BY <3>1, Unordered
  <2>2. CASE g # 0
    <3>1. remove = [i \in 1..0 |-> remove[i]] /\ \A i \in 1..0 : ~Waits(remove[i])
      BY <2>2
    <3>. HIDE DEF remove
    <3>. QED BY <3>1, Unordered
  <2>. QED BY <2>1, <2>2
<1>7. TrainerProgram(g) = ((((((writes \o reads) \o inits) \o join) \o FlattenSeq(steps)) \o meet) \o remove)
  <2>1. TrainerSetup(g) = (((writes \o reads) \o inits) \o join)
    BY DEF TrainerSetup
  <2>2. TrainerProgram(g) = ((TrainerSetup(g) \o FlattenSeq(steps)) \o meet) \o remove
    BY DEF TrainerProgram
  <2>. HIDE DEF writes, reads, inits, join, steps, meet, remove
  <2>. QED BY <2>1, <2>2
<1>. HIDE DEF writes, reads, inits, join, steps, meet, remove
<1>8. WellFormed(writes \o reads, FALSE)
  BY <1>1, <1>2, Joined
<1>9. WellFormed((writes \o reads) \o inits, FALSE)
  BY <1>1, <1>8, Joined
<1>10. WellFormed(((writes \o reads) \o inits) \o join, FALSE)
  BY <1>3, <1>9, Joined
<1>11. WellFormed((((writes \o reads) \o inits) \o join) \o FlattenSeq(steps), FALSE)
  BY <1>4, <1>10, Joined
<1>12. WellFormed(((((writes \o reads) \o inits) \o join) \o FlattenSeq(steps)) \o meet, FALSE)
  BY <1>5, <1>11, Joined
<1>13. WellFormed((((((writes \o reads) \o inits) \o join) \o FlattenSeq(steps)) \o meet) \o remove, FALSE)
  BY <1>6, <1>12, Joined
<1>. QED BY <1>7, <1>13
LEMMA SourceProgramIs ==
    ASSUME World(job.dims) \in Nat
    PROVE  WellFormed(SourceProgram, TRUE)
<1>. DEFINE setup == <<Op("write", RolloutPath, 0), Op("read", RolloutPath, 0), Op("init", RolloutPath, 0)>>
            steps == [i \in 1..Steps |-> SourceStep(i)]
            remove == <<Op("remove", RolloutPath, 0)>>
<1>1. Steps \in Nat
  BY JobAssumption
<1>2. WellFormed(setup, TRUE)
  <2>1. setup = [i \in 1..3 |-> setup[i]] /\ \A i \in 1..3 : setup[i].op # "send"
    BY DEF Op
  <2>. HIDE DEF setup
  <2>2. IsList(setup) /\ Len(setup) = 3
    BY <2>1, ListOf
  <2>. QED BY <2>1, <2>2 DEF WellFormed, SendsSteps
<1>3. WellFormed(FlattenSeq(steps), TRUE)
  <2>1. ASSUME NEW i \in 1..Steps PROVE WellFormed(steps[i], TRUE)
    <3>. DEFINE sends == [j \in DOMAIN Targets |-> Op("send", To(Targets[j]), i)]
                meet == <<Op("barrier", RolloutPath, i)>>
                n == Len(Targets)
    <3>1. IsList(Targets)
      <4>. DEFINE all == [j \in 1..World(job.dims) |-> j - 1]
                  wanted == {g \in Trainers : AtEnds(g)}
      <4>1. Targets = Kept(all, wanted)
        BY DEF Targets
      <4>2. IsList(all)
        <5>1. all = [j \in 1..World(job.dims) |-> all[j]]
          OBVIOUS
        <5>. HIDE DEF all
        <5>. QED BY <5>1, ListOf
      <4>. HIDE DEF all, wanted
      <4>. QED BY <4>1, <4>2, KeptIs
    <3>2. n \in Nat /\ DOMAIN Targets = 1..n
      BY <3>1, ListIs
    <3>3. sends = [j \in 1..n |-> sends[j]] /\ \A j \in 1..n : sends[j].step = i
      BY <3>2 DEF Op
    <3>4. meet = [j \in 1..1 |-> meet[j]] /\ \A j \in 1..1 : meet[j].op # "send"
      BY DEF Op
    <3>5. steps[i] = sends \o meet
      BY DEF SourceStep
    <3>. HIDE DEF sends, meet, steps, n
    <3>6. IsList(sends) /\ Len(sends) = n
      BY <3>2, <3>3, ListOf
    <3>7. IsList(meet) /\ Len(meet) = 1
      BY <3>4, ListOf
    <3>8. WellFormed(sends, TRUE)
      BY <3>3, <3>6 DEF WellFormed, SendsSteps
    <3>9. WellFormed(meet, TRUE)
      BY <3>4, <3>7 DEF WellFormed, SendsSteps
    <3>. QED BY <3>5, <3>8, <3>9, Joined
  <2>2. steps = [i \in 1..Steps |-> steps[i]]
    OBVIOUS
  <2>. HIDE DEF steps
  <2>. QED BY <1>1, <2>1, <2>2, JoinedAll
<1>4. WellFormed(remove, TRUE)
  <2>1. remove = [i \in 1..1 |-> remove[i]] /\ \A i \in 1..1 : remove[i].op # "send"
    BY DEF Op
  <2>. HIDE DEF remove
  <2>2. IsList(remove) /\ Len(remove) = 1
    BY <2>1, ListOf
  <2>. QED BY <2>1, <2>2 DEF WellFormed, SendsSteps
<1>5. SourceProgram = (setup \o FlattenSeq(steps)) \o remove
  BY DEF SourceProgram
<1>. HIDE DEF setup, steps, remove
<1>6. WellFormed(setup \o FlattenSeq(steps), TRUE)
  BY <1>2, <1>3, Joined
<1>7. WellFormed((setup \o FlattenSeq(steps)) \o remove, TRUE)
  BY <1>4, <1>6, Joined
<1>. QED BY <1>5, <1>7
(* What make_batch makes can be described.                                 *)
Marks == Nat \X Elements(Kinds) \X Nat

LEMMA BatchIs ==
    ASSUME NEW s \in Nat
    PROVE  Batch(s) \in Batches(Marks) /\ Batch(s).step = s
<1>1. DOMAIN Shape = Elements(Kinds) /\ \A k \in DOMAIN Shape : Shape[k] \in Nat
  <2>1. Elements(Kinds) = {"prompt_ids", "response_ids", "response_mask", "old_log_probs",
                           "ref_log_probs", "rewards", "advantages", "group_ids"}
    <3>1. DOMAIN Kinds = {1, 2, 3, 4, 5, 6, 7, 8}
      BY DEF Kinds
    <3>. QED BY <3>1 DEF Elements, Kinds
  <2>. QED BY <2>1 DEF Shape
<1>2. \A k \in DOMAIN Shape : DType(k) \in Elements(DTypeOrder)
  <2>1. DTypeOrder[1] = "int64" /\ DTypeOrder[2] = "float32" /\ 1 \in DOMAIN DTypeOrder /\ 2 \in DOMAIN DTypeOrder
    BY DEF DTypeOrder
  <2>. QED BY <2>1 DEF DType, Elements
<1>3. ASSUME NEW k \in DOMAIN Shape PROVE [i \in 1..Shape[k] |-> <<s, k, i>>] \in Seq(Marks)
  <2>. DEFINE data == [i \in 1..Shape[k] |-> <<s, k, i>>]
              n == Shape[k]
  <2>1. n \in Nat /\ \A i \in 1..n : <<s, k, i>> \in Marks
    BY <1>1, <1>3 DEF Marks
  <2>2. data \in [1..n -> Marks]
    BY <2>1
  <2>. QED BY <2>1, <2>2
<1>. DEFINE tensor(k) == [dtype |-> DType(k), data |-> [i \in 1..Shape[k] |-> <<s, k, i>>]]
            tensors == [k \in DOMAIN Shape |-> tensor(k)]
<1>4. \A k \in DOMAIN Shape : tensor(k) \in Contents(Marks)
  BY <1>2, <1>3 DEF Contents
<1>5. Batch(s) = [step |-> s, weight_version |-> s, tensors |-> tensors]
  BY DEF Batch
<1>. HIDE DEF tensor
<1>6. tensors \in [Elements(Kinds) -> Contents(Marks)]
  BY <1>1, <1>4
<1>. HIDE DEF tensors
<1>. QED BY <1>5, <1>6 DEF Batches

(* The messages of a batch, their beginnings and what is made of them.     *)
Begun(messages, n) == SubSeq(messages, 1, n)

LEMMA MessagesAre ==
    ASSUME NEW mode \in Modes, NEW s \in 1..Steps, NEW messages, messages = Messages[mode][s]
    PROVE  /\ IsList(messages) /\ messages # <<>> /\ Len(messages) \in Nat \ {0}
           /\ Len(messages) = 1 + Len(Expected(messages[1]))
           /\ Unpack(messages[1], Tail(messages)) = Delivered(Batch(s))
           /\ Delivered(Batch(s)).step = s
           /\ \A n \in 1..(Len(messages) - 1) :
                 /\ messages[n + 1].dtype = Expected(messages[1])[n].dtype
                 /\ Len(messages[n + 1].data) = Expected(messages[1])[n].numel
<1>. DEFINE b == Batch(s)
            header == Header(b, mode)
            payload == Payload(b, mode)
            due == Expected(header)
<1>1. s \in Nat /\ b \in Batches(Marks) /\ b.step = s
  BY BatchIs
<1>2. messages = <<header>> \o payload
  BY DEF Messages
<1>3. /\ IsList(payload) /\ Len(due) = Len(payload)
      /\ \A i \in DOMAIN payload : /\ payload[i].dtype = due[i].dtype
                                   /\ Len(payload[i].data) = due[i].numel
  BY <1>1, ExpectedIsSent
<1>4. Unpack(header, payload) = Delivered(b)
  BY <1>1, BatchesArriveIntact
<1>5. Delivered(b).step = s
  BY <1>1 DEF Delivered, Batches
<1>. HIDE DEF b, header, payload, due
<1>6. IsList(<<header>>) /\ Len(<<header>>) = 1 /\ <<header>>[1] = header
  <2>1. <<header>> \in Seq({header})
    OBVIOUS
  <2>. QED BY <2>1 DEF IsList
<1>7. /\ IsList(messages) /\ Len(messages) = 1 + Len(payload)
      /\ \A i \in 1..Len(<<header>>) : messages[i] = <<header>>[i]
      /\ \A i \in 1..Len(payload) : messages[1 + i] = payload[i]
  BY <1>2, <1>3, <1>6, Concat
<1>8. messages[1] = header
  BY <1>6, <1>7
<1>9. Len(payload) \in Nat /\ DOMAIN payload = 1..Len(payload) /\ payload = [i \in 1..Len(payload) |-> payload[i]]
  BY <1>3, ListIs
<1>10. messages # <<>> /\ Len(messages) \in Nat \ {0}
  BY <1>7, <1>9
<1>11. Tail(messages) = payload
  <2>1. PICK S : messages \in Seq(S)
    BY <1>7 DEF IsList
  <2>2. Tail(messages) = [i \in 1..(Len(messages) - 1) |-> messages[i + 1]]
    BY <1>10, <2>1
  <2>3. Len(messages) - 1 = Len(payload) /\ \A i \in 1..Len(payload) : messages[i + 1] = payload[i]
    BY <1>7, <1>9
  <2>. QED BY <1>9, <2>2, <2>3
<1>12. ASSUME NEW n \in 1..(Len(messages) - 1)
       PROVE  messages[n + 1].dtype = due[n].dtype /\ Len(messages[n + 1].data) = due[n].numel
  <2>1. n \in 1..Len(payload) /\ 1 + n = n + 1
    BY <1>7, <1>9
  <2>2. messages[n + 1] = payload[n]
    BY <1>7, <2>1
  <2>. QED BY <1>3, <1>9, <2>1, <2>2
<1>. QED BY <1>3, <1>4, <1>5, <1>7, <1>8, <1>10, <1>11, <1>12 DEF b, due

LEMMA BegunIs ==
    ASSUME NEW s, IsList(s), NEW n \in 0..Len(s)
    PROVE  /\ IsList(Begun(s, n)) /\ Len(Begun(s, n)) = n
           /\ n = 0 => Begun(s, n) = <<>>
           /\ n > 0 => Begun(s, n)[1] = s[1] /\ Begun(s, n) # <<>>
           /\ n < Len(s) => Append(Begun(s, n), s[n + 1]) = Begun(s, n + 1)
           /\ n = Len(s) => Begun(s, n) = s
<1>1. Len(s) \in Nat /\ s = [i \in 1..Len(s) |-> s[i]]
  BY ListIs
<1>2. PICK S : s \in Seq(S)
  BY DEF IsList
<1>. DEFINE UpTo(k) == [i \in 1..k |-> s[i]]
<1>3. ASSUME NEW k \in 0..Len(s) PROVE Begun(s, k) = UpTo(k) /\ UpTo(k) \in Seq(S) /\ Len(UpTo(k)) = k
  <2>1. Begun(s, k) = [i \in 1..(k - 1 + 1) |-> s[1 + i - 1]]
    BY <1>2 DEF Begun
  <2>2. k - 1 + 1 = k /\ \A i \in 1..k : 1 + i - 1 = i
    BY <1>1
  <2>3. UpTo(k) \in Seq(S) /\ Len(UpTo(k)) = k
    BY <1>1, <1>2
  <2>. QED BY <2>1, <2>2, <2>3
<1>. DEFINE t == Begun(s, n)
<1>4. t = UpTo(n) /\ t \in Seq(S) /\ Len(t) = n
  BY <1>3
<1>5. IsList(t)
  BY <1>4 DEF IsList
<1>6. n = 0 => t = <<>>
  BY <1>4
<1>7. n > 0 => t[1] = s[1] /\ t # <<>>
  BY <1>1, <1>4
<1>8. ASSUME n < Len(s) PROVE Append(t, s[n + 1]) = Begun(s, n + 1)
  <2>1. n + 1 \in 0..Len(s) /\ s[n + 1] \in S
    BY <1>1, <1>2, <1>8
  <2>2. Begun(s, n + 1) = UpTo(n + 1)
    BY <1>3, <2>1
  <2>3. Append(UpTo(n), s[n + 1]) = UpTo(n + 1)
    <3>. DEFINE u == UpTo(n)
                v == Append(u, s[n + 1])
    <3>1. u \in Seq(S) /\ Len(u) = n /\ \A i \in 1..n : u[i] = s[i]
      BY <1>3
    <3>. HIDE DEF u
    <3>2. v \in Seq(S) /\ Len(v) = n + 1 /\ v[n + 1] = s[n + 1] /\ \A i \in 1..n : v[i] = u[i]
      BY <2>1, <3>1
    <3>. HIDE DEF v
    <3>3. v = [i \in 1..(n + 1) |-> v[i]]
      BY <3>2
    <3>4. \A i \in 1..(n + 1) : v[i] = s[i]
      BY <3>1, <3>2
    <3>5. v = UpTo(n + 1)
      BY <3>3, <3>4
    <3>. QED BY <3>5 DEF u, v
  <2>. QED BY <1>4, <2>2, <2>3
<1>9. n = Len(s) => t = s
  BY <1>1, <1>4
<1>. QED BY <1>4, <1>5, <1>6, <1>7, <1>8, <1>9
LEMMA WorldIs ==
    ASSUME NEW p, IsDims(p)
    PROVE  World(p) \in Nat \ {0}
<1>1. \A m, n \in Nat \ {0} : m * n \in Nat \ {0}
  OBVIOUS
<1>2. /\ p.data \in Nat \ {0} /\ p.pipeline \in Nat \ {0} /\ p.context \in Nat \ {0}
      /\ p.tensor \in Nat \ {0} /\ p.expert \in Nat \ {0}
  BY DimsType
<1>3. p.data * p.pipeline \in Nat \ {0}
  BY <1>1, <1>2
<1>4. p.data * p.pipeline * p.context \in Nat \ {0}
  BY <1>1, <1>2, <1>3
<1>5. p.data * p.pipeline * p.context * p.tensor \in Nat \ {0}
  BY <1>1, <1>2, <1>4
<1>. QED BY <1>1, <1>2, <1>5 DEF World
(* A receiver holds the beginning of the batch that is being sent to it,   *)
(* or a whole one; and from its receive to the training of a step the      *)
(* batch of that step.                                                     *)
Outgoing == Messages[job.mode][Now(Source).step]

ProgramsAs ==
    /\ job \in [dims : Arrangements, start : Starts, mode : Modes]
    /\ WellFormed(code[Source], TRUE)
    /\ \A g \in Trainers : AtEnds(g) => WellFormed(code[g], FALSE)
CountersAs ==
    /\ pc \in [Processes -> Nat \ {0}] /\ sent \in Nat
    /\ DOMAIN got = Processes /\ DOMAIN rollout_batch = Processes
SendingAs ==
    sent > 0 => /\ pc[Source] <= Len(code[Source]) /\ Now(Source).op = "send"
                /\ sent < Len(Outgoing)
                /\ \E g \in Trainers : Now(Source).path = To(g) /\ got[g] = Begun(Outgoing, sent)
HoldingAs ==
    \A g \in Trainers : \/ got[g] = <<>>
                        \/ \E s \in 1..Steps : got[g] = Messages[job.mode][s]
                        \/ sent > 0 /\ Now(Source).path = To(g)
TakenAs ==
    \A g \in Trainers : AtEnds(g) /\ pc[g] <= Len(code[g]) /\ Waits(Now(g)) =>
        rollout_batch[g] = Delivered(Batch(Now(g).step))

BatchInv == ProgramsAs /\ CountersAs /\ SendingAs /\ HoldingAs /\ TakenAs

LEMMA SourceApart ==
    ASSUME ProgramsAs
    PROVE  Source \notin Trainers /\ Source \in Processes /\ World(job.dims) \in Nat
<1>1. job.dims \in Arrangements
  BY DEF ProgramsAs
<1>2. World(job.dims) \in Nat \ {0}
  BY <1>1, JobAssumption, WorldIs
<1>. QED BY <1>2 DEF Source, Trainers, Processes, Ranks

LEMMA BatchInit == Init => BatchInv
<1>. SUFFICES ASSUME Init PROVE BatchInv
  OBVIOUS
<1>1. job \in [dims : Arrangements, start : Starts, mode : Modes]
  BY DEF Init
<1>2. World(job.dims) \in Nat \ {0} /\ Steps - job.start \in Nat
  <2>1. IsDims(job.dims)
    BY <1>1, JobAssumption
  <2>2. job.start \in 0..Steps /\ Steps \in Nat
    BY <1>1, JobAssumption
  <2>. QED BY <2>1, <2>2, WorldIs
<1>3. Source \notin Trainers /\ Source \in Processes /\ Trainers \subseteq Processes
  BY <1>2 DEF Source, Trainers, Processes, Ranks
<1>4. code[Source] = SourceProgram /\ \A g \in Trainers : code[g] = TrainerProgram(g)
  BY <1>3 DEF Init
<1>5. ProgramsAs
  BY <1>1, <1>2, <1>4, SourceProgramIs, TrainerProgramIs DEF ProgramsAs
<1>6. /\ pc = [p \in Processes |-> 1] /\ sent = 0 /\ got = [p \in Processes |-> <<>>]
      /\ rollout_batch = [p \in Processes |-> NoBatch]
  BY DEF Init, Fresh
<1>7. CountersAs
  BY <1>6 DEF CountersAs
<1>8. SendingAs /\ HoldingAs
  BY <1>3, <1>6 DEF SendingAs, HoldingAs
<1>9. TakenAs
  <2>1. ASSUME NEW g \in Trainers, AtEnds(g), pc[g] <= Len(code[g]) PROVE ~Waits(Now(g))
    <3>1. pc[g] = 1 /\ InOrder(code[g])
      BY <1>3, <1>5, <1>6, <2>1 DEF ProgramsAs, WellFormed
    <3>2. Len(code[g]) > 0
      <4>1. Len(code[g]) \in Nat
        BY <1>5, <2>1, ListIs DEF ProgramsAs, WellFormed
      <4>. QED BY <2>1, <3>1, <4>1
    <3>. QED BY <3>1, <3>2 DEF InOrder, Now
  <2>. QED BY <2>1 DEF TakenAs
<1>. QED BY <1>5, <1>7, <1>8, <1>9 DEF BatchInv

(* Programs stay what they are, and a process that moves on comes from an  *)
(* operation before the one it comes to.                                   *)
LEMMA ProgramsStay ==
    ASSUME ProgramsAs, UNCHANGED <<job, code>>
    PROVE  /\ ProgramsAs' /\ Source' = Source /\ Trainers' = Trainers /\ Processes' = Processes
           /\ \A g : AtEnds(g)' <=> AtEnds(g)
<1>1. Source' = Source /\ Trainers' = Trainers /\ Processes' = Processes
  BY DEF Source, Trainers, Processes, Ranks, World
<1>2. \A g : AtEnds(g)' <=> AtEnds(g)
  BY DEF AtEnds, Info, Coordinates
<1>. QED BY <1>1, <1>2 DEF ProgramsAs

LEMMA ComesFrom ==
    ASSUME BatchInv, NEW g \in Trainers, AtEnds(g), pc[g] + 1 <= Len(code[g])
    PROVE  Follows(code[g][pc[g]], code[g][pc[g] + 1]) /\ pc[g] <= Len(code[g])
<1>1. WellFormed(code[g], FALSE) /\ pc[g] \in Nat \ {0}
  BY DEF BatchInv, ProgramsAs, CountersAs, Processes
<1>2. InOrder(code[g]) /\ Len(code[g]) \in Nat
  BY <1>1, ListIs DEF WellFormed
<1>3. pc[g] \in 1..(Len(code[g]) - 1)
  BY <1>1, <1>2
<1>. QED BY <1>1, <1>2, <1>3 DEF InOrder

(* Operations that pass no message.                                        *)
Moved(ps) == pc' = [p \in Processes |-> IF p \in ps THEN pc[p] + 1 ELSE pc[p]]

LEMMA Moving ==
    ASSUME BatchInv, NEW ps, Moved(ps), UNCHANGED <<job, code, sent, got, rollout_batch>>,
           \A p \in ps : p \in Processes => Now(p).op \notin {"send", "recv"}
    PROVE  BatchInv'
<1>1. /\ ProgramsAs' /\ Source' = Source /\ Trainers' = Trainers /\ Processes' = Processes
      /\ \A g : AtEnds(g)' <=> AtEnds(g)
  BY ProgramsStay DEF BatchInv
<1>2. Source \notin Trainers /\ Source \in Processes
  BY SourceApart DEF BatchInv
<1>3. pc \in [Processes -> Nat \ {0}] /\ CountersAs
  BY DEF BatchInv, CountersAs
<1>4. CountersAs'
  <2>1. pc' \in [Processes -> Nat \ {0}]
    BY <1>3 DEF Moved
  <2>. QED BY <1>1, <1>3, <2>1 DEF CountersAs
<1>5. ASSUME sent > 0
      PROVE  pc'[Source] = pc[Source] /\ Now(Source)' = Now(Source) /\ Outgoing' = Outgoing
  <2>1. Now(Source).op = "send"
    BY <1>5 DEF BatchInv, SendingAs
  <2>2. Source \notin ps
    BY <1>2, <2>1
  <2>3. pc'[Source] = pc[Source]
    BY <1>2, <2>2 DEF Moved
  <2>4. Now(Source)' = Now(Source)
    BY <1>1, <2>3 DEF Now
  <2>. QED BY <2>3, <2>4 DEF Outgoing
<1>6. SendingAs'
  <2>. SUFFICES ASSUME sent > 0
                PROVE  /\ pc'[Source] <= Len(code[Source]) /\ Now(Source)'.op = "send"
                       /\ sent < Len(Outgoing')
                       /\ \E g \in Trainers : Now(Source)'.path = To(g) /\ got[g] = Begun(Outgoing', sent)
    BY <1>1 DEF SendingAs
  <2>. QED BY <1>5 DEF BatchInv, SendingAs
<1>7. HoldingAs'
  BY <1>1, <1>5 DEF BatchInv, HoldingAs
<1>8. ASSUME NEW g \in Trainers, AtEnds(g), pc'[g] <= Len(code[g]), Waits(code[g][pc'[g]])
      PROVE  rollout_batch[g] = Delivered(Batch(code[g][pc'[g]].step))
  <2>0. g \in Processes
    BY DEF Processes
  <2>1. CASE g \in ps
    <3>1. pc'[g] = pc[g] + 1 /\ Now(g).op # "recv"
      BY <2>0, <2>1 DEF Moved
    <3>2. Follows(Now(g), code[g][pc'[g]]) /\ pc[g] <= Len(code[g])
      BY <1>8, <3>1, ComesFrom DEF Now
    <3>3. Waits(Now(g)) /\ Now(g).step = code[g][pc'[g]].step
      BY <1>8, <3>1, <3>2 DEF Follows
    <3>. QED BY <1>8, <3>2, <3>3 DEF BatchInv, TakenAs
  <2>2. CASE g \notin ps
    <3>1. pc'[g] = pc[g]
      BY <2>0, <2>2 DEF Moved
    <3>. QED BY <1>8, <3>1 DEF BatchInv, TakenAs, Now
  <2>. QED BY <2>1, <2>2
<1>9. TakenAs'
  BY <1>1, <1>8 DEF TakenAs, Now
<1>. QED BY <1>1, <1>4, <1>6, <1>7, <1>9 DEF BatchInv
LEMMA ToApart == \A g, h : To(g) = To(h) => g = h
BY DEF To

LEMMA SendsAStep ==
    ASSUME BatchInv, pc[Source] <= Len(code[Source]), Now(Source).op = "send"
    PROVE  Now(Source).step \in 1..Steps
<1>1. WellFormed(code[Source], TRUE) /\ pc[Source] \in Nat \ {0}
  BY SourceApart DEF BatchInv, ProgramsAs, CountersAs
<1>2. SendsSteps(code[Source]) /\ Len(code[Source]) \in Nat
  BY <1>1, ListIs DEF WellFormed
<1>3. pc[Source] \in 1..Len(code[Source])
  BY <1>1, <1>2
<1>. QED BY <1>2, <1>3 DEF SendsSteps, Now

(* What a receiver has of the batch that is being sent to it.              *)
LEMMA ReceivedIs ==
    ASSUME BatchInv, NEW g \in Trainers, pc[Source] <= Len(code[Source]),
           Now(Source).op = "send", Now(Source).path = To(g), ~Whole(got[g])
    PROVE  /\ Now(Source).step \in 1..Steps
           /\ sent \in 0..Len(Outgoing) /\ sent < Len(Outgoing) /\ got[g] = Begun(Outgoing, sent)
<1>1. job.mode \in Modes
  BY DEF BatchInv, ProgramsAs
<1>2. Now(Source).step \in 1..Steps
  BY SendsAStep
<1>3. IsList(Outgoing) /\ Len(Outgoing) \in Nat \ {0}
  BY <1>1, <1>2, MessagesAre DEF Outgoing
<1>4. sent \in Nat
  BY DEF BatchInv, CountersAs
<1>5. CASE sent > 0
  <2>1. PICK h \in Trainers : Now(Source).path = To(h) /\ got[h] = Begun(Outgoing, sent)
    BY <1>5 DEF BatchInv, SendingAs
  <2>2. h = g
    BY <2>1, ToApart
  <2>3. sent < Len(Outgoing)
    BY <1>5 DEF BatchInv, SendingAs
  <2>. QED BY <1>2, <1>3, <1>4, <2>1, <2>2, <2>3
<1>6. CASE sent = 0
  <2>1. got[g] = <<>>
    <3>1. ASSUME NEW s \in 1..Steps, got[g] = Messages[job.mode][s] PROVE Whole(got[g])
      BY <1>1, <3>1, MessagesAre DEF Whole
    <3>. QED BY <1>6, <3>1 DEF BatchInv, HoldingAs
  <2>2. Begun(Outgoing, 0) = <<>>
    BY <1>3, BegunIs
  <2>. QED BY <1>2, <1>3, <1>4, <1>6, <2>1, <2>2
<1>. QED BY <1>4, <1>5, <1>6

LEMMA DeliverStep ==
    ASSUME BatchInv, NEW g \in Trainers, Deliver(g)
    PROVE  BatchInv'
<1>. DEFINE out == Outgoing
            message == Messages[job.mode][Now(Source).step][sent + 1]
<1>1. /\ At(Source, "send") /\ Now(Source).path = To(g) /\ ~Whole(got[g])
      /\ got' = [got EXCEPT ![g] = Append(@, message)]
      /\ IF sent + 1 = Len(out) THEN sent' = 0 /\ Advance({Source})
                                ELSE sent' = sent + 1 /\ UNCHANGED pc
      /\ UNCHANGED <<job, code, rollout_batch>>
  BY DEF Deliver, Outgoing
<1>2. pc[Source] <= Len(code[Source]) /\ Now(Source).op = "send"
  BY <1>1 DEF At, Running, Now
<1>3. /\ Now(Source).step \in 1..Steps
      /\ sent \in 0..Len(out) /\ sent < Len(out) /\ got[g] = Begun(out, sent)
  BY <1>1, <1>2, ReceivedIs
<1>4. /\ ProgramsAs' /\ Source' = Source /\ Trainers' = Trainers /\ Processes' = Processes
      /\ \A h : AtEnds(h)' <=> AtEnds(h)
  BY <1>1, ProgramsStay DEF BatchInv
<1>5. Source \notin Trainers /\ Source \in Processes
  BY SourceApart DEF BatchInv
<1>6. CountersAs /\ job.mode \in Modes
  BY DEF BatchInv, ProgramsAs
<1>7. IsList(out) /\ Len(out) \in Nat \ {0} /\ out = Messages[job.mode][Now(Source).step]
  BY <1>3, <1>6, MessagesAre DEF Outgoing
<1>8. Append(Begun(out, sent), out[sent + 1]) = Begun(out, sent + 1)
  BY <1>3, <1>7, BegunIs
<1>9. g \in DOMAIN got
  BY <1>6 DEF CountersAs, Processes
<1>10. got'[g] = Begun(out, sent + 1) /\ \A h \in Trainers : h # g => got'[h] = got[h]
  <2>1. message = out[sent + 1]
    BY DEF Outgoing
  <2>. HIDE DEF message, out
  <2>. QED BY <1>1, <1>3, <1>8, <1>9, <2>1
<1>11. ASSUME NEW h \in Trainers, h # g
       PROVE  got[h] = <<>> \/ \E s \in 1..Steps : got[h] = Messages[job.mode][s]
  BY <1>1, <1>11, ToApart DEF BatchInv, HoldingAs
<1>12. ASSUME NEW h \in Trainers PROVE pc'[h] = pc[h]
  BY <1>1, <1>5, <1>6 DEF Advance, CountersAs, Processes
<1>13. TakenAs'
  BY <1>1, <1>4, <1>12 DEF BatchInv, TakenAs, Now
<1>. HIDE DEF out, message
<1>14. DOMAIN got' = Processes /\ DOMAIN rollout_batch' = Processes /\ sent \in Nat
  BY <1>1, <1>6 DEF CountersAs
<1>15. CASE sent + 1 = Len(out)
  <2>1. sent' = 0 /\ pc' \in [Processes -> Nat \ {0}]
    BY <1>1, <1>6, <1>15 DEF Advance, CountersAs
  <2>2. CountersAs'
    BY <1>4, <1>14, <2>1 DEF CountersAs
  <2>3. SendingAs'
    BY <2>1 DEF SendingAs
  <2>4. got'[g] = out
    BY <1>7, <1>10, <1>15, BegunIs
  <2>5. \A h \in Trainers : got'[h] = <<>> \/ \E s \in 1..Steps : got'[h] = Messages[job.mode][s]
    BY <1>3, <1>7, <1>10, <1>11, <2>4
  <2>6. HoldingAs'
    BY <1>1, <1>4, <2>5 DEF HoldingAs
  <2>. QED BY <1>4, <1>13, <2>2, <2>3, <2>6 DEF BatchInv
<1>16. CASE sent + 1 # Len(out)
  <2>1. sent' = sent + 1 /\ pc' = pc /\ code' = code /\ job' = job
    BY <1>1, <1>16
  <2>2. CountersAs'
    BY <1>4, <1>6, <1>14, <2>1 DEF CountersAs
  <2>3. Now(Source)' = Now(Source) /\ Outgoing' = out
    BY <1>4, <2>1 DEF Now, Outgoing, out
  <2>4. sent + 1 < Len(out)
    BY <1>3, <1>7, <1>14, <1>16
  <2>5. SendingAs'
    <3>1. /\ pc'[Source] <= Len(code'[Source]) /\ Now(Source)'.op = "send" /\ sent' < Len(Outgoing')
          /\ Now(Source)'.path = To(g) /\ got'[g] = Begun(Outgoing', sent')
      BY <1>1, <1>2, <1>10, <2>1, <2>3, <2>4
    <3>. QED BY <1>4, <3>1 DEF SendingAs
  <2>6. ASSUME NEW h \in Trainers
        PROVE  \/ got'[h] = <<>> \/ \E s \in 1..Steps : got'[h] = Messages[job.mode][s]
               \/ sent' > 0 /\ Now(Source)'.path = To(h)
    BY <1>1, <1>10, <1>11, <1>14, <2>1, <2>3
  <2>7. HoldingAs'
    BY <1>4, <2>1, <2>6 DEF HoldingAs
  <2>. QED BY <1>4, <1>13, <2>2, <2>5, <2>7 DEF BatchInv
<1>. QED BY <1>15, <1>16

LEMMA TakeStep ==
    ASSUME BatchInv, NEW g \in Trainers, Take(g)
    PROVE  BatchInv'
<1>. DEFINE taken == Unpack(got[g][1], Tail(got[g]))
<1>1. /\ At(g, "recv") /\ Whole(got[g])
      /\ got' = [got EXCEPT ![g] = <<>>] /\ rollout_batch' = [rollout_batch EXCEPT ![g] = taken]
      /\ IF Accepted(taken, Now(g).step) THEN Advance({g}) ELSE UNCHANGED pc
      /\ UNCHANGED <<job, code, sent>>
  BY DEF Take
<1>2. /\ ProgramsAs' /\ Source' = Source /\ Trainers' = Trainers /\ Processes' = Processes
      /\ \A h : AtEnds(h)' <=> AtEnds(h)
  BY <1>1, ProgramsStay DEF BatchInv
<1>3. Source \notin Trainers /\ Source \in Processes /\ g \in Processes
  BY SourceApart DEF BatchInv, Processes
<1>4. CountersAs /\ job.mode \in Modes
  BY DEF BatchInv, ProgramsAs
<1>5. ASSUME sent > 0 PROVE Now(Source).path # To(g)
  <2>. SUFFICES ASSUME Now(Source).path = To(g) PROVE FALSE
    OBVIOUS
  <2>1. /\ pc[Source] <= Len(code[Source]) /\ Now(Source).op = "send" /\ sent < Len(Outgoing)
    BY <1>5 DEF BatchInv, SendingAs
  <2>2. PICK h \in Trainers : Now(Source).path = To(h) /\ got[h] = Begun(Outgoing, sent)
    BY <1>5 DEF BatchInv, SendingAs
  <2>3. got[g] = Begun(Outgoing, sent)
    BY <2>2, ToApart
  <2>4. Now(Source).step \in 1..Steps
    BY <1>3, <2>1, SendsAStep
  <2>5. /\ IsList(Outgoing) /\ Len(Outgoing) \in Nat
        /\ Len(Outgoing) = 1 + Len(Expected(Outgoing[1]))
    <3>1. Outgoing = Messages[job.mode][Now(Source).step]
      BY DEF Outgoing
    <3>. QED BY <1>4, <2>4, <3>1, MessagesAre
  <2>6. sent \in 0..Len(Outgoing)
    BY <1>4, <2>1, <2>5 DEF CountersAs
  <2>7. Len(got[g]) = sent /\ got[g][1] = Outgoing[1]
    BY <1>5, <2>3, <2>5, <2>6, BegunIs
  <2>8. Len(got[g]) = 1 + Len(Expected(got[g][1]))
    BY <1>1 DEF Whole
  <2>. QED BY <2>1, <2>5, <2>6, <2>7, <2>8
<1>6. PICK s \in 1..Steps : got[g] = Messages[job.mode][s]
  <2>1. got[g] # <<>>
    BY <1>1 DEF Whole
  <2>. QED BY <1>5, <2>1 DEF BatchInv, HoldingAs
<1>7. taken = Delivered(Batch(s)) /\ taken.step = s
  BY <1>4, <1>6, MessagesAre
<1>. HIDE DEF taken
<1>8. /\ got'[g] = <<>> /\ rollout_batch'[g] = taken
      /\ \A h \in Trainers : h # g => got'[h] = got[h] /\ rollout_batch'[h] = rollout_batch[h]
  BY <1>1, <1>3, <1>4 DEF CountersAs
<1>9. pc' \in [Processes -> Nat \ {0}] /\ \A h \in Processes : h # g => pc'[h] = pc[h]
  BY <1>1, <1>3, <1>4 DEF Advance, CountersAs
<1>10. CountersAs'
  BY <1>1, <1>2, <1>4, <1>9 DEF CountersAs
<1>11. Now(Source)' = Now(Source) /\ Outgoing' = Outgoing /\ pc'[Source] = pc[Source]
  <2>1. pc'[Source] = pc[Source]
    BY <1>3, <1>9
  <2>2. Now(Source)' = Now(Source)
    BY <1>1, <1>2, <2>1 DEF Now
  <2>. QED BY <1>1, <2>1, <2>2 DEF Outgoing
<1>12. SendingAs'
  <2>. SUFFICES ASSUME sent > 0
                PROVE  /\ pc[Source] <= Len(code[Source]) /\ Now(Source).op = "send"
                       /\ sent < Len(Outgoing)
                       /\ \E h \in Trainers : Now(Source).path = To(h) /\ got'[h] = Begun(Outgoing, sent)
    BY <1>1, <1>2, <1>11 DEF SendingAs
  <2>1. PICK h \in Trainers : Now(Source).path = To(h) /\ got[h] = Begun(Outgoing, sent)
    BY DEF BatchInv, SendingAs
  <2>2. h # g
    BY <1>5, <2>1
  <2>. QED BY <1>8, <2>1, <2>2 DEF BatchInv, SendingAs
<1>13. HoldingAs'
  <2>1. ASSUME NEW h \in Trainers
        PROVE  \/ got'[h] = <<>> \/ \E x \in 1..Steps : got'[h] = Messages[job.mode][x]
               \/ sent > 0 /\ Now(Source).path = To(h)
    BY <1>8 DEF BatchInv, HoldingAs
  <2>. QED BY <1>1, <1>2, <1>11, <2>1 DEF HoldingAs
<1>14. ASSUME NEW h \in Trainers, AtEnds(h), pc'[h] <= Len(code[h]), Waits(code[h][pc'[h]])
       PROVE  rollout_batch'[h] = Delivered(Batch(code[h][pc'[h]].step))
  <2>1. CASE h # g
    <3>1. pc'[h] = pc[h] /\ rollout_batch'[h] = rollout_batch[h]
      BY <1>8, <1>9, <2>1 DEF Processes
    <3>. QED BY <1>14, <3>1 DEF BatchInv, TakenAs, Now
  <2>2. CASE h = g
    <3>1. Now(g).op = "recv"
      BY <1>1 DEF At, Now
    <3>2. CASE Accepted(taken, Now(g).step)
      <4>1. pc'[g] = pc[g] + 1 /\ s = Now(g).step
        BY <1>1, <1>3, <1>7, <3>2 DEF Advance, Accepted
      <4>2. Follows(Now(g), code[g][pc'[g]])
        BY <1>14, <2>2, <4>1, ComesFrom DEF Now
      <4>3. Now(g).step = code[g][pc'[g]].step
        BY <1>14, <2>2, <4>2 DEF Follows
      <4>. QED BY <1>7, <1>8, <2>2, <4>1, <4>3
    <3>3. CASE ~Accepted(taken, Now(g).step)
      <4>1. pc'[g] = pc[g]
        BY <1>1, <3>3
      <4>2. ~Waits(Now(g))
        BY <3>1 DEF Waits
      <4>. QED BY <1>14, <2>2, <4>1, <4>2 DEF Now
    <3>. QED BY <3>2, <3>3
  <2>. QED BY <2>1, <2>2
<1>15. TakenAs'
  BY <1>1, <1>2, <1>14 DEF TakenAs, Now
<1>. QED BY <1>2, <1>10, <1>12, <1>13, <1>15 DEF BatchInv
LEMMA RelaunchStep ==
    ASSUME BatchInv, Relaunch
    PROVE  BatchInv'
<1>1. /\ pc' = [p \in Processes |-> 1] /\ sent' = 0 /\ got' = [p \in Processes |-> <<>>]
      /\ rollout_batch' = [p \in Processes |-> NoBatch] /\ UNCHANGED <<job, code>>
  BY DEF Relaunch, Fresh
<1>2. /\ ProgramsAs' /\ Source' = Source /\ Trainers' = Trainers /\ Processes' = Processes
      /\ \A g : AtEnds(g)' <=> AtEnds(g)
  BY <1>1, ProgramsStay DEF BatchInv
<1>3. CountersAs'
  BY <1>1, <1>2 DEF CountersAs
<1>4. Trainers \subseteq Processes
  BY DEF Processes
<1>5. SendingAs' /\ HoldingAs'
  BY <1>1, <1>2, <1>4 DEF SendingAs, HoldingAs
<1>6. ASSUME NEW g \in Trainers, AtEnds(g), pc'[g] <= Len(code[g]) PROVE ~Waits(code[g][pc'[g]])
  <2>1. pc'[g] = 1
    BY <1>1, <1>4
  <2>2. IsList(code[g]) /\ InOrder(code[g])
    BY <1>6 DEF BatchInv, ProgramsAs, WellFormed
  <2>3. Len(code[g]) > 0
    BY <1>6, <2>1, <2>2, ListIs
  <2>. QED BY <2>1, <2>2, <2>3 DEF InOrder
<1>7. TakenAs'
  BY <1>1, <1>2, <1>6 DEF TakenAs, Now
<1>. QED BY <1>2, <1>3, <1>5, <1>7 DEF BatchInv

LEMMA BatchStep == BatchInv /\ [Next]_vars => BatchInv'
<1>. SUFFICES ASSUME BatchInv, [Next]_vars PROVE BatchInv'
  OBVIOUS
<1>1. ASSUME UNCHANGED <<job, code, pc, sent, got, rollout_batch>> PROVE BatchInv'
  <2>1. Moved({})
    BY <1>1 DEF Moved, BatchInv, CountersAs
  <2>. QED BY <1>1, <2>1, Moving
<1>2. ASSUME NEW p \in Processes, Write(p) \/ Read(p) \/ Train(p) \/ RemoveFiles(p) PROVE BatchInv'
  <2>1. Advance({p}) /\ UNCHANGED <<job, code, sent, got, rollout_batch>>
    BY <1>2 DEF Write, Read, Train, RemoveFiles
  <2>2. Now(p).op \notin {"send", "recv"}
    BY <1>2 DEF Write, Read, Train, RemoveFiles, At, Now
  <2>3. Moved({p})
    BY <2>1 DEF Advance, Moved
  <2>. QED BY <2>1, <2>2, <2>3, Moving
<1>3. ASSUME NEW p \in Processes, Return(p) \/ GiveUp(p) \/ Crash(p) PROVE BatchInv'
  BY <1>1, <1>3 DEF Return, GiveUp, Crash
<1>4. ASSUME NEW path, CommInit(path) \/ Barrier(path) PROVE BatchInv'
  <2>1. PICK op \in {"init", "barrier"} : Meet(path, op)
    BY <1>4 DEF CommInit, Barrier
  <2>2. Moved(MembersOf(path)) /\ UNCHANGED <<job, code, sent, got, rollout_batch>>
    BY <2>1 DEF Meet, Advance, Moved
  <2>3. \A p \in MembersOf(path) : Now(p).op \notin {"send", "recv"}
    BY <2>1 DEF Meet, At, Now
  <2>. QED BY <2>2, <2>3, Moving
<1>5. ASSUME NEW g \in Trainers, Deliver(g) \/ Take(g) PROVE BatchInv'
  BY <1>5, DeliverStep, TakeStep
<1>6. CASE Relaunch
  BY <1>6, RelaunchStep
<1>7. CASE UNCHANGED vars
  BY <1>1, <1>7 DEF vars
<1>. QED BY <1>2, <1>3, <1>4, <1>5, <1>6, <1>7 DEF Next, Work

LEMMA BatchInvHolds == Spec => []BatchInv
BY BatchInit, BatchStep, PTL DEF Spec

(* In any arrangement, from any start step and over any number of launches *)
(* a stage that takes batches never trains on a batch of another step, nor *)
(* on one of which a tensor was cut wrong or is missing.                   *)
THEOREM BatchesAreOfTheirStep == Spec => []BatchOfThisStep
<1>1. BatchInv => BatchOfThisStep
  BY DEF BatchInv, TakenAs, BatchOfThisStep, At, Running, Waits, Now
<1>. QED BY <1>1, BatchInvHolds, PTL

(* Between the source and a stage that is receiving from it, what has been *)
(* received is what has been sent of the batch, and the next message is of *)
(* the dtype and the length the receiver waits for: nothing but the order  *)
(* tells the messages apart (NCCLGpuBatchReceiver::recv).                  *)
Receiving(g) ==
    At(Source, "send") /\ Now(Source).path = To(g) /\ At(g, "recv") /\ ~Whole(got[g])
Due(g) == Expected(got[g][1])[sent]
MessagesInOrder ==
    \A g \in Trainers : Receiving(g) =>
        /\ sent < Len(Outgoing) /\ got[g] = Begun(Outgoing, sent)
        /\ sent > 0 => /\ Outgoing[sent + 1].dtype = Due(g).dtype
                       /\ Len(Outgoing[sent + 1].data) = Due(g).numel

(* No receiver ever takes one message for another.                         *)
THEOREM NoMessageIsMistaken == Spec => []MessagesInOrder
<1>1. ASSUME BatchInv, NEW g \in Trainers, Receiving(g)
      PROVE  /\ sent < Len(Outgoing) /\ got[g] = Begun(Outgoing, sent)
             /\ sent > 0 => /\ Outgoing[sent + 1].dtype = Due(g).dtype
                            /\ Len(Outgoing[sent + 1].data) = Due(g).numel
  <2>1. pc[Source] <= Len(code[Source]) /\ Now(Source).op = "send"
    BY <1>1 DEF Receiving, At, Running, Now
  <2>2. /\ Now(Source).step \in 1..Steps /\ sent \in 0..Len(Outgoing) /\ sent < Len(Outgoing)
        /\ got[g] = Begun(Outgoing, sent)
    BY <1>1, <2>1, ReceivedIs DEF Receiving
  <2>. DEFINE out == Outgoing
  <2>3. /\ IsList(out) /\ Len(out) \in Nat
        /\ \A n \in 1..(Len(out) - 1) :
              /\ out[n + 1].dtype = Expected(out[1])[n].dtype
              /\ Len(out[n + 1].data) = Expected(out[1])[n].numel
    <3>1. job.mode \in Modes
      BY <1>1 DEF BatchInv, ProgramsAs
    <3>2. out = Messages[job.mode][Now(Source).step]
      BY DEF Outgoing
    <3>. HIDE DEF out
    <3>3. PICK s \in 1..Steps : out = Messages[job.mode][s]
      BY <2>2, <3>2
    <3>4. Len(out) \in Nat \ {0}
      BY <3>1, <3>3, MessagesAre
    <3>. QED BY <3>1, <3>3, <3>4, MessagesAre
  <2>4. sent > 0 => got[g][1] = out[1]
    <3>. HIDE DEF out
    <3>1. got[g] = Begun(out, sent) /\ sent \in 0..Len(out)
      BY <2>2 DEF out
    <3>. QED BY <2>3, <3>1, BegunIs
  <2>5. sent > 0 => sent \in 1..(Len(out) - 1)
    BY <2>2, <2>3
  <2>. QED BY <2>2, <2>3, <2>4, <2>5 DEF Due
<1>2. BatchInv => MessagesInOrder
  BY <1>1 DEF MessagesInOrder
<1>. QED BY <1>2, BatchInvHolds, PTL
=============================================================================
