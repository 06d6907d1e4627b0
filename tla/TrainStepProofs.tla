--------------------------- MODULE TrainStepProofs ---------------------------
(***************************************************************************)
(* Proofs about the collectives of an optimizer step, for arrangements and *)
(* buckets of any size and any number of steps.                            *)
(***************************************************************************)
EXTENDS TrainStep, TopologyProofs, FiniteSetTheorems

-----------------------------------------------------------------------------
(* Lists                                                                   *)

(* Picking the names that are wanted goes along the list.                  *)
PicksTo(f, names, wanted) ==
    /\ f[0] = <<>>
    /\ \A i \in 1..Len(names) :
         f[i] = IF names[i] \in wanted THEN Append(f[i - 1], names[i]) ELSE f[i - 1]
    /\ Among(names, wanted) = f[Len(names)]

LEMMA AmongRuns ==
    ASSUME NEW S, NEW names \in Seq(S), NEW wanted
    PROVE  \E f : /\ PicksTo(f, names, wanted)
                  /\ \A i \in 0..Len(names) : f[i] \in Seq(S \cap wanted)
<1>. DEFINE n == Len(names)
            T == Seq(S \cap wanted)
            Step(x, i) == IF names[i] \in wanted THEN Append(x, names[i]) ELSE x
            Rec(f) == f = [i \in 0..n |-> IF i = 0 THEN <<>> ELSE Step(f[i - 1], i)]
            next == [x \in T \X (1..n) |-> Step(x[1], x[2])]
<1>1. n \in Nat /\ \A i \in 1..n : names[i] \in S
  OBVIOUS
<1>2. <<>> \in T /\ \A x \in T, i \in 1..n : Step(x, i) \in T
  BY <1>1
<1>3. \E f : Rec(f)
  <2>1. \A x \in T, i \in 1..n : next[<<x, i>>] = Step(x, i)
    OBVIOUS
  <2>. HIDE DEF next, Step, T, n
  <2>2. StaysIn(T, n, <<>>, next)
    BY <1>1, <1>2, <2>1 DEF StaysIn
  <2>3. PICK f : RunsAlong(f, T, n, <<>>, next)
    BY <2>2, Recursion
  <2>4. f \in [0..n -> T] /\ f[0] = <<>> /\ \A i \in 1..n : f[i] = next[<<f[i - 1], i>>]
    BY <2>3 DEF RunsAlong
  <2>5. f = [i \in 0..n |-> IF i = 0 THEN <<>> ELSE Step(f[i - 1], i)]
    <3>1. ASSUME NEW i \in 1..n PROVE f[i] = Step(f[i - 1], i)
      <4>1. f[i - 1] \in T
        BY <1>1, <2>4
      <4>. QED BY <2>1, <2>4, <4>1
    <3>2. \A i \in 0..n : i = 0 \/ (i # 0 /\ i \in 1..n)
      BY <1>1
    <3>3. ASSUME NEW i \in 0..n PROVE f[i] = IF i = 0 THEN <<>> ELSE Step(f[i - 1], i)
      BY <2>4, <3>1, <3>2
    <3>. QED BY <2>4, <3>3
  <2>. QED BY <2>5
<1>4. PICK f : Rec(f) /\ Among(names, wanted) = f[n]
  <2>. DEFINE f == CHOOSE g : Rec(g)
  <2>1. Rec(f)
    BY <1>3
  <2>2. Among(names, wanted) = f[n]
    BY DEF Among
  <2>. QED BY <2>1, <2>2
<1>5. \A i \in 0..n : f[i] = IF i = 0 THEN <<>> ELSE Step(f[i - 1], i)
  BY <1>4, Zenon
<1>6. f[0] = <<>> /\ \A i \in 1..n : f[i] = Step(f[i - 1], i)
  <2>1. \A i \in 1..n : i \in 0..n /\ i # 0
    OBVIOUS
  <2>2. 0 \in 0..n
    BY <1>1
  <2>. HIDE DEF Step
  <2>. QED BY <1>5, <2>1, <2>2
<1>7. ASSUME NEW k \in 0..n PROVE f[k] \in T
  <2>1. k \in Nat /\ \A i \in 1..k : i \in 1..n
    BY <1>1
  <2>. HIDE DEF Step, T
  <2>2. KeepsTo(f, T, k)
    BY <1>2, <1>6, <2>1 DEF KeepsTo
  <2>. QED BY <2>2, AlongType
<1>8. PicksTo(f, names, wanted)
  BY <1>4, <1>6 DEF PicksTo
<1>. QED BY <1>7, <1>8

(* The names of a list that are wanted are names of the list.              *)
LEMMA AmongType ==
    ASSUME NEW S, NEW names \in Seq(S), NEW wanted
    PROVE  Among(names, wanted) \in Seq(S \cap wanted)
<1>1. PICK f : /\ PicksTo(f, names, wanted)
               /\ \A i \in 0..Len(names) : f[i] \in Seq(S \cap wanted)
  BY AmongRuns
<1>2. Len(names) \in 0..Len(names)
  OBVIOUS
<1>. QED BY <1>1, <1>2 DEF PicksTo

(* Filling buckets goes along the entries.                                 *)
Filled(S) == [closed : Seq(Seq(S)), current : Seq(S), size : Nat]
Fill(b, e, limit) == Put(IF Fits(b, e, limit) THEN b ELSE Flush(b), e)
FillsTo(f, entries, limit) ==
    /\ f[0] = Open
    /\ \A i \in 1..Len(entries) : f[i] = Fill(f[i - 1], entries[i], limit)
    /\ Buckets(entries, limit) = Flush(f[Len(entries)]).closed

LEMMA FilledType ==
    ASSUME NEW S, \A e \in S : e.size \in Nat
    PROVE  /\ Open \in Filled(S)
           /\ \A b \in Filled(S) : Flush(b) \in Filled(S)
           /\ \A b \in Filled(S), e \in S : \A limit : Fill(b, e, limit) \in Filled(S)
<1>1. Open \in Filled(S)
  BY DEF Open, Filled
<1>2. \A b \in Filled(S) : Flush(b) \in Filled(S)
  BY DEF Flush, Filled
<1>3. ASSUME NEW b \in Filled(S), NEW e \in S PROVE Put(b, e) \in Filled(S)
  <2>1. Append(b.current, e) \in Seq(S) /\ b.size + e.size \in Nat
    BY DEF Filled
  <2>2. \A x \in Seq(S), y \in Nat : [b EXCEPT !.current = x, !.size = y] \in Filled(S)
    BY DEF Filled
  <2>3. Put(b, e) = [b EXCEPT !.current = Append(b.current, e), !.size = b.size + e.size]
    BY DEF Put
  <2>. QED BY <2>1, <2>2, <2>3
<1>. QED BY <1>1, <1>2, <1>3 DEF Fill

LEMMA BucketsRuns ==
    ASSUME NEW S, \A e \in S : e.size \in Nat, NEW entries \in Seq(S), NEW limit
    PROVE  \E f : FillsTo(f, entries, limit) /\ \A i \in 0..Len(entries) : f[i] \in Filled(S)
<1>. DEFINE n == Len(entries)
            T == Filled(S)
            Step(x, i) == Fill(x, entries[i], limit)
            Rec(f) == f = [i \in 0..n |-> IF i = 0 THEN Open ELSE Step(f[i - 1], i)]
            next == [x \in T \X (1..n) |-> Step(x[1], x[2])]
<1>1. n \in Nat /\ \A i \in 1..n : entries[i] \in S
  OBVIOUS
<1>2. Open \in T
  BY FilledType
<1>3. \A x \in T, i \in 1..n : Step(x, i) \in T
  BY <1>1, FilledType
<1>4. \E f : Rec(f) /\ \A i \in 0..n : f[i] \in T
  <2>1. \A x \in T, i \in 1..n : next[<<x, i>>] = Step(x, i)
    OBVIOUS
  <2>. HIDE DEF next, Step, T, n
  <2>2. StaysIn(T, n, Open, next)
    BY <1>1, <1>2, <1>3, <2>1 DEF StaysIn
  <2>3. PICK f : RunsAlong(f, T, n, Open, next)
    BY <2>2, Recursion
  <2>4. f \in [0..n -> T] /\ f[0] = Open /\ \A i \in 1..n : f[i] = next[<<f[i - 1], i>>]
    BY <2>3 DEF RunsAlong
  <2>5. f = [i \in 0..n |-> IF i = 0 THEN Open ELSE Step(f[i - 1], i)]
    <3>1. ASSUME NEW i \in 1..n PROVE f[i] = Step(f[i - 1], i)
      <4>1. f[i - 1] \in T
        BY <1>1, <2>4
      <4>. QED BY <2>1, <2>4, <4>1
    <3>2. \A i \in 0..n : i = 0 \/ (i # 0 /\ i \in 1..n)
      BY <1>1
    <3>3. ASSUME NEW i \in 0..n PROVE f[i] = IF i = 0 THEN Open ELSE Step(f[i - 1], i)
      BY <2>4, <3>1, <3>2
    <3>. QED BY <2>4, <3>3
  <2>. QED BY <2>4, <2>5
<1>5. PICK f : Rec(f) /\ Buckets(entries, limit) = Flush(f[n]).closed
  <2>. DEFINE f == CHOOSE g : Rec(g)
  <2>1. Rec(f)
    BY <1>4
  <2>2. Buckets(entries, limit) = Flush(f[n]).closed
    BY DEF Buckets, Fill
  <2>. QED BY <2>1, <2>2
<1>6. \A i \in 0..n : f[i] = IF i = 0 THEN Open ELSE Step(f[i - 1], i)
  BY <1>5, Zenon
<1>. HIDE DEF T
<1>7. f[0] = Open /\ \A i \in 1..n : f[i] = Step(f[i - 1], i)
  <2>1. \A i \in 1..n : i \in 0..n /\ i # 0
    OBVIOUS
  <2>2. 0 \in 0..n
    BY <1>1
  <2>. QED BY <1>6, <2>1, <2>2
<1>8. ASSUME NEW k \in 0..n PROVE f[k] \in T
  <2>1. k \in Nat /\ \A i \in 1..k : i \in 1..n
    BY <1>1
  <2>. HIDE DEF Step
  <2>2. KeepsTo(f, T, k)
    BY <1>2, <1>3, <1>7, <2>1 DEF KeepsTo
  <2>. QED BY <2>2, AlongType
<1>. QED BY <1>5, <1>7, <1>8 DEF FillsTo, T

(* Buckets are lists of the entries.                                       *)
LEMMA BucketsType ==
    ASSUME NEW S, \A e \in S : e.size \in Nat, NEW entries \in Seq(S), NEW limit
    PROVE  Buckets(entries, limit) \in Seq(Seq(S))
<1>1. PICK f : FillsTo(f, entries, limit) /\ \A i \in 0..Len(entries) : f[i] \in Filled(S)
  BY BucketsRuns
<1>2. Flush(f[Len(entries)]) \in Filled(S)
  <2>1. Len(entries) \in 0..Len(entries)
    OBVIOUS
  <2>. QED BY <1>1, <2>1, FilledType
<1>. QED BY <1>1, <1>2 DEF FillsTo, Filled

(* NumelOf is the last of the running sums.                                *)
LEMMA NumelRuns ==
    ASSUME NEW numels \in Seq(Nat)
    PROVE  \E f : Sums(f, numels) /\ NumelOf(numels) = f[Len(numels)]
<1>. DEFINE n == Len(numels)
            Step(x, i) == x + numels[i]
            Rec(f) == f = [i \in 0..n |-> IF i = 0 THEN 0 ELSE Step(f[i - 1], i)]
            next == [x \in Nat \X (1..n) |-> Step(x[1], x[2])]
<1>1. n \in Nat /\ \A i \in 1..n : numels[i] \in Nat
  OBVIOUS
<1>2. \A x \in Nat, i \in 1..n : Step(x, i) \in Nat
  BY <1>1
<1>3. \E f : Rec(f)
  <2>1. \A x \in Nat, i \in 1..n : next[<<x, i>>] = Step(x, i)
    OBVIOUS
  <2>. HIDE DEF next, Step, n
  <2>2. StaysIn(Nat, n, 0, next)
    BY <1>1, <1>2, <2>1 DEF StaysIn
  <2>3. PICK f : RunsAlong(f, Nat, n, 0, next)
    BY <2>2, Recursion
  <2>4. f \in [0..n -> Nat] /\ f[0] = 0 /\ \A i \in 1..n : f[i] = next[<<f[i - 1], i>>]
    BY <2>3 DEF RunsAlong
  <2>5. f = [i \in 0..n |-> IF i = 0 THEN 0 ELSE Step(f[i - 1], i)]
    <3>1. ASSUME NEW i \in 1..n PROVE f[i] = Step(f[i - 1], i)
      <4>1. i - 1 \in 0..n
        BY <1>1
      <4>2. f[i - 1] \in Nat
        BY <2>4, <4>1
      <4>. QED BY <2>1, <2>4, <4>2
    <3>2. \A i \in 0..n : i = 0 \/ (i # 0 /\ i \in 1..n)
      BY <1>1
    <3>3. ASSUME NEW i \in 0..n PROVE f[i] = IF i = 0 THEN 0 ELSE Step(f[i - 1], i)
      BY <2>4, <3>1, <3>2
    <3>. QED BY <2>4, <3>3
  <2>. QED BY <2>5
<1>4. PICK f : Rec(f) /\ NumelOf(numels) = f[n]
  <2>. DEFINE f == CHOOSE g : Rec(g)
  <2>1. Rec(f)
    BY <1>3
  <2>2. NumelOf(numels) = f[n]
    BY DEF NumelOf
  <2>. QED BY <2>1, <2>2
<1>5. \A i \in 0..n : f[i] = IF i = 0 THEN 0 ELSE Step(f[i - 1], i)
  BY <1>4, Zenon
<1>6. f[0] = 0 /\ \A i \in 1..n : f[i] = Step(f[i - 1], i)
  BY <1>1, <1>5
<1>7. \A i \in 1..n : f[i] = f[i - 1] + numels[i]
  BY <1>6
<1>8. Sums(f, numels)
  BY <1>6, <1>7, SumsType DEF Sums
<1>. QED BY <1>4, <1>8

(* The sum of a list of sizes is a size.                                   *)
LEMMA NumelOfType ==
    ASSUME NEW numels \in Seq(Nat)
    PROVE  NumelOf(numels) \in Nat
<1>1. PICK f : Sums(f, numels) /\ NumelOf(numels) = f[Len(numels)]
  BY NumelRuns
<1>. QED BY <1>1 DEF Sums

LEMMA FlattenType ==
    ASSUME NEW S, NEW seqs \in Seq(Seq(S)), seqs # <<>>
    PROVE  FlattenSeq(seqs) \in Seq(S)
<1>1. Closed(Seq(S))
  BY DEF Closed
<1>. QED BY <1>1, FlattenIn

(* What is left of a list when its last n are.                             *)
Ending(s, n) == [i \in 1..n |-> s[Len(s) - n + i]]

LEMMA EndingWhole ==
    ASSUME NEW s, IsList(s)
    PROVE  Ending(s, Len(s)) = s
<1>1. Len(s) \in Nat /\ s = [i \in 1..Len(s) |-> s[i]]
  BY ListIs
<1>2. \A i \in 1..Len(s) : Len(s) - Len(s) + i = i
  BY <1>1
<1>3. Ending(s, Len(s)) = [i \in 1..Len(s) |-> s[i]]
  BY <1>2 DEF Ending
<1>. QED BY <1>1, <1>3

LEMMA EndingIs ==
    ASSUME NEW s, IsList(s), NEW n \in 0..Len(s)
    PROVE  /\ IsList(Ending(s, n)) /\ Len(Ending(s, n)) = n
           /\ Ending(s, n) = <<>> <=> n = 0
           /\ n > 0 => /\ Head(Ending(s, n)) = s[Len(s) - n + 1]
                       /\ Tail(Ending(s, n)) = Ending(s, n - 1)
<1>. DEFINE e == Ending(s, n)
<1>1. n \in Nat /\ Len(s) \in Nat
  BY ListIs
<1>2. e = [i \in 1..n |-> e[i]] /\ \A i \in 1..n : e[i] = s[Len(s) - n + i]
  BY DEF Ending
<1>3. IsList(e) /\ Len(e) = n
  BY <1>1, <1>2, ListOf
<1>4. PICK S : e \in Seq(S)
  BY <1>3 DEF IsList
<1>. HIDE DEF e
<1>5. e = <<>> <=> n = 0
  BY <1>3, <1>4
<1>6. ASSUME n > 0 PROVE Head(e) = s[Len(s) - n + 1] /\ Tail(e) = Ending(s, n - 1)
  <2>1. Head(e) = e[1] /\ 1 \in 1..n
    BY <1>1, <1>3, <1>4, <1>6
  <2>2. Tail(e) = [i \in 1..(n - 1) |-> e[i + 1]]
    <3>1. e # <<>> /\ e \in Seq(S)
      BY <1>4, <1>5, <1>6
    <3>2. Tail(e) \in Seq(S) /\ Len(Tail(e)) = Len(e) - 1
      BY <3>1
    <3>3. Tail(e) = [i \in 1..Len(Tail(e)) |-> Tail(e)[i]]
      BY <3>2, ListIs DEF IsList
    <3>4. \A i \in 1..Len(Tail(e)) : Tail(e)[i] = e[i + 1]
      BY <3>1
    <3>. QED BY <1>3, <3>2, <3>3, <3>4
  <2>3. \A i \in 1..(n - 1) : e[i + 1] = s[Len(s) - (n - 1) + i]
    <3>1. \A i \in 1..(n - 1) : i + 1 \in 1..n /\ Len(s) - n + (i + 1) = Len(s) - (n - 1) + i
      BY <1>1
    <3>. QED BY <1>2, <3>1
  <2>4. Tail(e) = Ending(s, n - 1)
    BY <2>2, <2>3 DEF Ending
  <2>. QED BY <1>2, <2>1, <2>4
<1>. QED BY <1>3, <1>5, <1>6 DEF e

(* The n-th call from the end of two lists laid end to end.                *)
LEMMA FromTheEnd ==
    ASSUME NEW s, NEW t, IsList(s), IsList(t), NEW n \in 1..(Len(s) + Len(t))
    PROVE  LET m == Len(s \o t) - n + 1
           IN  /\ n <= Len(t) => (s \o t)[m] = t[Len(t) - n + 1]
               /\ n > Len(t) => (s \o t)[m] = s[Len(s) - (n - Len(t)) + 1]
<1>1. Len(s) \in Nat /\ Len(t) \in Nat /\ Len(s \o t) = Len(s) + Len(t)
  BY ListIs, Concat
<1>. DEFINE m == Len(s \o t) - n + 1
<1>2. ASSUME n <= Len(t) PROVE (s \o t)[m] = t[Len(t) - n + 1]
  <2>1. Len(t) - n + 1 \in 1..Len(t) /\ m = Len(s) + (Len(t) - n + 1)
    BY <1>1, <1>2
  <2>. HIDE DEF m
  <2>. QED BY <2>1, Concat
<1>3. ASSUME n > Len(t) PROVE (s \o t)[m] = s[Len(s) - (n - Len(t)) + 1]
  <2>1. m \in 1..Len(s) /\ m = Len(s) - (n - Len(t)) + 1
    BY <1>1, <1>3
  <2>. HIDE DEF m
  <2>. QED BY <2>1, Concat
<1>. QED BY <1>2, <1>3

-----------------------------------------------------------------------------
(* The collectives of a rank, as a matter of the configuration, the step   *)
(* and the rank alone                                                      *)

Rings == {"context", "tensor", "expert", "data"}
DataOf(c, r) == Coordinates(c.dims, r).data
NamesOf(c, r) == StageNames(c, Coordinates(c.dims, r))

(* The parameters that have a gradient after the backward passes of step s *)
(* (and, unless the optimizer is the flat one, keep it).                   *)
HasGrad(c, s, r, n) ==
    n = "expert" => IF c.mode = "flat" THEN DataOf(c, r) \in c.routed[s]
                    ELSE \E t \in 1..s : DataOf(c, r) \in c.routed[t]
Wants(c, s, r) == {n \in Members(NamesOf(c, r)) : HasGrad(c, s, r, n)}
Listed(c, s, r) == Among(NamesOf(c, r), Wants(c, s, r))

EntryOf(n) == [name |-> n, size |-> Size[n], kind |-> "bf16"]
Entries(c, s, r) == {EntryOf(n) : n \in Wants(c, s, r)}

Sync(c, sending, comm, op) ==
    LET cuts == Buckets(Sized(sending), c.bucket)
    IN  IF c.dims[comm] = 1 THEN <<>>
        ELSE [i \in DOMAIN cuts |-> Call(comm, op, cuts[i], BucketSize(cuts[i]))]

ByPiece(c, names, kind) ==
    LET dp == c.dims.data
        pieces == Pieces(ShardSize(NumelOf(NumelsOf(names)), dp), ShardBucket(c.bucket, dp))
    IN  [i \in DOMAIN pieces |-> Call("data", kind, pieces[i], dp * pieces[i].numel)]

ByOwner(c, names, owner, q) ==
    LET owned == {names[i] : i \in OwnedBy(owner, q)}
        cuts == Buckets(Sized(Among(names, owned)), c.bucket)
    IN  [i \in DOMAIN cuts |-> Call("data", "broadcast", [root |-> q, bucket |-> cuts[i]],
                                    BucketSize(cuts[i]))]

(* The calls of step s on one communicator.                                *)
Part(c, s, r, comm) ==
    CASE comm = "context" -> Sync(c, Listed(c, s, r), "context", "sum")
      [] comm = "tensor" -> Sync(c, Among(Listed(c, s, r), TpReplicated), "tensor", "mean")
      [] comm = "expert" -> Sync(c, Among(Listed(c, s, r), EpReplicated), "expert", "mean")
      [] comm = "data" -> IF c.mode = "flat" THEN ByPiece(c, NamesOf(c, r), "scatter")
                          ELSE Sync(c, Listed(c, s, r), "data", "mean")

NormCall(c) == Call(IF c.mode = "flat" THEN "full" ELSE "model", "norm", <<>>, 1)

Script(c, s, r) ==
    Part(c, s, r, "context") \o Part(c, s, r, "tensor") \o Part(c, s, r, "expert")
        \o Part(c, s, r, "data") \o <<NormCall(c)>>

Owners(c, r) == GreedyOwner(NumelsOf(NamesOf(c, r)), c.dims.data)
Shares(c, r) ==
    IF c.skip \/ c.mode = "full" THEN <<>>
    ELSE IF c.mode = "flat" THEN ByPiece(c, NamesOf(c, r), "gather")
    ELSE IF c.dims.data = 1 THEN <<>>
    ELSE FlattenSeq([i \in 1..c.dims.data |->
                        ByOwner(c, NamesOf(c, r), Owners(c, r), i - 1)])

LEMMA ConfigType ==
    ASSUME NEW c \in Configs
    PROVE  /\ IsDims(c.dims) /\ c.bucket \in Nat \ {0} /\ c.dims.data \in Nat \ {0}
           /\ \A s \in 1..MaxSteps : c.mode # "flat" =>
                  c.routed[s] \in {{}, 0..(c.dims.data - 1)}
<1>1. c.dims \in Arrangements /\ c.bucket \in BucketSizes
  BY DEF Configs
<1>2. IsDims(c.dims) /\ c.bucket \in Nat \ {0}
  BY <1>1, TrainAssumption
<1>3. \A s \in 1..MaxSteps : c.mode # "flat" => c.routed[s] \in {{}, 0..(c.dims.data - 1)}
  BY DEF Configs
<1>. QED BY <1>2, <1>3, DimsType

AllNames == {"embed", "norm", "proj", "expert"}

LEMMA NamesType ==
    ASSUME NEW c, NEW r
    PROVE  /\ NamesOf(c, r) \in Seq(AllNames)
           /\ \A n \in Members(NamesOf(c, r)) : n \in AllNames
           /\ \A n \in AllNames : Size[n] \in Nat \ {0}
<1>1. \A info : StageNames(c, info) \in Seq(AllNames)
  <2>. TAKE info
  <2>0. <<>> \in Seq(AllNames) /\ <<"embed">> \in Seq(AllNames) /\ <<"expert">> \in Seq(AllNames)
    BY DEF AllNames
  <2>1. (IF HasEmbed(c, info) THEN <<"embed">> ELSE <<>>) \in Seq(AllNames)
    BY <2>0
  <2>2. (IF Moe(c) THEN <<"expert">> ELSE <<>>) \in Seq(AllNames)
    BY <2>0
  <2>3. <<"norm", "proj">> \in Seq(AllNames)
    BY DEF AllNames
  <2>. QED BY <2>1, <2>2, <2>3 DEF StageNames
<1>2. NamesOf(c, r) \in Seq(AllNames)
  BY <1>1 DEF NamesOf
<1>3. \A n \in Members(NamesOf(c, r)) : n \in AllNames
  BY <1>2 DEF Members
<1>4. \A n \in AllNames : Size[n] \in Nat \ {0}
  BY TrainAssumption DEF AllNames
<1>. QED BY <1>2, <1>3, <1>4

LEMMA SizedType ==
    ASSUME NEW W, NEW names \in Seq(W)
    PROVE  Sized(names) \in Seq({EntryOf(n) : n \in W})
<1>. DEFINE S == {EntryOf(n) : n \in W}
<1>1. Len(names) \in Nat /\ DOMAIN names = 1..Len(names) /\ \A i \in 1..Len(names) : names[i] \in W
  OBVIOUS
<1>2. \A i \in 1..Len(names) : EntryOf(names[i]) \in S
  BY <1>1
<1>3. Sized(names) = [i \in 1..Len(names) |-> EntryOf(names[i])]
  BY <1>1 DEF Sized, EntryOf
<1>. HIDE DEF S
<1>4. Sized(names) \in [1..Len(names) -> S]
  BY <1>2, <1>3
<1>5. Sized(names) \in Seq(S)
  BY <1>1, <1>4
<1>. QED BY <1>5 DEF S

LEMMA EntriesType ==
    ASSUME NEW c, NEW s, NEW r
    PROVE  /\ Wants(c, s, r) \subseteq AllNames
           /\ \A e \in Entries(c, s, r) : /\ e.name \in Wants(c, s, r)
                                          /\ e.size = Size[e.name] /\ e.size \in Nat \ {0}
<1>1. Wants(c, s, r) \subseteq AllNames
  BY NamesType DEF Wants
<1>2. ASSUME NEW n \in Wants(c, s, r)
      PROVE  /\ EntryOf(n).name \in Wants(c, s, r) /\ EntryOf(n).size = Size[EntryOf(n).name]
             /\ EntryOf(n).size \in Nat \ {0}
  <2>1. Size[n] \in Nat \ {0}
    BY <1>1, NamesType
  <2>. QED BY <2>1 DEF EntryOf
<1>. QED BY <1>1, <1>2 DEF Entries

LEMMA ListedType ==
    ASSUME NEW c, NEW s, NEW r
    PROVE  /\ Listed(c, s, r) \in Seq(Wants(c, s, r))
           /\ \A kinds : Among(Listed(c, s, r), kinds) \in Seq(Wants(c, s, r))
<1>1. Listed(c, s, r) \in Seq(AllNames \cap Wants(c, s, r))
  BY NamesType, AmongType DEF Listed
<1>2. AllNames \cap Wants(c, s, r) \subseteq Wants(c, s, r)
  OBVIOUS
<1>3. Listed(c, s, r) \in Seq(Wants(c, s, r))
  BY <1>1, <1>2
<1>4. ASSUME NEW kinds PROVE Among(Listed(c, s, r), kinds) \in Seq(Wants(c, s, r))
  <2>1. Among(Listed(c, s, r), kinds) \in Seq(Wants(c, s, r) \cap kinds)
    BY <1>3, AmongType
  <2>. QED BY <2>1
<1>. QED BY <1>3, <1>4

(* A list of calls on one communicator.                                    *)
OnComm(calls, comm, kinds) ==
    IsList(calls) /\ \A i \in 1..Len(calls) : calls[i].comm = comm /\ calls[i].kind \in kinds
BringsBuckets(calls, S) ==
    \A i \in 1..Len(calls) : calls[i].kind \in {"sum", "mean"} => calls[i].data \in Seq(S)

LEMMA SyncType ==
    ASSUME NEW S, \A e \in S : e.size \in Nat, NEW c, NEW sending, Sized(sending) \in Seq(S),
           NEW comm, NEW op
    PROVE  /\ OnComm(Sync(c, sending, comm, op), comm, {op})
           /\ BringsBuckets(Sync(c, sending, comm, op), S)
<1>. DEFINE cuts == Buckets(Sized(sending), c.bucket)
            calls == Sync(c, sending, comm, op)
<1>1. cuts \in Seq(Seq(S))
  BY BucketsType
<1>2. Len(cuts) \in Nat /\ DOMAIN cuts = 1..Len(cuts) /\ \A i \in 1..Len(cuts) : cuts[i] \in Seq(S)
  BY <1>1
<1>3. CASE c.dims[comm] = 1
  <2>1. calls = <<>>
    BY <1>3 DEF Sync
  <2>2. <<>> \in Seq({})
    OBVIOUS
  <2>. QED BY <2>1, <2>2 DEF OnComm, BringsBuckets, IsList
<1>4. CASE c.dims[comm] # 1
  <2>1. calls = [i \in 1..Len(cuts) |-> Call(comm, op, cuts[i], BucketSize(cuts[i]))]
    BY <1>2, <1>4 DEF Sync
  <2>. HIDE DEF calls, cuts
  <2>2. \A i \in 1..Len(cuts) : calls[i] = Call(comm, op, cuts[i], BucketSize(cuts[i]))
    BY <2>1
  <2>3. calls = [i \in 1..Len(cuts) |-> calls[i]]
    BY <2>1
  <2>4. IsList(calls) /\ Len(calls) = Len(cuts)
    BY <1>2, <2>3, ListOf
  <2>5. \A i \in 1..Len(calls) : calls[i].comm = comm /\ calls[i].kind = op /\ calls[i].data = cuts[i]
    <3>. SUFFICES ASSUME NEW i \in 1..Len(calls)
                  PROVE  calls[i].comm = comm /\ calls[i].kind = op /\ calls[i].data = cuts[i]
      OBVIOUS
    <3>1. calls[i] = [comm |-> comm, kind |-> op, data |-> cuts[i], size |-> BucketSize(cuts[i])]
      BY <2>2, <2>4 DEF Call
    <3>. QED BY <3>1
  <2>6. OnComm(calls, comm, {op}) /\ BringsBuckets(calls, S)
    BY <1>2, <2>4, <2>5 DEF OnComm, BringsBuckets
  <2>. QED BY <2>6 DEF calls
<1>. QED BY <1>3, <1>4

LEMMA PiecesType ==
    ASSUME NEW c \in Configs, NEW r, NEW kind
    PROVE  OnComm(ByPiece(c, NamesOf(c, r), kind), "data", {kind})
<1>. DEFINE names == NamesOf(c, r)
            dp == c.dims.data
            numel == NumelOf(NumelsOf(names))
            size == ShardSize(numel, dp)
            piece == ShardBucket(c.bucket, dp)
            many == (size + piece - 1) \div piece
            pieces == Pieces(size, piece)
            calls == ByPiece(c, names, kind)
<1>1. dp \in Nat \ {0} /\ c.bucket \in Nat \ {0}
  BY ConfigType
<1>2. numel \in Nat
  <2>1. names \in Seq(AllNames) /\ \A n \in AllNames : Size[n] \in Nat
    BY NamesType
  <2>. HIDE DEF names
  <2>2. NumelsOf(names) = [i \in 1..Len(names) |-> Size[names[i]]]
    BY <2>1 DEF NumelsOf
  <2>3. \A i \in 1..Len(names) : Size[names[i]] \in Nat
    BY <2>1
  <2>4. NumelsOf(names) \in Seq(Nat)
    BY <2>1, <2>2, <2>3
  <2>. QED BY <2>4, NumelOfType
<1>. HIDE DEF names, numel
<1>3. size \in Nat
  <2>1. numel % dp \in 0..(dp - 1)
    BY <1>1, <1>2, DigitsOf
  <2>2. PaddedNumel(numel, dp) \in Nat
    BY <1>1, <1>2, <2>1 DEF PaddedNumel
  <2>. QED BY <1>1, <2>2, DigitsOf DEF ShardSize
<1>4. piece \in Nat \ {0}
  <2>1. c.bucket \div dp \in Nat
    BY <1>1, DigitsOf
  <2>. QED BY <2>1 DEF ShardBucket, Most
<1>5. many \in Nat
  <2>. HIDE DEF size, piece
  <2>1. size + piece - 1 \in Nat
    BY <1>3, <1>4
  <2>. QED BY <1>4, <2>1, DigitsOf
<1>. HIDE DEF size, piece
<1>6. DOMAIN pieces = 1..many
  BY DEF Pieces
<1>. HIDE DEF pieces, many
<1>7. calls = [i \in 1..many |-> Call("data", kind, pieces[i], dp * pieces[i].numel)]
  BY <1>6 DEF ByPiece, pieces, size, piece, numel
<1>. HIDE DEF calls
<1>8. calls = [i \in 1..many |-> calls[i]]
  BY <1>7
<1>9. IsList(calls) /\ Len(calls) = many
  BY <1>5, <1>8, ListOf
<1>10. ASSUME NEW i \in 1..Len(calls) PROVE calls[i].comm = "data" /\ calls[i].kind = kind
  <2>1. calls[i] = Call("data", kind, pieces[i], dp * pieces[i].numel)
    BY <1>7, <1>9
  <2>. QED BY <2>1 DEF Call
<1>11. OnComm(calls, "data", {kind})
  BY <1>9, <1>10 DEF OnComm
<1>. QED BY <1>11 DEF calls, names

LEMMA OwnerType ==
    ASSUME NEW c, NEW names \in Seq(AllNames), NEW owner, NEW q
    PROVE  OnComm(ByOwner(c, names, owner, q), "data", {"broadcast"})
<1>. DEFINE owned == {names[i] : i \in OwnedBy(owner, q)}
            S == {EntryOf(n) : n \in AllNames \cap owned}
            cuts == Buckets(Sized(Among(names, owned)), c.bucket)
            calls == ByOwner(c, names, owner, q)
            Nth(i) == Call("data", "broadcast", [root |-> q, bucket |-> cuts[i]],
                           BucketSize(cuts[i]))
<1>1. calls = [i \in DOMAIN cuts |-> Nth(i)]
  BY DEF ByOwner
<1>2. cuts \in Seq(Seq(S))
  <2>. HIDE DEF owned
  <2>1. Among(names, owned) \in Seq(AllNames \cap owned)
    BY AmongType
  <2>2. Sized(Among(names, owned)) \in Seq(S)
    BY <2>1, SizedType
  <2>3. \A e \in S : e.size \in Nat
    <3>1. \A n \in AllNames : EntryOf(n).size \in Nat
      BY NamesType DEF EntryOf
    <3>. QED BY <3>1
  <2>. HIDE DEF S
  <2>. QED BY <2>2, <2>3, BucketsType
<1>3. Len(cuts) \in Nat /\ DOMAIN cuts = 1..Len(cuts)
  BY <1>2
<1>4. \A i : Nth(i).comm = "data" /\ Nth(i).kind = "broadcast"
  BY DEF Call
<1>. HIDE DEF calls, Nth, cuts
<1>5. calls = [i \in 1..Len(cuts) |-> calls[i]] /\ \A i \in 1..Len(cuts) : calls[i] = Nth(i)
  BY <1>1, <1>3
<1>6. IsList(calls) /\ Len(calls) = Len(cuts)
  BY <1>3, <1>5, ListOf
<1>7. OnComm(calls, "data", {"broadcast"})
  BY <1>4, <1>5, <1>6 DEF OnComm
<1>. QED BY <1>7 DEF calls

LEMMA SharesType ==
    ASSUME NEW c \in Configs, NEW r
    PROVE  OnComm(Shares(c, r), "data", {"gather", "broadcast"})
<1>1. OnComm(<<>>, "data", {"gather", "broadcast"})
  <2>1. <<>> \in Seq({})
    OBVIOUS
  <2>. QED BY <2>1 DEF OnComm, IsList
<1>2. CASE c.mode = "flat"
  <2>1. OnComm(ByPiece(c, NamesOf(c, r), "gather"), "data", {"gather"})
    BY PiecesType
  <2>2. OnComm(ByPiece(c, NamesOf(c, r), "gather"), "data", {"gather", "broadcast"})
    BY <2>1 DEF OnComm
  <2>3. Shares(c, r) \in {<<>>, ByPiece(c, NamesOf(c, r), "gather")}
    BY <1>2 DEF Shares
  <2>. QED BY <1>1, <2>2, <2>3
<1>3. CASE c.mode # "flat"
  <2>. DEFINE n == c.dims.data
              Of(i) == ByOwner(c, NamesOf(c, r), Owners(c, r), i - 1)
              lists == [i \in 1..n |-> Of(i)]
              S == UNION {Elements(Of(i)) : i \in 1..n}
  <2>1. n \in Nat \ {0}
    BY ConfigType
  <2>2. \A i \in 1..n : OnComm(Of(i), "data", {"broadcast"})
    BY NamesType, OwnerType
  <2>. HIDE DEF n, Of
  <2>3. ASSUME NEW i \in 1..n PROVE Of(i) \in Seq(S) /\ \A x \in Elements(Of(i)) : x.comm = "data" /\ x.kind = "broadcast"
    <3>1. Len(Of(i)) \in Nat /\ DOMAIN Of(i) = 1..Len(Of(i)) /\ Of(i) = [j \in 1..Len(Of(i)) |-> Of(i)[j]]
      BY <2>2, ListIs DEF OnComm
    <3>2. \A j \in 1..Len(Of(i)) : Of(i)[j] \in S
      BY <3>1 DEF Elements
    <3>. HIDE DEF S
    <3>3. Of(i) \in [1..Len(Of(i)) -> S]
      BY <3>1, <3>2
    <3>4. Of(i) \in Seq(S)
      BY <3>1, <3>3
    <3>5. \A x \in Elements(Of(i)) : x.comm = "data" /\ x.kind = "broadcast"
      BY <2>2, <3>1 DEF OnComm, Elements
    <3>. QED BY <3>4, <3>5
  <2>4. \A x \in S : x.comm = "data" /\ x.kind = "broadcast"
    BY <2>3
  <2>. HIDE DEF S
  <2>5. lists \in Seq(Seq(S)) /\ lists # <<>>
    <3>1. lists \in [1..n -> Seq(S)]
      BY <2>3
    <3>. HIDE DEF lists
    <3>2. lists \in Seq(Seq(S)) /\ Len(lists) = n
      BY <2>1, <3>1
    <3>. QED BY <2>1, <3>2
  <2>. HIDE DEF lists
  <2>6. FlattenSeq(lists) \in Seq(S)
    BY <2>5, FlattenType
  <2>7. OnComm(FlattenSeq(lists), "data", {"gather", "broadcast"})
    <3>1. \A i \in 1..Len(FlattenSeq(lists)) : FlattenSeq(lists)[i] \in S
      BY <2>6
    <3>. QED BY <2>4, <2>6, <3>1 DEF OnComm, IsList
  <2>8. Shares(c, r) \in {<<>>, FlattenSeq(lists)}
    BY <1>3 DEF Shares, lists, Of, n
  <2>. QED BY <1>1, <2>7, <2>8
<1>. QED BY <1>2, <1>3

PartKinds == {"sum", "mean", "scatter"}

LEMMA PartType ==
    ASSUME NEW c \in Configs, NEW s, NEW r, NEW comm \in Rings
    PROVE  /\ OnComm(Part(c, s, r, comm), comm, PartKinds)
           /\ BringsBuckets(Part(c, s, r, comm), Entries(c, s, r))
<1>. DEFINE W == Wants(c, s, r)
            S == Entries(c, s, r)
            Typed(calls, on) == OnComm(calls, on, PartKinds) /\ BringsBuckets(calls, S)
<1>1. \A e \in S : e.size \in Nat
  BY EntriesType
<1>2. ASSUME NEW names \in Seq(W), NEW on, NEW op, op \in {"sum", "mean"}
      PROVE  Typed(Sync(c, names, on, op), on)
  <2>1. Sized(names) \in Seq(S)
    BY SizedType DEF Entries
  <2>2. OnComm(Sync(c, names, on, op), on, {op}) /\ BringsBuckets(Sync(c, names, on, op), S)
    BY <1>1, <2>1, SyncType
  <2>. QED BY <1>2, <2>2 DEF OnComm, PartKinds
<1>3. Typed(ByPiece(c, NamesOf(c, r), "scatter"), "data")
  <2>1. OnComm(ByPiece(c, NamesOf(c, r), "scatter"), "data", {"scatter"})
    BY PiecesType
  <2>. QED BY <2>1 DEF OnComm, PartKinds, BringsBuckets
<1>4. Listed(c, s, r) \in Seq(W) /\ \A kinds : Among(Listed(c, s, r), kinds) \in Seq(W)
  BY ListedType
<1>. DEFINE part == Part(c, s, r, comm)
<1>5. \/ comm = "context" /\ part = Sync(c, Listed(c, s, r), "context", "sum")
      \/ comm = "tensor" /\ part = Sync(c, Among(Listed(c, s, r), TpReplicated), "tensor", "mean")
      \/ comm = "expert" /\ part = Sync(c, Among(Listed(c, s, r), EpReplicated), "expert", "mean")
      \/ comm = "data" /\ part = Sync(c, Listed(c, s, r), "data", "mean")
      \/ comm = "data" /\ part = ByPiece(c, NamesOf(c, r), "scatter")
  BY DEF Part, Rings
<1>. HIDE DEF W, S, Typed, part
<1>6. \A names \in Seq(W) : /\ Typed(Sync(c, names, comm, "sum"), comm)
                            /\ Typed(Sync(c, names, comm, "mean"), comm)
  BY <1>2
<1>7. Typed(part, comm)
  <2>1. CASE comm = "context" /\ part = Sync(c, Listed(c, s, r), "context", "sum")
    BY <1>4, <1>6, <2>1
  <2>2. CASE comm = "tensor" /\ part = Sync(c, Among(Listed(c, s, r), TpReplicated), "tensor", "mean")
    BY <1>4, <1>6, <2>2
  <2>3. CASE comm = "expert" /\ part = Sync(c, Among(Listed(c, s, r), EpReplicated), "expert", "mean")
    BY <1>4, <1>6, <2>3
  <2>4. CASE comm = "data" /\ part = Sync(c, Listed(c, s, r), "data", "mean")
    BY <1>4, <1>6, <2>4
  <2>5. CASE comm = "data" /\ part = ByPiece(c, NamesOf(c, r), "scatter")
    BY <1>3, <2>5
  <2>. QED BY <1>5, <2>1, <2>2, <2>3, <2>4, <2>5
<1>. QED BY <1>7 DEF Typed, S, part

-----------------------------------------------------------------------------
(* Ranks of one group have the same calls to make                          *)

Beside(c, q, r, comm) ==
    \A a \in Axes \ {comm} : Coordinates(c.dims, q)[a] = Coordinates(c.dims, r)[a]

LEMMA NamesAgree ==
    ASSUME NEW c, NEW q, NEW r, NEW comm \in Rings, Beside(c, q, r, comm)
    PROVE  NamesOf(c, q) = NamesOf(c, r)
<1>1. Coordinates(c.dims, q).pipeline = Coordinates(c.dims, r).pipeline
  BY DEF Beside, Rings, Axes
<1>2. \A i, j : i.pipeline = j.pipeline => StageNames(c, i) = StageNames(c, j)
  BY DEF StageNames, HasEmbed
<1>. QED BY <1>1, <1>2 DEF NamesOf

LEMMA ListsAgree ==
    ASSUME NEW c \in Configs, NEW s \in 0..MaxSteps,
           NEW q \in Ranks(c.dims), NEW r \in Ranks(c.dims),
           NEW comm \in Rings, Beside(c, q, r, comm), comm # "data" \/ c.mode # "flat"
    PROVE  Listed(c, s, q) = Listed(c, s, r)
<1>1. NamesOf(c, q) = NamesOf(c, r)
  BY NamesAgree
<1>2. \A n : HasGrad(c, s, q, n) <=> HasGrad(c, s, r, n)
  <2>1. CASE comm # "data"
    <3>1. DataOf(c, q) = DataOf(c, r)
      BY <2>1 DEF Beside, DataOf, Axes
    <3>. QED BY <3>1 DEF HasGrad
  <2>2. CASE c.mode # "flat"
    <3>1. DataOf(c, q) \in 0..(c.dims.data - 1) /\ DataOf(c, r) \in 0..(c.dims.data - 1)
      BY ConfigType, CoordsOfRank, CoordsType DEF DataOf
    <3>2. \A t \in 1..s : c.routed[t] \in {{}, 0..(c.dims.data - 1)}
      <4>1. MaxSteps \in Nat
        BY TrainAssumption
      <4>2. \A t \in 1..s : t \in 1..MaxSteps
        BY <4>1
      <4>. QED BY <2>2, <4>2, ConfigType
    <3>3. \A t \in 1..s : DataOf(c, q) \in c.routed[t] <=> DataOf(c, r) \in c.routed[t]
      BY <3>1, <3>2
    <3>. QED BY <2>2, <3>3 DEF HasGrad
  <2>. QED BY <2>1, <2>2
<1>3. Wants(c, s, q) = Wants(c, s, r)
  BY <1>1, <1>2 DEF Wants
<1>. QED BY <1>1, <1>3 DEF Listed

LEMMA PartsAgree ==
    ASSUME NEW c \in Configs, NEW s \in 0..MaxSteps,
           NEW q \in Ranks(c.dims), NEW r \in Ranks(c.dims),
           NEW comm \in Rings, Beside(c, q, r, comm)
    PROVE  Part(c, s, q, comm) = Part(c, s, r, comm)
<1>1. CASE comm = "data" /\ c.mode = "flat"
  <2>1. NamesOf(c, q) = NamesOf(c, r)
    BY NamesAgree
  <2>2. Part(c, s, q, comm) = ByPiece(c, NamesOf(c, q), "scatter")
    BY <1>1 DEF Part
  <2>3. Part(c, s, r, comm) = ByPiece(c, NamesOf(c, r), "scatter")
    BY <1>1 DEF Part
  <2>. QED BY <2>1, <2>2, <2>3
<1>2. CASE ~(comm = "data" /\ c.mode = "flat")
  <2>1. Listed(c, s, q) = Listed(c, s, r)
    BY <1>2, ListsAgree
  <2>. QED BY <1>2, <2>1 DEF Part, Rings
<1>. QED BY <1>1, <1>2

LEMMA SharesAgree ==
    ASSUME NEW c, NEW q, NEW r, Beside(c, q, r, "data")
    PROVE  Shares(c, q) = Shares(c, r)
<1>1. NamesOf(c, q) = NamesOf(c, r)
  BY NamesAgree DEF Rings
<1>2. Owners(c, q) = Owners(c, r)
  BY <1>1 DEF Owners
<1>. QED BY <1>1, <1>2 DEF Shares

-----------------------------------------------------------------------------
(* How many calls are left on a communicator                               *)

After(c, s, r, comm) ==
    1 + (IF comm = "data" THEN 0 ELSE Len(Part(c, s, r, "data"))
            + (IF comm = "expert" THEN 0 ELSE Len(Part(c, s, r, "expert"))
                 + (IF comm = "tensor" THEN 0 ELSE Len(Part(c, s, r, "tensor")))))

(* Of the last n calls, how many are among the length calls that come      *)
(* before the last `after`.                                                *)
Within(n, after, length) ==
    IF n <= after THEN 0 ELSE IF n >= after + length THEN length ELSE n - after

SyncLeft(c, s, ph, n, r, comm) ==
    IF ph = "backward" THEN Len(Part(c, s, r, comm))
    ELSE IF ph = "sync" THEN Within(n, After(c, s, r, comm), Len(Part(c, s, r, comm)))
    ELSE 0
ShareLeft(c, ph, n, r) == IF ph = "share" THEN n ELSE Len(Shares(c, r))
Left(c, s, ph, n, r, comm) ==
    SyncLeft(c, s, ph, n, r, comm) + (IF comm = "data" THEN ShareLeft(c, ph, n, r) ELSE 0)

IsFrom(x, n, part, after) ==
    after < n /\ n <= after + Len(part) /\ x = part[Len(part) - (n - after) + 1]

LEMMA PartLength ==
    ASSUME NEW c \in Configs, NEW s, NEW r, NEW comm \in Rings
    PROVE  IsList(Part(c, s, r, comm)) /\ Len(Part(c, s, r, comm)) \in Nat
<1>1. IsList(Part(c, s, r, comm))
  BY PartType DEF OnComm
<1>. QED BY <1>1, ListIs

(* The call that comes next when n are left of the script.                 *)
LEMMA ScriptType ==
    ASSUME NEW c \in Configs, NEW s, NEW r
    PROVE  /\ IsList(Script(c, s, r)) /\ Len(Script(c, s, r)) \in Nat
           /\ \A comm \in Rings :
                Len(Script(c, s, r)) >= After(c, s, r, comm) + Len(Part(c, s, r, comm))
           /\ Len(Script(c, s, r)) = After(c, s, r, "context") + Len(Part(c, s, r, "context"))
           /\ \A n \in 1..Len(Script(c, s, r)) :
                LET x == Script(c, s, r)[Len(Script(c, s, r)) - n + 1]
                IN  \/ n = 1 /\ x = NormCall(c)
                    \/ \E comm \in Rings : IsFrom(x, n, Part(c, s, r, comm), After(c, s, r, comm))
<1>. DEFINE A == Part(c, s, r, "context")
            B == Part(c, s, r, "tensor")
            C == Part(c, s, r, "expert")
            D == Part(c, s, r, "data")
            E == <<NormCall(c)>>
            AB == A \o B
            ABC == AB \o C
            ABCD == ABC \o D
            S == ABCD \o E
<1>1. /\ IsList(A) /\ IsList(B) /\ IsList(C) /\ IsList(D)
      /\ Len(A) \in Nat /\ Len(B) \in Nat /\ Len(C) \in Nat /\ Len(D) \in Nat
  BY PartLength DEF Rings
<1>2. IsList(E) /\ Len(E) = 1 /\ E[1] = NormCall(c)
  <2>1. E \in Seq({NormCall(c)})
    OBVIOUS
  <2>. QED BY <2>1 DEF IsList
<1>3. /\ After(c, s, r, "data") = 1
      /\ After(c, s, r, "expert") = 1 + Len(D)
      /\ After(c, s, r, "tensor") = 1 + Len(D) + Len(C)
      /\ After(c, s, r, "context") = 1 + Len(D) + Len(C) + Len(B)
  BY <1>1 DEF After
<1>4. Script(c, s, r) = S
  BY DEF Script
<1>. HIDE DEF A, B, C, D, E
<1>5. IsList(AB) /\ Len(AB) = Len(A) + Len(B)
  BY <1>1, Concat
<1>6. IsList(ABC) /\ Len(ABC) = Len(A) + Len(B) + Len(C)
  <2>. HIDE DEF AB
  <2>. QED BY <1>1, <1>5, Concat
<1>7. IsList(ABCD) /\ Len(ABCD) = Len(A) + Len(B) + Len(C) + Len(D)
  <2>. HIDE DEF ABC
  <2>. QED BY <1>1, <1>6, Concat
<1>8. IsList(S) /\ Len(S) = Len(A) + Len(B) + Len(C) + Len(D) + 1
  <2>. HIDE DEF ABCD
  <2>1. IsList(S) /\ Len(S) = Len(ABCD) + Len(E)
    BY <1>2, <1>7, Concat
  <2>. HIDE DEF S
  <2>. QED BY <1>2, <1>7, <2>1
<1>9. ASSUME NEW n \in 1..Len(S)
      PROVE  LET x == S[Len(S) - n + 1]
             IN  \/ n = 1 /\ x = NormCall(c)
                 \/ IsFrom(x, n, D, 1)
                 \/ IsFrom(x, n, C, 1 + Len(D))
                 \/ IsFrom(x, n, B, 1 + Len(D) + Len(C))
                 \/ IsFrom(x, n, A, 1 + Len(D) + Len(C) + Len(B))
  <2>. DEFINE x == S[Len(S) - n + 1]
  <2>1. /\ n <= 1 => x = E[1 - n + 1]
        /\ n > 1 => x = ABCD[Len(ABCD) - (n - 1) + 1]
    <3>. HIDE DEF ABCD
    <3>1. n \in 1..(Len(ABCD) + Len(E))
      BY <1>1, <1>2, <1>7, <1>8
    <3>2. /\ n <= Len(E) => x = E[Len(E) - n + 1]
          /\ n > Len(E) => x = ABCD[Len(ABCD) - (n - Len(E)) + 1]
      <4>1. IsList(ABCD) /\ IsList(E)
        BY <1>2, <1>7
      <4>. QED BY <3>1, <4>1, FromTheEnd
    <3>. QED BY <1>2, <3>2
  <2>2. ASSUME NEW m \in 1..Len(ABCD)
        PROVE  LET y == ABCD[Len(ABCD) - m + 1]
               IN  /\ m <= Len(D) => y = D[Len(D) - m + 1]
                   /\ m > Len(D) => y = ABC[Len(ABC) - (m - Len(D)) + 1]
    <3>. HIDE DEF ABC
    <3>1. m \in 1..(Len(ABC) + Len(D))
      BY <1>1, <1>6, <1>7
    <3>2. IsList(ABC) /\ IsList(D)
      BY <1>1, <1>6
    <3>. QED BY <3>1, <3>2, FromTheEnd
  <2>3. ASSUME NEW m \in 1..Len(ABC)
        PROVE  LET y == ABC[Len(ABC) - m + 1]
               IN  /\ m <= Len(C) => y = C[Len(C) - m + 1]
                   /\ m > Len(C) => y = AB[Len(AB) - (m - Len(C)) + 1]
    <3>. HIDE DEF AB
    <3>1. m \in 1..(Len(AB) + Len(C))
      BY <1>1, <1>5, <1>6
    <3>2. IsList(AB) /\ IsList(C)
      BY <1>1, <1>5
    <3>. QED BY <3>1, <3>2, FromTheEnd
  <2>4. ASSUME NEW m \in 1..Len(AB)
        PROVE  LET y == AB[Len(AB) - m + 1]
               IN  /\ m <= Len(B) => y = B[Len(B) - m + 1]
                   /\ m > Len(B) => y = A[Len(A) - (m - Len(B)) + 1]
    <3>1. m \in 1..(Len(A) + Len(B))
      BY <1>1, <1>5
    <3>2. IsList(A) /\ IsList(B)
      BY <1>1
    <3>. QED BY <3>1, <3>2, FromTheEnd
  <2>. HIDE DEF S, ABCD, ABC, AB
  <2>5. CASE n = 1
    BY <1>2, <2>1, <2>5
  <2>6. CASE n > 1 /\ n <= 1 + Len(D)
    <3>1. n - 1 \in 1..Len(ABCD) /\ n - 1 <= Len(D)
      BY <1>1, <1>7, <1>8, <2>6
    <3>2. x = D[Len(D) - (n - 1) + 1]
      BY <2>1, <2>2, <2>6, <3>1
    <3>. QED BY <2>6, <3>2 DEF IsFrom
  <2>7. CASE n > 1 + Len(D) /\ n <= 1 + Len(D) + Len(C)
    <3>. DEFINE m == n - 1
                k == m - Len(D)
    <3>1. n > 1 /\ m \in 1..Len(ABCD) /\ m > Len(D) /\ k \in 1..Len(ABC) /\ k <= Len(C)
      BY <1>1, <1>6, <1>7, <1>8, <2>7
    <3>2. k = n - (1 + Len(D))
      BY <1>1
    <3>. HIDE DEF k
    <3>3. x = ABC[Len(ABC) - k + 1]
      BY <2>1, <2>2, <3>1 DEF k
    <3>4. x = C[Len(C) - k + 1]
      BY <2>3, <3>1, <3>3
    <3>. QED BY <2>7, <3>2, <3>4 DEF IsFrom
  <2>8. CASE n > 1 + Len(D) + Len(C)
    <3>. DEFINE m == n - 1
                k == m - Len(D)
                j == k - Len(C)
    <3>1. /\ n > 1 /\ m \in 1..Len(ABCD) /\ m > Len(D)
          /\ k \in 1..Len(ABC) /\ k > Len(C) /\ j \in 1..Len(AB)
      BY <1>1, <1>5, <1>6, <1>7, <1>8, <2>8
    <3>2. j = n - (1 + Len(D) + Len(C)) /\ j - Len(B) = n - (1 + Len(D) + Len(C) + Len(B))
      BY <1>1
    <3>. HIDE DEF k
    <3>3. x = ABC[Len(ABC) - k + 1]
      BY <2>1, <2>2, <3>1 DEF k
    <3>. HIDE DEF j
    <3>4. x = AB[Len(AB) - j + 1]
      BY <2>3, <3>1, <3>3 DEF j
    <3>5. CASE j <= Len(B)
      <4>1. x = B[Len(B) - j + 1]
        BY <2>4, <3>1, <3>4, <3>5
      <4>2. n <= 1 + Len(D) + Len(C) + Len(B)
        BY <1>1, <3>2, <3>5
      <4>. QED BY <2>8, <3>2, <4>1, <4>2 DEF IsFrom
    <3>6. CASE j > Len(B)
      <4>1. x = A[Len(A) - (j - Len(B)) + 1]
        BY <2>4, <3>1, <3>4, <3>6
      <4>2. /\ n > 1 + Len(D) + Len(C) + Len(B)
            /\ n <= 1 + Len(D) + Len(C) + Len(B) + Len(A)
        BY <1>1, <1>8, <3>2, <3>6
      <4>. QED BY <3>2, <4>1, <4>2 DEF IsFrom
    <3>7. Len(B) \in Int /\ j \in Int
      BY <1>1, <3>1
    <3>. QED BY <3>5, <3>6, <3>7
  <2>. QED BY <1>1, <2>5, <2>6, <2>7, <2>8
<1>10. \A comm \in Rings : Len(S) >= After(c, s, r, comm) + Len(Part(c, s, r, comm))
  <2>. HIDE DEF S
  <2>. QED BY <1>1, <1>3, <1>8 DEF Rings, A, B, C, D
<1>. HIDE DEF S
<1>11. ASSUME NEW n \in 1..Len(S)
       PROVE  LET x == S[Len(S) - n + 1]
              IN  \/ n = 1 /\ x = NormCall(c)
                  \/ \E comm \in Rings : IsFrom(x, n, Part(c, s, r, comm), After(c, s, r, comm))
  BY <1>3, <1>9 DEF Rings, A, B, C, D
<1>12. Len(S) \in Nat /\ Len(S) = After(c, s, r, "context") + Len(Part(c, s, r, "context"))
  BY <1>1, <1>3, <1>8 DEF A, B, C, D
<1>. QED BY <1>4, <1>8, <1>10, <1>11, <1>12

(* The call a rank has come to when n are left of the phase.               *)
Phases == {"backward", "sync", "share"}
Counted(c, s, ph, n, r) ==
    /\ n \in Nat
    /\ ph = "backward" => n = 0
    /\ ph = "sync" => n <= Len(Script(c, s, r))
    /\ ph = "share" => n <= Len(Shares(c, r))
CallAt(c, s, ph, n, r) ==
    IF ph = "sync" THEN Script(c, s, r)[Len(Script(c, s, r)) - n + 1]
    ELSE Shares(c, r)[Len(Shares(c, r)) - n + 1]

LEMMA SharesLength ==
    ASSUME NEW c \in Configs, NEW r
    PROVE  IsList(Shares(c, r)) /\ Len(Shares(c, r)) \in Nat
<1>1. IsList(Shares(c, r))
  BY SharesType DEF OnComm
<1>. QED BY <1>1, ListIs

LEMMA AfterType ==
    ASSUME NEW c \in Configs, NEW s, NEW r
    PROVE  /\ \A comm \in Rings : After(c, s, r, comm) \in Nat \ {0}
           /\ \A a, b \in Rings : a # b =>
                  \/ After(c, s, r, a) + Len(Part(c, s, r, a)) <= After(c, s, r, b)
                  \/ After(c, s, r, b) + Len(Part(c, s, r, b)) <= After(c, s, r, a)
<1>1. /\ Len(Part(c, s, r, "context")) \in Nat /\ Len(Part(c, s, r, "tensor")) \in Nat
      /\ Len(Part(c, s, r, "expert")) \in Nat /\ Len(Part(c, s, r, "data")) \in Nat
  BY PartLength DEF Rings
<1>. QED BY <1>1 DEF After, Rings

LEMMA LeftStarts ==
    ASSUME NEW c \in Configs, NEW s, NEW r, NEW comm \in Rings
    PROVE  /\ Left(c, s, "sync", Len(Script(c, s, r)), r, comm) = Left(c, s, "backward", 0, r, comm)
           /\ Left(c, s, "share", Len(Shares(c, r)), r, comm) = Left(c, s, "sync", 0, r, comm)
           /\ Left(c, s, "backward", 0, r, comm) =
                Len(Part(c, s, r, comm)) + (IF comm = "data" THEN Len(Shares(c, r)) ELSE 0)
           /\ Left(c, s, "share", 0, r, comm) = 0
<1>. DEFINE total == Len(Script(c, s, r))
            after == After(c, s, r, comm)
            length == Len(Part(c, s, r, comm))
            shares == Len(Shares(c, r))
<1>1. total \in Nat /\ total >= after + length
  BY ScriptType
<1>2. after \in Nat \ {0} /\ length \in Nat /\ shares \in Nat
  BY AfterType, PartLength, SharesLength
<1>. HIDE DEF total, after, length, shares
<1>3. Within(total, after, length) = length /\ Within(0, after, length) = 0
  BY <1>1, <1>2 DEF Within
<1>. QED BY <1>2, <1>3 DEF Left, SyncLeft, ShareLeft, total, after, length, shares

(* What taking the call x of the script, the n-th from its end, does.      *)
Takes(c, s, r, n, x) ==
    /\ x = NormCall(c) \/ x.comm \in Rings
    /\ x = NormCall(c) \/ (x.kind \in PartKinds /\ BringsBuckets(<<x>>, Entries(c, s, r)))
    /\ \A comm \in Rings :
         /\ SyncLeft(c, s, "sync", n - 1, r, comm) =
              SyncLeft(c, s, "sync", n, r, comm) - (IF x.comm = comm THEN 1 ELSE 0)
         /\ x.comm = comm =>
              /\ SyncLeft(c, s, "sync", n, r, comm) > 0
              /\ x = Part(c, s, r, comm)[Len(Part(c, s, r, comm))
                                           - SyncLeft(c, s, "sync", n, r, comm) + 1]

LEMMA PopSync ==
    ASSUME NEW c \in Configs, NEW s, NEW r, NEW n \in 1..Len(Script(c, s, r)),
           NEW x, x = Script(c, s, r)[Len(Script(c, s, r)) - n + 1]
    PROVE  Takes(c, s, r, n, x)
<1>. DEFINE After_(a) == After(c, s, r, a)
            Len_(a) == Len(Part(c, s, r, a))
<1>1. \A a \in Rings : After_(a) \in Nat \ {0} /\ Len_(a) \in Nat
  BY AfterType, PartLength
<1>2. \A a, b \in Rings : a # b =>
          After_(a) + Len_(a) <= After_(b) \/ After_(b) + Len_(b) <= After_(a)
  BY AfterType
<1>3. n \in Nat /\ n > 0
  BY ScriptType
<1>4. \A a \in Rings : \A m : SyncLeft(c, s, "sync", m, r, a) = Within(m, After_(a), Len_(a))
  BY DEF SyncLeft
<1>5. CASE n = 1 /\ x = NormCall(c)
  <2>1. x.comm \notin Rings
    BY <1>5 DEF NormCall, Call, Rings
  <2>2. ASSUME NEW a \in Rings PROVE Within(n - 1, After_(a), Len_(a)) = Within(n, After_(a), Len_(a))
    <3>1. After_(a) >= 1 /\ After_(a) \in Nat
      BY <1>1
    <3>. QED BY <1>5, <3>1 DEF Within
  <2>3. ASSUME NEW a \in Rings PROVE Within(n, After_(a), Len_(a)) = 0
    <3>1. After_(a) >= 1 /\ After_(a) \in Nat
      BY <1>1
    <3>. QED BY <1>5, <3>1 DEF Within
  <2>. HIDE DEF After_, Len_
  <2>4. ASSUME NEW a \in Rings
        PROVE  SyncLeft(c, s, "sync", n - 1, r, a) =
                  SyncLeft(c, s, "sync", n, r, a) - (IF x.comm = a THEN 1 ELSE 0)
    BY <1>4, <2>1, <2>2, <2>3
  <2>. QED BY <1>5, <2>1, <2>3, <2>4 DEF Takes
<1>6. ASSUME NEW a \in Rings, IsFrom(x, n, Part(c, s, r, a), After_(a))
      PROVE  /\ x.comm = a /\ x.kind \in PartKinds /\ BringsBuckets(<<x>>, Entries(c, s, r))
             /\ Within(n, After_(a), Len_(a)) = n - After_(a) /\ n - After_(a) > 0
             /\ Within(n - 1, After_(a), Len_(a)) = n - After_(a) - 1
             /\ x = Part(c, s, r, a)[Len(Part(c, s, r, a)) - (n - After_(a)) + 1]
             /\ \A b \in Rings \ {a} :
                    /\ Within(n, After_(b), Len_(b)) = Within(n - 1, After_(b), Len_(b))
                    /\ Within(n, After_(b), Len_(b)) \in Nat
  <2>. DEFINE i == Len_(a) - (n - After_(a)) + 1
  <2>1. After_(a) < n /\ n <= After_(a) + Len_(a) /\ x = Part(c, s, r, a)[i]
    BY <1>6 DEF IsFrom
  <2>2. i \in 1..Len_(a)
    BY <1>1, <1>3, <2>1
  <2>3. OnComm(Part(c, s, r, a), a, PartKinds) /\ BringsBuckets(Part(c, s, r, a), Entries(c, s, r))
    BY PartType
  <2>4. x.comm = a /\ x.kind \in PartKinds
    <3>. HIDE DEF i
    <3>. QED BY <2>1, <2>2, <2>3 DEF OnComm
  <2>5. x.kind \in {"sum", "mean"} => x.data \in Seq(Entries(c, s, r))
    <3>. HIDE DEF i
    <3>. QED BY <2>1, <2>2, <2>3 DEF BringsBuckets
  <2>6. BringsBuckets(<<x>>, Entries(c, s, r))
    <3>1. \A j \in 1..Len(<<x>>) : <<x>>[j] = x
      OBVIOUS
    <3>. QED BY <2>5, <3>1 DEF BringsBuckets
  <2>7. /\ Within(n, After_(a), Len_(a)) = n - After_(a) /\ n - After_(a) > 0
        /\ Within(n - 1, After_(a), Len_(a)) = n - After_(a) - 1
    <3>1. After_(a) \in Nat \ {0} /\ Len_(a) \in Nat
      BY <1>1
    <3>. HIDE DEF After_, Len_
    <3>2. n - After_(a) > 0 /\ n - After_(a) <= Len_(a)
      BY <1>3, <2>1, <3>1
    <3>3. Within(n, After_(a), Len_(a)) = n - After_(a)
      BY <1>3, <2>1, <3>1 DEF Within
    <3>4. Within(n - 1, After_(a), Len_(a)) = n - After_(a) - 1
      BY <1>3, <2>1, <3>1 DEF Within
    <3>. QED BY <3>2, <3>3, <3>4
  <2>8. ASSUME NEW b \in Rings \ {a}
        PROVE  /\ Within(n, After_(b), Len_(b)) = Within(n - 1, After_(b), Len_(b))
               /\ Within(n, After_(b), Len_(b)) \in Nat
    <3>1. After_(b) \in Nat /\ Len_(b) \in Nat /\ After_(a) \in Nat /\ Len_(a) \in Nat
      BY <1>1
    <3>2. After_(a) + Len_(a) <= After_(b) \/ After_(b) + Len_(b) <= After_(a)
      BY <1>2
    <3>. HIDE DEF After_, Len_
    <3>3. CASE After_(a) + Len_(a) <= After_(b)
      <4>1. n <= After_(b) /\ n - 1 <= After_(b)
        BY <1>3, <2>1, <3>1, <3>3
      <4>. QED BY <4>1 DEF Within
    <3>4. CASE After_(b) + Len_(b) <= After_(a)
      <4>1. n > After_(b) + Len_(b) /\ n - 1 >= After_(b) + Len_(b)
        BY <1>3, <2>1, <3>1, <3>4
      <4>. QED BY <1>3, <3>1, <4>1 DEF Within
    <3>. QED BY <3>2, <3>3, <3>4
  <2>. QED BY <2>1, <2>4, <2>6, <2>7, <2>8
<1>7. ASSUME NEW a \in Rings, IsFrom(x, n, Part(c, s, r, a), After_(a))
      PROVE  /\ x.comm \in Rings /\ x.kind \in PartKinds /\ BringsBuckets(<<x>>, Entries(c, s, r))
             /\ \A comm \in Rings :
                    /\ SyncLeft(c, s, "sync", n - 1, r, comm) =
                         SyncLeft(c, s, "sync", n, r, comm) - (IF x.comm = comm THEN 1 ELSE 0)
                    /\ x.comm = comm =>
                         /\ SyncLeft(c, s, "sync", n, r, comm) > 0
                         /\ x = Part(c, s, r, comm)[Len(Part(c, s, r, comm))
                                                      - SyncLeft(c, s, "sync", n, r, comm) + 1]
  <2>1. x.comm = a /\ x.kind \in PartKinds /\ BringsBuckets(<<x>>, Entries(c, s, r))
    BY <1>6, <1>7
  <2>2. /\ SyncLeft(c, s, "sync", n, r, a) = n - After_(a) /\ n - After_(a) > 0
        /\ SyncLeft(c, s, "sync", n - 1, r, a) = n - After_(a) - 1
        /\ x = Part(c, s, r, a)[Len(Part(c, s, r, a)) - (n - After_(a)) + 1]
    BY <1>4, <1>6, <1>7
  <2>3. ASSUME NEW b \in Rings, b # a
        PROVE  SyncLeft(c, s, "sync", n - 1, r, b) = SyncLeft(c, s, "sync", n, r, b) - 0
    <3>1. /\ Within(n, After_(b), Len_(b)) = Within(n - 1, After_(b), Len_(b))
          /\ Within(n, After_(b), Len_(b)) \in Nat
      BY <1>6, <1>7, <2>3
    <3>2. /\ SyncLeft(c, s, "sync", n - 1, r, b) = Within(n - 1, After_(b), Len_(b))
          /\ SyncLeft(c, s, "sync", n, r, b) = Within(n, After_(b), Len_(b))
      BY <1>4
    <3>. HIDE DEF After_, Len_
    <3>. QED BY <3>1, <3>2
  <2>. HIDE DEF After_, Len_
  <2>. QED BY <2>1, <2>2, <2>3
<1>8. \/ n = 1 /\ x = NormCall(c)
      \/ \E a \in Rings : IsFrom(x, n, Part(c, s, r, a), After_(a))
  BY ScriptType
<1>. HIDE DEF After_
<1>9. ASSUME NEW a \in Rings, IsFrom(x, n, Part(c, s, r, a), After_(a)) PROVE Takes(c, s, r, n, x)
  BY <1>7, <1>9 DEF Takes
<1>. QED BY <1>5, <1>8, <1>9

Kinds == {"sum", "mean", "scatter", "norm", "gather", "broadcast"}

OneLess(c, s, ph, n, r) ==
    \A comm \in Rings :
        Left(c, s, ph, n - 1, r, comm) =
            Left(c, s, ph, n, r, comm) - (IF CallAt(c, s, ph, n, r).comm = comm THEN 1 ELSE 0)

(* Taking a call leaves one less on its communicator, and as many on the   *)
(* others.                                                                 *)
LEMMA Pop ==
    ASSUME NEW c \in Configs, NEW s, NEW r, NEW ph \in {"sync", "share"}, NEW n,
           n > 0, Counted(c, s, ph, n, r)
    PROVE  LET x == CallAt(c, s, ph, n, r)
           IN  /\ x = NormCall(c) \/ x.comm \in Rings
               /\ x.kind \in Kinds
               /\ x.kind \in {"sum", "mean"} =>
                    ph = "sync" /\ x.data \in Seq(Entries(c, s, r))
               /\ OneLess(c, s, ph, n, r)
<1>. DEFINE x == CallAt(c, s, ph, n, r)
<1>0. n \in Nat /\ Len(Shares(c, r)) \in Nat
  BY SharesLength DEF Counted
<1>1. CASE ph = "sync"
  <2>1. n \in 1..Len(Script(c, s, r)) /\ x = Script(c, s, r)[Len(Script(c, s, r)) - n + 1]
    <3>1. n <= Len(Script(c, s, r)) /\ Len(Script(c, s, r)) \in Nat
      BY <1>1, ScriptType DEF Counted
    <3>. QED BY <1>0, <1>1, <3>1 DEF CallAt
  <2>. HIDE DEF x
  <2>2. /\ x = NormCall(c) \/ x.comm \in Rings
        /\ x = NormCall(c) \/ (x.kind \in PartKinds /\ BringsBuckets(<<x>>, Entries(c, s, r)))
        /\ \A comm \in Rings :
              SyncLeft(c, s, "sync", n - 1, r, comm) =
                 SyncLeft(c, s, "sync", n, r, comm) - (IF x.comm = comm THEN 1 ELSE 0)
    BY <2>1, PopSync DEF Takes
  <2>3. NormCall(c).kind = "norm"
    BY DEF NormCall, Call
  <2>4. x.kind \in Kinds
    BY <2>2, <2>3 DEF Kinds, PartKinds
  <2>5. ASSUME x.kind \in {"sum", "mean"} PROVE x.data \in Seq(Entries(c, s, r))
    <3>1. BringsBuckets(<<x>>, Entries(c, s, r))
      BY <2>2, <2>3, <2>5
    <3>2. 1 \in 1..Len(<<x>>) /\ <<x>>[1] = x
      OBVIOUS
    <3>. QED BY <2>5, <3>1, <3>2 DEF BringsBuckets
  <2>6. ASSUME NEW comm \in Rings
        PROVE  Left(c, s, ph, n - 1, r, comm) =
                  Left(c, s, ph, n, r, comm) - (IF x.comm = comm THEN 1 ELSE 0)
    <3>. DEFINE more == IF comm = "data" THEN Len(Shares(c, r)) ELSE 0
    <3>1. more \in Nat
      BY <1>0
    <3>2. /\ Left(c, s, ph, n - 1, r, comm) = SyncLeft(c, s, "sync", n - 1, r, comm) + more
          /\ Left(c, s, ph, n, r, comm) = SyncLeft(c, s, "sync", n, r, comm) + more
      BY <1>1 DEF Left, ShareLeft
    <3>3. SyncLeft(c, s, "sync", n, r, comm) \in Int
      <4>1. After(c, s, r, comm) \in Nat /\ Len(Part(c, s, r, comm)) \in Nat
        BY AfterType, PartLength
      <4>. QED BY <1>0, <4>1 DEF SyncLeft, Within
    <3>. HIDE DEF more
    <3>. QED BY <2>2, <3>1, <3>2, <3>3
  <2>. QED BY <1>1, <2>2, <2>4, <2>5, <2>6 DEF x, OneLess
<1>2. CASE ph = "share"
  <2>1. n <= Len(Shares(c, r)) /\ x = Shares(c, r)[Len(Shares(c, r)) - n + 1]
    BY <1>2 DEF Counted, CallAt
  <2>2. OnComm(Shares(c, r), "data", {"gather", "broadcast"})
    BY SharesType
  <2>3. Len(Shares(c, r)) - n + 1 \in 1..Len(Shares(c, r))
    BY <1>0, <2>1
  <2>. HIDE DEF x
  <2>4. x.comm = "data" /\ x.kind \in {"gather", "broadcast"}
    BY <2>1, <2>2, <2>3 DEF OnComm
  <2>5. ASSUME NEW comm \in Rings
        PROVE  Left(c, s, ph, n - 1, r, comm) =
                  Left(c, s, ph, n, r, comm) - (IF x.comm = comm THEN 1 ELSE 0)
    BY <1>0, <1>2, <2>4 DEF Left, SyncLeft, ShareLeft
  <2>. QED BY <2>4, <2>5 DEF x, Kinds, Rings, OneLess
<1>. QED BY <1>1, <1>2

LEMMA SyncCall ==
    ASSUME NEW c \in Configs, NEW s, NEW r, NEW k, k > 0, Counted(c, s, "sync", k, r),
           NEW comm \in Rings, CallAt(c, s, "sync", k, r).comm = comm
    PROVE  /\ SyncLeft(c, s, "sync", k, r, comm) \in Nat
           /\ SyncLeft(c, s, "sync", k, r, comm) > 0
           /\ Left(c, s, "sync", k, r, comm) =
                  SyncLeft(c, s, "sync", k, r, comm)
                      + (IF comm = "data" THEN Len(Shares(c, r)) ELSE 0)
           /\ CallAt(c, s, "sync", k, r) =
                  Part(c, s, r, comm)[Len(Part(c, s, r, comm))
                                        - SyncLeft(c, s, "sync", k, r, comm) + 1]
<1>. DEFINE y == CallAt(c, s, "sync", k, r)
<1>1. k \in 1..Len(Script(c, s, r))
  BY ScriptType DEF Counted
<1>2. y = Script(c, s, r)[Len(Script(c, s, r)) - k + 1] /\ y.comm = comm
  BY DEF CallAt
<1>. HIDE DEF y
<1>3. \A b \in Rings :
         /\ SyncLeft(c, s, "sync", k - 1, r, b) =
              SyncLeft(c, s, "sync", k, r, b) - (IF y.comm = b THEN 1 ELSE 0)
         /\ y.comm = b =>
              /\ SyncLeft(c, s, "sync", k, r, b) > 0
              /\ y = Part(c, s, r, b)[Len(Part(c, s, r, b))
                                        - SyncLeft(c, s, "sync", k, r, b) + 1]
  <2>1. Takes(c, s, r, k, y)
    BY <1>1, <1>2, PopSync
  <2>. QED BY <2>1 DEF Takes
<1>4. SyncLeft(c, s, "sync", k, r, comm) \in Int
  <2>1. After(c, s, r, comm) \in Nat /\ Len(Part(c, s, r, comm)) \in Nat /\ k \in Nat
    BY AfterType, PartLength DEF Counted
  <2>. QED BY <2>1 DEF SyncLeft, Within
<1>5. Left(c, s, "sync", k, r, comm) =
          SyncLeft(c, s, "sync", k, r, comm) + (IF comm = "data" THEN Len(Shares(c, r)) ELSE 0)
  BY DEF Left, ShareLeft
<1>. QED BY <1>2, <1>3, <1>4, <1>5 DEF y

(* Ranks of a group that have as many calls left on its communicator, and  *)
(* have both come to one, have come to the same one.                       *)
LEMMA SameCall ==
    ASSUME NEW c \in Configs, NEW s \in 0..MaxSteps,
           NEW q \in Ranks(c.dims), NEW r \in Ranks(c.dims),
           NEW comm \in Rings, Beside(c, q, r, comm),
           NEW ph \in {"sync", "share"}, NEW n, n > 0, Counted(c, s, ph, n, q),
           NEW pi \in {"sync", "share"}, NEW m, m > 0, Counted(c, s, pi, m, r),
           CallAt(c, s, ph, n, q).comm = comm, CallAt(c, s, pi, m, r).comm = comm,
           Left(c, s, ph, n, q, comm) = Left(c, s, pi, m, r, comm)
    PROVE  CallAt(c, s, ph, n, q) = CallAt(c, s, pi, m, r)
<1>1. Part(c, s, q, comm) = Part(c, s, r, comm)
  BY PartsAgree
<1>2. comm = "data" => Shares(c, q) = Shares(c, r)
  BY SharesAgree
<1>3. ASSUME NEW g \in Ranks(c.dims), NEW k, k > 0, Counted(c, s, "sync", k, g),
             CallAt(c, s, "sync", k, g).comm = comm
      PROVE  LET left == SyncLeft(c, s, "sync", k, g, comm)
             IN  /\ left \in Nat /\ left > 0
                 /\ Left(c, s, "sync", k, g, comm) =
                        left + (IF comm = "data" THEN Len(Shares(c, g)) ELSE 0)
                 /\ CallAt(c, s, "sync", k, g) =
                        Part(c, s, g, comm)[Len(Part(c, s, g, comm)) - left + 1]
  BY <1>3, SyncCall
<1>4. ASSUME NEW g \in Ranks(c.dims), NEW k, k > 0, Counted(c, s, "share", k, g),
             CallAt(c, s, "share", k, g).comm = comm
      PROVE  /\ comm = "data" /\ k \in Nat /\ k <= Len(Shares(c, g))
             /\ Left(c, s, "share", k, g, comm) = k
             /\ CallAt(c, s, "share", k, g) = Shares(c, g)[Len(Shares(c, g)) - k + 1]
  <2>1. k \in Nat /\ k <= Len(Shares(c, g)) /\ Len(Shares(c, g)) \in Nat
    BY <1>4, SharesLength DEF Counted
  <2>2. CallAt(c, s, "share", k, g) = Shares(c, g)[Len(Shares(c, g)) - k + 1]
    BY DEF CallAt
  <2>3. OnComm(Shares(c, g), "data", {"gather", "broadcast"})
    BY SharesType
  <2>4. comm = "data"
    <3>1. Len(Shares(c, g)) - k + 1 \in 1..Len(Shares(c, g))
      BY <1>4, <2>1
    <3>. QED BY <1>4, <2>2, <2>3, <3>1 DEF OnComm
  <2>. QED BY <2>1, <2>2, <2>4 DEF Left, SyncLeft, ShareLeft
<1>5. Len(Shares(c, q)) \in Nat /\ Len(Shares(c, r)) \in Nat
  BY SharesLength
<1>6. CASE ph = "sync" /\ pi = "sync"
  <2>1. SyncLeft(c, s, "sync", n, q, comm) = SyncLeft(c, s, "sync", m, r, comm)
    <3>1. SyncLeft(c, s, "sync", n, q, comm) \in Nat /\ SyncLeft(c, s, "sync", m, r, comm) \in Nat
      BY <1>3, <1>6
    <3>2. Left(c, s, "sync", n, q, comm) = SyncLeft(c, s, "sync", n, q, comm)
                                            + (IF comm = "data" THEN Len(Shares(c, q)) ELSE 0)
      BY <1>3, <1>6
    <3>3. Left(c, s, "sync", m, r, comm) = SyncLeft(c, s, "sync", m, r, comm)
                                            + (IF comm = "data" THEN Len(Shares(c, r)) ELSE 0)
      BY <1>3, <1>6
    <3>. QED BY <1>2, <1>5, <1>6, <3>1, <3>2, <3>3
  <2>. QED BY <1>1, <1>3, <1>6, <2>1
<1>7. CASE ph = "share" /\ pi = "share"
  BY <1>2, <1>4, <1>7
<1>8. CASE ph = "sync" /\ pi = "share"
  <2>1. comm = "data" /\ m \in Nat /\ m <= Len(Shares(c, r)) /\ Left(c, s, pi, m, r, comm) = m
    BY <1>4, <1>8
  <2>2. SyncLeft(c, s, "sync", n, q, comm) \in Nat /\ SyncLeft(c, s, "sync", n, q, comm) > 0
    BY <1>3, <1>8
  <2>3. Left(c, s, ph, n, q, comm) = SyncLeft(c, s, "sync", n, q, comm) + Len(Shares(c, q))
    BY <1>3, <1>8, <2>1
  <2>. QED BY <1>2, <1>5, <2>1, <2>2, <2>3
<1>9. CASE ph = "share" /\ pi = "sync"
  <2>1. comm = "data" /\ n \in Nat /\ n <= Len(Shares(c, q)) /\ Left(c, s, ph, n, q, comm) = n
    BY <1>4, <1>9
  <2>2. SyncLeft(c, s, "sync", m, r, comm) \in Nat /\ SyncLeft(c, s, "sync", m, r, comm) > 0
    BY <1>3, <1>9
  <2>3. Left(c, s, pi, m, r, comm) = SyncLeft(c, s, "sync", m, r, comm) + Len(Shares(c, r))
    BY <1>3, <1>9, <2>1
  <2>. QED BY <1>2, <1>5, <2>1, <2>2, <2>3
<1>. QED BY <1>6, <1>7, <1>8, <1>9

-----------------------------------------------------------------------------
(* The invariant                                                           *)

(* Whether rank r has a gradient of n in a phase of step s.                *)
Keeps(c, s, ph, r, n) ==
    CASE ph = "sync" -> HasGrad(c, s, r, n)
      [] ph = "backward" -> c.mode # "flat" /\ s > 1 /\ HasGrad(c, s - 1, r, n)
      [] ph = "share" -> c.mode # "flat" /\ s > 0 /\ HasGrad(c, s, r, n)

CallsOf(c, s, ph, r) ==
    CASE ph = "backward" -> <<>>
      [] ph = "sync" -> Script(c, s, r)
      [] ph = "share" -> Shares(c, r)

LeftNow(r, comm) == Left(config, step[r], phase[r], Len(queue[r]), r, comm)

ConfigAs ==
    /\ config \in Configs
    /\ local = [r \in RanksHere |-> Local(config, r)]

StepsAs ==
    /\ step \in [RanksHere -> 0..MaxSteps]
    /\ \A q, r \in RanksHere : step[q] = step[r]
    /\ phase \in [RanksHere -> Phases]
    /\ \A r \in RanksHere : phase[r] # "share" => step[r] > 0

GradsAs ==
    /\ DOMAIN grads = RanksHere
    /\ \A r \in RanksHere :
        /\ DOMAIN grads[r] = Members(NamesOf(config, r))
        /\ \A n \in Members(NamesOf(config, r)) :
            IF Keeps(config, step[r], phase[r], r, n) THEN 1 \in DOMAIN grads[r][n]
            ELSE grads[r][n] = <<>>

QueuesAs ==
    /\ DOMAIN queue = RanksHere
    /\ \A r \in RanksHere :
        /\ Counted(config, step[r], phase[r], Len(queue[r]), r)
        /\ queue[r] = Ending(CallsOf(config, step[r], phase[r], r), Len(queue[r]))

Balanced ==
    \A comm \in Rings : \A q, r \in RanksHere :
        Beside(config, q, r, comm) => LeftNow(q, comm) = LeftNow(r, comm)

CollInv == ConfigAs /\ StepsAs /\ GradsAs /\ QueuesAs /\ Balanced /\ ~bad

LEMMA AsConfigured ==
    ASSUME ConfigAs
    PROVE  /\ config \in Configs /\ P = config.dims /\ IsDims(P)
           /\ \A r \in RanksHere :
                /\ Info(r) = Coordinates(P, r) /\ Names(r) = NamesOf(config, r)
                /\ local[r].owner = Owners(config, r)
                /\ \A comm \in Rings : GroupOf(r, comm) = Group(P, Coordinates(P, r), comm)
                /\ GroupOf(r, "model") = ModelGroup(P, Coordinates(P, r))
                /\ GroupOf(r, "full") = [i \in 1..World(P) |-> i - 1]
<1>1. config \in Configs /\ P = config.dims /\ IsDims(P)
  BY ConfigType DEF ConfigAs, P
<1>2. ASSUME NEW r \in RanksHere
      PROVE  /\ Info(r) = Coordinates(P, r) /\ Names(r) = NamesOf(config, r)
             /\ local[r].owner = Owners(config, r)
             /\ \A comm \in Rings : GroupOf(r, comm) = Group(P, Coordinates(P, r), comm)
             /\ GroupOf(r, "model") = ModelGroup(P, Coordinates(P, r))
             /\ GroupOf(r, "full") = [i \in 1..World(P) |-> i - 1]
  <2>1. local[r] = Local(config, r)
    BY DEF ConfigAs
  <2>2. Info(r) = Coordinates(P, r)
    BY <2>1 DEF Info, Local, P
  <2>3. Names(r) = NamesOf(config, r)
    BY <2>1 DEF Names, NamesOf, Local
  <2>4. local[r].owner = Owners(config, r)
    BY <2>1 DEF Owners, NamesOf, Local
  <2>. DEFINE info == Coordinates(P, r)
              Of(axis) == CASE axis = "model" -> ModelGroup(P, info)
                            [] axis = "full"  -> [i \in 1..World(P) |-> i - 1]
                            [] OTHER          -> Group(P, info, axis)
  <2>5. local[r].group = [axis \in Axes \cup {"model", "full"} |-> Of(axis)]
    BY <2>1 DEF Local, P
  <2>6. \A axis \in Axes \cup {"model", "full"} : GroupOf(r, axis) = Of(axis)
    <3>. HIDE DEF Of
    <3>. QED BY <2>5 DEF GroupOf
  <2>7. \A axis \in Rings : Of(axis) = Group(P, info, axis)
    BY DEF Rings
  <2>8. Rings \subseteq Axes
    BY DEF Rings, Axes
  <2>9. GroupOf(r, "model") = ModelGroup(P, info) /\ GroupOf(r, "full") = [i \in 1..World(P) |-> i - 1]
    BY <2>6
  <2>. HIDE DEF Of
  <2>10. \A comm \in Rings : GroupOf(r, comm) = Group(P, info, comm)
    BY <2>6, <2>7, <2>8
  <2>. QED BY <2>2, <2>3, <2>4, <2>9, <2>10
<1>. QED BY <1>1, <1>2

LEMMA GroupFacts ==
    ASSUME ConfigAs, NEW comm \in Comms, NEW r \in RanksHere
    PROVE  LET g == GroupOf(r, comm)
           IN  /\ Members(g) \subseteq RanksHere /\ r \in Members(g) /\ g[1] \in Members(g)
               /\ comm \in Rings => \A x, y \in RanksHere :
                    Beside(config, x, y, comm) => (x \in Members(g) <=> y \in Members(g))
               /\ comm \in Rings => \A x, y \in Members(g) : Beside(config, x, y, comm)
<1>. DEFINE g == GroupOf(r, comm)
<1>1. P = config.dims /\ IsDims(P) /\ RanksHere = Ranks(P)
  BY AsConfigured DEF RanksHere
<1>2. CASE comm \in Rings
  <2>1. g = Group(P, Coordinates(P, r), comm) /\ comm \in Axes
    BY <1>2, AsConfigured DEF Rings, Axes
  <2>2. Coordinates(P, r) \in Coords(P)
    BY <1>1, CoordsOfRank
  <2>3. DOMAIN g = 1..P[comm] /\ P[comm] \in Nat \ {0}
    BY <1>1, <2>1, <2>2, AxisType DEF Group
  <2>4. Elements(g) = {q \in Ranks(P) : \A a \in Axes \ {comm} :
                          Coordinates(P, q)[a] = Coordinates(P, r)[a]}
    BY <1>1, <2>1, GroupIsClass
  <2>. HIDE DEF g
  <2>5. Members(g) = {q \in RanksHere : Beside(config, q, r, comm)}
    BY <1>1, <2>4 DEF Members, Elements, Beside
  <2>6. g[1] \in Members(g)
    BY <2>3 DEF Members
  <2>7. r \in Members(g)
    BY <2>5 DEF Beside
  <2>8. ASSUME NEW x \in RanksHere, NEW y \in RanksHere, Beside(config, x, y, comm)
        PROVE  x \in Members(g) <=> y \in Members(g)
    BY <2>5, <2>8 DEF Beside
  <2>9. ASSUME NEW x \in Members(g), NEW y \in Members(g) PROVE Beside(config, x, y, comm)
    BY <2>5 DEF Beside
  <2>10. Members(g) \subseteq RanksHere
    BY <2>5
  <2>. QED BY <2>6, <2>7, <2>8, <2>9, <2>10 DEF g
<1>3. CASE comm = "model"
  <2>. DEFINE c == Coordinates(P, r)
  <2>1. g = ModelGroup(P, c)
    BY <1>3, AsConfigured
  <2>2. c \in Coords(P)
    BY <1>1, CoordsOfRank
  <2>3. DOMAIN g = 1..ModelSize(P)
    BY <2>1 DEF ModelGroup
  <2>4. ModelSize(P) \in Nat \ {0} /\ ModelRank(P, c) \in 0..(ModelSize(P) - 1)
    BY <1>1, <2>2, ReplicaOffset
  <2>5. /\ Elements(g) = {q \in Ranks(P) : Coordinates(P, q).data = c.data}
        /\ g[ModelRank(P, c) + 1] = r
    BY <1>1, <2>1, ReplicaIsBlock
  <2>. HIDE DEF g, c
  <2>6. Members(g) \subseteq RanksHere
    BY <1>1, <2>5 DEF Members, Elements
  <2>7. r \in Members(g) /\ g[1] \in Members(g)
    BY <2>3, <2>4, <2>5 DEF Members
  <2>8. comm \notin Rings
    BY <1>3 DEF Rings
  <2>. QED BY <2>6, <2>7, <2>8 DEF g
<1>4. CASE comm = "full"
  <2>1. g = [i \in 1..World(P) |-> i - 1]
    BY <1>4, AsConfigured
  <2>2. World(P) \in Nat \ {0}
    <3>1. Coordinates(P, r) \in Coords(P)
      BY <1>1, CoordsOfRank
    <3>. QED BY <1>1, <3>1, PartialRanks
  <2>. HIDE DEF g
  <2>3. DOMAIN g = 1..World(P) /\ \A i \in 1..World(P) : g[i] = i - 1
    BY <2>1
  <2>4. RanksHere = 0..(World(P) - 1)
    BY <1>1 DEF Ranks
  <2>5. Members(g) \subseteq RanksHere
    BY <2>2, <2>3, <2>4 DEF Members
  <2>6. r + 1 \in 1..World(P) /\ g[r + 1] = r /\ 1 \in 1..World(P)
    BY <2>2, <2>3, <2>4
  <2>7. r \in Members(g) /\ g[1] \in Members(g)
    BY <2>3, <2>6 DEF Members
  <2>8. comm \notin Rings
    BY <1>4 DEF Rings
  <2>. QED BY <2>5, <2>7, <2>8 DEF g
<1>. QED BY <1>2, <1>3, <1>4 DEF Comms, Rings

(* What the model calls the calls of a rank is what is said of them above. *)
LEMMA ScriptIs ==
    ASSUME ConfigAs, NEW r \in RanksHere, NEW s
    PROVE  GradCalls(r, Listed(config, s, r)) = Script(config, s, r)
<1>1. \A x, comm, op : SyncCalls(x, comm, op) = Sync(config, x, comm, op)
  BY DEF SyncCalls, Sync, P
<1>2. ShardCalls(Names(r), "scatter") = ByPiece(config, NamesOf(config, r), "scatter")
  BY AsConfigured DEF ShardCalls, ByPiece, P
<1>3. Call(NormComm, "norm", <<>>, 1) = NormCall(config)
  BY DEF NormComm, NormCall
<1>. DEFINE L == Listed(config, s, r)
<1>4. /\ Part(config, s, r, "context") = SyncCalls(L, "context", "sum")
      /\ Part(config, s, r, "tensor") = SyncCalls(Among(L, TpReplicated), "tensor", "mean")
      /\ Part(config, s, r, "expert") = SyncCalls(Among(L, EpReplicated), "expert", "mean")
      /\ Part(config, s, r, "data") = IF config.mode = "flat" THEN ShardCalls(Names(r), "scatter")
                                      ELSE SyncCalls(L, "data", "mean")
  BY <1>1, <1>2 DEF Part
<1>. HIDE DEF L
<1>5. GradCalls(r, L) = Script(config, s, r)
  BY <1>3, <1>4 DEF GradCalls, Script
<1>. QED BY <1>5 DEF L

LEMMA SharesAre ==
    ASSUME ConfigAs, NEW r \in RanksHere
    PROVE  ParamCalls(r) = Shares(config, r)
<1>1. Names(r) = NamesOf(config, r) /\ local[r].owner = Owners(config, r)
  BY AsConfigured
<1>2. ShardCalls(Names(r), "gather") = ByPiece(config, NamesOf(config, r), "gather")
  BY <1>1 DEF ShardCalls, ByPiece, P
<1>3. ShareCalls(r) = IF P.data = 1 THEN <<>>
                      ELSE FlattenSeq([i \in 1..P.data |->
                              ByOwner(config, NamesOf(config, r), Owners(config, r), i - 1)])
  BY <1>1 DEF ShareCalls, ByOwner
<1>. QED BY <1>2, <1>3 DEF ParamCalls, Shares, P

(* The call a rank has come to, and what taking it leaves.                 *)
LEMMA CallsType ==
    ASSUME NEW c \in Configs, NEW s, NEW ph \in Phases, NEW r, NEW n, Counted(c, s, ph, n, r)
    PROVE  IsList(CallsOf(c, s, ph, r)) /\ n \in 0..Len(CallsOf(c, s, ph, r))
<1>1. CASE ph = "backward"
  <2>1. CallsOf(c, s, ph, r) = <<>> /\ <<>> \in Seq({}) /\ n = 0
    BY <1>1 DEF CallsOf, Counted
  <2>. QED BY <2>1 DEF IsList
<1>2. CASE ph = "sync"
  <2>1. CallsOf(c, s, ph, r) = Script(c, s, r) /\ n \in Nat /\ n <= Len(Script(c, s, r))
    BY <1>2 DEF CallsOf, Counted
  <2>. QED BY <2>1, ScriptType
<1>3. CASE ph = "share"
  <2>1. CallsOf(c, s, ph, r) = Shares(c, r) /\ n \in Nat /\ n <= Len(Shares(c, r))
    BY <1>3 DEF CallsOf, Counted
  <2>. QED BY <2>1, SharesLength
<1>. QED BY <1>1, <1>2, <1>3 DEF Phases

LEMMA NowIs ==
    ASSUME ConfigAs, StepsAs, QueuesAs, NEW r \in RanksHere
    PROVE  LET n == Len(queue[r])
               L == CallsOf(config, step[r], phase[r], r)
           IN  /\ n \in Nat
               /\ queue[r] = <<>> <=> n = 0
               /\ queue[r] # <<>> =>
                    /\ n > 0 /\ phase[r] \in {"sync", "share"}
                    /\ Now(r) = CallAt(config, step[r], phase[r], n, r)
                    /\ Tail(queue[r]) = Ending(L, n - 1) /\ Len(Tail(queue[r])) = n - 1
                    /\ Counted(config, step[r], phase[r], n - 1, r)
<1>. DEFINE n == Len(queue[r])
            ph == phase[r]
            s == step[r]
            L == CallsOf(config, s, ph, r)
<1>1. config \in Configs /\ ph \in Phases /\ Counted(config, s, ph, n, r) /\ queue[r] = Ending(L, n)
  BY DEF ConfigAs, StepsAs, QueuesAs
<1>2. IsList(L) /\ n \in 0..Len(L) /\ Len(L) \in Nat
  BY <1>1, CallsType, ListIs
<1>3. n \in Nat
  BY <1>2
<1>. HIDE DEF L, n, s, ph
<1>4. /\ queue[r] = <<>> <=> n = 0
      /\ n > 0 => Head(queue[r]) = L[Len(L) - n + 1] /\ Tail(queue[r]) = Ending(L, n - 1)
  BY <1>1, <1>2, EndingIs
<1>5. ASSUME queue[r] # <<>>
      PROVE  /\ n > 0 /\ ph \in {"sync", "share"}
             /\ Now(r) = CallAt(config, s, ph, n, r)
             /\ Tail(queue[r]) = Ending(L, n - 1) /\ Len(Tail(queue[r])) = n - 1
             /\ Counted(config, s, ph, n - 1, r)
  <2>1. n > 0
    BY <1>3, <1>4, <1>5
  <2>2. ph \in {"sync", "share"}
    BY <1>1, <2>1 DEF Phases, Counted
  <2>3. Now(r) = CallAt(config, s, ph, n, r)
    BY <1>4, <2>1, <2>2 DEF Now, CallAt, CallsOf, L
  <2>4. n - 1 \in 0..Len(L)
    BY <1>2, <2>1
  <2>5. Tail(queue[r]) = Ending(L, n - 1) /\ Len(Tail(queue[r])) = n - 1
    BY <1>2, <1>4, <2>1, <2>4, EndingIs
  <2>6. Counted(config, s, ph, n - 1, r)
    <3>1. Len(Script(config, s, r)) \in Nat /\ Len(Shares(config, r)) \in Nat
      BY <1>1, ScriptType, SharesLength
    <3>. QED BY <1>1, <1>3, <2>1, <2>2, <3>1 DEF Counted
  <2>. QED BY <2>1, <2>2, <2>3, <2>5, <2>6
<1>. QED BY <1>3, <1>4, <1>5 DEF L, n, s, ph

(* A rank that begins or ends a phase.                                     *)
LEMMA WholeQueue ==
    ASSUME NEW L, IsList(L)
    PROVE  Len(L) \in Nat /\ L = Ending(L, Len(L))
BY ListIs, EndingWhole

LEMMA InitInv == Init => CollInv
<1>. SUFFICES ASSUME Init PROVE CollInv
  OBVIOUS
<1>1. ConfigAs
  BY DEF Init, ConfigAs
<1>2. MaxSteps \in Nat
  BY TrainAssumption
<1>3. \A r \in RanksHere : step[r] = 0 /\ phase[r] = "share" /\ queue[r] = <<>>
  BY DEF Init
<1>4. StepsAs
  <2>1. step \in [RanksHere -> 0..MaxSteps] /\ phase \in [RanksHere -> Phases]
    BY <1>2 DEF Init, Phases
  <2>. QED BY <1>3, <2>1 DEF StepsAs
<1>5. GradsAs
  <2>1. grads = [r \in RanksHere |-> [n \in Members(NamesOf(config, r)) |-> <<>>]]
    <3>1. grads = [r \in RanksHere |-> [n \in Members(Names(r)) |-> <<>>]]
      BY DEF Init
    <3>2. \A r \in RanksHere : Names(r) = NamesOf(config, r)
      BY <1>1, AsConfigured
    <3>. QED BY <3>1, <3>2
  <2>2. \A r, n : ~Keeps(config, 0, "share", r, n)
    BY DEF Keeps
  <2>. QED BY <1>3, <2>1, <2>2 DEF GradsAs
<1>6. QueuesAs
  <2>1. DOMAIN queue = RanksHere
    BY DEF Init
  <2>2. ASSUME NEW r \in RanksHere
        PROVE  /\ Counted(config, step[r], phase[r], Len(queue[r]), r)
               /\ queue[r] = Ending(CallsOf(config, step[r], phase[r], r), Len(queue[r]))
    <3>1. IsList(Shares(config, r)) /\ Len(Shares(config, r)) \in Nat /\ Len(<<>>) = 0
      BY <1>1, SharesLength DEF ConfigAs
    <3>2. 0 \in 0..Len(Shares(config, r))
      BY <3>1
    <3>3. Ending(Shares(config, r), 0) = <<>>
      BY <3>1, <3>2, EndingIs
    <3>4. CallsOf(config, step[r], phase[r], r) = Shares(config, r)
      BY <1>3 DEF CallsOf
    <3>. QED BY <1>3, <3>1, <3>3, <3>4 DEF Counted
  <2>. QED BY <2>1, <2>2 DEF QueuesAs
<1>7. Balanced
  <2>1. ASSUME NEW r \in RanksHere, NEW comm \in Rings PROVE LeftNow(r, comm) = 0
    <3>1. Len(queue[r]) = 0 /\ phase[r] = "share"
      BY <1>3
    <3>. QED BY <1>1, <3>1, LeftStarts DEF LeftNow, ConfigAs
  <2>. QED BY <2>1 DEF Balanced
<1>8. ~bad
  BY DEF Init
<1>. QED BY <1>1, <1>4, <1>5, <1>6, <1>7, <1>8 DEF CollInv

LEMMA ConfigKept ==
    ASSUME ConfigAs, UNCHANGED <<config, local>>
    PROVE  ConfigAs' /\ config' = config /\ RanksHere' = RanksHere /\ P' = P
           /\ \A r : Names(r)' = Names(r)
BY DEF ConfigAs, RanksHere, P, Names

LEMMA StartStepInv == CollInv /\ StartStep => CollInv'
<1>. SUFFICES ASSUME CollInv, StartStep PROVE CollInv'
  OBVIOUS
<1>1. ConfigAs /\ StepsAs /\ GradsAs /\ QueuesAs /\ Balanced /\ ~bad
  BY DEF CollInv
<1>2. /\ \A r \in RanksHere : phase[r] = "share" /\ queue[r] = <<>> /\ step[r] < MaxSteps
      /\ step' = [r \in RanksHere |-> step[r] + 1]
      /\ phase' = [r \in RanksHere |-> "backward"]
      /\ UNCHANGED <<config, local, grads, queue, bad>>
  BY DEF StartStep, AllDone
<1>3. /\ ConfigAs' /\ config' = config /\ RanksHere' = RanksHere
      /\ config \in Configs /\ RanksHere = Ranks(config.dims)
  BY <1>1, <1>2, ConfigKept DEF ConfigAs, RanksHere, P
<1>4. ASSUME NEW r \in RanksHere
      PROVE  step[r] \in 0..MaxSteps /\ step'[r] = step[r] + 1 /\ step'[r] \in 1..MaxSteps
             /\ phase'[r] = "backward"
  <2>1. MaxSteps \in Nat /\ step[r] \in 0..MaxSteps
    BY <1>1, TrainAssumption DEF StepsAs
  <2>. QED BY <1>2, <2>1
<1>5. StepsAs'
  <2>1. step' \in [RanksHere -> 0..MaxSteps] /\ phase' \in [RanksHere -> Phases]
    <3>1. MaxSteps \in Nat
      BY TrainAssumption
    <3>2. \A r \in RanksHere : step[r] + 1 \in 0..MaxSteps
      BY <1>4, <3>1
    <3>. QED BY <1>2, <3>2 DEF Phases
  <2>2. \A q, r \in RanksHere : step'[q] = step'[r]
    BY <1>1, <1>4 DEF StepsAs
  <2>3. \A r \in RanksHere : step'[r] > 0
    BY <1>4
  <2>. QED BY <1>3, <2>1, <2>2, <2>3 DEF StepsAs
<1>6. GradsAs'
  <2>1. ASSUME NEW r \in RanksHere, NEW n
        PROVE  Keeps(config, step'[r], "backward", r, n) <=> Keeps(config, step[r], "share", r, n)
    <3>1. step'[r] - 1 = step[r] /\ (step'[r] > 1 <=> step[r] > 0)
      BY <1>4
    <3>. QED BY <3>1 DEF Keeps
  <2>2. ASSUME NEW r \in RanksHere, NEW n \in Members(NamesOf(config, r))
        PROVE  IF Keeps(config, step'[r], phase'[r], r, n) THEN 1 \in DOMAIN grads[r][n]
               ELSE grads[r][n] = <<>>
    <3>1. IF Keeps(config, step[r], "share", r, n) THEN 1 \in DOMAIN grads[r][n]
          ELSE grads[r][n] = <<>>
      BY <1>1, <1>2 DEF GradsAs
    <3>. QED BY <1>4, <2>1, <3>1
  <2>. QED BY <1>1, <1>2, <1>3, <2>2 DEF GradsAs
<1>7. QueuesAs'
  <2>1. ASSUME NEW r \in RanksHere
        PROVE  /\ Counted(config, step'[r], phase'[r], Len(queue[r]), r)
               /\ queue[r] = Ending(CallsOf(config, step'[r], phase'[r], r), Len(queue[r]))
    <3>1. queue[r] = <<>> /\ Len(queue[r]) = 0
      BY <1>2
    <3>2. Counted(config, step'[r], "backward", 0, r)
      BY DEF Counted
    <3>3. CallsOf(config, step'[r], "backward", r) = <<>> /\ IsList(<<>>) /\ Len(<<>>) = 0
      <4>1. <<>> \in Seq({})
        OBVIOUS
      <4>. QED BY <4>1 DEF CallsOf, IsList
    <3>4. Ending(<<>>, 0) = <<>>
      BY <3>3, WholeQueue
    <3>. QED BY <1>4, <3>1, <3>2, <3>3, <3>4
  <2>. QED BY <1>1, <1>2, <1>3, <2>1 DEF QueuesAs
<1>8. Balanced'
  <2>1. ASSUME NEW comm \in Rings, NEW q \in RanksHere, NEW r \in RanksHere,
               Beside(config, q, r, comm)
        PROVE  LeftNow(q, comm)' = LeftNow(r, comm)'
    <3>1. ASSUME NEW x \in RanksHere
          PROVE  LeftNow(x, comm)' = Len(Part(config, step'[x], x, comm))
                                      + (IF comm = "data" THEN Len(Shares(config, x)) ELSE 0)
      <4>1. Len(queue[x]) = 0
        BY <1>2
      <4>2. LeftNow(x, comm)' = Left(config, step'[x], "backward", 0, x, comm)
        BY <1>2, <1>4, <4>1 DEF LeftNow
      <4>. QED BY <1>3, <4>2, LeftStarts
    <3>2. step'[q] = step'[r] /\ step'[r] \in 0..MaxSteps
      BY <1>1, <1>4, TrainAssumption DEF StepsAs
    <3>3. Part(config, step'[r], q, comm) = Part(config, step'[r], r, comm)
      BY <1>3, <2>1, <3>2, PartsAgree
    <3>4. comm = "data" => Shares(config, q) = Shares(config, r)
      BY <2>1, SharesAgree
    <3>. QED BY <3>1, <3>2, <3>3, <3>4
  <2>. QED BY <1>3, <2>1 DEF Balanced
<1>. QED BY <1>1, <1>2, <1>3, <1>5, <1>6, <1>7, <1>8 DEF CollInv

(* What a backward leaves of a gradient.                                   *)
LEMMA LocalGradIs ==
    ASSUME ConfigAs, StepsAs, GradsAs, NEW r \in RanksHere, phase[r] = "backward",
           NEW n \in Members(NamesOf(config, r))
    PROVE  IF HasGrad(config, step[r], r, n) THEN 1 \in DOMAIN LocalGrad(r, n)
           ELSE LocalGrad(r, n) = <<>>
<1>. DEFINE s == step[r]
            before == Keeps(config, s, "backward", r, n)
            routed == n = "expert" => DataOf(config, r) \in config.routed[s]
<1>1. s \in Nat /\ s > 0
  <2>1. MaxSteps \in Nat /\ s \in 0..MaxSteps
    BY TrainAssumption DEF StepsAs
  <2>. QED BY <2>1 DEF StepsAs
<1>2. IF before THEN 1 \in DOMAIN grads[r][n] ELSE grads[r][n] = <<>>
  BY DEF GradsAs
<1>3. Routed(r, n) <=> routed
  <2>1. Info(r).data = DataOf(config, r)
    BY AsConfigured DEF DataOf
  <2>. QED BY <2>1 DEF Routed
<1>4. 1 \in 1..Size[n]
  BY NamesType
<1>5. HasGrad(config, s, r, n) <=> routed \/ before
  <2>1. before <=> config.mode # "flat" /\ s > 1 /\ HasGrad(config, s - 1, r, n)
    BY DEF Keeps
  <2>2. CASE n # "expert"
    BY <2>2 DEF HasGrad
  <2>3. CASE n = "expert" /\ config.mode = "flat"
    BY <2>1, <2>3 DEF HasGrad
  <2>4. CASE n = "expert" /\ config.mode # "flat"
    <3>. DEFINE At(t) == DataOf(config, r) \in config.routed[t]
    <3>1. HasGrad(config, s, r, n) <=> \E t \in 1..s : At(t)
      BY <2>4 DEF HasGrad
    <3>2. HasGrad(config, s - 1, r, n) <=> \E t \in 1..(s - 1) : At(t)
      BY <2>4 DEF HasGrad
    <3>3. routed <=> At(s)
      BY <2>4
    <3>. HIDE DEF At, before, routed, s
    <3>4. \A t \in 1..s : t = s \/ t \in 1..(s - 1)
      BY <1>1
    <3>5. \A t \in 1..(s - 1) : t \in 1..s /\ s > 1
      BY <1>1
    <3>6. s \in 1..s
      BY <1>1
    <3>. QED BY <2>1, <2>4, <3>1, <3>2, <3>3, <3>4, <3>5, <3>6
  <2>. QED BY <2>2, <2>3, <2>4
<1>. HIDE DEF before, routed, s
<1>6. CASE routed
  <2>1. DOMAIN LocalGrad(r, n) = 1..Size[n]
    BY <1>3, <1>6 DEF LocalGrad
  <2>. QED BY <1>4, <1>5, <1>6, <2>1 DEF s
<1>7. CASE ~routed
  <2>1. LocalGrad(r, n) = [i \in DOMAIN grads[r][n] |-> ZeroGrad]
    BY <1>3, <1>7 DEF LocalGrad
  <2>2. DOMAIN LocalGrad(r, n) = DOMAIN grads[r][n]
    BY <2>1
  <2>3. CASE before
    BY <1>2, <1>5, <2>2, <2>3 DEF s
  <2>4. CASE ~before
    <3>1. grads[r][n] = <<>>
      BY <1>2, <2>4
    <3>2. LocalGrad(r, n) = <<>>
      BY <2>1, <3>1
    <3>. QED BY <1>5, <1>7, <2>4, <3>2 DEF s
  <2>. QED BY <2>3, <2>4
<1>. QED BY <1>6, <1>7

LEMMA BackwardInv ==
    ASSUME CollInv, NEW r \in RanksHere, Backward(r)
    PROVE  CollInv' /\ queue' = [queue EXCEPT ![r] = Script(config, step[r], r)]
<1>1. ConfigAs /\ StepsAs /\ GradsAs /\ QueuesAs /\ Balanced /\ ~bad
  BY DEF CollInv
<1>2. /\ phase[r] = "backward"
      /\ UNCHANGED <<config, local, step, bad>>
      /\ grads' = [grads EXCEPT ![r] = [n \in DOMAIN @ |-> LocalGrad(r, n)]]
      /\ phase' = [phase EXCEPT ![r] = "sync"]
      /\ queue' = [queue EXCEPT ![r] = GradCalls(r, Defined(r)')]
  BY DEF Backward
<1>3. /\ ConfigAs' /\ config' = config /\ RanksHere' = RanksHere
      /\ config \in Configs /\ RanksHere = Ranks(config.dims) /\ Names(r)' = NamesOf(config, r)
  BY <1>1, <1>2, ConfigKept, AsConfigured DEF ConfigAs, RanksHere, P
<1>. DEFINE s == step[r]
            D == Members(NamesOf(config, r))
<1>4. /\ DOMAIN grads = RanksHere /\ DOMAIN phase = RanksHere /\ DOMAIN queue = RanksHere
      /\ DOMAIN grads[r] = D /\ s > 0
  BY <1>1, <1>2 DEF GradsAs, StepsAs, QueuesAs
<1>5. /\ grads'[r] = [n \in D |-> LocalGrad(r, n)] /\ DOMAIN grads' = RanksHere
      /\ \A x \in RanksHere : x # r => grads'[x] = grads[x]
  BY <1>2, <1>4
<1>6. /\ phase'[r] = "sync" /\ phase' \in [RanksHere -> Phases]
      /\ \A x \in RanksHere : x # r => phase'[x] = phase[x]
  BY <1>1, <1>2 DEF StepsAs, Phases
<1>7. \A n \in D : IF HasGrad(config, s, r, n) THEN 1 \in DOMAIN grads'[r][n]
                   ELSE grads'[r][n] = <<>>
  <2>1. \A n \in D : grads'[r][n] = LocalGrad(r, n)
    BY <1>5
  <2>. QED BY <1>1, <1>2, <2>1, LocalGradIs
<1>8. queue' = [queue EXCEPT ![r] = Script(config, s, r)]
  <2>1. \A n \in D : grads'[r][n] # <<>> <=> HasGrad(config, s, r, n)
    <3>1. 1 \notin DOMAIN <<>>
      OBVIOUS
    <3>. QED BY <1>7, <3>1
  <2>2. {n \in DOMAIN grads'[r] : grads'[r][n] # <<>>} = Wants(config, s, r)
    <3>1. DOMAIN grads'[r] = D
      BY <1>5
    <3>. HIDE DEF s
    <3>. QED BY <2>1, <3>1 DEF Wants
  <2>3. Defined(r)' = Listed(config, s, r)
    BY <1>3, <2>2 DEF Defined, Listed
  <2>. QED BY <1>1, <1>2, <2>3, ScriptIs
<1>9. /\ queue'[r] = Script(config, s, r) /\ DOMAIN queue' = RanksHere
      /\ \A x \in RanksHere : x # r => queue'[x] = queue[x]
  BY <1>4, <1>8
<1>10. StepsAs'
  BY <1>1, <1>2, <1>3, <1>4, <1>6 DEF StepsAs
<1>11. GradsAs'
  <2>1. \A n : Keeps(config, s, "sync", r, n) <=> HasGrad(config, s, r, n)
    BY DEF Keeps
  <2>2. DOMAIN grads'[r] = D
    BY <1>5
  <2>3. ASSUME NEW x \in RanksHere
        PROVE  /\ DOMAIN grads'[x] = Members(NamesOf(config, x))
               /\ \A n \in Members(NamesOf(config, x)) :
                    IF Keeps(config, step[x], phase'[x], x, n) THEN 1 \in DOMAIN grads'[x][n]
                    ELSE grads'[x][n] = <<>>
    <3>1. CASE x = r
      BY <1>6, <1>7, <2>1, <2>2, <3>1
    <3>2. CASE x # r
      BY <1>1, <1>5, <1>6, <3>2 DEF GradsAs
    <3>. QED BY <3>1, <3>2
  <2>4. /\ (config' = config) /\ (step' = step)
        /\ DOMAIN grads' = RanksHere /\ RanksHere' = RanksHere
    BY <1>2, <1>3, <1>5
  <2>. HIDE DEF D, s
  <2>5. \A x \in RanksHere :
          /\ DOMAIN grads'[x] = Members(NamesOf(config', x))
          /\ \A n \in Members(NamesOf(config', x)) :
               IF Keeps(config', step'[x], phase'[x], x, n) THEN 1 \in DOMAIN grads'[x][n]
               ELSE grads'[x][n] = <<>>
    BY ONLY <2>3, <2>4
  <2>. QED BY ONLY <2>4, <2>5 DEF GradsAs
<1>12. IsList(Script(config, s, r)) /\ Len(Script(config, s, r)) \in Nat
  BY <1>3, ScriptType
<1>13. QueuesAs'
  <2>1. ASSUME NEW x \in RanksHere
        PROVE  /\ Counted(config, step[x], phase'[x], Len(queue'[x]), x)
               /\ queue'[x] = Ending(CallsOf(config, step[x], phase'[x], x), Len(queue'[x]))
    <3>1. CASE x = r
      <4>1. CallsOf(config, s, "sync", r) = Script(config, s, r)
        BY DEF CallsOf
      <4>2. Counted(config, s, "sync", Len(Script(config, s, r)), r)
        BY <1>12 DEF Counted
      <4>3. Script(config, s, r) = Ending(Script(config, s, r), Len(Script(config, s, r)))
        BY <1>12, WholeQueue
      <4>. QED BY <1>6, <1>9, <3>1, <4>1, <4>2, <4>3
    <3>2. CASE x # r
      BY <1>1, <1>6, <1>9, <3>2 DEF QueuesAs
    <3>. QED BY <3>1, <3>2
  <2>. QED BY <1>2, <1>3, <1>9, <2>1 DEF QueuesAs
<1>14. Balanced'
  <2>1. ASSUME NEW comm \in Rings, NEW x \in RanksHere PROVE LeftNow(x, comm)' = LeftNow(x, comm)
    <3>1. CASE x = r
      <4>1. LeftNow(r, comm)' = Left(config, s, "sync", Len(Script(config, s, r)), r, comm)
        BY <1>2, <1>6, <1>9 DEF LeftNow
      <4>2. Len(queue[r]) = 0
        BY <1>1, <1>2 DEF QueuesAs, Counted
      <4>3. LeftNow(r, comm) = Left(config, s, "backward", 0, r, comm)
        BY <1>2, <4>2 DEF LeftNow
      <4>. QED BY <1>3, <3>1, <4>1, <4>3, LeftStarts
    <3>2. CASE x # r
      BY <1>2, <1>6, <1>9, <3>2 DEF LeftNow
    <3>. QED BY <3>1, <3>2
  <2>. QED BY <1>1, <1>3, <2>1 DEF Balanced
<1>. QED BY <1>1, <1>2, <1>3, <1>8, <1>10, <1>11, <1>13, <1>14 DEF CollInv

LEMMA UpdateInv == CollInv /\ (\E r \in RanksHere : Update(r)) => CollInv'
<1>. SUFFICES ASSUME CollInv, NEW r \in RanksHere, Update(r) PROVE CollInv'
  OBVIOUS
<1>1. ConfigAs /\ StepsAs /\ GradsAs /\ QueuesAs /\ Balanced /\ ~bad
  BY DEF CollInv
<1>2. /\ phase[r] = "sync" /\ queue[r] = <<>>
      /\ UNCHANGED <<config, local, step, bad>>
      /\ grads' = IF config.mode = "flat" THEN [grads EXCEPT ![r] = Cleared(r)] ELSE grads
      /\ phase' = [phase EXCEPT ![r] = "share"]
      /\ queue' = [queue EXCEPT ![r] = ParamCalls(r)]
  BY DEF Update
<1>3. /\ ConfigAs' /\ config' = config /\ RanksHere' = RanksHere
      /\ config \in Configs /\ RanksHere = Ranks(config.dims)
  BY <1>1, <1>2, ConfigKept DEF ConfigAs, RanksHere, P
<1>. DEFINE s == step[r]
            D == Members(NamesOf(config, r))
<1>4. /\ DOMAIN grads = RanksHere /\ DOMAIN phase = RanksHere /\ DOMAIN queue = RanksHere
      /\ DOMAIN grads[r] = D /\ s > 0
  BY <1>1, <1>2 DEF GradsAs, StepsAs, QueuesAs
<1>5. /\ grads'[r] = (IF config.mode = "flat" THEN Cleared(r) ELSE grads[r])
      /\ DOMAIN grads' = RanksHere
      /\ \A x \in RanksHere : x # r => grads'[x] = grads[x]
  BY <1>2, <1>4
<1>6. /\ phase'[r] = "share" /\ phase' \in [RanksHere -> Phases]
      /\ \A x \in RanksHere : x # r => phase'[x] = phase[x]
  BY <1>1, <1>2 DEF StepsAs, Phases
<1>8. queue' = [queue EXCEPT ![r] = Shares(config, r)]
  BY <1>1, <1>2, SharesAre
<1>9. /\ queue'[r] = Shares(config, r) /\ DOMAIN queue' = RanksHere
      /\ \A x \in RanksHere : x # r => queue'[x] = queue[x]
  BY <1>4, <1>8
<1>10. StepsAs'
  BY <1>1, <1>2, <1>3, <1>4, <1>6 DEF StepsAs
<1>11. GradsAs'
  <2>1. \A n : Keeps(config, s, "share", r, n) <=>
                  config.mode # "flat" /\ Keeps(config, s, "sync", r, n)
    BY <1>4 DEF Keeps
  <2>2. DOMAIN grads'[r] = D
    BY <1>4, <1>5 DEF Cleared
  <2>3. ASSUME NEW n \in D
        PROVE  IF Keeps(config, s, "share", r, n) THEN 1 \in DOMAIN grads'[r][n]
               ELSE grads'[r][n] = <<>>
    <3>1. CASE config.mode = "flat"
      <4>1. grads'[r][n] = <<>>
        BY <1>4, <1>5, <3>1 DEF Cleared
      <4>. QED BY <2>1, <3>1, <4>1
    <3>2. CASE config.mode # "flat"
      <4>1. grads'[r] = grads[r]
        BY <1>5, <3>2
      <4>2. IF Keeps(config, s, "sync", r, n) THEN 1 \in DOMAIN grads[r][n]
            ELSE grads[r][n] = <<>>
        BY <1>1, <1>2 DEF GradsAs
      <4>. QED BY <2>1, <3>2, <4>1, <4>2
    <3>. QED BY <3>1, <3>2
  <2>4. ASSUME NEW x \in RanksHere
        PROVE  /\ DOMAIN grads'[x] = Members(NamesOf(config, x))
               /\ \A n \in Members(NamesOf(config, x)) :
                    IF Keeps(config, step[x], phase'[x], x, n) THEN 1 \in DOMAIN grads'[x][n]
                    ELSE grads'[x][n] = <<>>
    <3>1. CASE x = r
      BY <1>6, <2>2, <2>3, <3>1
    <3>2. CASE x # r
      BY <1>1, <1>5, <1>6, <3>2 DEF GradsAs
    <3>. QED BY <3>1, <3>2
  <2>. QED BY <1>2, <1>3, <1>5, <2>4 DEF GradsAs
<1>12. IsList(Shares(config, r)) /\ Len(Shares(config, r)) \in Nat
  BY <1>3, SharesLength
<1>13. QueuesAs'
  <2>1. ASSUME NEW x \in RanksHere
        PROVE  /\ Counted(config, step[x], phase'[x], Len(queue'[x]), x)
               /\ queue'[x] = Ending(CallsOf(config, step[x], phase'[x], x), Len(queue'[x]))
    <3>1. CASE x = r
      <4>1. CallsOf(config, s, "share", r) = Shares(config, r)
        BY DEF CallsOf
      <4>2. Counted(config, s, "share", Len(Shares(config, r)), r)
        BY <1>12 DEF Counted
      <4>3. Shares(config, r) = Ending(Shares(config, r), Len(Shares(config, r)))
        BY <1>12, WholeQueue
      <4>. QED BY <1>6, <1>9, <3>1, <4>1, <4>2, <4>3
    <3>2. CASE x # r
      BY <1>1, <1>6, <1>9, <3>2 DEF QueuesAs
    <3>. QED BY <3>1, <3>2
  <2>. QED BY <1>2, <1>3, <1>9, <2>1 DEF QueuesAs
<1>14. Balanced'
  <2>1. ASSUME NEW comm \in Rings, NEW x \in RanksHere PROVE LeftNow(x, comm)' = LeftNow(x, comm)
    <3>1. CASE x = r
      <4>1. LeftNow(r, comm)' = Left(config, s, "share", Len(Shares(config, r)), r, comm)
        BY <1>2, <1>6, <1>9 DEF LeftNow
      <4>2. Len(queue[r]) = 0
        BY <1>2
      <4>3. LeftNow(r, comm) = Left(config, s, "sync", 0, r, comm)
        BY <1>2, <4>2 DEF LeftNow
      <4>. QED BY <1>3, <3>1, <4>1, <4>3, LeftStarts
    <3>2. CASE x # r
      BY <1>2, <1>6, <1>9, <3>2 DEF LeftNow
    <3>. QED BY <3>1, <3>2
  <2>. QED BY <1>1, <1>3, <2>1 DEF Balanced
<1>. QED BY <1>1, <1>2, <1>3, <1>10, <1>11, <1>13, <1>14 DEF CollInv

LEMMA LeftType ==
    ASSUME NEW c \in Configs, NEW s, NEW ph \in Phases, NEW r, NEW n, Counted(c, s, ph, n, r),
           NEW comm \in Rings
    PROVE  Left(c, s, ph, n, r, comm) \in Int
<1>1. /\ n \in Nat /\ Len(Shares(c, r)) \in Nat
      /\ After(c, s, r, comm) \in Nat /\ Len(Part(c, s, r, comm)) \in Nat
  BY AfterType, PartLength, SharesLength DEF Counted
<1>2. SyncLeft(c, s, ph, n, r, comm) \in Int
  BY <1>1 DEF SyncLeft, Within
<1>3. ShareLeft(c, ph, n, r) \in Int
  BY <1>1 DEF ShareLeft
<1>. QED BY <1>2, <1>3 DEF Left

(* The ranks that meet have come to the same call.                         *)
LEMMA MeetAlike ==
    ASSUME CollInv, NEW comm \in Comms, NEW o \in RanksHere, Ready(GroupOf(o, comm), comm),
           NEW q \in Members(GroupOf(o, comm)), NEW r \in Members(GroupOf(o, comm))
    PROVE  Now(q) = Now(r)
<1>. DEFINE g == GroupOf(o, comm)
            s == step[o]
<1>1. ConfigAs /\ StepsAs /\ QueuesAs /\ Balanced /\ config \in Configs
  BY DEF CollInv, ConfigAs
<1>2. Members(g) \subseteq RanksHere /\ RanksHere = Ranks(config.dims)
  BY <1>1, GroupFacts DEF RanksHere, P
<1>3. ASSUME NEW x \in Members(g)
      PROVE  /\ x \in RanksHere /\ step[x] = s /\ phase[x] \in {"sync", "share"}
             /\ Len(queue[x]) > 0 /\ Counted(config, s, phase[x], Len(queue[x]), x)
             /\ Now(x) = CallAt(config, s, phase[x], Len(queue[x]), x) /\ Now(x).comm = comm
  <2>1. x \in RanksHere
    BY <1>2
  <2>2. queue[x] # <<>> /\ Now(x).comm = comm
    BY DEF Ready
  <2>3. step[x] = s
    BY <1>1, <2>1 DEF StepsAs
  <2>4. Counted(config, s, phase[x], Len(queue[x]), x)
    BY <1>1, <2>1, <2>3 DEF QueuesAs
  <2>. QED BY <1>1, <2>1, <2>2, <2>3, <2>4, NowIs
<1>4. s \in 0..MaxSteps
  BY <1>1 DEF StepsAs
<1>5. CASE comm \in Rings
  <2>1. Beside(config, q, r, comm)
    BY <1>1, <1>5, GroupFacts
  <2>2. LeftNow(q, comm) = LeftNow(r, comm)
    BY <1>1, <1>3, <1>5, <2>1 DEF Balanced
  <2>3. Left(config, s, phase[q], Len(queue[q]), q, comm)
          = Left(config, s, phase[r], Len(queue[r]), r, comm)
    BY <1>3, <2>2 DEF LeftNow
  <2>4. q \in Ranks(config.dims) /\ r \in Ranks(config.dims)
    BY <1>2, <1>3
  <2>5. /\ CallAt(config, s, phase[q], Len(queue[q]), q).comm = comm
        /\ CallAt(config, s, phase[r], Len(queue[r]), r).comm = comm
    BY <1>3
  <2>6. CallAt(config, s, phase[q], Len(queue[q]), q) = CallAt(config, s, phase[r], Len(queue[r]), r)
    <3>. DEFINE n == Len(queue[q])
                m == Len(queue[r])
                ph == phase[q]
                pi == phase[r]
    <3>1. n > 0 /\ ph \in {"sync", "share"} /\ Counted(config, s, ph, n, q)
      BY <1>3
    <3>2. m > 0 /\ pi \in {"sync", "share"} /\ Counted(config, s, pi, m, r)
      BY <1>3
    <3>3. /\ CallAt(config, s, ph, n, q).comm = comm /\ CallAt(config, s, pi, m, r).comm = comm
          /\ Left(config, s, ph, n, q, comm) = Left(config, s, pi, m, r, comm)
      BY <2>3, <2>5
    <3>. HIDE DEF n, m, ph, pi, s, g
    <3>4. CallAt(config, s, ph, n, q) = CallAt(config, s, pi, m, r)
      BY <1>1, <1>4, <1>5, <2>1, <2>4, <3>1, <3>2, <3>3, SameCall
    <3>. QED BY <3>4 DEF n, m, ph, pi, s
  <2>. QED BY <1>3, <2>6
<1>6. CASE comm \notin Rings
  <2>1. ASSUME NEW x \in Members(g) PROVE Now(x) = NormCall(config)
    <3>1. LET y == CallAt(config, s, phase[x], Len(queue[x]), x)
          IN  y = NormCall(config) \/ y.comm \in Rings
      BY <1>1, <1>3, Pop
    <3>. QED BY <1>3, <1>6, <3>1
  <2>. QED BY <2>1
<1>. QED BY <1>5, <1>6

(* An all_reduce leaves a gradient defined or undefined as it was.         *)
LEMMA ReducedGradIs ==
    ASSUME ConfigAs, StepsAs, QueuesAs, GradsAs, NEW r \in RanksHere, queue[r] # <<>>,
           Now(r).kind \in {"sum", "mean"}, NEW result, NEW new,
           new = Unflatten(Now(r).data, result, grads[r])
    PROVE  /\ DOMAIN new = DOMAIN grads[r]
           /\ \A n \in DOMAIN grads[r] :
                \/ new[n] = grads[r][n]
                \/ 1 \in DOMAIN new[n] /\ Keeps(config, step[r], phase[r], r, n)
<1>. DEFINE bucket == Now(r).data
            s == step[r]
<1>1. /\ phase[r] \in {"sync", "share"} /\ Len(queue[r]) > 0 /\ config \in Configs
      /\ Counted(config, s, phase[r], Len(queue[r]), r)
      /\ Now(r) = CallAt(config, s, phase[r], Len(queue[r]), r)
  BY NowIs DEF ConfigAs, QueuesAs
<1>2. phase[r] = "sync" /\ bucket \in Seq(Entries(config, s, r))
  <2>1. LET y == CallAt(config, s, phase[r], Len(queue[r]), r)
        IN  y.kind \in {"sum", "mean"} =>
               phase[r] = "sync" /\ y.data \in Seq(Entries(config, s, r))
    BY <1>1, Pop
  <2>. QED BY <1>1, <2>1
<1>. HIDE DEF bucket
<1>3. ASSUME NEW i \in DOMAIN bucket
      PROVE  bucket[i].name \in Wants(config, s, r) /\ 1 \in 1..bucket[i].size
  <2>1. bucket[i] \in Entries(config, s, r)
    BY <1>2
  <2>2. bucket[i].name \in Wants(config, s, r) /\ bucket[i].size \in Nat \ {0}
    BY <2>1, EntriesType
  <2>. QED BY <2>2
<1>. DEFINE In(n) == \E i \in DOMAIN bucket : bucket[i].name = n
            At(n) == CHOOSE j \in DOMAIN bucket : bucket[j].name = n
            Back(n) == [k \in 1..bucket[At(n)].size |-> result[Offset(bucket, At(n)) + k]]
<1>4. new = [n \in DOMAIN grads[r] |-> IF In(n) THEN Back(n) ELSE grads[r][n]]
  BY DEF Unflatten, bucket
<1>5. ASSUME NEW n, In(n) PROVE 1 \in DOMAIN Back(n) /\ Keeps(config, s, phase[r], r, n)
  <2>1. At(n) \in DOMAIN bucket /\ bucket[At(n)].name = n
    BY <1>5
  <2>2. DOMAIN Back(n) = 1..bucket[At(n)].size
    OBVIOUS
  <2>. HIDE DEF At, Back
  <2>3. n \in Wants(config, s, r) /\ 1 \in DOMAIN Back(n)
    BY <1>3, <2>1, <2>2
  <2>. HIDE DEF s
  <2>4. HasGrad(config, s, r, n)
    BY <2>3 DEF Wants
  <2>. QED BY <1>2, <2>3, <2>4 DEF Keeps
<1>. HIDE DEF In, Back
<1>6. DOMAIN new = DOMAIN grads[r]
  BY <1>4
<1>7. \A n \in DOMAIN grads[r] : new[n] = IF In(n) THEN Back(n) ELSE grads[r][n]
  BY <1>4
<1>. QED BY <1>5, <1>6, <1>7

LEMMA CollectiveInv ==
    ASSUME CollInv, NEW comm \in Comms, NEW o \in RanksHere, Collective(comm, GroupOf(o, comm))
    PROVE  CollInv'
<1>. DEFINE g == GroupOf(o, comm)
            M == Members(g)
            k == Now(g[1]).kind
<1>1. ConfigAs /\ StepsAs /\ GradsAs /\ QueuesAs /\ Balanced /\ ~bad
  BY DEF CollInv
<1>2. Ready(g, comm) /\ UNCHANGED <<config, local, phase, step>>
  BY DEF Collective
<1>3. \A q, r \in M : Now(q) = Now(r)
  BY <1>2, MeetAlike
<1>4. Alike(g)
  BY <1>3 DEF Alike
<1>5. /\ queue' = Popped(g) /\ UNCHANGED bad
      /\ CASE k \in {"sum", "mean"} -> AllReduce(g, k)
           [] k = "scatter"   -> ReduceScatter(g)
           [] k = "norm"      -> ReduceNorm(g)
           [] k = "gather"    -> AllGather(g)
           [] k = "broadcast" -> Broadcast(g)
  BY <1>4 DEF Collective
<1>6. /\ ConfigAs' /\ config' = config /\ RanksHere' = RanksHere /\ config \in Configs
  BY <1>1, <1>2, ConfigKept DEF ConfigAs
<1>7. M \subseteq RanksHere /\ o \in M /\ g[1] \in M
  BY <1>1, GroupFacts
<1>8. ASSUME NEW r \in M
      PROVE  /\ queue[r] # <<>> /\ r \in RanksHere /\ Now(r).comm = comm /\ Now(r).kind = k
             /\ Len(queue[r]) > 0 /\ phase[r] \in {"sync", "share"}
             /\ Counted(config, step[r], phase[r], Len(queue[r]), r)
             /\ Now(r) = CallAt(config, step[r], phase[r], Len(queue[r]), r)
             /\ queue'[r] = Ending(CallsOf(config, step[r], phase[r], r), Len(queue[r]) - 1)
             /\ Len(queue'[r]) = Len(queue[r]) - 1
             /\ Counted(config, step[r], phase[r], Len(queue[r]) - 1, r)
  <2>1. queue[r] # <<>> /\ Now(r).comm = comm /\ r \in RanksHere
    BY <1>2, <1>7 DEF Ready
  <2>2. queue'[r] = Tail(queue[r])
    BY <1>5, <2>1 DEF Popped
  <2>3. Now(r).kind = k
    BY <1>3, <1>7
  <2>4. Counted(config, step[r], phase[r], Len(queue[r]), r)
    BY <1>1, <2>1 DEF QueuesAs
  <2>. QED BY <1>1, <2>1, <2>2, <2>3, <2>4, NowIs
<1>9. /\ DOMAIN queue' = RanksHere
      /\ \A r \in RanksHere \ M : queue'[r] = queue[r]
  BY <1>5 DEF Popped
<1>10. k \in Kinds
  <2>1. LET y == CallAt(config, step[o], phase[o], Len(queue[o]), o) IN y.kind \in Kinds
    BY <1>6, <1>7, <1>8, Pop
  <2>. QED BY <1>7, <1>8, <2>1
<1>11. GradsAs'
  <2>1. CASE k \in {"sum", "mean"}
    <3>1. AllReduce(g, k)
      BY <1>5, <2>1
    <3>2. PICK result :
              grads' = [r \in RanksHere |-> IF r \in M THEN Unflatten(Now(r).data, result, grads[r])
                                            ELSE grads[r]]
      BY <3>1 DEF AllReduce
    <3>3. ASSUME NEW r \in RanksHere
          PROVE  /\ DOMAIN grads'[r] = Members(NamesOf(config, r))
                 /\ \A n \in Members(NamesOf(config, r)) :
                      IF Keeps(config, step[r], phase[r], r, n) THEN 1 \in DOMAIN grads'[r][n]
                      ELSE grads'[r][n] = <<>>
      <4>0. /\ DOMAIN grads[r] = Members(NamesOf(config, r))
            /\ \A n \in Members(NamesOf(config, r)) :
                 IF Keeps(config, step[r], phase[r], r, n) THEN 1 \in DOMAIN grads[r][n]
                 ELSE grads[r][n] = <<>>
        BY <1>1 DEF GradsAs
      <4>1. CASE r \in M
        <5>1. grads'[r] = Unflatten(Now(r).data, result, grads[r])
          BY <3>2, <4>1
        <5>2. queue[r] # <<>> /\ Now(r).kind \in {"sum", "mean"}
          BY <1>8, <2>1, <4>1
        <5>3. /\ DOMAIN grads'[r] = DOMAIN grads[r]
              /\ \A n \in DOMAIN grads[r] :
                   \/ grads'[r][n] = grads[r][n]
                   \/ 1 \in DOMAIN grads'[r][n] /\ Keeps(config, step[r], phase[r], r, n)
          BY <1>1, <5>1, <5>2, ReducedGradIs
        <5>. QED BY <4>0, <5>3
      <4>2. CASE r \notin M
        <5>1. grads'[r] = grads[r]
          BY <3>2, <4>2
        <5>. QED BY <4>0, <5>1
      <4>. QED BY <4>1, <4>2
    <3>4. DOMAIN grads' = RanksHere
      BY <3>2
    <3>. QED BY <1>2, <1>6, <3>3, <3>4 DEF GradsAs
  <2>2. CASE k \notin {"sum", "mean"}
    <3>1. ReduceScatter(g) \/ ReduceNorm(g) \/ AllGather(g) \/ Broadcast(g)
      BY <1>5, <1>10, <2>2 DEF Kinds
    <3>2. grads' = grads
      BY <3>1 DEF ReduceScatter, ReduceNorm, AllGather, Broadcast
    <3>. QED BY <1>1, <1>2, <1>6, <3>2 DEF GradsAs
  <2>. QED BY <2>1, <2>2
<1>12. StepsAs'
  BY <1>1, <1>2, <1>6 DEF StepsAs
<1>13. QueuesAs'
  <2>1. ASSUME NEW x \in RanksHere
        PROVE  /\ Counted(config, step[x], phase[x], Len(queue'[x]), x)
               /\ queue'[x] = Ending(CallsOf(config, step[x], phase[x], x), Len(queue'[x]))
    <3>1. CASE x \in M
      BY <1>8, <3>1
    <3>2. CASE x \notin M
      BY <1>1, <1>9, <3>2 DEF QueuesAs
    <3>. QED BY <3>1, <3>2
  <2>. QED BY <1>2, <1>6, <1>9, <2>1 DEF QueuesAs
<1>14. Balanced'
  <2>1. ASSUME NEW ring \in Rings, NEW r \in M
        PROVE  LeftNow(r, ring)' = LeftNow(r, ring) - (IF comm = ring THEN 1 ELSE 0)
    <3>. DEFINE y == CallAt(config, step[r], phase[r], Len(queue[r]), r)
    <3>1. LeftNow(r, ring)' = Left(config, step[r], phase[r], Len(queue[r]) - 1, r, ring)
      BY <1>2, <1>8 DEF LeftNow
    <3>2. Left(config, step[r], phase[r], Len(queue[r]) - 1, r, ring) =
              Left(config, step[r], phase[r], Len(queue[r]), r, ring)
                  - (IF y.comm = ring THEN 1 ELSE 0)
      <4>1. OneLess(config, step[r], phase[r], Len(queue[r]), r)
        BY <1>6, <1>8, Pop
      <4>. QED BY <4>1 DEF OneLess
    <3>3. y.comm = comm
      BY <1>8
    <3>. QED BY <3>1, <3>2, <3>3 DEF LeftNow
  <2>2. ASSUME NEW ring \in Rings, NEW r \in RanksHere \ M
        PROVE  LeftNow(r, ring)' = LeftNow(r, ring)
    BY <1>2, <1>9 DEF LeftNow
  <2>3. ASSUME NEW ring \in Rings, NEW r \in M, ring # comm
        PROVE  LeftNow(r, ring)' = LeftNow(r, ring)
    <3>1. LeftNow(r, ring) \in Int
      <4>1. phase[r] \in Phases
        BY <1>8 DEF Phases
      <4>. QED BY <1>6, <1>8, <4>1, LeftType DEF LeftNow
    <3>. QED BY <2>1, <2>3, <3>1
  <2>4. ASSUME NEW ring \in Rings, NEW q \in RanksHere, NEW r \in RanksHere,
               Beside(config, q, r, ring)
        PROVE  LeftNow(q, ring)' = LeftNow(r, ring)'
    <3>1. LeftNow(q, ring) = LeftNow(r, ring)
      BY <1>1, <2>4 DEF Balanced
    <3>2. CASE ring = comm
      <4>1. q \in M <=> r \in M
        BY <1>1, <2>4, <3>2, GroupFacts
      <4>2. CASE q \in M
        BY <2>1, <3>1, <4>1, <4>2
      <4>3. CASE q \notin M
        BY <2>2, <3>1, <4>1, <4>3
      <4>. QED BY <4>2, <4>3
    <3>3. CASE ring # comm
      BY <2>2, <2>3, <3>1, <3>3
    <3>. QED BY <3>2, <3>3
  <2>. QED BY <1>6, <2>4 DEF Balanced
<1>. QED BY <1>1, <1>5, <1>6, <1>11, <1>12, <1>13, <1>14 DEF CollInv

-----------------------------------------------------------------------------
(* The property                                                            *)

LEMMA CollInvHolds == Spec => []CollInv
<1>1. Init => CollInv
  BY InitInv
<1>2. CollInv /\ [Next]_vars => CollInv'
  <2>. SUFFICES ASSUME CollInv, [Next]_vars PROVE CollInv'
    OBVIOUS
  <2>1. CASE StartStep
    BY <2>1, StartStepInv
  <2>2. CASE \E r \in RanksHere : Backward(r)
    BY <2>2, BackwardInv
  <2>3. CASE \E r \in RanksHere : Update(r)
    BY <2>3, UpdateInv
  <2>4. CASE \E comm \in Comms : \E g \in {GroupOf(r, comm) : r \in RanksHere} : Collective(comm, g)
    <3>1. PICK comm \in Comms, o \in RanksHere : Collective(comm, GroupOf(o, comm))
      BY <2>4
    <3>. QED BY <3>1, CollectiveInv
  <2>5. CASE UNCHANGED vars
    <3>1. UNCHANGED <<config, local, phase, step, queue, grads, bad>>
      BY <2>5 DEF vars
    <3>2. CollInv' <=> CollInv
      BY <3>1 DEF CollInv, ConfigAs, StepsAs, GradsAs, QueuesAs, Balanced, LeftNow, RanksHere, P
    <3>. QED BY <3>2
  <2>6. CASE Finished
    <3>1. UNCHANGED vars
      BY <2>6 DEF Finished
    <3>. QED BY <2>5, <3>1
  <2>. QED BY <2>1, <2>2, <2>3, <2>4, <2>5, <2>6 DEF Next
<1>. QED BY <1>1, <1>2, PTL DEF Spec

(* The ranks that meet in a collective always bring the same operation and *)
(* the same number of elements, for every arrangement of ranks, every      *)
(* bucket size and every routing of tokens to experts that the command     *)
(* line allows (parallel_ops.cc 248-285, optimizer_sharding.cc 571-601).   *)
THEOREM CollectivesAlwaysMatch == Spec => []CollectivesMatch
<1>1. CollInv => CollectivesMatch
  BY DEF CollInv, CollectivesMatch
<1>. QED BY <1>1, CollInvHolds, PTL

-----------------------------------------------------------------------------
(* No rank waits for ever                                                  *)

(* A rank that can go on by itself, or a group whose ranks have all come   *)
(* to a collective on its communicator.                                    *)
GoesOn(r) == phase[r] = "backward" \/ (phase[r] = "sync" /\ queue[r] = <<>>)
SomebodyGoesOn ==
    \/ \E r \in RanksHere : GoesOn(r)
    \/ \E comm \in Comms, r \in RanksHere : Ready(GroupOf(r, comm), comm)

(* The norm is the last collective of its phase, and ranks that meet there *)
(* have all passed it or none.                                             *)
BeforeNorm(r) == phase[r] = "backward" \/ (phase[r] = "sync" /\ queue[r] # <<>>)
MeetAtNorm(c, q, r) == c.mode = "flat" \/ DataOf(c, q) = DataOf(c, r)
NormInv ==
    \A q, r \in RanksHere : MeetAtNorm(config, q, r) => (BeforeNorm(q) <=> BeforeNorm(r))

LEMMA NormGroup ==
    ASSUME ConfigAs, NEW r \in RanksHere
    PROVE  Members(GroupOf(r, NormCall(config).comm)) =
               {q \in RanksHere : MeetAtNorm(config, q, r)}
<1>. DEFINE g == GroupOf(r, NormCall(config).comm)
            c == Coordinates(P, r)
<1>1. P = config.dims /\ IsDims(P) /\ RanksHere = Ranks(P)
  BY AsConfigured DEF RanksHere
<1>2. NormCall(config).comm = IF config.mode = "flat" THEN "full" ELSE "model"
  BY DEF NormCall, Call
<1>3. CASE config.mode = "flat"
  <2>1. g = [i \in 1..World(P) |-> i - 1]
    BY <1>2, <1>3, AsConfigured
  <2>2. World(P) \in Nat \ {0}
    <3>1. c \in Coords(P)
      BY <1>1, CoordsOfRank
    <3>. QED BY <1>1, <3>1, PartialRanks
  <2>. HIDE DEF g, c
  <2>3. DOMAIN g = 1..World(P) /\ \A i \in 1..World(P) : g[i] = i - 1
    BY <2>1
  <2>4. RanksHere = 0..(World(P) - 1)
    BY <1>1 DEF Ranks
  <2>5. \A q \in RanksHere : q + 1 \in 1..World(P) /\ g[q + 1] = q
    BY <2>2, <2>3, <2>4
  <2>6. Members(g) = RanksHere
    BY <2>2, <2>3, <2>4, <2>5 DEF Members
  <2>. QED BY <1>3, <2>6 DEF MeetAtNorm, g
<1>4. CASE config.mode # "flat"
  <2>1. g = ModelGroup(P, c)
    BY <1>2, <1>4, AsConfigured
  <2>2. c \in Coords(P)
    BY <1>1, CoordsOfRank
  <2>3. Elements(g) = {q \in Ranks(P) : Coordinates(P, q).data = c.data}
    BY <1>1, <2>1, <2>2, ReplicaIsBlock
  <2>. HIDE DEF g
  <2>4. Members(g) = {q \in RanksHere : Coordinates(P, q).data = c.data}
    BY <1>1, <2>3 DEF Members, Elements
  <2>. QED BY <1>1, <1>4, <2>4 DEF MeetAtNorm, DataOf, g
<1>. QED BY <1>3, <1>4

(* Where in its script a rank is, from how much of it is left.             *)
LEMMA NormIsLast ==
    ASSUME NEW c \in Configs, NEW s, NEW r, NEW n, n > 0, Counted(c, s, "sync", n, r)
    PROVE  LET x == CallAt(c, s, "sync", n, r)
           IN  /\ n = 1 => x = NormCall(c)
               /\ n > 1 => x.comm \in Rings
<1>. DEFINE x == CallAt(c, s, "sync", n, r)
<1>1. n \in 1..Len(Script(c, s, r)) /\ x = Script(c, s, r)[Len(Script(c, s, r)) - n + 1]
  BY ScriptType DEF Counted, CallAt
<1>2. \/ n = 1 /\ x = NormCall(c)
      \/ \E comm \in Rings : IsFrom(x, n, Part(c, s, r, comm), After(c, s, r, comm))
  BY <1>1, ScriptType
<1>. HIDE DEF x
<1>3. ASSUME NEW comm \in Rings, IsFrom(x, n, Part(c, s, r, comm), After(c, s, r, comm))
      PROVE  n > 1 /\ x.comm \in Rings
  <2>1. After(c, s, r, comm) \in Nat \ {0} /\ n \in Nat
    BY AfterType DEF Counted
  <2>2. OnComm(Part(c, s, r, comm), comm, PartKinds) /\ Len(Part(c, s, r, comm)) \in Nat
    BY PartType, PartLength
  <2>3. Len(Part(c, s, r, comm)) - (n - After(c, s, r, comm)) + 1 \in 1..Len(Part(c, s, r, comm))
    BY <1>3, <2>1, <2>2 DEF IsFrom
  <2>. QED BY <1>3, <2>1, <2>2, <2>3 DEF IsFrom, OnComm
<1>4. n \in Nat
  BY <1>1, ScriptType
<1>. QED BY <1>2, <1>3, <1>4 DEF x

LEMMA HeadIs ==
    ASSUME NEW c \in Configs, NEW s, NEW r, NEW n, Counted(c, s, "sync", n, r),
           NEW comm \in Rings, n > After(c, s, r, comm),
           n <= After(c, s, r, comm) + Len(Part(c, s, r, comm))
    PROVE  CallAt(c, s, "sync", n, r).comm = comm
<1>. DEFINE x == CallAt(c, s, "sync", n, r)
<1>1. After(c, s, r, comm) \in Nat \ {0} /\ n \in Nat
  BY AfterType DEF Counted
<1>2. n \in 1..Len(Script(c, s, r)) /\ x = Script(c, s, r)[Len(Script(c, s, r)) - n + 1] /\ n # 1
  BY <1>1, ScriptType DEF Counted, CallAt
<1>3. PICK b \in Rings : IsFrom(x, n, Part(c, s, r, b), After(c, s, r, b))
  BY <1>2, ScriptType
<1>. HIDE DEF x
<1>4. /\ After(c, s, r, b) \in Nat /\ Len(Part(c, s, r, b)) \in Nat
      /\ Len(Part(c, s, r, comm)) \in Nat
  BY AfterType, PartLength
<1>5. n > After(c, s, r, b) /\ n <= After(c, s, r, b) + Len(Part(c, s, r, b))
  BY <1>3 DEF IsFrom
<1>6. b = comm
  <2>1. SUFFICES ASSUME b # comm PROVE FALSE
    OBVIOUS
  <2>2. \/ After(c, s, r, b) + Len(Part(c, s, r, b)) <= After(c, s, r, comm)
        \/ After(c, s, r, comm) + Len(Part(c, s, r, comm)) <= After(c, s, r, b)
    BY <2>1, AfterType
  <2>. QED BY <1>1, <1>4, <1>5, <2>2
<1>7. OnComm(Part(c, s, r, b), b, PartKinds)
  BY PartType
<1>8. Len(Part(c, s, r, b)) - (n - After(c, s, r, b)) + 1 \in 1..Len(Part(c, s, r, b))
  BY <1>1, <1>4, <1>5
<1>9. x.comm = b
  BY <1>3, <1>7, <1>8 DEF IsFrom, OnComm
<1>. QED BY <1>6, <1>9 DEF x

LEMMA NormKept ==
    ASSUME CollInv, NormInv, [Next]_vars
    PROVE  NormInv'
<1>1. ConfigAs /\ StepsAs /\ QueuesAs /\ config \in Configs
  BY DEF CollInv, ConfigAs
<1>2. config' = config /\ RanksHere' = RanksHere
  BY DEF Next, vars, StartStep, Backward, Update, Collective, Finished, RanksHere, P
<1>3. ASSUME \A r \in RanksHere : BeforeNorm(r)' <=> BeforeNorm(r)
      PROVE  NormInv'
  BY <1>2, <1>3 DEF NormInv
<1>4. ASSUME StartStep PROVE NormInv'
  <2>1. \A r \in RanksHere : BeforeNorm(r)'
    BY <1>4 DEF StartStep, BeforeNorm
  <2>. QED BY <1>2, <2>1 DEF NormInv
<1>5. ASSUME NEW r \in RanksHere, Backward(r) PROVE NormInv'
  <2>1. /\ phase[r] = "backward" /\ phase' = [phase EXCEPT ![r] = "sync"]
        /\ queue' = [queue EXCEPT ![r] = Script(config, step[r], r)]
    BY <1>5, BackwardInv DEF Backward
  <2>2. DOMAIN phase = RanksHere /\ DOMAIN queue = RanksHere
    BY <1>1 DEF StepsAs, QueuesAs
  <2>3. Script(config, step[r], r) # <<>>
    <3>1. "data" \in Rings
      BY DEF Rings
    <3>2. /\ Len(Script(config, step[r], r)) >=
               After(config, step[r], r, "data") + Len(Part(config, step[r], r, "data"))
          /\ Len(Script(config, step[r], r)) \in Nat
      BY <1>1, <3>1, ScriptType
    <3>3. After(config, step[r], r, "data") = 1 /\ Len(Part(config, step[r], r, "data")) \in Nat
      BY <1>1, <3>1, PartLength DEF After
    <3>. QED BY <3>2, <3>3
  <2>4. ASSUME NEW x \in RanksHere PROVE BeforeNorm(x)' <=> BeforeNorm(x)
    BY <2>1, <2>2, <2>3 DEF BeforeNorm
  <2>. QED BY <1>3, <2>4
<1>6. ASSUME NEW r \in RanksHere, Update(r) PROVE NormInv'
  <2>1. /\ phase[r] = "sync" /\ queue[r] = <<>> /\ phase' = [phase EXCEPT ![r] = "share"]
        /\ queue' = [queue EXCEPT ![r] = ParamCalls(r)]
    BY <1>6 DEF Update
  <2>2. DOMAIN phase = RanksHere /\ DOMAIN queue = RanksHere
    BY <1>1 DEF StepsAs, QueuesAs
  <2>3. ASSUME NEW x \in RanksHere PROVE BeforeNorm(x)' <=> BeforeNorm(x)
    BY <2>1, <2>2 DEF BeforeNorm
  <2>. QED BY <1>3, <2>3
<1>7. ASSUME NEW comm \in Comms, NEW o \in RanksHere, Collective(comm, GroupOf(o, comm))
      PROVE  NormInv'
  <2>. DEFINE M == Members(GroupOf(o, comm))
  <2>1. Ready(GroupOf(o, comm), comm) /\ phase' = phase
    BY <1>7 DEF Collective
  <2>2. queue' = Popped(GroupOf(o, comm)) \/ queue' = queue
    BY <1>7 DEF Collective
  <2>3. CASE queue' = queue
    <3>1. \A r \in RanksHere : BeforeNorm(r)' <=> BeforeNorm(r)
      BY <2>1, <2>3 DEF BeforeNorm
    <3>. QED BY <1>3, <3>1
  <2>4. CASE queue' = Popped(GroupOf(o, comm))
    <3>1. /\ \A r \in RanksHere \ M : queue'[r] = queue[r]
          /\ \A r \in RanksHere \cap M : queue'[r] = Tail(queue[r])
      BY <2>4 DEF Popped
    <3>2. ASSUME NEW r \in RanksHere \cap M
          PROVE  /\ BeforeNorm(r) <=> phase[r] = "sync"
                 /\ phase[r] = "sync" => (comm \in Rings <=> Len(queue[r]) # 1)
                 /\ phase[r] = "sync" /\ comm \notin Rings => comm = NormCall(config).comm
                 /\ phase[r] = "share" => comm \in Rings
                 /\ phase[r] \in {"sync", "share"}
                 /\ queue'[r] = <<>> <=> Len(queue[r]) = 1
      <4>. DEFINE n == Len(queue[r])
                  s == step[r]
                  ph == phase[r]
      <4>1. queue[r] # <<>> /\ Now(r).comm = comm
        BY <2>1 DEF Ready
      <4>2. /\ n \in Nat /\ n > 0 /\ ph \in {"sync", "share"}
            /\ Now(r) = CallAt(config, s, ph, n, r)
            /\ Tail(queue[r]) = Ending(CallsOf(config, s, ph, r), n - 1)
            /\ Counted(config, s, ph, n, r)
        BY <1>1, <4>1, NowIs DEF QueuesAs
      <4>3. queue'[r] = <<>> <=> n - 1 = 0
        <5>1. IsList(CallsOf(config, s, ph, r)) /\ n \in 0..Len(CallsOf(config, s, ph, r))
          BY <1>1, <4>2, CallsType DEF Phases
        <5>2. n - 1 \in 0..Len(CallsOf(config, s, ph, r))
          <6>1. Len(CallsOf(config, s, ph, r)) \in Nat
            BY <5>1, ListIs
          <6>. QED BY <4>2, <5>1, <6>1
        <5>3. Tail(queue[r]) = <<>> <=> n - 1 = 0
          BY <4>2, <5>1, <5>2, EndingIs
        <5>. QED BY <3>1, <5>3
      <4>4. CASE ph = "sync"
        <5>1. n = 1 => CallAt(config, s, ph, n, r) = NormCall(config)
          BY <1>1, <4>2, <4>4, NormIsLast
        <5>2. n > 1 => CallAt(config, s, ph, n, r).comm \in Rings
          BY <1>1, <4>2, <4>4, NormIsLast
        <5>3. NormCall(config).comm \notin Rings
          BY DEF NormCall, Call, Rings
        <5>4. CallAt(config, s, ph, n, r).comm = comm
          BY <4>1, <4>2
        <5>5. n = 1 \/ n > 1
          <6>1. n \in Nat /\ n > 0
            BY <4>2
          <6>. HIDE DEF n
          <6>. QED BY <6>1
        <5>6. comm \in Rings <=> n # 1
          BY <5>1, <5>2, <5>3, <5>4, <5>5
        <5>7. comm \notin Rings => comm = NormCall(config).comm
          BY <5>1, <5>2, <5>4, <5>5
        <5>. QED BY <4>1, <4>3, <4>4, <5>6, <5>7, <4>2 DEF BeforeNorm
      <4>5. CASE ph = "share"
        <5>1. OnComm(Shares(config, r), "data", {"gather", "broadcast"})
          BY <1>1, SharesType
        <5>2. Len(Shares(config, r)) \in Nat /\ n <= Len(Shares(config, r))
          BY <1>1, <4>2, <4>5, SharesLength DEF Counted
        <5>3. CallAt(config, s, ph, n, r).comm = "data"
          <6>1. Len(Shares(config, r)) - n + 1 \in 1..Len(Shares(config, r))
            BY <4>2, <5>2
          <6>. QED BY <4>5, <5>1, <6>1 DEF CallAt, OnComm
        <5>. QED BY <4>1, <4>2, <4>3, <4>5, <5>3 DEF BeforeNorm, Rings
      <4>. QED BY <4>2, <4>4, <4>5
    <3>3. CASE comm \in Rings
      <4>1. ASSUME NEW r \in RanksHere PROVE BeforeNorm(r)' <=> BeforeNorm(r)
        <5>1. CASE r \in M
          BY <2>1, <3>2, <3>3, <5>1 DEF BeforeNorm
        <5>2. CASE r \notin M
          BY <2>1, <3>1, <5>2 DEF BeforeNorm
        <5>. QED BY <5>1, <5>2
      <4>. QED BY <1>3, <4>1
    <3>4. CASE comm \notin Rings
      <4>1. o \in RanksHere \cap M
        BY <1>1, GroupFacts
      <4>2. comm = NormCall(config).comm
        BY <3>2, <3>4, <4>1
      <4>3. M = {q \in RanksHere : MeetAtNorm(config, q, o)}
        BY <1>1, <4>2, NormGroup
      <4>4. ASSUME NEW r \in M PROVE r \in RanksHere /\ ~BeforeNorm(r)'
        <5>1. r \in RanksHere
          BY <4>3
        <5>. QED BY <2>1, <3>2, <3>4, <5>1 DEF BeforeNorm
      <4>5. ASSUME NEW r \in RanksHere \ M PROVE BeforeNorm(r)' <=> BeforeNorm(r)
        BY <2>1, <3>1 DEF BeforeNorm
      <4>6. ASSUME NEW q \in RanksHere, NEW r \in RanksHere, MeetAtNorm(config, q, r)
            PROVE  BeforeNorm(q)' <=> BeforeNorm(r)'
        <5>1. q \in M <=> r \in M
          BY <4>3, <4>6 DEF MeetAtNorm
        <5>. QED BY <4>4, <4>5, <4>6, <5>1 DEF NormInv
      <4>. QED BY <1>2, <4>6 DEF NormInv
    <3>. QED BY <3>3, <3>4
  <2>. QED BY <2>2, <2>3, <2>4
<1>8. ASSUME UNCHANGED vars PROVE NormInv'
  BY <1>3, <1>8 DEF vars, BeforeNorm
<1>9. CASE \E comm \in Comms : \E g \in {GroupOf(r, comm) : r \in RanksHere} : Collective(comm, g)
  <2>1. PICK comm \in Comms, o \in RanksHere : Collective(comm, GroupOf(o, comm))
    BY <1>9
  <2>. QED BY <2>1, <1>7
<1>. QED BY <1>4, <1>5, <1>6, <1>8, <1>9 DEF Next, Finished

(* When no rank has to come as far as the calls on a communicator, a rank  *)
(* that is there finds its whole group there.                              *)
LEMMA RingReady ==
    ASSUME CollInv, NEW comm \in Rings, NEW r \in RanksHere, phase[r] = "sync",
           Len(queue[r]) > After(config, step[r], r, comm),
           \A x \in RanksHere : phase[x] \in {"sync", "share"},
           \A x \in RanksHere : phase[x] = "sync" =>
               Len(queue[x]) <= After(config, step[x], x, comm) + Len(Part(config, step[x], x, comm))
    PROVE  Ready(GroupOf(r, comm), comm)
<1>. DEFINE s == step[r]
            after(x) == After(config, s, x, comm)
            length(x) == Len(Part(config, s, x, comm))
            shares(x) == Len(Shares(config, x))
<1>1. ConfigAs /\ StepsAs /\ QueuesAs /\ Balanced /\ config \in Configs
  BY DEF CollInv, ConfigAs
<1>2. ASSUME NEW x \in RanksHere
      PROVE  /\ step[x] = s /\ Len(queue[x]) \in Nat /\ after(x) \in Nat /\ length(x) \in Nat
             /\ shares(x) \in Nat /\ Counted(config, s, phase[x], Len(queue[x]), x)
             /\ phase[x] = "sync" => Len(queue[x]) <= after(x) + length(x)
             /\ phase[x] = "share" => Len(queue[x]) <= shares(x)
  <2>1. step[x] = s
    BY <1>1 DEF StepsAs
  <2>2. Counted(config, s, phase[x], Len(queue[x]), x)
    BY <1>1, <2>1 DEF QueuesAs
  <2>3. after(x) \in Nat /\ length(x) \in Nat /\ shares(x) \in Nat
    BY <1>1, AfterType, PartLength, SharesLength
  <2>. QED BY <2>1, <2>2, <2>3 DEF Counted
<1>3. LeftNow(r, comm) = Len(queue[r]) - after(r) + (IF comm = "data" THEN shares(r) ELSE 0)
  <2>1. Within(Len(queue[r]), after(r), length(r)) = Len(queue[r]) - after(r)
    BY <1>2 DEF Within
  <2>2. SyncLeft(config, s, "sync", Len(queue[r]), r, comm) = Len(queue[r]) - after(r)
    BY <2>1 DEF SyncLeft
  <2>3. ShareLeft(config, "sync", Len(queue[r]), r) = shares(r)
    BY DEF ShareLeft
  <2>. QED BY <2>2, <2>3 DEF LeftNow, Left
<1>4. ASSUME NEW x \in Members(GroupOf(r, comm))
      PROVE  queue[x] # <<>> /\ Now(x).comm = comm
  <2>1. x \in RanksHere /\ Beside(config, x, r, comm)
    BY <1>1, GroupFacts DEF Comms, Rings
  <2>2. LeftNow(x, comm) = LeftNow(r, comm)
    BY <1>1, <2>1 DEF Balanced
  <2>3. comm = "data" => shares(x) = shares(r)
    BY <2>1, SharesAgree
  <2>. DEFINE m == Len(queue[x])
  <2>4. LeftNow(x, comm) = Left(config, s, phase[x], m, x, comm)
    BY <1>2, <2>1 DEF LeftNow
  <2>5. phase[x] = "sync" /\ m > after(x)
    <3>1. CASE phase[x] = "share"
      <4>1. LeftNow(x, comm) = IF comm = "data" THEN m ELSE 0
        <5>1. SyncLeft(config, s, "share", m, x, comm) = 0 /\ ShareLeft(config, "share", m, x) = m
          BY DEF SyncLeft, ShareLeft
        <5>2. m \in Nat
          BY <1>2, <2>1
        <5>. HIDE DEF m
        <5>. QED BY <2>4, <3>1, <5>1, <5>2 DEF Left
      <4>2. m <= shares(x) /\ m \in Nat /\ shares(x) \in Nat /\ shares(r) \in Nat
        BY <1>2, <2>1, <3>1
      <4>3. Len(queue[r]) - after(r) > 0 /\ Len(queue[r]) \in Nat /\ after(r) \in Nat
        BY <1>2
      <4>. HIDE DEF m, shares, after
      <4>. QED BY <1>3, <2>2, <2>3, <4>1, <4>2, <4>3
    <3>2. CASE phase[x] = "sync"
      <4>1. LeftNow(x, comm) =
                Within(m, after(x), length(x)) + (IF comm = "data" THEN shares(x) ELSE 0)
        BY <2>4, <3>2 DEF Left, SyncLeft, ShareLeft
      <4>2. m \in Nat /\ after(x) \in Nat /\ length(x) \in Nat /\ shares(x) \in Nat
        BY <1>2, <2>1
      <4>3. Len(queue[r]) - after(r) > 0 /\ Len(queue[r]) \in Nat /\ after(r) \in Nat
        BY <1>2
      <4>. HIDE DEF m, shares, after, length
      <4>4. Within(m, after(x), length(x)) > 0
        <5>1. Within(m, after(x), length(x)) \in Int
          BY <4>2 DEF Within
        <5>2. shares(r) \in Nat
          BY <1>2
        <5>. QED BY <1>3, <2>2, <2>3, <4>1, <4>2, <4>3, <5>1, <5>2
      <4>. QED BY <3>2, <4>2, <4>4 DEF Within
    <3>. QED BY <2>1, <3>1, <3>2
  <2>6. CallAt(config, s, "sync", m, x).comm = comm
    <3>1. Counted(config, s, "sync", m, x) /\ m <= after(x) + length(x)
      BY <1>2, <2>1, <2>5
    <3>. QED BY <1>1, <2>5, <3>1, HeadIs
  <2>7. queue[x] # <<>>
    <3>1. m > 0
      BY <1>2, <2>1, <2>5
    <3>. QED BY <1>1, <2>1, <3>1, NowIs
  <2>8. Now(x) = CallAt(config, s, "sync", m, x)
    BY <1>1, <1>2, <2>1, <2>5, <2>7, NowIs
  <2>. QED BY <2>6, <2>7, <2>8
<1>. QED BY <1>4 DEF Ready

LEMMA NobodyWaitsForEver ==
    ASSUME CollInv, NormInv
    PROVE  AllDone \/ SomebodyGoesOn
<1>. SUFFICES ASSUME ~AllDone, \A r \in RanksHere : ~GoesOn(r)
              PROVE  \E comm \in Comms, r \in RanksHere : Ready(GroupOf(r, comm), comm)
  BY DEF SomebodyGoesOn
<1>1. ConfigAs /\ StepsAs /\ QueuesAs /\ Balanced /\ config \in Configs
  BY DEF CollInv, ConfigAs
<1>2. ASSUME NEW r \in RanksHere
      PROVE  /\ phase[r] \in {"sync", "share"} /\ (phase[r] = "sync" => queue[r] # <<>>)
             /\ Len(queue[r]) \in Nat /\ (queue[r] = <<>> <=> Len(queue[r]) = 0)
             /\ Counted(config, step[r], phase[r], Len(queue[r]), r)
             /\ queue[r] # <<>> => Now(r) = CallAt(config, step[r], phase[r], Len(queue[r]), r)
  BY <1>1, NowIs DEF GoesOn, StepsAs, Phases, QueuesAs
<1>. DEFINE Upto(comm) == \A x \in RanksHere : phase[x] = "sync" =>
                Len(queue[x]) <= After(config, step[x], x, comm) + Len(Part(config, step[x], x, comm))
            Past(comm) == \A x \in RanksHere : phase[x] = "sync" =>
                Len(queue[x]) <= After(config, step[x], x, comm)
<1>3. ASSUME NEW comm \in Rings, Upto(comm)
      PROVE  Past(comm) \/ \E r \in RanksHere : Ready(GroupOf(r, comm), comm)
  <2>. SUFFICES ASSUME ~Past(comm) PROVE \E r \in RanksHere : Ready(GroupOf(r, comm), comm)
    OBVIOUS
  <2>1. PICK r \in RanksHere : phase[r] = "sync" /\ ~(Len(queue[r]) <= After(config, step[r], r, comm))
    OBVIOUS
  <2>2. Len(queue[r]) > After(config, step[r], r, comm)
    <3>1. After(config, step[r], r, comm) \in Nat /\ Len(queue[r]) \in Nat
      BY <1>1, <1>2, AfterType
    <3>. QED BY <2>1, <3>1
  <2>. QED BY <1>2, <1>3, <2>1, <2>2, RingReady
<1>4. /\ Upto("context")
      /\ Past("context") => Upto("tensor")
      /\ Past("tensor") => Upto("expert")
      /\ Past("expert") => Upto("data")
  <2>1. ASSUME NEW x \in RanksHere
        PROVE  /\ After(config, step[x], x, "context") =
                     After(config, step[x], x, "tensor") + Len(Part(config, step[x], x, "tensor"))
               /\ After(config, step[x], x, "tensor") =
                     After(config, step[x], x, "expert") + Len(Part(config, step[x], x, "expert"))
               /\ After(config, step[x], x, "expert") =
                     After(config, step[x], x, "data") + Len(Part(config, step[x], x, "data"))
               /\ Len(Script(config, step[x], x)) =
                     After(config, step[x], x, "context") + Len(Part(config, step[x], x, "context"))
    <3>1. /\ Len(Part(config, step[x], x, "tensor")) \in Nat
          /\ Len(Part(config, step[x], x, "expert")) \in Nat
          /\ Len(Part(config, step[x], x, "data")) \in Nat
      BY <1>1, PartLength DEF Rings
    <3>2. Len(Script(config, step[x], x)) =
              After(config, step[x], x, "context") + Len(Part(config, step[x], x, "context"))
      BY <1>1, ScriptType
    <3>. QED BY <3>1, <3>2 DEF After
  <2>2. Upto("context")
    BY <1>2, <2>1 DEF Counted
  <2>. QED BY <2>1, <2>2
<1>5. SUFFICES ASSUME Past("data") PROVE \E comm \in Comms, r \in RanksHere : Ready(GroupOf(r, comm), comm)
  <2>1. Rings \subseteq Comms /\ {"context", "tensor", "expert", "data"} \subseteq Rings
    BY DEF Rings, Comms
  <2>. HIDE DEF Upto, Past
  <2>. QED BY <1>3, <1>4, <1>5, <2>1
<1>6. CASE \E r \in RanksHere : phase[r] = "sync"
  <2>1. PICK o \in RanksHere : phase[o] = "sync"
    BY <1>6
  <2>. DEFINE comm == NormCall(config).comm
  <2>2. comm \in Comms
    BY DEF NormCall, Call, Comms
  <2>3. ASSUME NEW x \in Members(GroupOf(o, comm)) PROVE queue[x] # <<>> /\ Now(x).comm = comm
    <3>1. x \in RanksHere /\ MeetAtNorm(config, x, o)
      BY <1>1, NormGroup
    <3>2. phase[x] = "sync" /\ queue[x] # <<>>
      BY <1>2, <2>1, <3>1 DEF NormInv, BeforeNorm
    <3>3. Len(queue[x]) = 1
      <4>1. Len(queue[x]) <= After(config, step[x], x, "data")
        BY <1>5, <3>1, <3>2
      <4>2. After(config, step[x], x, "data") = 1
        BY DEF After
      <4>3. Len(queue[x]) \in Nat /\ Len(queue[x]) # 0
        BY <1>2, <3>1, <3>2
      <4>4. \A m : m \in Nat /\ m # 0 /\ m <= 1 => m = 1
        OBVIOUS
      <4>. QED BY <4>1, <4>2, <4>3, <4>4
    <3>4. CallAt(config, step[x], "sync", 1, x) = NormCall(config)
      <4>1. Counted(config, step[x], "sync", 1, x)
        BY <1>2, <3>1, <3>2, <3>3
      <4>. QED BY <1>1, <4>1, NormIsLast
    <3>. QED BY <1>2, <3>1, <3>2, <3>3, <3>4
  <2>4. Ready(GroupOf(o, comm), comm)
    BY <2>3 DEF Ready
  <2>. QED BY <2>2, <2>4
<1>7. CASE \A r \in RanksHere : phase[r] = "share"
  <2>1. PICK o \in RanksHere : queue[o] # <<>>
    BY <1>7 DEF AllDone
  <2>2. ASSUME NEW x \in Members(GroupOf(o, "data")) PROVE queue[x] # <<>> /\ Now(x).comm = "data"
    <3>1. x \in RanksHere /\ Beside(config, x, o, "data")
      BY <1>1, GroupFacts DEF Comms, Rings
    <3>2. LeftNow(x, "data") = LeftNow(o, "data")
      BY <1>1, <3>1 DEF Balanced, Rings
    <3>3. ASSUME NEW y \in RanksHere PROVE LeftNow(y, "data") = Len(queue[y])
      BY <1>2, <1>7 DEF LeftNow, Left, SyncLeft, ShareLeft
    <3>4. Len(queue[x]) > 0 /\ queue[x] # <<>>
      BY <1>2, <2>1, <3>1, <3>2, <3>3
    <3>5. OnComm(Shares(config, x), "data", {"gather", "broadcast"}) /\ Len(Shares(config, x)) \in Nat
      BY <1>1, SharesType, SharesLength
    <3>6. Len(queue[x]) <= Len(Shares(config, x)) /\ Len(queue[x]) \in Nat
      BY <1>2, <1>7, <3>1 DEF Counted
    <3>7. Len(Shares(config, x)) - Len(queue[x]) + 1 \in 1..Len(Shares(config, x))
      BY <3>4, <3>5, <3>6
    <3>8. CallAt(config, step[x], "share", Len(queue[x]), x).comm = "data"
      BY <3>5, <3>7 DEF CallAt, OnComm
    <3>. QED BY <1>2, <1>7, <3>1, <3>4, <3>8
  <2>3. Ready(GroupOf(o, "data"), "data") /\ "data" \in Comms
    BY <2>2 DEF Ready, Comms
  <2>. QED BY <2>3
<1>. QED BY <1>2, <1>6, <1>7

(* No rank ever waits for another that waits for it: until all have done   *)
(* the step, some rank can go on by itself or some group has met, whatever *)
(* the communicators have in common (trainer 2398-2546).                   *)
THEOREM NeverStuck == Spec => [](AllDone \/ SomebodyGoesOn)
<1>1. Init => NormInv
  BY DEF Init, NormInv, BeforeNorm
<1>2. Spec => []NormInv
  BY <1>1, CollInvHolds, NormKept, PTL DEF Spec
<1>3. CollInv /\ NormInv => AllDone \/ SomebodyGoesOn
  BY NobodyWaitsForEver
<1>. QED BY <1>2, <1>3, CollInvHolds, PTL
=============================================================================
