--------------------------- MODULE ReplicaProofs ---------------------------
(***************************************************************************)
(* Proofs about what an optimizer step computes, for arrangements and      *)
(* buckets of any size, any number of steps and every way to divide the    *)
(* optimizer.  That the ranks that meet in a collective bring the same     *)
(* call is TrainStepProofs.                                                *)
(***************************************************************************)
EXTENDS TrainStepProofs

(* The running sums of a list are where its parts begin.                   *)
LEMMA BeginsAt ==
    ASSUME NEW sizes \in Seq(Nat), NEW f, Sums(f, sizes)
    PROVE  /\ NumelOf(sizes) = f[Len(sizes)]
           /\ \A i \in 1..Len(sizes) : TensorBegin(sizes, i) = f[i - 1]
<1>1. NumelOf(sizes) = f[Len(sizes)]
  <2>1. PICK g : Sums(g, sizes) /\ NumelOf(sizes) = g[Len(sizes)]
    BY NumelRuns
  <2>2. Len(sizes) \in Nat /\ Len(sizes) <= Len(sizes) /\ Len(sizes) \in 0..Len(sizes)
    OBVIOUS
  <2>3. \A i \in 0..Len(sizes) : f[i] = g[i]
    BY <2>1, <2>2, SumsAgree
  <2>. QED BY <2>1, <2>2, <2>3
<1>2. ASSUME NEW i \in 1..Len(sizes) PROVE TensorBegin(sizes, i) = f[i - 1]
  <2>. DEFINE s == SubSeq(sizes, 1, i - 1)
  <2>1. s \in Seq(Nat) /\ Len(s) = i - 1 /\ \A j \in 1..(i - 1) : s[j] = sizes[j]
    OBVIOUS
  <2>2. TensorBegin(sizes, i) = NumelOf(s)
    BY DEF TensorBegin
  <2>. HIDE DEF s
  <2>3. PICK g : Sums(g, s) /\ NumelOf(s) = g[Len(s)]
    BY <2>1, NumelRuns
  <2>4. PICK m \in Nat : m = i - 1
    OBVIOUS
  <2>5. m <= Len(sizes) /\ m <= Len(s) /\ Len(sizes) \in Nat /\ Len(s) \in Nat
        /\ \A j \in 1..m : s[j] = sizes[j]
    BY <2>1, <2>4
  <2>6. \A j \in 0..m : g[j] = f[j]
    BY <2>3, <2>5, SumsAgree
  <2>. QED BY <2>1, <2>2, <2>3, <2>4, <2>6
<1>. QED BY <1>1, <1>2

(* The size of a bucket is the sum of its entries' sizes.                  *)
SizesOf(bucket) == [i \in 1..Len(bucket) |-> bucket[i].size]

(* The size of a bucket is the sum of the sizes of its entries.            *)
LEMMA BucketSizeIs ==
    ASSUME NEW S, \A e \in S : e.size \in Nat, NEW bucket \in Seq(S)
    PROVE  SizesOf(bucket) \in Seq(Nat) /\ BucketSize(bucket) = NumelOf(SizesOf(bucket))
<1>. DEFINE n == Len(bucket)
            sizes == SizesOf(bucket)
            Rec(f) == f = [i \in 0..n |-> IF i = 0 THEN 0 ELSE f[i - 1] + bucket[i].size]
<1>1. n \in Nat /\ \A i \in 1..n : bucket[i].size \in Nat
  OBVIOUS
<1>2. sizes \in Seq(Nat) /\ Len(sizes) = n /\ \A i \in 1..n : sizes[i] = bucket[i].size
  BY <1>1 DEF SizesOf
<1>. HIDE DEF sizes
<1>3. PICK g : Sums(g, sizes) /\ NumelOf(sizes) = g[Len(sizes)]
  BY <1>2, NumelRuns
<1>4. \E f : Rec(f)
  <2>. DEFINE f == [i \in 0..n |-> g[i]]
  <2>1. ASSUME NEW i \in 0..n PROVE f[i] = IF i = 0 THEN 0 ELSE f[i - 1] + bucket[i].size
    <3>1. CASE i = 0
      BY <1>3, <3>1 DEF Sums
    <3>2. CASE i # 0
      <4>1. i \in 1..n /\ i - 1 \in 0..n
        BY <1>1, <3>2
      <4>2. g[i] = g[i - 1] + bucket[i].size
        BY <1>2, <1>3, <4>1 DEF Sums
      <4>. QED BY <3>2, <4>1, <4>2
    <3>. QED BY <3>1, <3>2
  <2>2. f = [i \in 0..n |-> f[i]]
    OBVIOUS
  <2>. HIDE DEF f
  <2>3. f = [i \in 0..n |-> IF i = 0 THEN 0 ELSE f[i - 1] + bucket[i].size]
    BY <2>1, <2>2
  <2>. QED BY <2>3
<1>5. PICK f : Rec(f) /\ BucketSize(bucket) = f[n]
  <2>. DEFINE f == CHOOSE h : Rec(h)
  <2>1. Rec(f)
    BY <1>4
  <2>2. BucketSize(bucket) = f[n]
    BY DEF BucketSize
  <2>. QED BY <2>1, <2>2
<1>6. \A i \in 0..n : f[i] = IF i = 0 THEN 0 ELSE f[i - 1] + bucket[i].size
  BY <1>5, Zenon
<1>7. f[0] = 0
  BY <1>1, <1>6
<1>8. \A i \in 1..Len(sizes) : f[i] = f[i - 1] + sizes[i]
  BY <1>1, <1>2, <1>6
<1>. HIDE DEF Rec, n
<1>9. Sums(f, sizes)
  BY <1>2, <1>7, <1>8, SumsType DEF Sums
<1>10. NumelOf(sizes) = f[Len(sizes)]
  BY <1>2, <1>9, BeginsAt
<1>. QED BY <1>2, <1>5, <1>10 DEF sizes

(* Ranges written over a flat vector: a position that one range alone      *)
(* reaches has that range's value, one that none reaches is kept.          *)
Reaches(begins, values, i, p) == begins[i] < p /\ p <= begins[i] + Len(values[i])
Written(x, flat, begins, values, m) ==
    /\ IsList(x) /\ Len(x) = Len(flat)
    /\ \A p \in 1..Len(flat) :
        /\ (\A i \in 1..m : ~Reaches(begins, values, i, p)) => x[p] = flat[p]
        /\ \A i \in 1..m :
            Reaches(begins, values, i, p) /\ (\A j \in 1..m : j # i => ~Reaches(begins, values, j, p))
                => x[p] = values[i][p - begins[i]]
Ranges(begins, values) ==
    /\ IsList(begins)
    /\ \A i \in 1..Len(begins) : begins[i] \in Nat /\ IsList(values[i])

(* One more range written.                                                 *)
LEMMA WrittenNext ==
    ASSUME NEW flat, IsList(flat), NEW begins, NEW values, Ranges(begins, values),
           NEW m \in Nat, m + 1 <= Len(begins), NEW x, Written(x, flat, begins, values, m)
    PROVE  Written(ApplyRange(x, begins[m + 1], values[m + 1]), flat, begins, values, m + 1)
<1>0. PICK k \in 1..Len(begins) : k = m + 1
  <2>1. Len(begins) \in Nat
    BY ListIs DEF Ranges
  <2>. QED BY <2>1
<1>1. begins[k] \in Nat /\ IsList(values[k]) /\ Len(values[k]) \in Nat
  BY ListIs DEF Ranges
<1>2. Len(flat) \in Nat /\ IsList(x) /\ Len(x) = Len(flat)
  BY ListIs DEF Written
<1>. DEFINE y == ApplyRange(x, begins[k], values[k])
<1>3. y = [i \in 1..Len(flat) |-> y[i]]
  BY <1>2 DEF ApplyRange
<1>4. \A p \in 1..Len(flat) :
        y[p] = IF Reaches(begins, values, k, p) THEN values[k][p - begins[k]] ELSE x[p]
  BY <1>2 DEF ApplyRange, Reaches
<1>. HIDE DEF y
<1>5. IsList(y) /\ Len(y) = Len(flat)
  BY <1>2, <1>3, ListOf
<1>6. ASSUME NEW p \in 1..Len(flat), \A i \in 1..(m + 1) : ~Reaches(begins, values, i, p)
      PROVE y[p] = flat[p]
  <2>1. k \in 1..(m + 1) /\ \A i \in 1..m : i \in 1..(m + 1)
    BY <1>0
  <2>2. x[p] = flat[p]
    BY <1>6, <2>1 DEF Written
  <2>. QED BY <1>4, <1>6, <2>1, <2>2
<1>7. ASSUME NEW p \in 1..Len(flat), NEW i \in 1..(m + 1), Reaches(begins, values, i, p),
             \A j \in 1..(m + 1) : j # i => ~Reaches(begins, values, j, p)
      PROVE y[p] = values[i][p - begins[i]]
  <2>1. k \in 1..(m + 1) /\ \A j \in 1..m : j \in 1..(m + 1) /\ j # k
    BY <1>0
  <2>2. CASE i = k
    BY <1>4, <1>7, <2>2
  <2>3. CASE i # k
    <3>1. i \in 1..m
      BY <1>0, <2>3
    <3>2. x[p] = values[i][p - begins[i]]
      BY <1>7, <2>1, <3>1 DEF Written
    <3>3. ~Reaches(begins, values, k, p)
      BY <1>7, <2>1, <2>3
    <3>. QED BY <1>4, <3>2, <3>3
  <2>. QED BY <2>2, <2>3
<1>8. Written(y, flat, begins, values, m + 1)
  BY <1>5, <1>6, <1>7 DEF Written
<1>. QED BY <1>0, <1>8 DEF y

(* After all the ranges have been written, a position holds what the one   *)
(* range that reaches it brought, or what it held before.                  *)
LEMMA ApplyRangesAt ==
    ASSUME NEW flat, IsList(flat), NEW begins, NEW values, Ranges(begins, values)
    PROVE  Written(ApplyRanges(flat, begins, values), flat, begins, values, Len(begins))
<1>. DEFINE n == Len(begins)
            L == Len(flat)
            U == {flat[p] : p \in 1..L}
                    \cup UNION {{values[i][p - begins[i]] : p \in 1..L} : i \in 1..n}
            T == [1..L -> U]
            Step(x, i) == ApplyRange(x, begins[i], values[i])
            Rec(f) == f = [i \in 0..n |-> IF i = 0 THEN flat ELSE Step(f[i - 1], i)]
            next == [x \in T \X (1..n) |-> Step(x[1], x[2])]
<1>1. n \in Nat /\ L \in Nat /\ flat = [p \in 1..L |-> flat[p]]
  BY ListIs DEF Ranges
<1>2. flat \in T
  BY <1>1
<1>3. ASSUME NEW x \in T, NEW i \in 1..n PROVE Step(x, i) \in T
  <2>1. IsList(x) /\ Len(x) = L
    BY <1>1, ListOf
  <2>2. \A p \in 1..L : x[p] \in U
    OBVIOUS
  <2>3. \A p \in 1..L : values[i][p - begins[i]] \in U
    OBVIOUS
  <2>4. Step(x, i) = [p \in 1..L |-> IF begins[i] < p /\ p <= begins[i] + Len(values[i])
                                       THEN values[i][p - begins[i]] ELSE x[p]]
    BY <2>1 DEF ApplyRange
  <2>. HIDE DEF U
  <2>. QED BY <2>2, <2>3, <2>4
<1>4. \E f : Rec(f)
  <2>1. \A x \in T, i \in 1..n : next[<<x, i>>] = Step(x, i)
    OBVIOUS
  <2>. HIDE DEF next, Step, T, n
  <2>2. StaysIn(T, n, flat, next)
    BY <1>1, <1>2, <1>3, <2>1 DEF StaysIn
  <2>3. PICK f : RunsAlong(f, T, n, flat, next)
    BY <2>2, Recursion
  <2>4. f \in [0..n -> T] /\ f[0] = flat /\ \A i \in 1..n : f[i] = next[<<f[i - 1], i>>]
    BY <2>3 DEF RunsAlong
  <2>5. f = [i \in 0..n |-> IF i = 0 THEN flat ELSE Step(f[i - 1], i)]
    <3>1. ASSUME NEW i \in 1..n PROVE f[i] = Step(f[i - 1], i)
      <4>1. i - 1 \in 0..n
        BY <1>1
      <4>2. f[i - 1] \in T
        BY <2>4, <4>1
      <4>. QED BY <2>1, <2>4, <4>2
    <3>2. \A i \in 0..n : i = 0 \/ (i # 0 /\ i \in 1..n)
      BY <1>1
    <3>3. ASSUME NEW i \in 0..n PROVE f[i] = IF i = 0 THEN flat ELSE Step(f[i - 1], i)
      BY <2>4, <3>1, <3>2
    <3>. QED BY <2>4, <3>3
  <2>. QED BY <2>5
<1>5. PICK f : Rec(f) /\ ApplyRanges(flat, begins, values) = f[n]
  <2>. DEFINE f == CHOOSE g : Rec(g)
  <2>1. Rec(f)
    BY <1>4
  <2>2. ApplyRanges(flat, begins, values) = f[n]
    BY DEF ApplyRanges
  <2>. QED BY <2>1, <2>2
<1>6. \A i \in 0..n : f[i] = IF i = 0 THEN flat ELSE Step(f[i - 1], i)
  BY <1>5, Zenon
<1>. DEFINE Done == {m \in Nat : m <= n => Written(f[m], flat, begins, values, m)}
<1>7. 0 \in Done
  <2>1. f[0] = flat
    BY <1>1, <1>6
  <2>2. Written(flat, flat, begins, values, 0)
    BY DEF Written
  <2>. QED BY <2>1, <2>2
<1>8. ASSUME NEW m \in Nat, m \in Done PROVE m + 1 \in Done
  <2>1. CASE m + 1 <= n
    <3>1. PICK k \in 0..n : k = m + 1
      BY <1>1, <2>1
    <3>2. f[k] = Step(f[k - 1], k)
      BY <1>6, <3>1
    <3>3. Written(f[m], flat, begins, values, m)
      BY <1>1, <1>8, <2>1
    <3>4. PICK x : x = f[m]
      OBVIOUS
    <3>5. Written(ApplyRange(x, begins[m + 1], values[m + 1]), flat, begins, values, m + 1)
      BY <2>1, <3>3, <3>4, WrittenNext
    <3>6. k - 1 = m
      BY <3>1
    <3>7. Written(f[m + 1], flat, begins, values, m + 1)
      BY <3>1, <3>2, <3>4, <3>5, <3>6
    <3>. QED BY <3>7
  <2>. QED BY <2>1
<1>. HIDE DEF Done
<1>9. n \in Done
  BY <1>1, <1>7, <1>8, NaturalsIn
<1>. QED BY <1>1, <1>5, <1>9 DEF Done

(* Every entry is in one bucket, once.                                     *)
Distinct(entries) ==
    \A i, j \in 1..Len(entries) : entries[i].name = entries[j].name => i = j
OneHolds(pile, entries, n) ==
    /\ \A u \in 1..Len(pile) : \A k \in 1..Len(pile[u]) : \E j \in 1..n : pile[u][k] = entries[j]
    /\ \A j \in 1..n : \E u \in 1..Len(pile) : \E k \in 1..Len(pile[u]) : pile[u][k] = entries[j]
    /\ \A u, v \in 1..Len(pile) : \A k \in 1..Len(pile[u]), l \in 1..Len(pile[v]) :
         pile[u][k].name = pile[v][l].name => u = v /\ k = l
Pile(b) == Append(b.closed, b.current)

(* The closed buckets and the open one, as one list.                       *)
LEMMA PileIs ==
    ASSUME NEW S, NEW b \in Filled(S)
    PROVE  LET m == Len(b.closed)
           IN  /\ m \in Nat /\ Len(Pile(b)) = m + 1 /\ Pile(b)[m + 1] = b.current
               /\ \A u \in 1..m : Pile(b)[u] = b.closed[u]
               /\ Pile(b) \in Seq(Seq(S)) /\ b.closed \in Seq(Seq(S)) /\ b.current \in Seq(S)
<1>. DEFINE m == Len(b.closed)
            t == b.closed
            c == b.current
<1>1. t \in Seq(Seq(S)) /\ c \in Seq(S)
  BY DEF Filled
<1>2. Pile(b) = Append(t, c)
  BY DEF Pile
<1>. HIDE DEF t, c
<1>3. /\ Len(t) \in Nat /\ Len(Append(t, c)) = Len(t) + 1 /\ Append(t, c)[Len(t) + 1] = c
      /\ \A u \in 1..Len(t) : Append(t, c)[u] = t[u]
      /\ Append(t, c) \in Seq(Seq(S))
  BY <1>1
<1>. QED BY <1>1, <1>2, <1>3 DEF t, c

(* Closing the open bucket keeps every entry where it is, once.            *)
LEMMA HoldsFlushed ==
    ASSUME NEW S, NEW b \in Filled(S), \A e \in S : e.size \in Nat,
           NEW entries, NEW n, OneHolds(Pile(b), entries, n)
    PROVE  /\ OneHolds(Pile(Flush(b)), entries, n)
           /\ OneHolds(Flush(b).closed, entries, n)
           /\ Flush(b).current = <<>>
<1>. DEFINE p == Pile(b)
            m == Len(b.closed)
<1>1. CASE b.current = <<>>
  <2>1. Flush(b) = b
    BY <1>1 DEF Flush
  <2>2. /\ m \in Nat /\ Len(p) = m + 1 /\ Len(p[m + 1]) = 0
        /\ \A u \in 1..m : p[u] = b.closed[u]
    <3>1. m \in Nat /\ Len(p) = m + 1 /\ p[m + 1] = b.current /\ \A u \in 1..m : p[u] = b.closed[u]
      BY PileIs
    <3>. HIDE DEF p, m
    <3>. QED BY <1>1, <3>1
  <2>0. /\ \A u \in 1..Len(p) : \A k \in 1..Len(p[u]) : \E j \in 1..n : p[u][k] = entries[j]
        /\ \A j \in 1..n : \E u \in 1..Len(p) : \E k \in 1..Len(p[u]) : p[u][k] = entries[j]
    BY DEF OneHolds
  <2>01. \A u, v \in 1..Len(p) : \A k \in 1..Len(p[u]), l \in 1..Len(p[v]) :
           p[u][k].name = p[v][l].name => u = v /\ k = l
    BY DEF OneHolds
  <2>. HIDE DEF p, m
  <2>3. \A u \in 1..Len(p) : \A k \in 1..Len(p[u]) : u \in 1..m
    BY <2>2
  <2>4. \A u \in 1..m : u \in 1..Len(p)
    BY <2>2
  <2>5. OneHolds(b.closed, entries, n)
    <3>1. ASSUME NEW u \in 1..m, NEW k \in 1..Len(b.closed[u])
          PROVE  \E j \in 1..n : b.closed[u][k] = entries[j]
      <4>1. u \in 1..Len(p) /\ p[u] = b.closed[u] /\ k \in 1..Len(p[u])
        BY <2>2, <2>4
      <4>2. \E j \in 1..n : p[u][k] = entries[j]
        BY <2>0, <4>1
      <4>. QED BY <4>1, <4>2
    <3>2. ASSUME NEW j \in 1..n
          PROVE \E u \in 1..m : \E k \in 1..Len(b.closed[u]) : b.closed[u][k] = entries[j]
      <4>1. PICK u \in 1..Len(p) : \E k \in 1..Len(p[u]) : p[u][k] = entries[j]
        BY <2>0
      <4>2. u \in 1..m
        BY <2>3, <4>1
      <4>. QED BY <2>2, <4>1, <4>2
    <3>3. ASSUME NEW u \in 1..m, NEW v \in 1..m, NEW k \in 1..Len(b.closed[u]), NEW l \in 1..Len(b.closed[v]),
                 b.closed[u][k].name = b.closed[v][l].name
          PROVE  u = v /\ k = l
      <4>1. u \in 1..Len(p) /\ v \in 1..Len(p) /\ p[u] = b.closed[u] /\ p[v] = b.closed[v]
        BY <2>2, <2>4
      <4>2. k \in 1..Len(p[u]) /\ l \in 1..Len(p[v]) /\ p[u][k].name = p[v][l].name
        BY <3>3, <4>1
      <4>. QED BY <2>01, <4>1, <4>2
    <3>. QED BY <3>1, <3>2, <3>3 DEF OneHolds, m
  <2>. QED BY <1>1, <2>1, <2>5 DEF p
<1>2. CASE b.current # <<>>
  <2>1. Flush(b) = [closed |-> p, current |-> <<>>, size |-> 0]
    BY <1>2 DEF Flush, Pile
  <2>2. Flush(b).closed = p /\ Flush(b).current = <<>>
    BY <2>1
  <2>3. Flush(b) \in Filled(S)
    BY FilledType
  <2>. DEFINE q == Pile(Flush(b))
              w == Len(p)
  <2>4. /\ w \in Nat /\ Len(q) = w + 1 /\ Len(q[w + 1]) = 0
        /\ \A u \in 1..w : q[u] = p[u]
    <3>. DEFINE x == Flush(b)
    <3>1. /\ Len(x.closed) \in Nat /\ Len(q) = Len(x.closed) + 1 /\ q[Len(x.closed) + 1] = x.current
          /\ \A u \in 1..Len(x.closed) : q[u] = x.closed[u]
      BY <2>3, PileIs
    <3>2. x.closed = p /\ Len(x.current) = 0
      BY <2>2
    <3>. HIDE DEF x, p, q
    <3>. QED BY <3>1, <3>2 DEF w
  <2>. HIDE DEF p, q, w
  <2>5. \A u \in 1..Len(q) : \A k \in 1..Len(q[u]) : u \in 1..w
    BY <2>4
  <2>6. \A u \in 1..w : u \in 1..Len(q)
    BY <2>4
  <2>7. OneHolds(p, entries, n)
    BY DEF p
  <2>70. /\ \A u \in 1..w : \A k \in 1..Len(p[u]) : \E j \in 1..n : p[u][k] = entries[j]
         /\ \A j \in 1..n : \E u \in 1..w : \E k \in 1..Len(p[u]) : p[u][k] = entries[j]
    BY <2>7 DEF OneHolds, w
  <2>71. \A u, v \in 1..w : \A k \in 1..Len(p[u]), l \in 1..Len(p[v]) :
           p[u][k].name = p[v][l].name => u = v /\ k = l
    BY <2>7 DEF OneHolds, w
  <2>8. OneHolds(q, entries, n)
    <3>1. ASSUME NEW u \in 1..Len(q), NEW k \in 1..Len(q[u])
          PROVE  \E j \in 1..n : q[u][k] = entries[j]
      <4>1. u \in 1..w /\ q[u] = p[u]
        BY <2>4, <2>5
      <4>. QED BY <2>70, <4>1
    <3>2. ASSUME NEW j \in 1..n
          PROVE \E u \in 1..Len(q) : \E k \in 1..Len(q[u]) : q[u][k] = entries[j]
      <4>1. PICK u \in 1..w : \E k \in 1..Len(p[u]) : p[u][k] = entries[j]
        BY <2>70
      <4>. QED BY <2>4, <2>6, <4>1
    <3>3. ASSUME NEW u \in 1..Len(q), NEW v \in 1..Len(q), NEW k \in 1..Len(q[u]), NEW l \in 1..Len(q[v]),
                 q[u][k].name = q[v][l].name
          PROVE  u = v /\ k = l
      <4>1. u \in 1..w /\ v \in 1..w /\ q[u] = p[u] /\ q[v] = p[v]
        BY <2>4, <2>5
      <4>2. k \in 1..Len(p[u]) /\ l \in 1..Len(p[v]) /\ p[u][k].name = p[v][l].name
        BY <3>3, <4>1
      <4>. QED BY <2>71, <4>1, <4>2
    <3>. QED BY <3>1, <3>2, <3>3 DEF OneHolds
  <2>. QED BY <2>2, <2>7, <2>8 DEF q
<1>. QED BY <1>1, <1>2

(* Putting one more entry in the open bucket adds it once.                 *)
LEMMA HoldsPut ==
    ASSUME NEW S, NEW b \in Filled(S), \A e \in S : e.size \in Nat,
           NEW entries \in Seq(S), Distinct(entries), NEW n \in 1..Len(entries),
           OneHolds(Pile(b), entries, n - 1)
    PROVE  OneHolds(Pile(Put(b, entries[n])), entries, n)
<1>. DEFINE e == entries[n]
            p == Pile(b)
            q == Pile(Put(b, e))
            m == Len(b.closed)
            c == b.current
            d == Append(c, e)
<1>1. /\ m \in Nat /\ Len(p) = m + 1 /\ p[m + 1] = c /\ c \in Seq(S)
      /\ b.closed \in Seq(Seq(S))
      /\ \A u \in 1..m : p[u] = b.closed[u]
  BY PileIs
<1>2. Put(b, e).closed = b.closed /\ Put(b, e).current = d
  BY DEF Put, Filled
<1>3. e \in S /\ n \in Nat /\ Len(entries) \in Nat
  OBVIOUS
<1>4. d \in Seq(S) /\ Len(d) = Len(c) + 1 /\ d[Len(d)] = e /\ Len(c) \in Nat
      /\ \A k \in 1..Len(c) : d[k] = c[k]
  BY <1>1, <1>3
<1>5. Len(q) = m + 1 /\ q[m + 1] = d /\ \A u \in 1..m : q[u] = p[u]
  <2>1. q = Append(b.closed, d)
    BY <1>2 DEF Pile
  <2>. HIDE DEF q, d
  <2>2. PICK t \in Seq(Seq(S)) : t = b.closed
    BY <1>1
  <2>3. Len(Append(t, d)) = Len(t) + 1 /\ Append(t, d)[Len(t) + 1] = d
        /\ \A u \in 1..Len(t) : Append(t, d)[u] = t[u]
    BY <1>4
  <2>. QED BY <1>1, <2>1, <2>2, <2>3
<1>6. OneHolds(p, entries, n - 1)
  OBVIOUS
<1>. HIDE DEF p, q, m, c, d, e
<1>7. \A u \in 1..Len(q) : u \in 1..m \/ u = m + 1
  BY <1>1, <1>5
<1>8. ASSUME NEW u \in 1..Len(q), NEW k \in 1..Len(q[u])
      PROVE  \/ u = m + 1 /\ k = Len(d) /\ q[u][k] = e
             \/ u \in 1..Len(p) /\ k \in 1..Len(p[u]) /\ q[u][k] = p[u][k]
  <2>1. CASE u \in 1..m
    <3>1. u \in 1..Len(p) /\ q[u] = p[u]
      BY <1>1, <1>5, <2>1
    <3>. QED BY <3>1
  <2>2. CASE u = m + 1
    <3>1. q[u] = d /\ p[u] = c /\ u \in 1..Len(p) /\ Len(d) = Len(c) + 1
      BY <1>1, <1>4, <1>5, <2>2
    <3>2. CASE k = Len(d)
      BY <1>4, <2>2, <3>1, <3>2
    <3>3. CASE k # Len(d)
      <4>1. k \in 1..Len(c)
        BY <1>4, <3>1, <3>3
      <4>. QED BY <1>4, <3>1, <4>1
    <3>. QED BY <3>2, <3>3
  <2>. QED BY <1>7, <2>1, <2>2
<1>9. ASSUME NEW u \in 1..Len(p), NEW k \in 1..Len(p[u])
      PROVE  /\ u \in 1..Len(q) /\ k \in 1..Len(q[u]) /\ q[u][k] = p[u][k]
             /\ p[u][k].name # e.name
  <2>1. u \in 1..Len(q) /\ k \in 1..Len(q[u]) /\ q[u][k] = p[u][k]
    <3>1. CASE u \in 1..m
      <4>1. u \in 1..Len(q) /\ q[u] = p[u]
        BY <1>1, <1>5, <3>1
      <4>. QED BY <4>1
    <3>2. CASE u = m + 1
      <4>1. q[u] = d /\ p[u] = c /\ u \in 1..Len(q)
        BY <1>1, <1>5, <3>2
      <4>2. k \in 1..Len(c) /\ k \in 1..Len(d) /\ d[k] = c[k]
        BY <1>4, <4>1
      <4>. QED BY <4>1, <4>2
    <3>. QED BY <1>1, <3>1, <3>2
  <2>2. PICK j \in 1..(n - 1) : p[u][k] = entries[j]
    BY <1>6 DEF OneHolds
  <2>3. j \in 1..Len(entries) /\ n \in 1..Len(entries) /\ j # n
    BY <1>3
  <2>. QED BY <2>1, <2>2, <2>3 DEF Distinct, e
<1>10. m + 1 \in 1..Len(q) /\ Len(d) \in 1..Len(q[m + 1]) /\ q[m + 1][Len(d)] = e
  BY <1>1, <1>4, <1>5
<1>11. \A j \in 1..n : j = n \/ j \in 1..(n - 1)
  BY <1>3
<1>12. ASSUME NEW u \in 1..Len(q), NEW k \in 1..Len(q[u])
       PROVE  \E j \in 1..n : q[u][k] = entries[j]
  <2>1. CASE q[u][k] = e
    <3>1. n \in 1..n
      BY <1>3
    <3>. QED BY <2>1, <3>1 DEF e
  <2>2. CASE u \in 1..Len(p) /\ k \in 1..Len(p[u]) /\ q[u][k] = p[u][k]
    <3>1. PICK j \in 1..(n - 1) : p[u][k] = entries[j]
      BY <1>6, <2>2 DEF OneHolds
    <3>2. j \in 1..n
      BY <1>3
    <3>. QED BY <2>2, <3>1, <3>2
  <2>. QED BY <1>8, <2>1, <2>2
<1>13. ASSUME NEW j \in 1..n
       PROVE  \E u \in 1..Len(q) : \E k \in 1..Len(q[u]) : q[u][k] = entries[j]
  <2>1. CASE j = n
    BY <1>10, <2>1 DEF e
  <2>2. CASE j \in 1..(n - 1)
    <3>1. PICK u \in 1..Len(p) : \E k \in 1..Len(p[u]) : p[u][k] = entries[j]
      BY <1>6, <2>2 DEF OneHolds
    <3>2. PICK k \in 1..Len(p[u]) : p[u][k] = entries[j]
      BY <3>1
    <3>3. u \in 1..Len(q) /\ k \in 1..Len(q[u]) /\ q[u][k] = entries[j]
      BY <1>9, <3>2
    <3>. QED BY <3>3
  <2>. QED BY <1>11, <2>1, <2>2
<1>14. ASSUME NEW u \in 1..Len(q), NEW v \in 1..Len(q), NEW k \in 1..Len(q[u]), NEW l \in 1..Len(q[v]),
              q[u][k].name = q[v][l].name
       PROVE  u = v /\ k = l
  <2>1. CASE /\ u = m + 1 /\ k = Len(d) /\ q[u][k] = e
             /\ v = m + 1 /\ l = Len(d)
    BY <2>1
  <2>2. CASE /\ q[u][k] = e
             /\ v \in 1..Len(p) /\ l \in 1..Len(p[v]) /\ q[v][l] = p[v][l]
    BY <1>9, <1>14, <2>2
  <2>3. CASE /\ q[v][l] = e
             /\ u \in 1..Len(p) /\ k \in 1..Len(p[u]) /\ q[u][k] = p[u][k]
    BY <1>9, <1>14, <2>3
  <2>4. CASE /\ u \in 1..Len(p) /\ k \in 1..Len(p[u]) /\ q[u][k] = p[u][k]
             /\ v \in 1..Len(p) /\ l \in 1..Len(p[v]) /\ q[v][l] = p[v][l]
    <3>1. p[u][k].name = p[v][l].name
      BY <1>14, <2>4
    <3>3. u \in 1..Len(p) /\ v \in 1..Len(p) /\ k \in 1..Len(p[u]) /\ l \in 1..Len(p[v])
      BY <2>4
    <3>2. \A x, y \in 1..Len(p) : \A i \in 1..Len(p[x]) : \A j \in 1..Len(p[y]) :
             p[x][i].name = p[y][j].name => x = y /\ i = j
      BY <1>6 DEF OneHolds
    <3>. QED BY ONLY <3>1, <3>2, <3>3
  <2>. QED BY <1>8, <2>1, <2>2, <2>3, <2>4
<1>15. OneHolds(q, entries, n)
  BY <1>12, <1>13, <1>14 DEF OneHolds
<1>. QED BY <1>15 DEF q, e

(* Every entry is in one of the buckets, in one place (parallel_ops.cc     *)
(* 248-285).                                                               *)
LEMMA BucketsOnce ==
    ASSUME NEW S, \A e \in S : e.size \in Nat, NEW entries \in Seq(S), Distinct(entries), NEW limit
    PROVE  OneHolds(Buckets(entries, limit), entries, Len(entries))
<1>1. PICK f : FillsTo(f, entries, limit) /\ \A i \in 0..Len(entries) : f[i] \in Filled(S)
  BY BucketsRuns
<1>. DEFINE n == Len(entries)
            Done == {m \in Nat : m <= n => OneHolds(Pile(f[m]), entries, m)}
<1>0. n \in Nat
  OBVIOUS
<1>2. 0 \in Done
  <2>1. f[0] = Open
    BY <1>1 DEF FillsTo
  <2>2. Pile(Open) = <<<<>>>>
    BY DEF Pile, Open
  <2>3. Len(<<<<>>>>) = 1 /\ <<<<>>>>[1] = <<>> /\ Len(<<>>) = 0
    OBVIOUS
  <2>4. OneHolds(<<<<>>>>, entries, 0)
    BY <2>3 DEF OneHolds
  <2>. QED BY <2>1, <2>2, <2>4
<1>3. ASSUME NEW m \in Nat, m \in Done PROVE m + 1 \in Done
  <2>1. CASE m + 1 <= n
    <3>1. PICK k \in 1..n : k = m + 1
      BY <1>0, <2>1
    <3>2. m \in 0..n /\ k - 1 = m /\ k \in 0..n
      BY <1>0, <3>1
    <3>3. PICK b \in Filled(S) : b = f[m]
      BY <1>1, <3>2
    <3>4. OneHolds(Pile(b), entries, m)
      BY <1>3, <2>1, <3>2, <3>3
    <3>5. f[k] = Fill(b, entries[k], limit)
      BY <1>1, <3>2, <3>3 DEF FillsTo
    <3>6. PICK x \in Filled(S) : x = (IF Fits(b, entries[k], limit) THEN b ELSE Flush(b))
      BY FilledType
    <3>7. OneHolds(Pile(x), entries, k - 1)
      BY <3>2, <3>4, <3>6, HoldsFlushed
    <3>8. OneHolds(Pile(Put(x, entries[k])), entries, k)
      BY <3>7, HoldsPut
    <3>. QED BY <3>1, <3>5, <3>6, <3>8 DEF Fill
  <2>. QED BY <2>1
<1>. HIDE DEF Done
<1>4. n \in Done
  BY <1>0, <1>2, <1>3, NaturalsIn
<1>5. OneHolds(Pile(f[n]), entries, n)
  BY <1>0, <1>4 DEF Done
<1>6. PICK b \in Filled(S) : b = f[n]
  <2>1. n \in 0..n
    BY <1>0
  <2>. QED BY <1>1, <2>1
<1>7. OneHolds(Flush(b).closed, entries, n)
  BY <1>5, <1>6, HoldsFlushed
<1>. QED BY <1>1, <1>6, <1>7 DEF FillsTo

(* Picking among distinct names keeps them distinct, and leaves out only   *)
(* those that are not wanted.                                              *)
NoTwice(names) == \A i, j \in 1..Len(names) : names[i] = names[j] => i = j
Picked(x, names, wanted, m) ==
    /\ \A k \in 1..Len(x) : \E j \in 1..m : x[k] = names[j] /\ names[j] \in wanted
    /\ \A j \in 1..m : names[j] \in wanted => \E k \in 1..Len(x) : x[k] = names[j]
    /\ NoTwice(x)

(* The names that are picked are the wanted ones, each once.               *)
LEMMA AmongIs ==
    ASSUME NEW S, NEW names \in Seq(S), NoTwice(names), NEW wanted
    PROVE  /\ NoTwice(Among(names, wanted))
           /\ Members(Among(names, wanted)) = Members(names) \cap wanted
<1>1. PICK f : /\ PicksTo(f, names, wanted)
               /\ \A i \in 0..Len(names) : f[i] \in Seq(S \cap wanted)
  BY AmongRuns
<1>. DEFINE n == Len(names)
            Done == {m \in Nat : m <= n => Picked(f[m], names, wanted, m)}
<1>0. n \in Nat /\ DOMAIN names = 1..n
  OBVIOUS
<1>2. 0 \in Done
  BY <1>1 DEF PicksTo, Picked, NoTwice
<1>3. ASSUME NEW m \in Nat, m \in Done PROVE m + 1 \in Done
  <2>. SUFFICES ASSUME m + 1 <= n PROVE Picked(f[m + 1], names, wanted, m + 1)
    OBVIOUS
  <2>1. PICK k \in 1..n : k = m + 1
    BY <1>0
  <2>2. k - 1 = m /\ m \in 0..n /\ \A j \in 1..m : j \in 1..k /\ j \in 1..n /\ j # k
    BY <1>0, <2>1
  <2>3. PICK x \in Seq(S \cap wanted) : x = f[m]
    BY <1>1, <2>2
  <2>4. Picked(x, names, wanted, m)
    BY <1>3, <2>3
  <2>5. f[k] = IF names[k] \in wanted THEN Append(x, names[k]) ELSE x
    BY <1>1, <2>2, <2>3 DEF PicksTo
  <2>6. k \in 1..k /\ \A j \in 1..k : j = k \/ j \in 1..m
    BY <2>1
  <2>7. CASE names[k] \notin wanted
    BY <2>1, <2>2, <2>4, <2>5, <2>6, <2>7 DEF Picked
  <2>8. CASE names[k] \in wanted
    <3>. DEFINE y == Append(x, names[k])
    <3>1. Len(y) = Len(x) + 1 /\ Len(x) \in Nat /\ y[Len(y)] = names[k] /\ \A i \in 1..Len(x) : y[i] = x[i]
      OBVIOUS
    <3>. HIDE DEF y
    <3>2. \A i \in 1..Len(y) : i = Len(y) \/ i \in 1..Len(x)
      BY <3>1
    <3>3. \A i \in 1..Len(x) : i \in 1..Len(y) /\ x[i] # names[k]
      BY <2>2, <2>4, <3>1 DEF Picked, NoTwice
    <3>4. ASSUME NEW i \in 1..Len(y) PROVE \E j \in 1..k : y[i] = names[j] /\ names[j] \in wanted
      <4>1. CASE i = Len(y)
        BY <2>6, <2>8, <3>1, <4>1
      <4>2. CASE i \in 1..Len(x)
        <5>1. PICK j \in 1..m : x[i] = names[j] /\ names[j] \in wanted
          BY <2>4, <4>2 DEF Picked
        <5>2. j \in 1..k
          BY <2>2
        <5>. QED BY <3>1, <4>2, <5>1, <5>2
      <4>. QED BY <3>2, <4>1, <4>2
    <3>5. \A j \in 1..k : names[j] \in wanted => \E i \in 1..Len(y) : y[i] = names[j]
      <4>1. Len(y) \in 1..Len(y)
        BY <3>1
      <4>. QED BY <2>4, <2>6, <3>1, <3>3, <4>1 DEF Picked
    <3>6. NoTwice(y)
      BY <2>4, <3>1, <3>2, <3>3 DEF Picked, NoTwice
    <3>7. Picked(y, names, wanted, k)
      BY <3>4, <3>5, <3>6 DEF Picked
    <3>. QED BY <2>1, <2>5, <2>8, <3>7 DEF y
  <2>. QED BY <2>7, <2>8
<1>. HIDE DEF Done
<1>4. n \in Done
  BY <1>0, <1>2, <1>3, NaturalsIn
<1>5. Picked(Among(names, wanted), names, wanted, n)
  BY <1>0, <1>1, <1>4 DEF Done, PicksTo
<1>6. DOMAIN Among(names, wanted) = 1..Len(Among(names, wanted))
  BY AmongType
<1>7. PICK a : a = Among(names, wanted)
  OBVIOUS
<1>8. ASSUME NEW x PROVE x \in Members(a) <=> x \in Members(names) /\ x \in wanted
  <2>1. x \in Members(a) <=> \E k \in 1..Len(a) : x = a[k]
    BY <1>6, <1>7 DEF Members
  <2>2. x \in Members(names) <=> \E j \in 1..n : x = names[j]
    BY <1>0 DEF Members
  <2>3. Picked(a, names, wanted, n)
    BY <1>5, <1>7
  <2>. HIDE DEF n
  <2>4. (\E k \in 1..Len(a) : x = a[k]) <=> (\E j \in 1..n : x = names[j]) /\ x \in wanted
    BY <2>3 DEF Picked
  <2>. QED BY <2>1, <2>2, <2>4
<1>9. NoTwice(a)
  BY <1>5, <1>7 DEF Picked
<1>. QED BY <1>7, <1>8, <1>9

(* Where an entry is in its bucket's flat buffer.                          *)
LEMMA OffsetIs ==
    ASSUME NEW S, \A e \in S : e.size \in Nat, NEW bucket \in Seq(S), NEW f, Sums(f, SizesOf(bucket))
    PROVE  /\ BucketSize(bucket) = f[Len(bucket)]
           /\ \A k \in 1..Len(bucket) : Offset(bucket, k) = f[k - 1]
<1>1. SizesOf(bucket) \in Seq(Nat) /\ BucketSize(bucket) = NumelOf(SizesOf(bucket))
  BY BucketSizeIs
<1>2. Len(SizesOf(bucket)) = Len(bucket) /\ \A k \in 1..Len(bucket) : SizesOf(bucket)[k] = bucket[k].size
  BY DEF SizesOf
<1>3. BucketSize(bucket) = f[Len(bucket)]
  BY <1>1, <1>2, BeginsAt
<1>4. ASSUME NEW k \in 1..Len(bucket) PROVE Offset(bucket, k) = f[k - 1]
  <2>. DEFINE b == SubSeq(bucket, 1, k - 1)
  <2>1. b \in Seq(S) /\ Len(b) = k - 1 /\ \A j \in 1..(k - 1) : b[j] = bucket[j]
    OBVIOUS
  <2>2. Offset(bucket, k) = BucketSize(b)
    BY DEF Offset
  <2>. HIDE DEF b
  <2>3. SizesOf(b) \in Seq(Nat) /\ BucketSize(b) = NumelOf(SizesOf(b))
    BY <2>1, BucketSizeIs
  <2>4. PICK g : Sums(g, SizesOf(b)) /\ NumelOf(SizesOf(b)) = g[Len(SizesOf(b))]
    BY <2>3, NumelRuns
  <2>5. PICK m \in Nat : m = k - 1
    OBVIOUS
  <2>6. Len(SizesOf(b)) = m /\ m <= Len(SizesOf(bucket)) /\ Len(SizesOf(bucket)) \in Nat
        /\ \A j \in 1..m : SizesOf(bucket)[j] = SizesOf(b)[j]
    BY <1>2, <2>1, <2>5 DEF SizesOf
  <2>7. PICK s \in Seq(Nat) : s = SizesOf(bucket)
    BY <1>1
  <2>8. PICK t \in Seq(Nat) : t = SizesOf(b)
    BY <2>3
  <2>9. m <= Len(t) /\ Len(t) \in Nat
    BY <2>6, <2>8
  <2>10. \A j \in 0..m : f[j] = g[j]
    <3>1. Sums(f, s) /\ Sums(g, t)
      BY <2>4, <2>7, <2>8
    <3>2. m <= Len(s) /\ \A j \in 1..m : s[j] = t[j]
      BY <2>6, <2>7, <2>8
    <3>3. Len(s) \in Nat /\ Len(t) \in Nat /\ m <= Len(t) /\ m \in Nat
      BY <2>9
    <3>. QED BY ONLY <3>1, <3>2, <3>3, SumsAgree
  <2>. QED BY <2>2, <2>3, <2>4, <2>5, <2>6, <2>10
<1>. QED BY <1>3, <1>4

Fitting(bucket, value) ==
    \A k \in 1..Len(bucket) : /\ IsList(value[bucket[k].name])
                              /\ Len(value[bucket[k].name]) = bucket[k].size

(* Where the elements of a tensor are in a flattened bucket.               *)
LEMMA BucketAt ==
    ASSUME NEW S, \A e \in S : e.size \in Nat, NEW bucket \in Seq(S), NEW value, Fitting(bucket, value),
           NEW k \in 1..Len(bucket), NEW j \in 1..bucket[k].size
    PROVE  /\ Offset(bucket, k) + j \in 1..BucketSize(bucket)
           /\ FlattenBucket(bucket, value)[Offset(bucket, k) + j] = value[bucket[k].name][j]
<1>. DEFINE sizes == SizesOf(bucket)
            seqs == [i \in DOMAIN bucket |-> value[bucket[i].name]]
<1>1. sizes \in Seq(Nat) /\ Len(sizes) = Len(bucket) /\ \A i \in 1..Len(bucket) : sizes[i] = bucket[i].size
  BY BucketSizeIs DEF SizesOf
<1>2. FlattenBucket(bucket, value) = FlattenSeq(seqs)
  BY DEF FlattenBucket
<1>3. Len(bucket) \in Nat /\ DOMAIN bucket = 1..Len(bucket)
  OBVIOUS
<1>4. seqs = [i \in 1..Len(bucket) |-> seqs[i]] /\ \A i \in 1..Len(bucket) : seqs[i] = value[bucket[i].name]
  BY <1>3
<1>. HIDE DEF sizes, seqs
<1>5. IsList(seqs) /\ Len(seqs) = Len(bucket)
  BY <1>3, <1>4, ListOf
<1>6. Parts(seqs, sizes)
  <2>1. \A i \in 1..Len(bucket) : IsList(seqs[i]) /\ Len(seqs[i]) = bucket[i].size
    BY <1>4 DEF Fitting
  <2>2. \A i \in 1..Len(sizes) : IsList(seqs[i]) /\ Len(seqs[i]) = sizes[i]
    BY <1>1, <2>1
  <2>. QED BY <1>1, <1>5, <2>2 DEF Parts
<1>7. PICK f : Sums(f, sizes)
  BY <1>1, NumelRuns
<1>8. Laid(FlattenSeq(seqs), seqs, f, Len(bucket))
  BY <1>1, <1>6, <1>7, FlattenAt
<1>9. BucketSize(bucket) = f[Len(bucket)] /\ Offset(bucket, k) = f[k - 1]
  BY <1>7, OffsetIs DEF sizes
<1>10. FlattenSeq(seqs)[f[k - 1] + j] = seqs[k][j]
  <2>1. j \in 1..Len(seqs[k])
    BY <1>4 DEF Fitting
  <2>. QED BY <1>8, <2>1 DEF Laid
<1>11. f[k] <= f[Len(bucket)] /\ f[k] = f[k - 1] + bucket[k].size /\ f[k - 1] \in Nat
       /\ f[Len(bucket)] \in Nat
  <2>1. k \in 0..Len(sizes) /\ Len(sizes) \in 0..Len(sizes) /\ k \in 0..Len(sizes) /\ k \in 1..Len(sizes)
        /\ k - 1 \in 0..Len(sizes)
    BY <1>1, <1>3
  <2>2. f[k] <= f[Len(sizes)]
    BY <1>1, <1>7, <2>1, SumsGrow
  <2>3. f[k] = f[k - 1] + sizes[k] /\ f[k - 1] \in Nat /\ f[Len(sizes)] \in Nat
    BY <1>7, <2>1 DEF Sums
  <2>. QED BY <1>1, <2>2, <2>3
<1>12. bucket[k].size \in Nat
  OBVIOUS
<1>13. f[k - 1] + j \in 1..f[Len(bucket)]
  BY <1>11, <1>12
<1>. QED BY <1>2, <1>4, <1>9, <1>10, <1>13

(* What a tensor receives out of a flattened bucket.                       *)
LEMMA UnflattenAt ==
    ASSUME NEW S, NEW bucket \in Seq(S), Distinct(bucket), NEW flat, NEW value,
           NEW n \in DOMAIN value
    PROVE  /\ \A k \in 1..Len(bucket) : bucket[k].name = n =>
                Unflatten(bucket, flat, value)[n] =
                    [j \in 1..bucket[k].size |-> flat[Offset(bucket, k) + j]]
           /\ (\A k \in 1..Len(bucket) : bucket[k].name # n) =>
                Unflatten(bucket, flat, value)[n] = value[n]
<1>1. DOMAIN bucket = 1..Len(bucket)
  OBVIOUS
<1>2. ASSUME NEW k \in 1..Len(bucket), bucket[k].name = n
      PROVE  Unflatten(bucket, flat, value)[n] = [j \in 1..bucket[k].size |-> flat[Offset(bucket, k) + j]]
  <2>. DEFINE i == CHOOSE h \in DOMAIN bucket : bucket[h].name = n
  <2>1. i \in DOMAIN bucket /\ bucket[i].name = n
    BY <1>1, <1>2
  <2>2. Unflatten(bucket, flat, value)[n] = [j \in 1..bucket[i].size |-> flat[Offset(bucket, i) + j]]
    BY <2>1 DEF Unflatten
  <2>. HIDE DEF i
  <2>3. i = k
    BY <1>1, <1>2, <2>1 DEF Distinct
  <2>. QED BY <2>2, <2>3
<1>3. ASSUME \A k \in 1..Len(bucket) : bucket[k].name # n
      PROVE  Unflatten(bucket, flat, value)[n] = value[n]
  BY <1>1, <1>3 DEF Unflatten
<1>. QED BY <1>2, <1>3

-----------------------------------------------------------------------------
(* What a gradient is worth in the course of a step, as a matter of the    *)
(* configuration, the step, the rank and the parameter alone.              *)
NobodyIn(c) == [q \in Ranks(c.dims) |-> 0]
ZeroIn(c) == [at |-> <<"none", 0>>, from |-> NobodyIn(c), div |-> 1]
MixedIn(c) == [at |-> <<"mixed", 0>>, from |-> NobodyIn(c), div |-> 1]
ReducedIn(c, op, values) ==
    LET real == {i \in DOMAIN values : values[i].at # ZeroIn(c).at}
        first == values[CHOOSE i \in real : TRUE]
    IN  IF real = {} THEN ZeroIn(c)
        ELSE IF \E i \in real : values[i].at # first.at \/ values[i].div # first.div
          THEN MixedIn(c)
        ELSE [at |-> first.at,
              from |-> [q \in Ranks(c.dims) |-> TimesIn(values, q)],
              div |-> IF op = "mean" THEN first.div * Len(values) ELSE first.div]

RingOf(c, r, comm) == Group(c.dims, Coordinates(c.dims, r), comm)
SourcesIn(c, r, n) == IF n = "expert" THEN Members(RingOf(c, r, "expert")) ELSE {r}
RoutedIn(c, s, r, n) == n = "expert" => DataOf(c, r) \in c.routed[s]

FromTokens(c, s) ==
    [r \in Ranks(c.dims) |-> [n \in Members(NamesOf(c, r)) |-> [j \in 1..Size[n] |->
        IF RoutedIn(c, s, r, n)
          THEN [at |-> <<n, j>>, div |-> 1,
                from |-> [q \in Ranks(c.dims) |-> IF q \in SourcesIn(c, r, n) THEN 1 ELSE 0]]
          ELSE ZeroIn(c)]]]

(* What the collectives of one communicator make of the gradients w.       *)
Merging(c, comm) ==
    CASE comm = "context" -> AllNames
      [] comm = "tensor" -> TpReplicated
      [] comm = "expert" -> EpReplicated
      [] comm = "data" -> IF c.mode = "flat" THEN {} ELSE AllNames
OpOf(comm) == IF comm = "context" THEN "sum" ELSE "mean"
Merged(c, w, comm) ==
    [r \in Ranks(c.dims) |-> [n \in Members(NamesOf(c, r)) |->
        IF c.dims[comm] = 1 \/ n \notin Merging(c, comm) THEN w[r][n]
        ELSE [j \in 1..Size[n] |->
                ReducedIn(c, OpOf(comm),
                          [i \in 1..c.dims[comm] |-> w[RingOf(c, r, comm)[i]][n][j]])]]]

PastContext(c, s) == Merged(c, FromTokens(c, s), "context")
PastTensor(c, s) == Merged(c, PastContext(c, s), "tensor")
PastExpert(c, s) == Merged(c, PastTensor(c, s), "expert")
PastData(c, s) == Merged(c, PastExpert(c, s), "data")
Entering(c, s, comm) ==
    CASE comm = "context" -> FromTokens(c, s)
      [] comm = "tensor" -> PastContext(c, s)
      [] comm = "expert" -> PastTensor(c, s)
      [] comm = "data" -> PastExpert(c, s)
Leaving(c, s, comm) ==
    CASE comm = "context" -> PastContext(c, s)
      [] comm = "tensor" -> PastTensor(c, s)
      [] comm = "expert" -> PastExpert(c, s)
      [] comm = "data" -> PastData(c, s)

(* One level of gradients is made of the one before it.                    *)
LEMMA LeavingIs ==
    ASSUME NEW c, NEW s, NEW comm \in Rings
    PROVE  Leaving(c, s, comm) = Merged(c, Entering(c, s, comm), comm)
BY DEF Rings, Leaving, Entering, PastContext, PastTensor, PastExpert, PastData

(* Whether one of the last k calls has the parameter in its bucket.        *)
Carries(x, n) == x.kind \in {"sum", "mean"} /\ \E i \in 1..Len(x.data) : x.data[i].name = n
Awaits(calls, k, n) == \E b \in 1..Len(calls) : b > Len(calls) - k /\ Carries(calls[b], n)
OnceEach(calls) ==
    \A n \in AllNames : \A b, d \in 1..Len(calls) :
        Carries(calls[b], n) /\ Carries(calls[d], n) => b = d

(* Which names are still awaited when one call is taken.                   *)
LEMMA AwaitsMoves ==
    ASSUME NEW calls, IsList(calls), OnceEach(calls), NEW l \in 1..Len(calls), NEW n \in AllNames
    PROVE  /\ Awaits(calls, l, n) <=> \/ Carries(calls[Len(calls) - l + 1], n)
                                      \/ Awaits(calls, l - 1, n)
           /\ Carries(calls[Len(calls) - l + 1], n) => ~Awaits(calls, l - 1, n)
<1>1. Len(calls) \in Nat
  BY ListIs
<1>2. PICK d \in 1..Len(calls) : d = Len(calls) - l + 1
  BY <1>1
<1>3. \A b \in 1..Len(calls) : b > Len(calls) - l <=> b = d \/ b > Len(calls) - (l - 1)
  BY <1>1, <1>2
<1>4. ~(d > Len(calls) - (l - 1))
  BY <1>1, <1>2
<1>5. Awaits(calls, l, n) <=> Carries(calls[d], n) \/ Awaits(calls, l - 1, n)
  BY <1>3 DEF Awaits
<1>6. Carries(calls[d], n) => ~Awaits(calls, l - 1, n)
  BY <1>4 DEF Awaits, OnceEach
<1>. QED BY <1>2, <1>5, <1>6

(* Nothing is awaited from no calls, and everything that is carried from   *)
(* all of them.                                                            *)
LEMMA AwaitsEnds ==
    ASSUME NEW calls, IsList(calls), NEW n
    PROVE  /\ ~Awaits(calls, 0, n)
           /\ Awaits(calls, Len(calls), n) <=> \E b \in 1..Len(calls) : Carries(calls[b], n)
<1>1. Len(calls) \in Nat
  BY ListIs
<1>2. \A b \in 1..Len(calls) : ~(b > Len(calls) - 0) /\ b > Len(calls) - Len(calls)
  BY <1>1
<1>. QED BY <1>2 DEF Awaits

AllEntries == {EntryOf(n) : n \in AllNames}

(* The entries of the parameters.                                          *)
LEMMA AllSized == \A e \in AllEntries : e.size \in Nat /\ e.name \in AllNames /\ e = EntryOf(e.name)
                                        /\ e.size = Size[e.name]
<1>1. \A n \in AllNames : Size[n] \in Nat
  BY TrainAssumption DEF AllNames
<1>. QED BY <1>1 DEF AllEntries, EntryOf

IsBucket(x, op) ==
    /\ x.data \in Seq(AllEntries) /\ Distinct(x.data) /\ x.kind = op
    /\ x.size = BucketSize(x.data)
CarryAll(calls, names) ==
    \A n \in AllNames : (\E b \in 1..Len(calls) : Carries(calls[b], n)) <=> n \in names

(* Every parameter sent is in the bucket of one call.                      *)
LEMMA SyncCarries ==
    ASSUME NEW c, NEW sending \in Seq(AllNames), NoTwice(sending), NEW comm, NEW op \in {"sum", "mean"}
    PROVE  LET calls == Sync(c, sending, comm, op)
           IN  /\ IsList(calls) /\ OnceEach(calls)
               /\ CarryAll(calls, IF c.dims[comm] = 1 THEN {} ELSE Members(sending))
               /\ \A b \in 1..Len(calls) : IsBucket(calls[b], op)
<1>. DEFINE calls == Sync(c, sending, comm, op)
            entries == Sized(sending)
            cuts == Buckets(entries, c.bucket)
<1>1. entries \in Seq(AllEntries) /\ Len(entries) = Len(sending)
      /\ \A i \in 1..Len(sending) : entries[i] = EntryOf(sending[i])
  <2>1. Sized(sending) \in Seq({EntryOf(n) : n \in AllNames})
    BY SizedType
  <2>2. DOMAIN sending = 1..Len(sending) /\ Len(sending) \in Nat
    OBVIOUS
  <2>3. entries = [i \in 1..Len(sending) |-> EntryOf(sending[i])]
    BY <2>2 DEF Sized, EntryOf
  <2>4. Len(entries) = Len(sending)
    BY <2>2, <2>3
  <2>. QED BY <2>1, <2>3, <2>4 DEF AllEntries
<1>. HIDE DEF entries
<1>2. Distinct(entries)
  <2>1. \A n : EntryOf(n).name = n
    BY DEF EntryOf
  <2>2. \A i \in 1..Len(sending) : entries[i].name = sending[i]
    BY <1>1, <2>1
  <2>. QED BY <1>1, <2>2 DEF Distinct, NoTwice
<1>3. cuts \in Seq(Seq(AllEntries)) /\ OneHolds(cuts, entries, Len(entries))
  BY <1>1, <1>2, AllSized, BucketsType, BucketsOnce
<1>. HIDE DEF cuts
<1>4. CASE c.dims[comm] = 1
  <2>1. calls = <<>>
    BY <1>4 DEF Sync
  <2>2. IsList(<<>>) /\ Len(<<>>) = 0
    BY DEF IsList
  <2>. QED BY <1>4, <2>1, <2>2 DEF OnceEach, CarryAll
<1>5. CASE c.dims[comm] # 1
  <2>0. Len(cuts) \in Nat /\ DOMAIN cuts = 1..Len(cuts)
    BY <1>3
  <2>1. calls = [i \in 1..Len(cuts) |-> Call(comm, op, cuts[i], BucketSize(cuts[i]))]
    BY <1>5, <2>0 DEF Sync, cuts, entries
  <2>2. calls = [i \in 1..Len(cuts) |-> calls[i]]
    BY <2>1
  <2>3. \A b \in 1..Len(cuts) : calls[b] = Call(comm, op, cuts[b], BucketSize(cuts[b]))
    BY <2>1
  <2>. HIDE DEF calls
  <2>4. IsList(calls) /\ Len(calls) = Len(cuts)
    BY <2>0, <2>2, ListOf
  <2>5. ASSUME NEW b \in 1..Len(calls)
        PROVE  /\ calls[b].data = cuts[b] /\ calls[b].kind = op /\ cuts[b] \in Seq(AllEntries)
               /\ calls[b].size = BucketSize(cuts[b])
    <3>1. calls[b] = [comm |-> comm, kind |-> op, data |-> cuts[b], size |-> BucketSize(cuts[b])]
      BY <2>3, <2>4 DEF Call
    <3>2. cuts[b] \in Seq(AllEntries)
      BY <1>3, <2>4
    <3>. QED BY <3>1, <3>2
  <2>6. \A b \in 1..Len(calls) : \A n : Carries(calls[b], n) <=>
                                       \E k \in 1..Len(cuts[b]) : cuts[b][k].name = n
    BY <2>5 DEF Carries
  <2>7. OnceEach(calls)
    <3>1. ASSUME NEW n \in AllNames, NEW b \in 1..Len(calls), NEW d \in 1..Len(calls),
                 Carries(calls[b], n), Carries(calls[d], n)
          PROVE  b = d
      <4>1. PICK k \in 1..Len(cuts[b]) : cuts[b][k].name = n
        BY <2>6, <3>1
      <4>2. PICK l \in 1..Len(cuts[d]) : cuts[d][l].name = n
        BY <2>6, <3>1
      <4>3. b \in 1..Len(cuts) /\ d \in 1..Len(cuts) /\ cuts[b][k].name = cuts[d][l].name
        BY <2>4, <4>1, <4>2
      <4>4. \A u, v \in 1..Len(cuts) : \A x \in 1..Len(cuts[u]) : \A y \in 1..Len(cuts[v]) :
               cuts[u][x].name = cuts[v][y].name => u = v /\ x = y
        BY <1>3 DEF OneHolds
      <4>. QED BY <4>1, <4>2, <4>3, <4>4
    <3>. QED BY <3>1 DEF OnceEach
  <2>8. ASSUME NEW b \in 1..Len(calls) PROVE Distinct(calls[b].data)
    <3>1. calls[b].data = cuts[b] /\ b \in 1..Len(cuts)
      BY <2>4, <2>5
    <3>2. \A u, v \in 1..Len(cuts) : \A k \in 1..Len(cuts[u]) : \A l \in 1..Len(cuts[v]) :
             cuts[u][k].name = cuts[v][l].name => u = v /\ k = l
      BY <1>3 DEF OneHolds
    <3>3. Distinct(cuts[b])
      BY <3>1, <3>2 DEF Distinct
    <3>. QED BY <3>1, <3>3
  <2>9. ASSUME NEW n \in AllNames
        PROVE  (\E b \in 1..Len(calls) : Carries(calls[b], n)) <=> n \in Members(sending)
    <3>1. n \in Members(sending) <=> \E j \in 1..Len(entries) : entries[j].name = n
      <4>1. DOMAIN sending = 1..Len(sending)
        OBVIOUS
      <4>2. n \in Members(sending) <=> \E j \in 1..Len(sending) : sending[j] = n
        BY <4>1 DEF Members
      <4>3. \A j \in 1..Len(sending) : entries[j].name = sending[j]
        <5>1. \A m : EntryOf(m).name = m
          BY DEF EntryOf
        <5>. QED BY <1>1, <5>1
      <4>. QED BY <1>1, <4>2, <4>3
    <3>2. ASSUME NEW b \in 1..Len(calls), Carries(calls[b], n) PROVE n \in Members(sending)
      <4>1. PICK k \in 1..Len(cuts[b]) : cuts[b][k].name = n
        BY <2>6, <3>2
      <4>2. PICK j \in 1..Len(entries) : cuts[b][k] = entries[j]
        <5>1. b \in 1..Len(cuts)
          BY <2>4
        <5>2. OneHolds(cuts, entries, Len(entries))
          BY <1>3
        <5>3. \A h \in 1..Len(cuts[b]) : \E j \in 1..Len(entries) : cuts[b][h] = entries[j]
          BY <5>1, <5>2 DEF OneHolds
        <5>. QED BY <5>3
      <4>. QED BY <3>1, <4>1, <4>2
    <3>3. ASSUME NEW j \in 1..Len(entries), entries[j].name = n
          PROVE  \E b \in 1..Len(calls) : Carries(calls[b], n)
      <4>1. PICK b \in 1..Len(cuts) : \E k \in 1..Len(cuts[b]) : cuts[b][k] = entries[j]
        BY <1>3 DEF OneHolds
      <4>. QED BY <2>4, <2>6, <3>3, <4>1
    <3>. QED BY <3>1, <3>2, <3>3
  <2>10. CarryAll(calls, Members(sending))
    BY <2>9 DEF CarryAll
  <2>11. \A b \in 1..Len(calls) : IsBucket(calls[b], op)
    BY <2>5, <2>8 DEF IsBucket
  <2>. QED BY <1>5, <2>4, <2>7, <2>10, <2>11 DEF calls
<1>. QED BY <1>4, <1>5

(* No parameter is listed twice.                                           *)
LEMMA NamesOnce ==
    ASSUME NEW c, NEW r
    PROVE  NoTwice(NamesOf(c, r))
<1>1. ASSUME NEW info PROVE NoTwice(StageNames(c, info))
  <2>. DEFINE first == IF HasEmbed(c, info) THEN <<"embed">> ELSE <<>>
              last == IF Moe(c) THEN <<"expert">> ELSE <<>>
  <2>1. IsList(first) /\ IsList(last) /\ IsList(<<"norm", "proj">>)
    <3>0. /\ <<>> \in Seq(AllNames) /\ <<"embed">> \in Seq(AllNames) /\ <<"expert">> \in Seq(AllNames)
          /\ <<"norm", "proj">> \in Seq(AllNames)
      BY DEF AllNames
    <3>1. first \in Seq(AllNames) /\ last \in Seq(AllNames) /\ <<"norm", "proj">> \in Seq(AllNames)
      BY <3>0
    <3>. QED BY <3>1 DEF IsList
  <2>2. \/ Len(first) = 0
        \/ Len(first) = 1 /\ first[1] = "embed"
    OBVIOUS
  <2>3. \/ Len(last) = 0
        \/ Len(last) = 1 /\ last[1] = "expert"
    OBVIOUS
  <2>4. Len(<<"norm", "proj">>) = 2 /\ <<"norm", "proj">>[1] = "norm" /\ <<"norm", "proj">>[2] = "proj"
    OBVIOUS
  <2>. HIDE DEF first, last
  <2>. DEFINE two == first \o <<"norm", "proj">>
              all == two \o last
  <2>5. /\ IsList(two) /\ Len(two) = Len(first) + 2
        /\ \A i \in 1..Len(first) : two[i] = first[i]
        /\ \A i \in 1..2 : two[Len(first) + i] = <<"norm", "proj">>[i]
    <3>. HIDE DEF two
    <3>1. two = first \o <<"norm", "proj">>
      BY DEF two
    <3>. QED BY <2>1, <2>4, <3>1, Concat
  <2>. HIDE DEF two
  <2>6. /\ IsList(all) /\ Len(all) = Len(two) + Len(last)
        /\ \A i \in 1..Len(two) : all[i] = two[i]
        /\ \A i \in 1..Len(last) : all[Len(two) + i] = last[i]
    BY <2>1, <2>5, Concat
  <2>7. StageNames(c, info) = all
    BY DEF StageNames, all, two, first, last
  <2>. HIDE DEF all
  <2>8. CASE Len(first) = 0
    <3>1. Len(two) = 2 /\ two[1] = "norm" /\ two[2] = "proj"
      BY <2>4, <2>5, <2>8
    <3>2. all[1] = "norm" /\ all[2] = "proj" /\ (Len(all) = 2 \/ (Len(all) = 3 /\ all[3] = "expert"))
      BY <2>3, <2>6, <3>1
    <3>3. NoTwice(all)
      BY <3>2 DEF NoTwice
    <3>. QED BY <2>7, <3>3
  <2>9. CASE Len(first) = 1 /\ first[1] = "embed"
    <3>1. Len(two) = 3 /\ two[1] = "embed" /\ two[2] = "norm" /\ two[3] = "proj"
      BY <2>4, <2>5, <2>9
    <3>2. /\ all[1] = "embed" /\ all[2] = "norm" /\ all[3] = "proj"
          /\ (Len(all) = 3 \/ (Len(all) = 4 /\ all[4] = "expert"))
      BY <2>3, <2>6, <3>1
    <3>3. NoTwice(all)
      BY <3>2 DEF NoTwice
    <3>. QED BY <2>7, <3>3
  <2>. QED BY <2>2, <2>8, <2>9
<1>. QED BY <1>1 DEF NamesOf

(* What the calls of a step on one communicator carry.                     *)
Carried(c, s, r, comm) ==
    {n \in AllNames : \E b \in 1..Len(Part(c, s, r, comm)) : Carries(Part(c, s, r, comm)[b], n)}
Sending(c, s, r, comm) ==
    CASE comm = "context" -> Listed(c, s, r)
      [] comm = "tensor" -> Among(Listed(c, s, r), TpReplicated)
      [] comm = "expert" -> Among(Listed(c, s, r), EpReplicated)
      [] comm = "data" -> Listed(c, s, r)
Shards(c, comm) == comm = "data" /\ c.mode = "flat"

(* What the part of a ring sends.                                          *)
LEMMA SendingIs ==
    ASSUME NEW c, NEW s, NEW r, NEW comm \in Rings
    PROVE  /\ Sending(c, s, r, comm) \in Seq(AllNames) /\ NoTwice(Sending(c, s, r, comm))
           /\ ~Shards(c, comm) =>
                /\ Members(Sending(c, s, r, comm)) = Wants(c, s, r) \cap Merging(c, comm)
                /\ Part(c, s, r, comm) = Sync(c, Sending(c, s, r, comm), comm, OpOf(comm))
           /\ Shards(c, comm) => Part(c, s, r, comm) = ByPiece(c, NamesOf(c, r), "scatter")
<1>. DEFINE L == Listed(c, s, r)
            W == Wants(c, s, r)
<1>1. L \in Seq(W) /\ \A kinds : Among(L, kinds) \in Seq(W)
  BY ListedType
<1>2. W \subseteq AllNames /\ W \subseteq Members(NamesOf(c, r))
  BY EntriesType DEF Wants
<1>3. NoTwice(L) /\ Members(L) = W
  <2>1. NamesOf(c, r) \in Seq(AllNames)
    BY NamesType
  <2>2. NoTwice(L) /\ Members(L) = Members(NamesOf(c, r)) \cap W
    <3>. HIDE DEF W
    <3>1. L = Among(NamesOf(c, r), W)
      BY DEF Listed, W
    <3>. HIDE DEF L
    <3>. QED BY <2>1, <3>1, NamesOnce, AmongIs
  <2>. QED BY <1>2, <2>2
<1>. HIDE DEF L, W
<1>4. \A kinds : NoTwice(Among(L, kinds)) /\ Members(Among(L, kinds)) = W \cap kinds
  BY <1>1, <1>3, AmongIs
<1>5. L \in Seq(AllNames) /\ \A kinds : Among(L, kinds) \in Seq(AllNames)
  <2>1. Seq(W) \subseteq Seq(AllNames)
    BY <1>2
  <2>. QED BY <1>1, <2>1
<1>6. CASE comm = "context"
  <2>1. Sending(c, s, r, comm) = L /\ Merging(c, comm) = AllNames /\ OpOf(comm) = "sum"
    BY <1>6 DEF Sending, L, Merging, OpOf
  <2>2. Part(c, s, r, comm) = Sync(c, L, comm, OpOf(comm)) /\ ~Shards(c, comm)
    BY <1>6, <2>1 DEF Part, L, Shards
  <2>. QED BY <1>2, <1>3, <1>5, <2>1, <2>2 DEF W
<1>7. CASE comm = "tensor"
  <2>1. Sending(c, s, r, comm) = Among(L, TpReplicated) /\ Merging(c, comm) = TpReplicated
        /\ OpOf(comm) = "mean"
    BY <1>7 DEF Sending, L, Merging, OpOf
  <2>2. Part(c, s, r, comm) = Sync(c, Among(L, TpReplicated), comm, OpOf(comm)) /\ ~Shards(c, comm)
    BY <1>7, <2>1 DEF Part, L, Shards
  <2>. QED BY <1>4, <1>5, <2>1, <2>2 DEF W
<1>8. CASE comm = "expert"
  <2>1. Sending(c, s, r, comm) = Among(L, EpReplicated) /\ Merging(c, comm) = EpReplicated
        /\ OpOf(comm) = "mean"
    BY <1>8 DEF Sending, L, Merging, OpOf
  <2>2. Part(c, s, r, comm) = Sync(c, Among(L, EpReplicated), comm, OpOf(comm)) /\ ~Shards(c, comm)
    BY <1>8, <2>1 DEF Part, L, Shards
  <2>. QED BY <1>4, <1>5, <2>1, <2>2 DEF W
<1>9. CASE comm = "data" /\ c.mode # "flat"
  <2>1. Sending(c, s, r, comm) = L /\ Merging(c, comm) = AllNames /\ OpOf(comm) = "mean"
    BY <1>9 DEF Sending, L, Merging, OpOf
  <2>2. Part(c, s, r, comm) = Sync(c, L, comm, OpOf(comm)) /\ ~Shards(c, comm)
    BY <1>9, <2>1 DEF Part, L, Shards
  <2>. QED BY <1>2, <1>3, <1>5, <2>1, <2>2 DEF W
<1>10. CASE comm = "data" /\ c.mode = "flat"
  <2>1. Sending(c, s, r, comm) = L /\ Shards(c, comm)
    BY <1>10 DEF Sending, L, Shards
  <2>2. Part(c, s, r, comm) = ByPiece(c, NamesOf(c, r), "scatter")
    BY <1>10 DEF Part
  <2>. QED BY <1>3, <1>5, <2>1, <2>2
<1>. QED BY <1>6, <1>7, <1>8, <1>9, <1>10 DEF Rings

(* The part of a ring carries every gradient it merges, once.              *)
LEMMA PartCarries ==
    ASSUME NEW c \in Configs, NEW s, NEW r, NEW comm \in Rings
    PROVE  LET calls == Part(c, s, r, comm)
           IN  /\ IsList(calls) /\ OnceEach(calls)
               /\ Carried(c, s, r, comm) =
                    IF c.dims[comm] = 1 THEN {} ELSE Wants(c, s, r) \cap Merging(c, comm)
               /\ \A b \in 1..Len(calls) :
                    IF Shards(c, comm) THEN calls[b].kind = "scatter"
                    ELSE IsBucket(calls[b], OpOf(comm))
<1>. DEFINE calls == Part(c, s, r, comm)
            names == Sending(c, s, r, comm)
            op == OpOf(comm)
<1>1. names \in Seq(AllNames) /\ NoTwice(names)
  BY SendingIs
<1>2. Wants(c, s, r) \subseteq AllNames
  BY EntriesType
<1>3. CASE ~Shards(c, comm)
  <2>1. calls = Sync(c, names, comm, op) /\ Members(names) = Wants(c, s, r) \cap Merging(c, comm)
    BY <1>3, SendingIs
  <2>2. op \in {"sum", "mean"}
    BY DEF OpOf
  <2>. HIDE DEF calls, names, op
  <2>. DEFINE sent == IF c.dims[comm] = 1 THEN {} ELSE Members(names)
  <2>3. /\ IsList(calls) /\ OnceEach(calls) /\ CarryAll(calls, sent)
        /\ \A b \in 1..Len(calls) : IsBucket(calls[b], op)
    BY <1>1, <2>1, <2>2, SyncCarries
  <2>4. sent = IF c.dims[comm] = 1 THEN {} ELSE Wants(c, s, r) \cap Merging(c, comm)
    BY <2>1
  <2>5. sent \subseteq AllNames
    BY <1>2, <2>4
  <2>. HIDE DEF sent
  <2>6. Carried(c, s, r, comm) = sent
    BY <2>3, <2>5 DEF Carried, CarryAll, calls
  <2>. QED BY <1>3, <2>3, <2>4, <2>6 DEF calls, op
<1>4. CASE Shards(c, comm)
  <2>1. calls = ByPiece(c, NamesOf(c, r), "scatter")
    BY <1>4, SendingIs
  <2>2. OnComm(calls, "data", {"scatter"})
    BY <2>1, PiecesType
  <2>. HIDE DEF calls
  <2>3. IsList(calls) /\ \A b \in 1..Len(calls) : calls[b].kind = "scatter"
    BY <2>2 DEF OnComm
  <2>4. \A b \in 1..Len(calls) : \A n : ~Carries(calls[b], n)
    BY <2>3 DEF Carries
  <2>5. OnceEach(calls)
    BY <2>4 DEF OnceEach
  <2>6. Carried(c, s, r, comm) = {} /\ Merging(c, comm) = {}
    BY <1>4, <2>4 DEF Carried, calls, Merging, Shards
  <2>. QED BY <1>4, <2>3, <2>5, <2>6 DEF calls
<1>. QED BY <1>3, <1>4

(* The gradient of a parameter when k calls of the script are left: it has *)
(* been through the communicators whose call for it is among those made.   *)
Waiting(c, s, r, comm, k, n) ==
    Awaits(Part(c, s, r, comm), SyncLeft(c, s, "sync", k, r, comm), n)
GradAt(c, s, r, k, n) ==
    IF Waiting(c, s, r, "context", k, n) THEN FromTokens(c, s)[r][n]
    ELSE IF Waiting(c, s, r, "tensor", k, n) THEN PastContext(c, s)[r][n]
    ELSE IF Waiting(c, s, r, "expert", k, n) THEN PastTensor(c, s)[r][n]
    ELSE IF Waiting(c, s, r, "data", k, n) THEN PastExpert(c, s)[r][n]
    ELSE PastData(c, s)[r][n]

(* As many elements as the parameter has.                                  *)
IsVector(v, n) == v = [j \in 1..Size[n] |-> v[j]]
Vectors(c, w) == \A r \in Ranks(c.dims) : \A n \in Members(NamesOf(c, r)) : IsVector(w[r][n], n)

(* Reducing vectors gives vectors.                                         *)
LEMMA MergedVectors ==
    ASSUME NEW c, NEW w, Vectors(c, w), NEW comm
    PROVE  Vectors(c, Merged(c, w, comm))
<1>1. ASSUME NEW r \in Ranks(c.dims), NEW n \in Members(NamesOf(c, r))
      PROVE  IsVector(Merged(c, w, comm)[r][n], n)
  <2>1. CASE c.dims[comm] = 1 \/ n \notin Merging(c, comm)
    <3>1. Merged(c, w, comm)[r][n] = w[r][n]
      BY <2>1 DEF Merged
    <3>. QED BY <3>1 DEF Vectors
  <2>2. CASE ~(c.dims[comm] = 1 \/ n \notin Merging(c, comm))
    <3>1. Merged(c, w, comm)[r][n] =
            [j \in 1..Size[n] |->
                ReducedIn(c, OpOf(comm),
                          [i \in 1..c.dims[comm] |-> w[RingOf(c, r, comm)[i]][n][j]])]
      BY <2>2 DEF Merged
    <3>. QED BY <3>1 DEF IsVector
  <2>. QED BY <2>1, <2>2
<1>. QED BY <1>1 DEF Vectors

(* The gradients are vectors at every level.                               *)
LEMMA LevelsAreVectors ==
    ASSUME NEW c, NEW s
    PROVE  /\ Vectors(c, FromTokens(c, s)) /\ Vectors(c, PastContext(c, s))
           /\ Vectors(c, PastTensor(c, s)) /\ Vectors(c, PastExpert(c, s))
           /\ Vectors(c, PastData(c, s))
<1>1. Vectors(c, FromTokens(c, s))
  <2>1. ASSUME NEW r \in Ranks(c.dims), NEW n \in Members(NamesOf(c, r))
        PROVE  IsVector(FromTokens(c, s)[r][n], n)
    <3>1. FromTokens(c, s)[r][n] = [j \in 1..Size[n] |->
             IF RoutedIn(c, s, r, n)
              THEN [at |-> <<n, j>>, div |-> 1,
                    from |-> [q \in Ranks(c.dims) |-> IF q \in SourcesIn(c, r, n) THEN 1 ELSE 0]]
              ELSE ZeroIn(c)]
      BY DEF FromTokens
    <3>. QED BY <3>1 DEF IsVector
  <2>. QED BY <2>1 DEF Vectors
<1>2. Vectors(c, PastContext(c, s))
  BY <1>1, MergedVectors DEF PastContext
<1>3. Vectors(c, PastTensor(c, s))
  BY <1>2, MergedVectors DEF PastTensor
<1>4. Vectors(c, PastExpert(c, s))
  BY <1>3, MergedVectors DEF PastExpert
<1>5. Vectors(c, PastData(c, s))
  BY <1>4, MergedVectors DEF PastData
<1>. QED BY <1>1, <1>2, <1>3, <1>4, <1>5

(* So is what a gradient is worth at any time.                             *)
LEMMA GradAtVector ==
    ASSUME NEW c, NEW s, NEW r \in Ranks(c.dims), NEW n \in Members(NamesOf(c, r)), NEW k
    PROVE  /\ IsVector(GradAt(c, s, r, k, n), n) /\ IsVector(PastData(c, s)[r][n], n)
           /\ \A comm \in Rings : IsVector(Entering(c, s, comm)[r][n], n)
<1>1. /\ IsVector(FromTokens(c, s)[r][n], n) /\ IsVector(PastContext(c, s)[r][n], n)
      /\ IsVector(PastTensor(c, s)[r][n], n) /\ IsVector(PastExpert(c, s)[r][n], n)
      /\ IsVector(PastData(c, s)[r][n], n)
  BY LevelsAreVectors DEF Vectors
<1>2. IsVector(GradAt(c, s, r, k, n), n)
  BY <1>1 DEF GradAt
<1>3. \A comm \in Rings : IsVector(Entering(c, s, comm)[r][n], n)
  BY <1>1 DEF Entering, Rings
<1>. QED BY <1>1, <1>2, <1>3

(* A communicator that has all its calls before it has one for the         *)
(* parameter, or changes nothing of it.                                    *)
LEMMA FullWaits ==
    ASSUME NEW c \in Configs, NEW s, NEW r \in Ranks(c.dims), NEW comm \in Rings,
           NEW n \in Wants(c, s, r), NEW k,
           SyncLeft(c, s, "sync", k, r, comm) = Len(Part(c, s, r, comm))
    PROVE  Waiting(c, s, r, comm, k, n) \/ Leaving(c, s, comm)[r][n] = Entering(c, s, comm)[r][n]
<1>. DEFINE calls == Part(c, s, r, comm)
<1>1. n \in AllNames /\ n \in Members(NamesOf(c, r))
  BY EntriesType DEF Wants
<1>2. /\ IsList(calls)
      /\ Carried(c, s, r, comm) =
           IF c.dims[comm] = 1 THEN {} ELSE Wants(c, s, r) \cap Merging(c, comm)
  BY PartCarries
<1>3. Awaits(calls, Len(calls), n) <=> \E b \in 1..Len(calls) : Carries(calls[b], n)
  BY <1>2, AwaitsEnds
<1>4. Waiting(c, s, r, comm, k, n) <=> n \in Carried(c, s, r, comm)
  BY <1>1, <1>3 DEF Waiting, Carried
<1>5. ASSUME n \notin Carried(c, s, r, comm)
      PROVE  Leaving(c, s, comm)[r][n] = Entering(c, s, comm)[r][n]
  <2>1. c.dims[comm] = 1 \/ n \notin Merging(c, comm)
    BY <1>2, <1>5
  <2>. DEFINE w == Entering(c, s, comm)
  <2>2. Leaving(c, s, comm) = Merged(c, w, comm)
    BY LeavingIs
  <2>. HIDE DEF w
  <2>3. Merged(c, w, comm)[r][n] = w[r][n]
    BY <1>1, <2>1 DEF Merged
  <2>. QED BY <2>2, <2>3 DEF w
<1>. QED BY <1>4, <1>5

(* The communicators come one after the other.                             *)
LEMMA InOrder ==
    ASSUME NEW c \in Configs, NEW s, NEW r, NEW k \in 1..Len(Script(c, s, r)),
           NEW a \in Rings, NEW x, x = Script(c, s, r)[Len(Script(c, s, r)) - k + 1], x.comm = a,
           NEW b \in Rings
    PROVE  /\ After(c, s, r, b) >= After(c, s, r, a) + Len(Part(c, s, r, a)) =>
                SyncLeft(c, s, "sync", k, r, b) = 0 /\ SyncLeft(c, s, "sync", k - 1, r, b) = 0
           /\ After(c, s, r, a) >= After(c, s, r, b) + Len(Part(c, s, r, b)) =>
                /\ SyncLeft(c, s, "sync", k, r, b) = Len(Part(c, s, r, b))
                /\ SyncLeft(c, s, "sync", k - 1, r, b) = Len(Part(c, s, r, b))
<1>. DEFINE AfterA == After(c, s, r, a)
            AfterB == After(c, s, r, b)
            LenA == Len(Part(c, s, r, a))
            LenB == Len(Part(c, s, r, b))
<1>1. AfterA \in Nat \ {0} /\ AfterB \in Nat \ {0} /\ LenA \in Nat /\ LenB \in Nat
  BY AfterType, PartLength
<1>2. k \in Nat /\ k > 0
  BY ScriptType
<1>3. /\ SyncLeft(c, s, "sync", k, r, a) = Within(k, AfterA, LenA)
      /\ SyncLeft(c, s, "sync", k - 1, r, a) = Within(k - 1, AfterA, LenA)
      /\ SyncLeft(c, s, "sync", k, r, b) = Within(k, AfterB, LenB)
      /\ SyncLeft(c, s, "sync", k - 1, r, b) = Within(k - 1, AfterB, LenB)
  BY DEF SyncLeft
<1>4. /\ SyncLeft(c, s, "sync", k, r, a) > 0
      /\ SyncLeft(c, s, "sync", k - 1, r, a) = SyncLeft(c, s, "sync", k, r, a) - 1
  <2>1. Takes(c, s, r, k, x)
    BY PopSync
  <2>. QED BY <2>1 DEF Takes
<1>. HIDE DEF AfterA, AfterB, LenA, LenB
<1>5. AfterA < k /\ k <= AfterA + LenA
  BY <1>1, <1>2, <1>3, <1>4 DEF Within
<1>6. AfterB >= AfterA + LenA => Within(k, AfterB, LenB) = 0 /\ Within(k - 1, AfterB, LenB) = 0
  BY <1>1, <1>2, <1>5 DEF Within
<1>7. AfterA >= AfterB + LenB => Within(k, AfterB, LenB) = LenB /\ Within(k - 1, AfterB, LenB) = LenB
  BY <1>1, <1>2, <1>5 DEF Within
<1>. QED BY <1>3, <1>6, <1>7 DEF AfterA, AfterB, LenA, LenB

(* The rings of a step follow one another: context, tensor, expert, data.  *)
LEMMA CommsInOrder ==
    ASSUME NEW c \in Configs, NEW s, NEW r
    PROVE  /\ After(c, s, r, "context") >= After(c, s, r, "tensor") + Len(Part(c, s, r, "tensor"))
           /\ After(c, s, r, "context") >= After(c, s, r, "expert") + Len(Part(c, s, r, "expert"))
           /\ After(c, s, r, "context") >= After(c, s, r, "data") + Len(Part(c, s, r, "data"))
           /\ After(c, s, r, "tensor") >= After(c, s, r, "expert") + Len(Part(c, s, r, "expert"))
           /\ After(c, s, r, "tensor") >= After(c, s, r, "data") + Len(Part(c, s, r, "data"))
           /\ After(c, s, r, "expert") >= After(c, s, r, "data") + Len(Part(c, s, r, "data"))
<1>1. /\ Len(Part(c, s, r, "context")) \in Nat /\ Len(Part(c, s, r, "tensor")) \in Nat
      /\ Len(Part(c, s, r, "expert")) \in Nat /\ Len(Part(c, s, r, "data")) \in Nat
  BY PartLength DEF Rings
<1>. QED BY <1>1 DEF After

(* With no call for it left, nothing is waited for.                        *)
LEMMA NoneWaits ==
    ASSUME NEW c \in Configs, NEW s, NEW r, NEW comm \in Rings, NEW k, NEW n,
           SyncLeft(c, s, "sync", k, r, comm) = 0
    PROVE  ~Waiting(c, s, r, comm, k, n)
<1>1. IsList(Part(c, s, r, comm))
  BY PartLength
<1>. QED BY <1>1, AwaitsEnds DEF Waiting

(* How the waiting of a ring changes when a call is taken.                 *)
LEMMA PopWaits ==
    ASSUME NEW c \in Configs, NEW s, NEW r, NEW k \in 1..Len(Script(c, s, r)),
           NEW x, x = Script(c, s, r)[Len(Script(c, s, r)) - k + 1],
           NEW b \in Rings, NEW n \in AllNames
    PROVE  /\ x.comm # b => (Waiting(c, s, r, b, k - 1, n) <=> Waiting(c, s, r, b, k, n))
           /\ x.comm = b =>
                /\ Waiting(c, s, r, b, k, n) <=> Carries(x, n) \/ Waiting(c, s, r, b, k - 1, n)
                /\ Carries(x, n) => ~Waiting(c, s, r, b, k - 1, n)
<1>. DEFINE calls == Part(c, s, r, b)
            l == SyncLeft(c, s, "sync", k, r, b)
            m == SyncLeft(c, s, "sync", k - 1, r, b)
<1>1. /\ m = l - (IF x.comm = b THEN 1 ELSE 0)
      /\ x.comm = b => l > 0 /\ x = calls[Len(calls) - l + 1]
  <2>1. Takes(c, s, r, k, x)
    BY PopSync
  <2>. QED BY <2>1 DEF Takes
<1>2. IsList(calls) /\ OnceEach(calls) /\ Len(calls) \in Nat
  BY PartCarries, PartLength
<1>3. l \in 0..Len(calls)
  <2>1. After(c, s, r, b) \in Nat /\ k \in Nat
    <3>1. Len(Script(c, s, r)) \in Nat
      BY ScriptType
    <3>. QED BY <3>1, AfterType
  <2>2. l = Within(k, After(c, s, r, b), Len(calls))
    BY DEF SyncLeft
  <2>. HIDE DEF calls, l
  <2>. QED BY <1>2, <2>1, <2>2 DEF Within
<1>4. /\ Waiting(c, s, r, b, k, n) <=> Awaits(calls, l, n)
      /\ Waiting(c, s, r, b, k - 1, n) <=> Awaits(calls, m, n)
  BY DEF Waiting
<1>. HIDE DEF calls, l, m
<1>5. CASE x.comm # b
  <2>1. m = l
    BY <1>1, <1>3, <1>5
  <2>. QED BY <1>4, <1>5, <2>1
<1>6. CASE x.comm = b
  <2>1. m = l - 1 /\ l \in 1..Len(calls) /\ x = calls[Len(calls) - l + 1]
    BY <1>1, <1>3, <1>6
  <2>2. /\ Awaits(calls, l, n) <=> Carries(calls[Len(calls) - l + 1], n) \/ Awaits(calls, l - 1, n)
        /\ Carries(calls[Len(calls) - l + 1], n) => ~Awaits(calls, l - 1, n)
    BY <1>2, <2>1, AwaitsMoves
  <2>. QED BY <1>4, <1>6, <2>1, <2>2
<1>. QED BY <1>5, <1>6

(* A call moves the gradients in its bucket from what enters its           *)
(* communicator to what leaves it, and no others.                          *)
LEMMA LevelMoves ==
    ASSUME NEW c \in Configs, NEW s, NEW r \in Ranks(c.dims), NEW k \in 1..Len(Script(c, s, r)),
           NEW x, x = Script(c, s, r)[Len(Script(c, s, r)) - k + 1],
           NEW n \in Wants(c, s, r)
    PROVE  /\ \A a \in Rings : x.comm = a /\ Carries(x, n) =>
                /\ GradAt(c, s, r, k, n) = Entering(c, s, a)[r][n]
                /\ GradAt(c, s, r, k - 1, n) = Leaving(c, s, a)[r][n]
           /\ ~Carries(x, n) => GradAt(c, s, r, k - 1, n) = GradAt(c, s, r, k, n)
<1>. DEFINE W(b) == Waiting(c, s, r, b, k, n)
            V(b) == Waiting(c, s, r, b, k - 1, n)
            E(b) == Entering(c, s, b)[r][n]
            L(b) == Leaving(c, s, b)[r][n]
<1>0. n \in AllNames
  BY EntriesType
<1>1. ~Carries(x, n) => \A b \in Rings : V(b) <=> W(b)
  BY <1>0, PopWaits
<1>2. /\ GradAt(c, s, r, k, n) =
           IF W("context") THEN E("context") ELSE IF W("tensor") THEN E("tensor")
           ELSE IF W("expert") THEN E("expert") ELSE IF W("data") THEN E("data") ELSE L("data")
      /\ GradAt(c, s, r, k - 1, n) =
           IF V("context") THEN E("context") ELSE IF V("tensor") THEN E("tensor")
           ELSE IF V("expert") THEN E("expert") ELSE IF V("data") THEN E("data") ELSE L("data")
      /\ L("context") = E("tensor") /\ L("tensor") = E("expert") /\ L("expert") = E("data")
  <2>1. /\ E("context") = FromTokens(c, s)[r][n] /\ E("tensor") = PastContext(c, s)[r][n]
        /\ E("expert") = PastTensor(c, s)[r][n] /\ E("data") = PastExpert(c, s)[r][n]
        /\ L("data") = PastData(c, s)[r][n]
        /\ L("context") = PastContext(c, s)[r][n] /\ L("tensor") = PastTensor(c, s)[r][n]
        /\ L("expert") = PastExpert(c, s)[r][n]
    BY DEF Entering, Leaving
  <2>. HIDE DEF E, L
  <2>2. /\ GradAt(c, s, r, k, n) =
             IF W("context") THEN FromTokens(c, s)[r][n] ELSE IF W("tensor") THEN PastContext(c, s)[r][n]
             ELSE IF W("expert") THEN PastTensor(c, s)[r][n]
             ELSE IF W("data") THEN PastExpert(c, s)[r][n] ELSE PastData(c, s)[r][n]
        /\ GradAt(c, s, r, k - 1, n) =
             IF V("context") THEN FromTokens(c, s)[r][n] ELSE IF V("tensor") THEN PastContext(c, s)[r][n]
             ELSE IF V("expert") THEN PastTensor(c, s)[r][n]
             ELSE IF V("data") THEN PastExpert(c, s)[r][n] ELSE PastData(c, s)[r][n]
    BY DEF GradAt
  <2>. HIDE DEF W, V
  <2>. QED BY <2>1, <2>2
<1>3. ASSUME NEW a \in Rings, x.comm = a, Carries(x, n)
      PROVE  GradAt(c, s, r, k, n) = E(a) /\ GradAt(c, s, r, k - 1, n) = L(a)
  <2>1. W(a) /\ ~V(a)
    BY <1>0, <1>3, PopWaits
  <2>2. ASSUME NEW b \in Rings, After(c, s, r, b) >= After(c, s, r, a) + Len(Part(c, s, r, a))
        PROVE  ~W(b) /\ ~V(b)
    <3>1. SyncLeft(c, s, "sync", k, r, b) = 0 /\ SyncLeft(c, s, "sync", k - 1, r, b) = 0
      BY <1>3, <2>2, InOrder
    <3>. QED BY <3>1, NoneWaits
  <2>3. ASSUME NEW b \in Rings, After(c, s, r, a) >= After(c, s, r, b) + Len(Part(c, s, r, b))
        PROVE  V(b) \/ L(b) = E(b)
    <3>1. SyncLeft(c, s, "sync", k - 1, r, b) = Len(Part(c, s, r, b))
      BY <1>3, <2>3, InOrder
    <3>. QED BY <3>1, FullWaits
  <2>. HIDE DEF W, V, E, L
  <2>4. CASE a = "context"
    <3>1. V("tensor") \/ L("tensor") = E("tensor")
      BY <2>3, <2>4, CommsInOrder DEF Rings
    <3>2. V("expert") \/ L("expert") = E("expert")
      BY <2>3, <2>4, CommsInOrder DEF Rings
    <3>3. V("data") \/ L("data") = E("data")
      BY <2>3, <2>4, CommsInOrder DEF Rings
    <3>. QED BY <1>2, <2>1, <2>4, <3>1, <3>2, <3>3
  <2>5. CASE a = "tensor"
    <3>1. ~W("context") /\ ~V("context")
      BY <2>2, <2>5, CommsInOrder DEF Rings
    <3>2. V("expert") \/ L("expert") = E("expert")
      BY <2>3, <2>5, CommsInOrder DEF Rings
    <3>3. V("data") \/ L("data") = E("data")
      BY <2>3, <2>5, CommsInOrder DEF Rings
    <3>. QED BY <1>2, <2>1, <2>5, <3>1, <3>2, <3>3
  <2>6. CASE a = "expert"
    <3>1. ~W("context") /\ ~V("context")
      BY <2>2, <2>6, CommsInOrder DEF Rings
    <3>2. ~W("tensor") /\ ~V("tensor")
      BY <2>2, <2>6, CommsInOrder DEF Rings
    <3>3. V("data") \/ L("data") = E("data")
      BY <2>3, <2>6, CommsInOrder DEF Rings
    <3>. QED BY <1>2, <2>1, <2>6, <3>1, <3>2, <3>3
  <2>7. CASE a = "data"
    <3>1. ~W("context") /\ ~V("context")
      BY <2>2, <2>7, CommsInOrder DEF Rings
    <3>2. ~W("tensor") /\ ~V("tensor")
      BY <2>2, <2>7, CommsInOrder DEF Rings
    <3>3. ~W("expert") /\ ~V("expert")
      BY <2>2, <2>7, CommsInOrder DEF Rings
    <3>. QED BY <1>2, <2>1, <2>7, <3>1, <3>2, <3>3
  <2>. QED BY <2>4, <2>5, <2>6, <2>7 DEF Rings
<1>4. ~Carries(x, n) => GradAt(c, s, r, k - 1, n) = GradAt(c, s, r, k, n)
  <2>. HIDE DEF W, V, E, L
  <2>. QED BY <1>1, <1>2 DEF Rings
<1>. QED BY <1>3, <1>4

(* Before the first call, and from the norm on.                            *)
LEMMA LevelEnds ==
    ASSUME NEW c \in Configs, NEW s, NEW r \in Ranks(c.dims), NEW n \in Wants(c, s, r)
    PROVE  /\ GradAt(c, s, r, Len(Script(c, s, r)), n) = FromTokens(c, s)[r][n]
           /\ GradAt(c, s, r, 0, n) = PastData(c, s)[r][n]
           /\ GradAt(c, s, r, 1, n) = PastData(c, s)[r][n]
<1>. DEFINE total == Len(Script(c, s, r))
            W(b) == Waiting(c, s, r, b, total, n)
            E(b) == Entering(c, s, b)[r][n]
            L(b) == Leaving(c, s, b)[r][n]
<1>1. ASSUME NEW b \in Rings
      PROVE  /\ SyncLeft(c, s, "sync", total, r, b) = Len(Part(c, s, r, b))
             /\ SyncLeft(c, s, "sync", 0, r, b) = 0 /\ SyncLeft(c, s, "sync", 1, r, b) = 0
  <2>. DEFINE after == After(c, s, r, b)
              length == Len(Part(c, s, r, b))
  <2>1. total \in Nat /\ total >= after + length /\ after \in Nat \ {0} /\ length \in Nat
    BY ScriptType, AfterType, PartLength
  <2>2. \A k : SyncLeft(c, s, "sync", k, r, b) = Within(k, after, length)
    BY DEF SyncLeft
  <2>. HIDE DEF total, after, length
  <2>3. Within(total, after, length) = length /\ Within(0, after, length) = 0
        /\ Within(1, after, length) = 0
    BY <2>1 DEF Within
  <2>. QED BY <2>2, <2>3 DEF length
<1>2. \A b \in Rings : ~Waiting(c, s, r, b, 0, n) /\ ~Waiting(c, s, r, b, 1, n)
  BY <1>1, NoneWaits
<1>3. GradAt(c, s, r, 0, n) = PastData(c, s)[r][n] /\ GradAt(c, s, r, 1, n) = PastData(c, s)[r][n]
  BY <1>2 DEF GradAt, Rings
<1>4. \A b \in Rings : W(b) \/ L(b) = E(b)
  BY <1>1, FullWaits
<1>5. /\ E("context") = FromTokens(c, s)[r][n]
      /\ L("context") = E("tensor") /\ L("tensor") = E("expert") /\ L("expert") = E("data")
      /\ GradAt(c, s, r, total, n) =
           IF W("context") THEN E("context") ELSE IF W("tensor") THEN E("tensor")
           ELSE IF W("expert") THEN E("expert") ELSE IF W("data") THEN E("data") ELSE L("data")
  <2>. HIDE DEF total
  <2>. QED BY DEF Entering, Leaving, GradAt
<1>. HIDE DEF total, W, E, L
<1>6. GradAt(c, s, r, total, n) = E("context")
  BY <1>4, <1>5 DEF Rings
<1>. QED BY <1>3, <1>5, <1>6 DEF total

(* Ranks of a ring have the same ring.                                     *)
LEMMA OneRing ==
    ASSUME NEW c \in Configs, NEW comm \in Rings, NEW q \in Ranks(c.dims), NEW r \in Ranks(c.dims),
           Beside(c, q, r, comm)
    PROVE  RingOf(c, q, comm) = RingOf(c, r, comm)
<1>. DEFINE p == c.dims
            d == Coordinates(p, q)
            e == Coordinates(p, r)
<1>1. IsDims(p) /\ comm \in Axes
  BY ConfigType DEF Rings, Axes
<1>2. d \in Coords(p) /\ e \in Coords(p)
  BY <1>1, CoordsOfRank
<1>3. \A a \in Axes \ {comm} : d[a] = e[a]
  BY DEF Beside
<1>. HIDE DEF d, e, p
<1>4. ASSUME NEW v \in 0..(p[comm] - 1) PROVE [d EXCEPT ![comm] = v] = [e EXCEPT ![comm] = v]
  <2>1. /\ [d EXCEPT ![comm] = v] \in Coords(p) /\ [d EXCEPT ![comm] = v][comm] = v
        /\ \A a \in Axes \ {comm} : [d EXCEPT ![comm] = v][a] = d[a]
    BY <1>1, <1>2, AxisMove
  <2>2. /\ [e EXCEPT ![comm] = v] \in Coords(p) /\ [e EXCEPT ![comm] = v][comm] = v
        /\ \A a \in Axes \ {comm} : [e EXCEPT ![comm] = v][a] = e[a]
    BY <1>1, <1>2, AxisMove
  <2>3. \A a \in Axes : [d EXCEPT ![comm] = v][a] = [e EXCEPT ![comm] = v][a]
    BY <1>3, <2>1, <2>2
  <2>. QED BY <2>1, <2>2, <2>3, CoordsEqual
<1>5. \A i \in 1..p[comm] : i - 1 \in 0..(p[comm] - 1)
  <2>1. p[comm] \in Nat
    BY <1>1, <1>2, AxisType
  <2>. QED BY <2>1
<1>6. \A i \in 1..p[comm] : GlobalRank(p, [d EXCEPT ![comm] = i - 1])
                              = GlobalRank(p, [e EXCEPT ![comm] = i - 1])
  BY <1>4, <1>5
<1>7. Group(p, d, comm) = Group(p, e, comm)
  BY <1>6 DEF Group
<1>. QED BY <1>7 DEF RingOf, d, e, p

(* The gradients of a parameter that is to be updated: the local one,      *)
(* merged along every communicator whose call for it has been made.        *)
GradsWorth ==
    \A r \in RanksHere : \A n \in Members(NamesOf(config, r)) :
        Keeps(config, step[r], phase[r], r, n) =>
            /\ IsVector(grads[r][n], n)
            /\ phase[r] = "sync" => grads[r][n] = GradAt(config, step[r], r, Len(queue[r]), n)
            /\ phase[r] = "share" => grads[r][n] = PastData(config, step[r])[r][n]

(* The state functions of TrainStep, as functions of the configuration.    *)
LEMMA InConfig ==
    ASSUME ConfigAs
    PROVE  /\ RanksHere = Ranks(config.dims) /\ ZeroGrad = ZeroIn(config)
           /\ \A op, values : Reduced(op, values) = ReducedIn(config, op, values)
           /\ \A r \in RanksHere : \A comm \in Rings : GroupOf(r, comm) = RingOf(config, r, comm)
<1>1. RanksHere = Ranks(config.dims)
  BY DEF RanksHere, P
<1>2. ZeroGrad = ZeroIn(config) /\ Mixed = MixedIn(config)
  BY <1>1 DEF ZeroGrad, ZeroIn, Mixed, MixedIn, Nobody, NobodyIn
<1>3. \A op, values : Reduced(op, values) = ReducedIn(config, op, values)
  BY <1>1, <1>2 DEF Reduced, ReducedIn
<1>4. \A r \in RanksHere : \A comm \in Rings : GroupOf(r, comm) = RingOf(config, r, comm)
  BY AsConfigured DEF RingOf, P
<1>. QED BY <1>1, <1>2, <1>3, <1>4

(* What the local backward leaves.                                         *)
LEMMA LocalGradWorth ==
    ASSUME ConfigAs, StepsAs, GradsAs, GradsWorth, NEW r \in RanksHere, phase[r] = "backward",
           NEW n \in Members(NamesOf(config, r)), HasGrad(config, step[r], r, n)
    PROVE  LocalGrad(r, n) = FromTokens(config, step[r])[r][n]
<1>. DEFINE s == step[r]
<1>1. RanksHere = Ranks(config.dims) /\ ZeroGrad = ZeroIn(config) /\ r \in Ranks(config.dims)
  BY InConfig
<1>2. Routed(r, n) <=> RoutedIn(config, s, r, n)
  <2>1. Info(r).data = DataOf(config, r)
    BY AsConfigured DEF DataOf
  <2>. QED BY <2>1 DEF Routed, RoutedIn
<1>3. Sources(r, n) = SourcesIn(config, r, n)
  <2>1. GroupOf(r, "expert") = RingOf(config, r, "expert")
    BY InConfig DEF Rings
  <2>. QED BY <2>1 DEF Sources, SourcesIn
<1>4. FromTokens(config, s)[r][n] = [j \in 1..Size[n] |->
        IF RoutedIn(config, s, r, n)
          THEN [at |-> <<n, j>>, div |-> 1,
                from |-> [q \in Ranks(config.dims) |-> IF q \in SourcesIn(config, r, n) THEN 1 ELSE 0]]
          ELSE ZeroIn(config)]
  <2>. HIDE DEF s
  <2>. QED BY <1>1 DEF FromTokens
<1>5. CASE RoutedIn(config, s, r, n)
  <2>1. LocalGrad(r, n) = [i \in 1..Size[n] |->
              [at |-> <<n, i>>, div |-> 1,
               from |-> [q \in RanksHere |-> IF q \in Sources(r, n) THEN 1 ELSE 0]]]
    BY <1>2, <1>5 DEF LocalGrad
  <2>. QED BY <1>1, <1>3, <1>4, <1>5, <2>1
<1>6. CASE ~RoutedIn(config, s, r, n)
  <2>1. LocalGrad(r, n) = [i \in DOMAIN grads[r][n] |-> ZeroGrad]
    BY <1>2, <1>6 DEF LocalGrad
  <2>2. Keeps(config, s, "backward", r, n)
    <3>1. CASE Keeps(config, s, "backward", r, n)
      BY <3>1
    <3>2. CASE ~Keeps(config, s, "backward", r, n)
      <4>1. grads[r][n] = <<>>
        BY <3>2 DEF GradsAs
      <4>2. LocalGrad(r, n) = <<>>
        BY <2>1, <4>1
      <4>3. 1 \in DOMAIN LocalGrad(r, n)
        BY LocalGradIs
      <4>. QED BY <4>2, <4>3
    <3>. QED BY <3>1, <3>2
  <2>3. DOMAIN grads[r][n] = 1..Size[n]
    BY <2>2 DEF GradsWorth, IsVector
  <2>. QED BY <1>1, <1>4, <1>6, <2>1, <2>3
<1>. QED BY <1>5, <1>6

(* What the ranks of a ring bring to a call for gradients.                 *)
LEMMA BucketCall ==
    ASSUME CollInv, NEW r \in RanksHere, queue[r] # <<>>, Now(r).kind \in {"sum", "mean"}
    PROVE  LET c == config
               s == step[r]
               k == Len(queue[r])
               x == Now(r)
           IN  /\ phase[r] = "sync" /\ k \in 1..Len(Script(c, s, r))
               /\ x = Script(c, s, r)[Len(Script(c, s, r)) - k + 1]
               /\ x.comm \in Rings /\ IsBucket(x, OpOf(x.comm))
               /\ \A i \in 1..Len(x.data) : x.data[i].name \in Wants(c, s, r)
               /\ \A n \in AllNames : Carries(x, n) =>
                    n \in Merging(c, x.comm) /\ c.dims[x.comm] # 1
<1>. DEFINE c == config
            s == step[r]
            k == Len(queue[r])
            x == Now(r)
            total == Len(Script(c, s, r))
<1>1. /\ c \in Configs /\ phase[r] \in {"sync", "share"} /\ k > 0 /\ Counted(c, s, phase[r], k, r)
      /\ x = CallAt(c, s, phase[r], k, r)
  BY NowIs DEF CollInv, ConfigAs, QueuesAs
<1>2. /\ x = NormCall(c) \/ x.comm \in Rings
      /\ phase[r] = "sync" /\ x.data \in Seq(Entries(c, s, r))
  <2>1. LET y == CallAt(c, s, phase[r], k, r)
        IN  /\ y = NormCall(c) \/ y.comm \in Rings
            /\ y.kind \in {"sum", "mean"} =>
                  phase[r] = "sync" /\ y.data \in Seq(Entries(c, s, r))
    BY <1>1, Pop
  <2>. HIDE DEF s, k
  <2>. QED BY <1>1, <2>1
<1>3. k \in 1..total /\ x = Script(c, s, r)[total - k + 1]
  <2>1. total \in Nat
    BY <1>1, ScriptType
  <2>. QED BY <1>1, <1>2, <2>1 DEF Counted, CallAt
<1>4. x.comm \in Rings
  <2>1. NormCall(c).kind = "norm"
    BY DEF NormCall, Call
  <2>. QED BY <1>2, <2>1
<1>5. PICK a \in Rings : a = x.comm
  BY <1>4
<1>6. PICK b \in 1..Len(Part(c, s, r, a)) : x = Part(c, s, r, a)[b]
  <2>. DEFINE l == SyncLeft(c, s, "sync", k, r, a)
              length == Len(Part(c, s, r, a))
  <2>1. l > 0 /\ x = Part(c, s, r, a)[length - l + 1]
    <3>1. Takes(c, s, r, k, x)
      BY <1>1, <1>3, PopSync
    <3>. QED BY <1>5, <3>1 DEF Takes
  <2>2. length \in Nat /\ After(c, s, r, a) \in Nat /\ k \in Nat
    BY <1>1, <1>2, AfterType, PartLength DEF Counted
  <2>3. l = Within(k, After(c, s, r, a), length)
    BY DEF SyncLeft
  <2>. HIDE DEF l, length, k
  <2>4. l \in 0..length
    BY <2>2, <2>3 DEF Within
  <2>5. length - l + 1 \in 1..length
    BY <2>1, <2>2, <2>4
  <2>. QED BY <2>1, <2>5 DEF length
<1>. HIDE DEF x, s, k, total
<1>7. /\ Carried(c, s, r, a) = IF c.dims[a] = 1 THEN {} ELSE Wants(c, s, r) \cap Merging(c, a)
      /\ IF Shards(c, a) THEN x.kind = "scatter" ELSE IsBucket(x, OpOf(a))
  BY <1>1, <1>6, PartCarries
<1>8. IsBucket(x, OpOf(a))
  BY <1>7 DEF x
<1>9. \A n \in AllNames : Carries(x, n) => n \in Merging(c, a) /\ c.dims[a] # 1
  <2>1. \A n \in AllNames : Carries(x, n) => n \in Carried(c, s, r, a)
    BY <1>6 DEF Carried
  <2>. QED BY <1>7, <2>1
<1>10. \A i \in 1..Len(x.data) : x.data[i].name \in Wants(c, s, r)
  <2>1. \A i \in 1..Len(x.data) : x.data[i] \in Entries(c, s, r)
    BY <1>2
  <2>. QED BY <2>1, EntriesType
<1>. QED BY <1>2, <1>3, <1>5, <1>8, <1>9, <1>10 DEF x, s, k, total

(* A vector is a list of as many elements as the parameter has.            *)
LEMMA VectorIs ==
    ASSUME NEW v, NEW n \in AllNames, IsVector(v, n)
    PROVE  IsList(v) /\ Len(v) = Size[n]
<1>1. Size[n] \in Nat
  BY NamesType
<1>. QED BY <1>1, ListOf DEF IsVector

(* The gradients that the ranks of a ring lay into their buckets are the   *)
(* ones that enter the communicator.                                       *)
LEMMA SentWorth ==
    ASSUME CollInv, GradsWorth, NEW r \in RanksHere, queue[r] # <<>>, Now(r).kind \in {"sum", "mean"},
           NEW b \in 1..Len(Now(r).data), NEW j \in 1..Size[Now(r).data[b].name]
    PROVE  LET n == Now(r).data[b].name
               x == Now(r)
           IN  /\ Offset(x.data, b) + j \in 1..x.size
               /\ FlattenBucket(x.data, grads[r])[Offset(x.data, b) + j] =
                    Entering(config, step[r], x.comm)[r][n][j]
<1>. DEFINE x == Now(r)
            bucket == x.data
            n == bucket[b].name
            s == step[r]
            k == Len(queue[r])
<1>1. /\ phase[r] = "sync" /\ k \in 1..Len(Script(config, s, r))
      /\ x = Script(config, s, r)[Len(Script(config, s, r)) - k + 1]
      /\ x.comm \in Rings /\ IsBucket(x, OpOf(x.comm))
      /\ \A i \in 1..Len(bucket) : bucket[i].name \in Wants(config, s, r)
  BY BucketCall
<1>2. config \in Configs /\ r \in Ranks(config.dims)
  BY InConfig DEF CollInv, ConfigAs
<1>3. bucket \in Seq(AllEntries) /\ x.size = BucketSize(bucket)
  BY <1>1 DEF IsBucket
<1>4. \A i \in 1..Len(bucket) : /\ bucket[i] \in AllEntries /\ bucket[i].size = Size[bucket[i].name]
                                /\ bucket[i].name \in AllNames
  <2>1. \A i \in 1..Len(bucket) : bucket[i] \in AllEntries
    BY <1>3
  <2>. QED BY <2>1, AllSized
<1>5. ASSUME NEW m \in Wants(config, s, r)
      PROVE  /\ m \in Members(NamesOf(config, r)) /\ m \in AllNames
             /\ IsVector(grads[r][m], m)
             /\ grads[r][m] = GradAt(config, s, r, k, m)
  <2>1. m \in Members(NamesOf(config, r)) /\ HasGrad(config, s, r, m) /\ m \in AllNames
    BY EntriesType DEF Wants
  <2>2. Keeps(config, s, phase[r], r, m)
    BY <1>1, <2>1 DEF Keeps
  <2>. QED BY <1>1, <2>1, <2>2 DEF GradsWorth
<1>. HIDE DEF x, s, k
<1>6. Fitting(bucket, grads[r])
  <2>1. ASSUME NEW i \in 1..Len(bucket)
        PROVE  IsList(grads[r][bucket[i].name]) /\ Len(grads[r][bucket[i].name]) = bucket[i].size
    <3>1. PICK m \in Wants(config, s, r) : m = bucket[i].name
      BY <1>1
    <3>2. IsList(grads[r][m]) /\ Len(grads[r][m]) = Size[m]
      BY <1>5, VectorIs
    <3>. QED BY <1>4, <3>1, <3>2
  <2>. QED BY <2>1 DEF Fitting
<1>7. b \in 1..Len(bucket) /\ j \in 1..bucket[b].size
  <2>1. b \in 1..Len(bucket)
    BY DEF x
  <2>2. j \in 1..Size[bucket[b].name]
    BY DEF x
  <2>. QED BY <1>4, <2>1, <2>2
<1>8. /\ Offset(bucket, b) + j \in 1..BucketSize(bucket)
      /\ FlattenBucket(bucket, grads[r])[Offset(bucket, b) + j] = grads[r][bucket[b].name][j]
  <2>1. \A e \in AllEntries : e.size \in Nat
    BY AllSized
  <2>2. PICK bk \in Seq(AllEntries) : bk = bucket
    BY <1>3
  <2>. HIDE DEF bucket
  <2>3. Fitting(bk, grads[r]) /\ b \in 1..Len(bk) /\ j \in 1..bk[b].size
    BY <1>6, <1>7, <2>2
  <2>4. /\ Offset(bk, b) + j \in 1..BucketSize(bk)
        /\ FlattenBucket(bk, grads[r])[Offset(bk, b) + j] = grads[r][bk[b].name][j]
    BY <2>1, <2>3, BucketAt
  <2>. QED BY <2>2, <2>4
<1>9. grads[r][n] = Entering(config, s, x.comm)[r][n]
  <2>1. PICK m \in Wants(config, s, r) : m = n
    BY <1>1, <1>7
  <2>2. PICK a \in Rings : a = x.comm
    BY <1>1
  <2>3. Carries(x, m)
    <3>1. x.kind \in {"sum", "mean"}
      BY DEF x
    <3>. QED BY <1>7, <2>1, <3>1 DEF Carries
  <2>4. GradAt(config, s, r, k, m) = Entering(config, s, a)[r][m]
    BY <1>1, <1>2, <2>2, <2>3, LevelMoves
  <2>. QED BY <1>5, <2>1, <2>2, <2>4
<1>. QED BY <1>3, <1>8, <1>9 DEF x, s

(* An all_reduce takes the gradients it carries to the next level.         *)
LEMMA AllReduceWorth ==
    ASSUME CollInv, GradsWorth, NEW comm \in Comms, NEW o \in RanksHere,
           Ready(GroupOf(o, comm), comm),
           NEW op, op = Now(GroupOf(o, comm)[1]).kind, op \in {"sum", "mean"},
           AllReduce(GroupOf(o, comm), op),
           NEW r \in Members(GroupOf(o, comm)), NEW n \in Wants(config, step[r], r)
    PROVE  grads'[r][n] = GradAt(config, step[r], r, Len(queue[r]) - 1, n)
<1>. DEFINE g == GroupOf(o, comm)
            s == step[r]
            x == Now(r)
            k == Len(queue[r])
            bucket == x.data
<1>1. /\ ConfigAs /\ GradsAs /\ StepsAs /\ config \in Configs /\ RanksHere = Ranks(config.dims)
      /\ g[1] \in Members(g) /\ Members(g) \subseteq RanksHere
  BY InConfig, GroupFacts DEF CollInv, ConfigAs
<1>2. ASSUME NEW q \in Members(g)
      PROVE  q \in RanksHere /\ Now(q) = x /\ queue[q] # <<>> /\ Now(q).kind \in {"sum", "mean"}
             /\ step[q] = s
  <2>1. Now(q) = x /\ Now(q) = Now(g[1])
    BY <1>1, MeetAlike
  <2>2. queue[q] # <<>> /\ q \in RanksHere /\ r \in RanksHere
    BY <1>1 DEF Ready
  <2>3. step[q] = s
    BY <1>1, <2>2 DEF StepsAs
  <2>. QED BY <2>1, <2>2, <2>3
<1>3. /\ x.comm = comm /\ x.comm \in Rings
      /\ phase[r] = "sync" /\ k \in 1..Len(Script(config, s, r))
      /\ x = Script(config, s, r)[Len(Script(config, s, r)) - k + 1]
      /\ IsBucket(x, OpOf(comm)) /\ OpOf(comm) = op
      /\ \A m \in AllNames : Carries(x, m) => m \in Merging(config, comm) /\ config.dims[comm] # 1
  <2>1. x.comm = comm
    BY DEF Ready
  <2>2. r \in RanksHere /\ queue[r] # <<>> /\ x.kind \in {"sum", "mean"} /\ x.kind = op
    BY <1>1, <1>2
  <2>3. /\ phase[r] = "sync" /\ k \in 1..Len(Script(config, s, r))
        /\ x = Script(config, s, r)[Len(Script(config, s, r)) - k + 1]
        /\ x.comm \in Rings /\ IsBucket(x, OpOf(x.comm))
        /\ \A m \in AllNames : Carries(x, m) =>
             m \in Merging(config, x.comm) /\ config.dims[x.comm] # 1
    BY <2>2, BucketCall
  <2>. QED BY <2>1, <2>2, <2>3 DEF IsBucket
<1>4. g = RingOf(config, o, comm) /\ g = RingOf(config, r, comm) /\ comm \in Rings
  <2>1. comm \in Rings
    BY <1>3
  <2>2. g = RingOf(config, o, comm)
    BY <1>1, <2>1, InConfig
  <2>3. o \in Members(g) /\ r \in RanksHere
    BY <1>1, GroupFacts
  <2>4. Beside(config, o, r, comm)
    BY <1>1, <2>1, <2>3, GroupFacts
  <2>5. RingOf(config, o, comm) = RingOf(config, r, comm)
    BY <1>1, <2>1, <2>3, <2>4, OneRing
  <2>. QED BY <2>1, <2>2, <2>5
<1>5. DOMAIN g = 1..config.dims[comm] /\ \A i \in DOMAIN g : g[i] \in Members(g)
  BY <1>4 DEF RingOf, Group, Members
<1>. DEFINE Sent(i, p) == FlattenBucket(bucket, grads[g[i]])[p]
            At(p) == Reduced(op, [i \in DOMAIN g |-> Sent(i, p)])
            new == grads'[r]
<1>6. new = Unflatten(bucket, [p \in 1..x.size |-> At(p)], grads[r])
  <2>1. \A i \in DOMAIN g : Now(g[i]) = x
    BY <1>2, <1>5
  <2>2. Now(g[1]) = x
    BY <1>1, <1>2
  <2>3. grads' = [q \in RanksHere |->
                    IF q \in Members(g)
                      THEN Unflatten(Now(q).data,
                                     [p \in 1..Now(g[1]).size |->
                                        Reduced(op, [i \in DOMAIN g |->
                                            FlattenBucket(Now(g[i]).data, grads[g[i]])[p]])],
                                     grads[q])
                    ELSE grads[q]]
    <3>. HIDE DEF g
    <3>. DEFINE laid == [i \in DOMAIN g |-> FlattenBucket(Now(g[i]).data, grads[g[i]])]
                Result(sent) == [p \in 1..Now(g[1]).size |->
                                    Reduced(op, [i \in DOMAIN g |-> sent[i][p]])]
                After_(result) == [q \in RanksHere |->
                    IF q \in Members(g) THEN Unflatten(Now(q).data, result, grads[q]) ELSE grads[q]]
    <3>1. AllReduce(g, op)
      BY DEF g
    <3>2. \E sent \in {laid} : \E result \in {Result(sent)} : grads' = After_(result)
      BY <3>1 DEF AllReduce
    <3>. HIDE DEF laid, Result, After_
    <3>3. grads' = After_(Result(laid))
      BY <3>2
    <3>4. Result(laid) = [p \in 1..Now(g[1]).size |->
                Reduced(op, [i \in DOMAIN g |-> FlattenBucket(Now(g[i]).data, grads[g[i]])[p]])]
      <4>1. \A i \in DOMAIN g : laid[i] = FlattenBucket(Now(g[i]).data, grads[g[i]])
        BY DEF laid
      <4>2. \A p : [i \in DOMAIN g |-> laid[i][p]]
                   = [i \in DOMAIN g |-> FlattenBucket(Now(g[i]).data, grads[g[i]])[p]]
        BY <4>1
      <4>. QED BY <4>2 DEF Result
    <3>. QED BY <3>3, <3>4 DEF After_, g
  <2>4. [p \in 1..Now(g[1]).size |->
            Reduced(op, [i \in DOMAIN g |-> FlattenBucket(Now(g[i]).data, grads[g[i]])[p]])]
          = [p \in 1..x.size |-> At(p)]
    BY <2>1, <2>2
  <2>5. r \in RanksHere
    BY <1>1
  <2>. HIDE DEF At
  <2>. QED BY <2>3, <2>4, <2>5
<1>7. /\ n \in Members(NamesOf(config, r)) /\ n \in AllNames /\ n \in DOMAIN grads[r]
      /\ grads[r][n] = GradAt(config, s, r, k, n)
  <2>1. n \in Members(NamesOf(config, r)) /\ HasGrad(config, s, r, n) /\ n \in AllNames
    BY EntriesType DEF Wants
  <2>2. Keeps(config, s, phase[r], r, n) /\ r \in RanksHere
    BY <1>1, <1>3, <2>1 DEF Keeps
  <2>3. n \in DOMAIN grads[r]
    BY <1>1, <2>1, <2>2 DEF GradsAs
  <2>4. grads[r][n] = GradAt(config, s, r, k, n)
    BY <1>3, <2>1, <2>2 DEF GradsWorth
  <2>. QED BY <2>1, <2>3, <2>4
<1>8. bucket \in Seq(AllEntries) /\ Distinct(bucket) /\ x.kind = op
  BY <1>3 DEF IsBucket
<1>9. r \in Ranks(config.dims)
  BY <1>1
<1>10. CASE ~Carries(x, n)
  <2>1. \A b \in 1..Len(bucket) : bucket[b].name # n
    BY <1>8, <1>10 DEF Carries
  <2>. HIDE DEF x, bucket, new, At
  <2>2. new[n] = grads[r][n]
    BY <1>6, <1>7, <1>8, <2>1, UnflattenAt
  <2>. HIDE DEF k, s
  <2>3. GradAt(config, s, r, k - 1, n) = GradAt(config, s, r, k, n)
    <3>1. n \in Wants(config, s, r)
      BY DEF s
    <3>2. ~Carries(x, n) => GradAt(config, s, r, k - 1, n) = GradAt(config, s, r, k, n)
      BY <1>1, <1>3, <1>9, <3>1, LevelMoves
    <3>. QED BY <1>10, <3>2
  <2>. QED BY <1>7, <2>2, <2>3 DEF k, s, new
<1>11. CASE Carries(x, n)
  <2>1. PICK b \in 1..Len(bucket) : bucket[b].name = n
    BY <1>11 DEF Carries
  <2>2. bucket[b].size = Size[n]
    <3>1. bucket[b] \in AllEntries
      BY <1>8
    <3>. QED BY <2>1, <3>1, AllSized
  <2>3. ASSUME NEW i \in DOMAIN g, NEW j \in 1..Size[n]
        PROVE  /\ Offset(bucket, b) + j \in 1..x.size
               /\ Sent(i, Offset(bucket, b) + j) = Entering(config, s, comm)[g[i]][n][j]
    <3>1. PICK q \in Members(g) : q = g[i]
      BY <1>5
    <3>2. q \in RanksHere /\ queue[q] # <<>> /\ Now(q).kind \in {"sum", "mean"} /\ Now(q) = x /\ step[q] = s
      BY <1>2
    <3>3. b \in 1..Len(Now(q).data) /\ j \in 1..Size[Now(q).data[b].name]
      BY <2>1, <3>2
    <3>4. /\ Offset(Now(q).data, b) + j \in 1..Now(q).size
          /\ FlattenBucket(Now(q).data, grads[q])[Offset(Now(q).data, b) + j] =
                    Entering(config, step[q], Now(q).comm)[q][Now(q).data[b].name][j]
      BY <3>2, <3>3, SentWorth
    <3>. QED BY <1>3, <2>1, <3>1, <3>2, <3>4
  <2>4. new[n] = [j \in 1..Size[n] |-> [p \in 1..x.size |-> At(p)][Offset(bucket, b) + j]]
    <3>. HIDE DEF x, bucket, new, At
    <3>. DEFINE res == [p \in 1..x.size |-> At(p)]
    <3>1. new = Unflatten(bucket, res, grads[r])
      BY <1>6
    <3>. HIDE DEF res
    <3>2. Unflatten(bucket, res, grads[r])[n] = [j \in 1..bucket[b].size |-> res[Offset(bucket, b) + j]]
      BY <1>7, <1>8, <2>1, UnflattenAt
    <3>. QED BY <2>2, <3>1, <3>2 DEF res
  <2>5. ASSUME NEW j \in 1..Size[n]
        PROVE  [p \in 1..x.size |-> At(p)][Offset(bucket, b) + j] =
                 ReducedIn(config, op, [i \in 1..config.dims[comm] |->
                                          Entering(config, s, comm)[RingOf(config, r, comm)[i]][n][j]])
    <3>1. Offset(bucket, b) + j \in 1..x.size
      <4>1. 1 \in DOMAIN g
        BY <1>1, <1>5, <1>9, <1>4, ConfigType, CoordsOfRank, AxisType DEF Rings, Axes
      <4>. QED BY <2>3, <4>1
    <3>2. PICK p \in 1..x.size : p = Offset(bucket, b) + j
      BY <3>1
    <3>3. \A i \in DOMAIN g : Sent(i, p) = Entering(config, s, comm)[g[i]][n][j]
      BY <2>3, <3>2
    <3>4. At(p) = ReducedIn(config, op, [i \in DOMAIN g |-> Sent(i, p)])
      BY <1>1, InConfig
    <3>5. [i \in DOMAIN g |-> Sent(i, p)] =
             [i \in 1..config.dims[comm] |-> Entering(config, s, comm)[RingOf(config, r, comm)[i]][n][j]]
      <4>. HIDE DEF Sent, g
      <4>. QED BY <1>4, <1>5, <3>3
    <3>. HIDE DEF At, Sent
    <3>. QED BY <3>2, <3>4, <3>5
  <2>6. new[n] = Leaving(config, s, comm)[r][n]
    <3>. DEFINE w == Entering(config, s, comm)
    <3>1. config.dims[comm] # 1 /\ n \in Merging(config, comm)
      BY <1>3, <1>7, <1>11
    <3>2. Leaving(config, s, comm) = Merged(config, w, comm)
      BY <1>4, LeavingIs
    <3>. HIDE DEF w
    <3>3. Merged(config, w, comm)[r][n] =
             [j \in 1..Size[n] |-> ReducedIn(config, OpOf(comm),
                    [i \in 1..config.dims[comm] |-> w[RingOf(config, r, comm)[i]][n][j]])]
      BY <1>7, <1>9, <3>1 DEF Merged
    <3>4. new[n] = [j \in 1..Size[n] |-> ReducedIn(config, op,
                    [i \in 1..config.dims[comm] |-> w[RingOf(config, r, comm)[i]][n][j]])]
      <4>. HIDE DEF new, x, bucket, At
      <4>. QED BY <2>4, <2>5 DEF w
    <3>. QED BY <1>3, <3>2, <3>3, <3>4
  <2>. HIDE DEF x, bucket, new, k, s
  <2>7. GradAt(config, s, r, k - 1, n) = Leaving(config, s, comm)[r][n]
    <3>1. n \in Wants(config, s, r)
      BY DEF s
    <3>2. \A a \in Rings : x.comm = a /\ Carries(x, n) =>
             GradAt(config, s, r, k - 1, n) = Leaving(config, s, a)[r][n]
      BY <1>1, <1>3, <1>9, <3>1, LevelMoves
    <3>3. x.comm = comm
      BY <1>3
    <3>. QED BY <1>4, <1>11, <3>2, <3>3
  <2>. QED BY <2>6, <2>7 DEF new, k, s
<1>. QED BY <1>10, <1>11

WorthOf(c, s, ph, k, value, r, n) ==
    Keeps(c, s, ph, r, n) =>
        /\ IsVector(value, n)
        /\ ph = "sync" => value = GradAt(c, s, r, k, n)
        /\ ph = "share" => value = PastData(c, s)[r][n]

(* GradsWorth, tensor by tensor.                                           *)
LEMMA WorthIs ==
    GradsWorth <=>
        \A r \in RanksHere : \A n \in Members(NamesOf(config, r)) :
            WorthOf(config, step[r], phase[r], Len(queue[r]), grads[r][n], r, n)
BY DEF GradsWorth, WorthOf

(* At the start there is no gradient.                                      *)
LEMMA WorthInit == Init => GradsWorth
<1>1. ASSUME Init PROVE GradsWorth
  <2>1. \A r \in RanksHere : step[r] = 0 /\ phase[r] = "share"
    BY <1>1 DEF Init
  <2>2. \A r, n : ~Keeps(config, 0, "share", r, n)
    BY DEF Keeps
  <2>. QED BY <2>1, <2>2 DEF GradsWorth
<1>. QED BY <1>1

(* The barrier changes no gradient.                                        *)
LEMMA WorthStart == CollInv /\ GradsWorth /\ StartStep => GradsWorth'
<1>. SUFFICES ASSUME CollInv, GradsWorth, StartStep PROVE GradsWorth'
  OBVIOUS
<1>1. /\ \A r \in RanksHere : phase[r] = "share" /\ queue[r] = <<>>
      /\ step' = [r \in RanksHere |-> step[r] + 1]
      /\ phase' = [r \in RanksHere |-> "backward"]
      /\ UNCHANGED <<config, grads, queue, local>>
  BY DEF StartStep, AllDone
<1>2. config' = config /\ RanksHere' = RanksHere
  BY <1>1 DEF RanksHere, P
<1>3. ASSUME NEW r \in RanksHere, NEW n \in Members(NamesOf(config, r))
      PROVE  WorthOf(config, step'[r], phase'[r], Len(queue'[r]), grads'[r][n], r, n)
  <2>1. step[r] \in Nat /\ phase[r] = "share" /\ step'[r] = step[r] + 1 /\ phase'[r] = "backward"
    <3>1. step[r] \in 0..MaxSteps /\ MaxSteps \in Nat
      BY TrainAssumption DEF CollInv, StepsAs
    <3>. QED BY <1>1, <3>1
  <2>2. Keeps(config, step[r] + 1, "backward", r, n) => Keeps(config, step[r], "share", r, n)
    <3>1. (step[r] + 1) - 1 = step[r] /\ (step[r] + 1 > 1 => step[r] > 0)
      BY <2>1
    <3>. QED BY <3>1 DEF Keeps
  <2>3. WorthOf(config, step[r], phase[r], Len(queue[r]), grads[r][n], r, n)
    BY WorthIs
  <2>. QED BY <1>1, <2>1, <2>2, <2>3 DEF WorthOf
<1>. QED BY <1>2, <1>3 DEF GradsWorth, WorthOf

(* The backward passes leave the gradients of the tokens.                  *)
LEMMA WorthBackward ==
    ASSUME CollInv, GradsWorth, NEW r \in RanksHere, Backward(r)
    PROVE  GradsWorth'
<1>1. /\ phase[r] = "backward"
      /\ UNCHANGED <<config, local, step>>
      /\ grads' = [grads EXCEPT ![r] = [n \in DOMAIN @ |-> LocalGrad(r, n)]]
      /\ phase' = [phase EXCEPT ![r] = "sync"]
  BY DEF Backward
<1>2. queue' = [queue EXCEPT ![r] = Script(config, step[r], r)]
  BY BackwardInv
<1>3. /\ ConfigAs /\ StepsAs /\ GradsAs /\ QueuesAs /\ config \in Configs
      /\ config' = config /\ RanksHere' = RanksHere /\ r \in Ranks(config.dims)
  BY <1>1, InConfig DEF CollInv, ConfigAs, RanksHere, P
<1>4. /\ DOMAIN grads = RanksHere /\ DOMAIN phase = RanksHere /\ DOMAIN queue = RanksHere
      /\ DOMAIN grads[r] = Members(NamesOf(config, r))
  BY <1>3 DEF GradsAs, StepsAs, QueuesAs
<1>5. ASSUME NEW x \in RanksHere, NEW n \in Members(NamesOf(config, x))
      PROVE  WorthOf(config, step'[x], phase'[x], Len(queue'[x]), grads'[x][n], x, n)
  <2>1. CASE x # r
    <3>1. WorthOf(config, step[x], phase[x], Len(queue[x]), grads[x][n], x, n)
      BY WorthIs
    <3>2. step' = step /\ phase'[x] = phase[x] /\ queue'[x] = queue[x] /\ grads'[x] = grads[x]
      BY <1>1, <1>2, <1>4, <2>1
    <3>. QED BY <3>1, <3>2
  <2>2. CASE x = r
    <3>1. /\ step'[r] = step[r] /\ phase'[r] = "sync" /\ queue'[r] = Script(config, step[r], r)
          /\ grads'[r][n] = LocalGrad(r, n)
      BY <1>1, <1>2, <1>4, <2>2
    <3>2. ASSUME HasGrad(config, step[r], r, n)
          PROVE  /\ IsVector(LocalGrad(r, n), n)
                 /\ LocalGrad(r, n) = GradAt(config, step[r], r, Len(Script(config, step[r], r)), n)
      <4>1. LocalGrad(r, n) = FromTokens(config, step[r])[r][n]
        BY <1>1, <1>3, <2>2, <3>2, LocalGradWorth
      <4>2. n \in Wants(config, step[r], r)
        BY <2>2, <3>2 DEF Wants
      <4>3. FromTokens(config, step[r])[r][n] = GradAt(config, step[r], r, Len(Script(config, step[r], r)), n)
        BY <1>3, <4>2, LevelEnds
      <4>4. IsVector(GradAt(config, step[r], r, Len(Script(config, step[r], r)), n), n)
        BY <1>3, <2>2, GradAtVector
      <4>. QED BY <4>1, <4>3, <4>4
    <3>3. Keeps(config, step[r], "sync", r, n) => HasGrad(config, step[r], r, n)
      BY DEF Keeps
    <3>. QED BY <2>2, <3>1, <3>2, <3>3 DEF WorthOf
  <2>. QED BY <2>1, <2>2
<1>. QED BY <1>3, <1>5 DEF GradsWorth, WorthOf

(* The update changes no gradient that is kept.                            *)
LEMMA WorthUpdate ==
    ASSUME CollInv, GradsWorth, NEW r \in RanksHere, Update(r)
    PROVE  GradsWorth'
<1>1. /\ phase[r] = "sync" /\ queue[r] = <<>>
      /\ UNCHANGED <<config, local, step>>
      /\ grads' = IF config.mode = "flat" THEN [grads EXCEPT ![r] = Cleared(r)] ELSE grads
      /\ phase' = [phase EXCEPT ![r] = "share"]
      /\ queue' = [queue EXCEPT ![r] = ParamCalls(r)]
  BY DEF Update
<1>2. /\ ConfigAs /\ StepsAs /\ GradsAs /\ QueuesAs /\ config \in Configs
      /\ config' = config /\ RanksHere' = RanksHere /\ r \in Ranks(config.dims)
  BY <1>1, InConfig DEF CollInv, ConfigAs, RanksHere, P
<1>3. /\ DOMAIN grads = RanksHere /\ DOMAIN phase = RanksHere /\ DOMAIN queue = RanksHere
  BY <1>2 DEF GradsAs, StepsAs, QueuesAs
<1>4. ASSUME NEW x \in RanksHere, NEW n \in Members(NamesOf(config, x))
      PROVE  WorthOf(config, step'[x], phase'[x], Len(queue'[x]), grads'[x][n], x, n)
  <2>0. WorthOf(config, step[x], phase[x], Len(queue[x]), grads[x][n], x, n)
    BY WorthIs
  <2>1. CASE x # r
    <3>1. step' = step /\ phase'[x] = phase[x] /\ queue'[x] = queue[x] /\ grads'[x] = grads[x]
      BY <1>1, <1>3, <2>1
    <3>. QED BY <2>0, <3>1
  <2>2. CASE x = r /\ config.mode = "flat"
    <3>1. phase'[r] = "share" /\ ~Keeps(config, step'[r], "share", r, n)
      BY <1>1, <1>3, <2>2 DEF Keeps
    <3>. QED BY <2>2, <3>1 DEF WorthOf
  <2>3. CASE x = r /\ config.mode # "flat"
    <3>1. /\ phase'[r] = "share" /\ step'[r] = step[r] /\ grads'[r][n] = grads[r][n]
          /\ Len(queue[r]) = 0
      BY <1>1, <1>3, <2>3
    <3>2. ASSUME Keeps(config, step[r], "share", r, n)
          PROVE  IsVector(grads[r][n], n) /\ grads[r][n] = PastData(config, step[r])[r][n]
      <4>1. HasGrad(config, step[r], r, n) /\ Keeps(config, step[r], "sync", r, n)
        BY <3>2 DEF Keeps
      <4>2. IsVector(grads[r][n], n) /\ grads[r][n] = GradAt(config, step[r], r, 0, n)
        BY <1>1, <2>0, <2>3, <3>1, <4>1 DEF WorthOf
      <4>3. n \in Wants(config, step[r], r)
        BY <2>3, <4>1 DEF Wants
      <4>. QED BY <1>2, <4>2, <4>3, LevelEnds
    <3>. QED BY <2>3, <3>1, <3>2 DEF WorthOf
  <2>. QED BY <2>1, <2>2, <2>3
<1>. QED BY <1>2, <1>4 DEF GradsWorth, WorthOf

(* What a rank takes from its queue in a collective.                       *)
Pops(r, x, comm, s) ==
    /\ queue[r] # <<>> /\ Now(r) = x /\ x.comm = comm
    /\ Len(queue'[r]) = Len(queue[r]) - 1 /\ step[r] = s

(* What happens in a collective, given that all who meet in it bring the   *)
(* same call.                                                              *)
LEMMA Taken ==
    ASSUME CollInv, NEW comm \in Comms, NEW o \in RanksHere, Collective(comm, GroupOf(o, comm))
    PROVE  LET g == GroupOf(o, comm)
               x == Now(g[1])
           IN  /\ Ready(g, comm) /\ UNCHANGED <<config, local, phase, step>>
               /\ Members(g) \subseteq RanksHere /\ g[1] \in Members(g) /\ o \in Members(g)
               /\ \A r \in Members(g) : Pops(r, x, comm, step[o])
               /\ \A r \in RanksHere \ Members(g) : queue'[r] = queue[r]
               /\ x.kind \in Kinds
               /\ CASE x.kind \in {"sum", "mean"} -> AllReduce(g, x.kind)
                    [] x.kind = "scatter"   -> ReduceScatter(g)
                    [] x.kind = "norm"      -> ReduceNorm(g)
                    [] x.kind = "gather"    -> AllGather(g)
                    [] x.kind = "broadcast" -> Broadcast(g)
<1>. DEFINE g == GroupOf(o, comm)
            M == Members(g)
            x == Now(g[1])
<1>1. ConfigAs /\ StepsAs /\ GradsAs /\ QueuesAs /\ config \in Configs
  BY DEF CollInv, ConfigAs
<1>2. Ready(g, comm) /\ UNCHANGED <<config, local, phase, step>>
  BY DEF Collective
<1>3. M \subseteq RanksHere /\ o \in M /\ g[1] \in M
  BY <1>1, GroupFacts
<1>4. \A q, r \in M : Now(q) = Now(r)
  BY <1>2, MeetAlike
<1>5. Alike(g)
  BY <1>4 DEF Alike
<1>6. /\ queue' = Popped(g)
      /\ CASE x.kind \in {"sum", "mean"} -> AllReduce(g, x.kind)
           [] x.kind = "scatter"   -> ReduceScatter(g)
           [] x.kind = "norm"      -> ReduceNorm(g)
           [] x.kind = "gather"    -> AllGather(g)
           [] x.kind = "broadcast" -> Broadcast(g)
  BY <1>5 DEF Collective
<1>7. ASSUME NEW r \in M
      PROVE  /\ queue[r] # <<>> /\ Now(r) = x /\ x.comm = comm
             /\ Len(queue'[r]) = Len(queue[r]) - 1 /\ step[r] = step[o]
  <2>1. queue[r] # <<>> /\ Now(r).comm = comm /\ r \in RanksHere
    BY <1>2, <1>3 DEF Ready
  <2>2. Now(r) = x
    BY <1>3, <1>4
  <2>3. queue'[r] = Tail(queue[r])
    BY <1>6, <2>1 DEF Popped
  <2>4. Len(Tail(queue[r])) = Len(queue[r]) - 1
    BY <1>1, <2>1, NowIs
  <2>5. step[r] = step[o]
    BY <1>1, <2>1 DEF StepsAs
  <2>. QED BY <2>1, <2>2, <2>3, <2>4, <2>5
<1>8. \A r \in RanksHere \ M : queue'[r] = queue[r]
  BY <1>6 DEF Popped
<1>10. \A r \in M : Pops(r, x, comm, step[o])
  BY <1>7 DEF Pops
<1>9. x.kind \in Kinds
  <2>1. LET y == CallAt(config, step[o], phase[o], Len(queue[o]), o) IN y.kind \in Kinds
    <3>1. queue[o] # <<>>
      BY <1>3, <1>7
    <3>2. /\ phase[o] \in {"sync", "share"} /\ Len(queue[o]) > 0
          /\ Counted(config, step[o], phase[o], Len(queue[o]), o)
      BY <1>1, <3>1, NowIs DEF QueuesAs
    <3>. QED BY <1>1, <3>2, Pop
  <2>2. Now(o) = CallAt(config, step[o], phase[o], Len(queue[o]), o) /\ Now(o) = x
    <3>1. queue[o] # <<>>
      BY <1>3, <1>7
    <3>. QED BY <1>1, <1>3, <1>7, <3>1, NowIs
  <2>. QED BY <2>1, <2>2
<1>. HIDE DEF x
<1>. QED BY <1>2, <1>3, <1>6, <1>8, <1>9, <1>10 DEF x

(* A collective keeps GradsWorth.                                          *)
LEMMA WorthCollective ==
    ASSUME CollInv, GradsWorth, NEW comm \in Comms, NEW o \in RanksHere,
           Collective(comm, GroupOf(o, comm))
    PROVE  GradsWorth'
<1>. DEFINE g == GroupOf(o, comm)
            M == Members(g)
            x == Now(g[1])
<1>1. /\ Ready(g, comm) /\ UNCHANGED <<config, local, phase, step>>
      /\ M \subseteq RanksHere /\ g[1] \in M
      /\ \A r \in M : /\ queue[r] # <<>> /\ Now(r) = x
                      /\ Len(queue'[r]) = Len(queue[r]) - 1
      /\ \A r \in RanksHere \ M : queue'[r] = queue[r]
      /\ x.kind \in Kinds
      /\ CASE x.kind \in {"sum", "mean"} -> AllReduce(g, x.kind)
           [] x.kind = "scatter"   -> ReduceScatter(g)
           [] x.kind = "norm"      -> ReduceNorm(g)
           [] x.kind = "gather"    -> AllGather(g)
           [] x.kind = "broadcast" -> Broadcast(g)
  <2>1. /\ Ready(g, comm) /\ UNCHANGED <<config, local, phase, step>>
        /\ M \subseteq RanksHere /\ g[1] \in M /\ x.kind \in Kinds
    BY Taken
  <2>2. \A r \in M : queue[r] # <<>> /\ Now(r) = x /\ Len(queue'[r]) = Len(queue[r]) - 1
    <3>1. \A r \in M : Pops(r, x, comm, step[o])
      BY Taken
    <3>. QED BY <3>1 DEF Pops
  <2>3. \A r \in RanksHere \ M : queue'[r] = queue[r]
    BY Taken
  <2>4. (CASE x.kind \in {"sum", "mean"} -> AllReduce(g, x.kind)
           [] x.kind = "scatter"   -> ReduceScatter(g)
           [] x.kind = "norm"      -> ReduceNorm(g)
           [] x.kind = "gather"    -> AllGather(g)
           [] x.kind = "broadcast" -> Broadcast(g))
    BY Taken
  <2>. QED BY <2>1, <2>2, <2>3, <2>4
<1>2. /\ ConfigAs /\ StepsAs /\ GradsAs /\ QueuesAs /\ config \in Configs
      /\ config' = config /\ RanksHere' = RanksHere /\ RanksHere = Ranks(config.dims)
  BY <1>1, InConfig DEF CollInv, ConfigAs, RanksHere, P
<1>3. ASSUME NEW r \in RanksHere \ M PROVE grads'[r] = grads[r]
  <2>1. CASE x.kind \in {"sum", "mean"}
    <3>1. AllReduce(g, x.kind)
      BY <1>1, <2>1
    <3>2. \E result : grads' = [q \in RanksHere |->
                IF q \in M THEN Unflatten(Now(q).data, result, grads[q]) ELSE grads[q]]
      BY <3>1 DEF AllReduce
    <3>. QED BY <1>3, <3>2
  <2>2. CASE x.kind \notin {"sum", "mean"}
    <3>1. ReduceScatter(g) \/ ReduceNorm(g) \/ AllGather(g) \/ Broadcast(g)
      BY <1>1, <2>2 DEF Kinds
    <3>. QED BY <3>1 DEF ReduceScatter, ReduceNorm, AllGather, Broadcast
  <2>. QED BY <2>1, <2>2
<1>4. ASSUME x.kind \notin {"sum", "mean"} PROVE grads' = grads
  <2>1. ReduceScatter(g) \/ ReduceNorm(g) \/ AllGather(g) \/ Broadcast(g)
    BY <1>1, <1>4 DEF Kinds
  <2>. QED BY <2>1 DEF ReduceScatter, ReduceNorm, AllGather, Broadcast
<1>5. ASSUME NEW r \in RanksHere, NEW n \in Members(NamesOf(config, r))
      PROVE  WorthOf(config, step[r], phase[r], Len(queue'[r]), grads'[r][n], r, n)
  <2>. DEFINE s == step[r]
              k == Len(queue[r])
  <2>0. WorthOf(config, s, phase[r], k, grads[r][n], r, n)
    BY WorthIs
  <2>1. CASE r \notin M
    <3>1. queue'[r] = queue[r] /\ grads'[r] = grads[r]
      BY <1>1, <1>3, <2>1
    <3>. QED BY <2>0, <3>1
  <2>2. CASE r \in M
    <3>0. /\ queue[r] # <<>> /\ Now(r) = x /\ Len(queue'[r]) = k - 1
      BY <1>1, <2>2
    <3>1. CASE x.kind \in {"sum", "mean"}
      <4>1. phase[r] = "sync"
        BY <3>0, <3>1, BucketCall
      <4>2. ASSUME Keeps(config, s, phase[r], r, n)
            PROVE  grads'[r][n] = GradAt(config, s, r, k - 1, n)
        <5>1. n \in Wants(config, s, r)
          BY <4>1, <4>2 DEF Keeps, Wants
        <5>2. AllReduce(g, x.kind)
          BY <1>1, <3>1
        <5>. QED BY <1>1, <2>2, <3>1, <5>1, <5>2, AllReduceWorth
      <4>3. IsVector(GradAt(config, s, r, k - 1, n), n)
        BY <1>2, GradAtVector
      <4>. QED BY <3>0, <4>1, <4>2, <4>3 DEF WorthOf
    <3>2. CASE x.kind \notin {"sum", "mean"}
      <4>1. grads'[r][n] = grads[r][n]
        BY <1>4, <3>2
      <4>2. CASE phase[r] # "sync"
        BY <2>0, <3>0, <4>1, <4>2 DEF WorthOf
      <4>3. CASE phase[r] = "sync"
        <5>1. ASSUME Keeps(config, s, phase[r], r, n)
              PROVE  GradAt(config, s, r, k - 1, n) = GradAt(config, s, r, k, n)
          <6>1. n \in Wants(config, s, r)
            BY <4>3, <5>1 DEF Keeps, Wants
          <6>2. k \in 1..Len(Script(config, s, r))
                /\ Now(r) = Script(config, s, r)[Len(Script(config, s, r)) - k + 1]
            <7>1. k > 0 /\ Counted(config, s, "sync", k, r) /\ Now(r) = CallAt(config, s, "sync", k, r)
              BY <1>2, <3>0, <4>3, NowIs DEF QueuesAs
            <7>2. Len(Script(config, s, r)) \in Nat
              BY <1>2, ScriptType
            <7>. QED BY <7>1, <7>2 DEF Counted, CallAt
          <6>3. ~Carries(Now(r), n)
            BY <3>0, <3>2 DEF Carries
          <6>4. r \in Ranks(config.dims)
            BY <1>2
          <6>. HIDE DEF s, k, x
          <6>5. ~Carries(Now(r), n) => GradAt(config, s, r, k - 1, n) = GradAt(config, s, r, k, n)
            BY <1>2, <6>1, <6>2, <6>4, LevelMoves
          <6>. QED BY <6>3, <6>5
        <5>. QED BY <2>0, <3>0, <4>1, <4>3, <5>1 DEF WorthOf
      <4>. QED BY <4>2, <4>3
    <3>. QED BY <3>1, <3>2
  <2>. QED BY <2>1, <2>2
<1>. QED BY <1>1, <1>2, <1>5 DEF GradsWorth, WorthOf

(* Ranks that differ along some axes only.                                 *)
Near(c, q, r, over) ==
    \A a \in Axes \ over : Coordinates(c.dims, q)[a] = Coordinates(c.dims, r)[a]
Uniform(c, w, n, over) ==
    \A q, r \in Ranks(c.dims) :
        Near(c, q, r, over) /\ n \in Members(NamesOf(c, r)) => w[q][n] = w[r][n]
MergedOver(c, n) == {a \in Rings : n \in Merging(c, a)}

(* Ranks that differ along rings only hold the same parameters.            *)
LEMMA NearNames ==
    ASSUME NEW c, NEW q, NEW r, NEW over, over \subseteq Rings, Near(c, q, r, over)
    PROVE  NamesOf(c, q) = NamesOf(c, r)
<1>1. Coordinates(c.dims, q).pipeline = Coordinates(c.dims, r).pipeline
  BY DEF Near, Rings, Axes
<1>2. \A i, j : i.pipeline = j.pipeline => StageNames(c, i) = StageNames(c, j)
  BY DEF StageNames, HasEmbed
<1>. QED BY <1>1, <1>2 DEF NamesOf

(* The i-th of a ring is at i - 1 along it, and like its ring elsewhere.   *)
LEMMA RingAt ==
    ASSUME NEW c \in Configs, NEW comm \in Rings, NEW r \in Ranks(c.dims),
           NEW i \in 1..c.dims[comm]
    PROVE  LET q == RingOf(c, r, comm)[i]
           IN  /\ q \in Ranks(c.dims) /\ Coordinates(c.dims, q)[comm] = i - 1
               /\ Beside(c, q, r, comm)
<1>. DEFINE p == c.dims
            d == Coordinates(p, r)
            e == [d EXCEPT ![comm] = i - 1]
<1>1. IsDims(p) /\ comm \in Axes
  BY ConfigType DEF Rings, Axes
<1>2. d \in Coords(p)
  BY <1>1, CoordsOfRank
<1>3. i - 1 \in 0..(p[comm] - 1)
  <2>1. p[comm] \in Nat
    BY <1>1, <1>2, AxisType
  <2>. QED BY <2>1
<1>4. e \in Coords(p) /\ e[comm] = i - 1 /\ \A a \in Axes \ {comm} : e[a] = d[a]
  BY <1>1, <1>2, <1>3, AxisMove
<1>5. RingOf(c, r, comm)[i] = GlobalRank(p, e)
  BY DEF RingOf, Group
<1>. HIDE DEF e, d
<1>6. GlobalRank(p, e) \in Ranks(p) /\ Coordinates(p, GlobalRank(p, e)) = e
  BY <1>1, <1>4, RankOfCoords
<1>. QED BY <1>4, <1>5, <1>6 DEF Beside, d

(* A reduction makes equal what differs along its ring.                    *)
LEMMA MergedUniform ==
    ASSUME NEW c \in Configs, NEW comm \in Rings, NEW n, n \in Merging(c, comm),
           NEW over, over \subseteq Rings, NEW w, Uniform(c, w, n, over)
    PROVE  Uniform(c, Merged(c, w, comm), n, over \cup {comm})
<1>. SUFFICES ASSUME NEW q \in Ranks(c.dims), NEW r \in Ranks(c.dims),
                     Near(c, q, r, over \cup {comm}), n \in Members(NamesOf(c, r))
              PROVE  Merged(c, w, comm)[q][n] = Merged(c, w, comm)[r][n]
  BY DEF Uniform
<1>1. NamesOf(c, q) = NamesOf(c, r)
  <2>1. over \cup {comm} \subseteq Rings
    OBVIOUS
  <2>. QED BY <2>1, NearNames
<1>2. CASE c.dims[comm] = 1
  <2>1. Merged(c, w, comm)[q][n] = w[q][n] /\ Merged(c, w, comm)[r][n] = w[r][n]
    BY <1>1, <1>2 DEF Merged
  <2>2. Coordinates(c.dims, q)[comm] = 0 /\ Coordinates(c.dims, r)[comm] = 0
    <3>1. IsDims(c.dims) /\ comm \in Axes
      BY ConfigType DEF Rings, Axes
    <3>2. Coordinates(c.dims, q) \in Coords(c.dims) /\ Coordinates(c.dims, r) \in Coords(c.dims)
      BY <3>1, CoordsOfRank
    <3>3. Coordinates(c.dims, q)[comm] \in 0..(1 - 1) /\ Coordinates(c.dims, r)[comm] \in 0..(1 - 1)
      BY <1>2, <3>1, <3>2, AxisType
    <3>. QED BY <3>3
  <2>3. Near(c, q, r, over)
    BY <2>2 DEF Near
  <2>. QED BY <2>1, <2>3 DEF Uniform
<1>3. CASE c.dims[comm] # 1
  <2>. DEFINE Of(x) == [j \in 1..Size[n] |->
                ReducedIn(c, OpOf(comm), [i \in 1..c.dims[comm] |-> w[RingOf(c, x, comm)[i]][n][j]])]
  <2>1. Merged(c, w, comm)[q][n] = Of(q) /\ Merged(c, w, comm)[r][n] = Of(r)
    BY <1>1, <1>3 DEF Merged
  <2>2. ASSUME NEW i \in 1..c.dims[comm]
        PROVE  w[RingOf(c, q, comm)[i]][n] = w[RingOf(c, r, comm)[i]][n]
    <3>1. PICK x \in Ranks(c.dims) : /\ x = RingOf(c, q, comm)[i]
                                     /\ Coordinates(c.dims, x)[comm] = i - 1 /\ Beside(c, x, q, comm)
      BY RingAt
    <3>2. PICK y \in Ranks(c.dims) : /\ y = RingOf(c, r, comm)[i]
                                     /\ Coordinates(c.dims, y)[comm] = i - 1 /\ Beside(c, y, r, comm)
      BY RingAt
    <3>3. Near(c, x, y, over)
      BY <3>1, <3>2 DEF Near, Beside
    <3>4. NamesOf(c, y) = NamesOf(c, r)
      BY <3>2, NamesAgree
    <3>. QED BY <3>1, <3>2, <3>3, <3>4 DEF Uniform
  <2>3. ASSUME NEW j \in 1..Size[n]
        PROVE  [i \in 1..c.dims[comm] |-> w[RingOf(c, q, comm)[i]][n][j]]
                  = [i \in 1..c.dims[comm] |-> w[RingOf(c, r, comm)[i]][n][j]]
    BY <2>2
  <2>4. Of(q) = Of(r)
    BY <2>3
  <2>. QED BY <2>1, <2>4
<1>. QED BY <1>2, <1>3

(* What is equal stays so when it is not reduced.                          *)
LEMMA UnmergedUniform ==
    ASSUME NEW c \in Configs, NEW comm, NEW n, n \notin Merging(c, comm),
           NEW over, over \subseteq Rings, NEW w, Uniform(c, w, n, over)
    PROVE  Uniform(c, Merged(c, w, comm), n, over)
<1>. SUFFICES ASSUME NEW q \in Ranks(c.dims), NEW r \in Ranks(c.dims),
                     Near(c, q, r, over), n \in Members(NamesOf(c, r))
              PROVE  Merged(c, w, comm)[q][n] = Merged(c, w, comm)[r][n]
  BY DEF Uniform
<1>1. NamesOf(c, q) = NamesOf(c, r)
  BY NearNames
<1>2. Merged(c, w, comm)[q][n] = w[q][n] /\ Merged(c, w, comm)[r][n] = w[r][n]
  BY <1>1 DEF Merged
<1>. QED BY <1>2 DEF Uniform

(* Ranks with the same coordinates are the same.                           *)
LEMMA NearNothing ==
    ASSUME NEW c \in Configs, NEW q \in Ranks(c.dims), NEW r \in Ranks(c.dims), Near(c, q, r, {})
    PROVE  q = r
<1>1. IsDims(c.dims)
  BY ConfigType
<1>2. /\ Coordinates(c.dims, q) \in Coords(c.dims) /\ Coordinates(c.dims, r) \in Coords(c.dims)
      /\ GlobalRank(c.dims, Coordinates(c.dims, q)) = q
      /\ GlobalRank(c.dims, Coordinates(c.dims, r)) = r
  BY <1>1, CoordsOfRank
<1>3. Coordinates(c.dims, q) = Coordinates(c.dims, r)
  <2>1. \A a \in Axes : Coordinates(c.dims, q)[a] = Coordinates(c.dims, r)[a]
    BY DEF Near
  <2>. QED BY <1>2, <2>1, CoordsEqual
<1>. QED BY <1>2, <1>3

(* After the step's collectives the gradients of a parameter are the same  *)
(* along every axis that merges them.                                      *)
LEMMA GradsUniform ==
    ASSUME NEW c \in Configs, NEW s, NEW n
    PROVE  /\ Uniform(c, PastData(c, s), n, MergedOver(c, n))
           /\ c.mode = "flat" => Uniform(c, PastExpert(c, s), n, MergedOver(c, n))
<1>. DEFINE Over(seen) == {a \in seen : n \in Merging(c, a)}
<1>1. Uniform(c, FromTokens(c, s), n, Over({}))
  <2>1. Over({}) = {}
    OBVIOUS
  <2>. QED BY <2>1, NearNothing DEF Uniform
<1>2. ASSUME NEW seen, seen \subseteq Rings, NEW comm \in Rings, NEW w, Uniform(c, w, n, Over(seen))
      PROVE  Uniform(c, Merged(c, w, comm), n, Over(seen \cup {comm}))
  <2>1. CASE n \in Merging(c, comm)
    <3>1. Over(seen \cup {comm}) = Over(seen) \cup {comm} /\ Over(seen) \subseteq Rings
      BY <1>2, <2>1
    <3>. HIDE DEF Over
    <3>2. PICK over : over = Over(seen)
      OBVIOUS
    <3>3. Uniform(c, w, n, over) /\ over \subseteq Rings
      BY <1>2, <3>1, <3>2
    <3>4. Uniform(c, Merged(c, w, comm), n, over \cup {comm})
      BY <2>1, <3>3, MergedUniform
    <3>. QED BY <3>1, <3>2, <3>4
  <2>2. CASE n \notin Merging(c, comm)
    <3>1. Over(seen \cup {comm}) = Over(seen) /\ Over(seen) \subseteq Rings
      BY <1>2, <2>2
    <3>. HIDE DEF Over
    <3>. QED BY <1>2, <2>2, <3>1, UnmergedUniform
  <2>. QED BY <2>1, <2>2
<1>. HIDE DEF Over
<1>3. Uniform(c, PastContext(c, s), n, Over({} \cup {"context"}))
  BY <1>1, <1>2 DEF PastContext, Rings
<1>4. Uniform(c, PastTensor(c, s), n, Over({"context"} \cup {"tensor"}))
  <2>1. {} \cup {"context"} = {"context"}
    OBVIOUS
  <2>. QED BY <1>2, <1>3, <2>1 DEF PastTensor, Rings
<1>5. Uniform(c, PastExpert(c, s), n, Over({"context", "tensor"} \cup {"expert"}))
  <2>1. {"context"} \cup {"tensor"} = {"context", "tensor"}
    OBVIOUS
  <2>. QED BY <1>2, <1>4, <2>1 DEF PastExpert, Rings
<1>6. Uniform(c, PastData(c, s), n, Over({"context", "tensor", "expert"} \cup {"data"}))
  <2>1. {"context", "tensor"} \cup {"expert"} = {"context", "tensor", "expert"}
    OBVIOUS
  <2>. QED BY <1>2, <1>5, <2>1 DEF PastData, Rings
<1>7. Over({"context", "tensor", "expert"} \cup {"data"}) = MergedOver(c, n)
  BY DEF Over, MergedOver, Rings
<1>8. c.mode = "flat" => Over({"context", "tensor"} \cup {"expert"}) = MergedOver(c, n)
  BY DEF Over, MergedOver, Rings, Merging
<1>. QED BY <1>5, <1>6, <1>7, <1>8

(* The replicas' model groups go through the same places in one order.     *)
LEMMA ModelAt ==
    ASSUME NEW c \in Configs, NEW q \in Ranks(c.dims), NEW r \in Ranks(c.dims),
           NEW i \in 1..ModelSize(c.dims)
    PROVE  LET x == ModelGroup(c.dims, Coordinates(c.dims, q))[i]
               y == ModelGroup(c.dims, Coordinates(c.dims, r))[i]
           IN  x \in Ranks(c.dims) /\ y \in Ranks(c.dims) /\ Beside(c, x, y, "data")
<1>. DEFINE p == c.dims
            n == ModelSize(p)
            one == [p EXCEPT !.data = 1]
            Place(h) == [Coordinates(one, i - 1) EXCEPT !.data = Coordinates(p, h).data]
<1>1. IsDims(p) /\ p.data \in Nat \ {0}
  BY ConfigType
<1>2. IsDims(one) /\ i - 1 \in Ranks(one)
  <2>1. IsDims(one) /\ one.data = 1
    BY <1>1 DEF IsDims
  <2>2. ModelSize(one) = n
    BY <1>1 DEF ModelSize, IsDims
  <2>3. [Coordinates(p, r) EXCEPT !.data = 0] \in Coords(one)
    BY <1>1, CoordsOfRank DEF Coords, IsDims
  <2>4. World(one) = 1 * n /\ n \in Nat
    BY <2>1, <2>2, <2>3, ReplicaOffset
  <2>. HIDE DEF one, n
  <2>5. World(one) = n
    BY <2>4
  <2>6. i \in 1..n
    BY DEF n
  <2>. QED BY <2>1, <2>4, <2>5, <2>6 DEF Ranks
<1>3. ASSUME NEW h \in Ranks(p)
      PROVE  /\ ModelGroup(p, Coordinates(p, h))[i] = GlobalRank(p, Place(h))
             /\ GlobalRank(p, Place(h)) \in Ranks(p)
             /\ Coordinates(p, GlobalRank(p, Place(h))) = Place(h)
             /\ \A a \in Axes \ {"data"} : Place(h)[a] = Coordinates(one, i - 1)[a]
  <2>1. ModelGroup(p, Coordinates(p, h))[i] = GlobalRank(p, Place(h))
    BY DEF ModelGroup
  <2>2. Coordinates(one, i - 1) \in Coords(one) /\ Coordinates(p, h) \in Coords(p)
    BY <1>1, <1>2, CoordsOfRank
  <2>. DEFINE e == Coordinates(one, i - 1)
              d == Coordinates(p, h)
  <2>. HIDE DEF e, d
  <2>3. Place(h) = [e EXCEPT !.data = d.data] /\ e \in Coords(one) /\ d \in Coords(p)
    BY <2>2 DEF e, d
  <2>. HIDE DEF Place
  <2>4. Place(h) \in Coords(p) /\ \A a \in Axes \ {"data"} : Place(h)[a] = e[a]
    BY <1>1, <2>3 DEF Coords, IsDims, Axes
  <2>5. /\ GlobalRank(p, Place(h)) \in Ranks(p)
        /\ Coordinates(p, GlobalRank(p, Place(h))) = Place(h)
    BY <1>1, <2>4, RankOfCoords
  <2>. QED BY <2>1, <2>4, <2>5 DEF e
<1>. HIDE DEF Place, one
<1>. DEFINE x == GlobalRank(p, Place(q))
            y == GlobalRank(p, Place(r))
<1>4. x \in Ranks(p) /\ y \in Ranks(p)
  BY <1>3
<1>5. \A a \in Axes \ {"data"} : Coordinates(p, x)[a] = Coordinates(p, y)[a]
  BY <1>3
<1>6. Beside(c, x, y, "data")
  BY <1>5 DEF Beside
<1>. QED BY <1>3, <1>4, <1>6

(* The norm over one replica, as a matter of the configuration alone.      *)
NormAlone(c, s, r) ==
    Magnitude(FlattenSeq([i \in DOMAIN Listed(c, s, r) |-> PastData(c, s)[r][Listed(c, s, r)[i]]]))
NormOver(c, s, r) ==
    NumelOf([i \in 1..ModelSize(c.dims) |->
                NormAlone(c, s, ModelGroup(c.dims, Coordinates(c.dims, r))[i])])

(* The norm is the same on all replicas.                                   *)
LEMMA NormsAgree ==
    ASSUME NEW c \in Configs, c.mode # "flat", NEW s \in 0..MaxSteps,
           NEW q \in Ranks(c.dims), NEW r \in Ranks(c.dims)
    PROVE  NormOver(c, s, q) = NormOver(c, s, r)
<1>1. ASSUME NEW x \in Ranks(c.dims), NEW y \in Ranks(c.dims), Beside(c, x, y, "data")
      PROVE  NormAlone(c, s, x) = NormAlone(c, s, y)
  <2>. DEFINE L == Listed(c, s, y)
  <2>1. Listed(c, s, x) = L
    BY <1>1, ListsAgree DEF Rings
  <2>2. ASSUME NEW i \in DOMAIN L PROVE PastData(c, s)[x][L[i]] = PastData(c, s)[y][L[i]]
    <3>1. PICK n \in Wants(c, s, y) : n = L[i]
      <4>1. L \in Seq(Wants(c, s, y))
        BY ListedType
      <4>. HIDE DEF L
      <4>. QED BY <4>1
    <3>2. n \in Members(NamesOf(c, y)) /\ n \in AllNames
      BY EntriesType DEF Wants
    <3>3. "data" \in MergedOver(c, n)
      BY <3>2 DEF MergedOver, Merging, Rings
    <3>4. Near(c, x, y, MergedOver(c, n))
      BY <1>1, <3>3 DEF Near, Beside
    <3>5. Uniform(c, PastData(c, s), n, MergedOver(c, n))
      BY GradsUniform
    <3>. QED BY <3>1, <3>2, <3>4, <3>5 DEF Uniform
  <2>. HIDE DEF L
  <2>3. [i \in DOMAIN L |-> PastData(c, s)[x][L[i]]] = [i \in DOMAIN L |-> PastData(c, s)[y][L[i]]]
    BY <2>2
  <2>4. NormAlone(c, s, x) = Magnitude(FlattenSeq([i \in DOMAIN L |-> PastData(c, s)[x][L[i]]]))
    BY <2>1 DEF NormAlone
  <2>5. NormAlone(c, s, y) = Magnitude(FlattenSeq([i \in DOMAIN L |-> PastData(c, s)[y][L[i]]]))
    BY DEF NormAlone, L
  <2>. QED BY <2>3, <2>4, <2>5
<1>2. ASSUME NEW i \in 1..ModelSize(c.dims)
      PROVE  NormAlone(c, s, ModelGroup(c.dims, Coordinates(c.dims, q))[i])
               = NormAlone(c, s, ModelGroup(c.dims, Coordinates(c.dims, r))[i])
  BY <1>1, ModelAt
<1>. QED BY <1>2 DEF NormOver

(* The norm of a step has been agreed on and not yet been dropped.         *)
PastNorm(r) == (phase[r] = "share" /\ step[r] > 0) \/ (phase[r] = "sync" /\ queue[r] = <<>>)

(* Then it is that of the gradients of the whole model group. With the     *)
(* flat optimizer it is enough that all ranks have the same.               *)
NormWorth ==
    IF config.mode = "flat" THEN \A q, r \in RanksHere : norm[q] = norm[r]
    ELSE \A r \in RanksHere : PastNorm(r) => norm[r] = NormOver(config, step[r], r)

(* The norm is the last call before the update, and there is no other.     *)
LEMMA NormWhen ==
    ASSUME CollInv, NEW r \in RanksHere, queue[r] # <<>>
    PROVE  /\ Now(r).kind = "norm" =>
                phase[r] = "sync" /\ Len(queue[r]) = 1 /\ Now(r) = NormCall(config)
           /\ phase[r] = "sync" /\ Len(queue[r]) = 1 => Now(r).kind = "norm"
<1>. DEFINE c == config
            s == step[r]
            k == Len(queue[r])
            x == Now(r)
<1>1. /\ c \in Configs /\ phase[r] \in {"sync", "share"} /\ k > 0 /\ Counted(c, s, phase[r], k, r)
      /\ x = CallAt(c, s, phase[r], k, r) /\ k \in Nat
  BY NowIs DEF CollInv, ConfigAs, QueuesAs
<1>2. NormCall(c).kind = "norm" /\ NormCall(c).comm \notin Rings
  BY DEF NormCall, Call, Rings
<1>. HIDE DEF x, k, s
<1>3. CASE phase[r] = "share"
  <2>1. OnComm(Shares(c, r), "data", {"gather", "broadcast"}) /\ Len(Shares(c, r)) \in Nat
    BY <1>1, SharesType, SharesLength
  <2>2. x = Shares(c, r)[Len(Shares(c, r)) - k + 1] /\ k <= Len(Shares(c, r))
    BY <1>1, <1>3 DEF CallAt, Counted
  <2>3. Len(Shares(c, r)) - k + 1 \in 1..Len(Shares(c, r))
    BY <1>1, <2>1, <2>2
  <2>4. x.kind \in {"gather", "broadcast"}
    BY <2>1, <2>2, <2>3 DEF OnComm
  <2>. QED BY <1>3, <2>4 DEF x
<1>4. CASE phase[r] = "sync"
  <2>1. Counted(c, s, "sync", k, r) /\ x = CallAt(c, s, "sync", k, r)
    BY <1>1, <1>4
  <2>2. (k = 1 => x = NormCall(c)) /\ (k > 1 => x.comm \in Rings)
    BY <1>1, <2>1, NormIsLast
  <2>3. x = NormCall(c) \/ x.kind \in PartKinds
    <3>1. k \in 1..Len(Script(c, s, r)) /\ x = Script(c, s, r)[Len(Script(c, s, r)) - k + 1]
      <4>1. Len(Script(c, s, r)) \in Nat
        BY <1>1, ScriptType
      <4>. QED BY <1>1, <2>1, <4>1 DEF Counted, CallAt
    <3>2. Takes(c, s, r, k, x)
      BY <1>1, <3>1, PopSync
    <3>. QED BY <3>2 DEF Takes
  <2>4. x.kind = "norm" => x = NormCall(c) /\ k = 1
    BY <1>1, <1>2, <2>2, <2>3 DEF PartKinds
  <2>5. k = 1 => x.kind = "norm"
    BY <1>2, <2>2
  <2>. QED BY <1>4, <2>4, <2>5 DEF x, k
<1>. QED BY <1>1, <1>3, <1>4

(* What a rank brings to the norm.                                         *)
LEMMA LocalNormIs ==
    ASSUME CollInv, GradsWorth, NEW r \in RanksHere, queue[r] # <<>>, Now(r).kind = "norm",
           config.mode # "flat"
    PROVE  LocalNorm(r) = NormAlone(config, step[r], r)
<1>. DEFINE s == step[r]
            L == Listed(config, s, r)
<1>1. ConfigAs /\ GradsAs /\ config \in Configs /\ r \in Ranks(config.dims)
  BY InConfig DEF CollInv, ConfigAs
<1>2. phase[r] = "sync" /\ Len(queue[r]) = 1
  BY NormWhen
<1>3. \A n : Keeps(config, s, phase[r], r, n) <=> HasGrad(config, s, r, n)
  BY <1>2 DEF Keeps
<1>4. Defined(r) = L
  <2>1. DOMAIN grads[r] = Members(NamesOf(config, r))
    BY <1>1 DEF GradsAs
  <2>2. \A n \in Members(NamesOf(config, r)) : grads[r][n] # <<>> <=> HasGrad(config, s, r, n)
    <3>1. 1 \notin DOMAIN <<>>
      OBVIOUS
    <3>. HIDE DEF s
    <3>2. \A n \in Members(NamesOf(config, r)) :
            IF Keeps(config, s, phase[r], r, n) THEN 1 \in DOMAIN grads[r][n]
            ELSE grads[r][n] = <<>>
      BY <1>1 DEF GradsAs, s
    <3>. QED BY <1>3, <3>1, <3>2
  <2>3. {n \in DOMAIN grads[r] : grads[r][n] # <<>>} = Wants(config, s, r)
    <3>. HIDE DEF s
    <3>. QED BY <2>1, <2>2 DEF Wants
  <2>4. Names(r) = NamesOf(config, r)
    BY <1>1, AsConfigured
  <2>. QED BY <2>3, <2>4 DEF Defined, Listed
<1>5. ASSUME NEW i \in DOMAIN L PROVE grads[r][L[i]] = PastData(config, s)[r][L[i]]
  <2>1. PICK n \in Wants(config, s, r) : n = L[i]
    <3>1. L \in Seq(Wants(config, s, r))
      BY ListedType
    <3>. HIDE DEF L
    <3>. QED BY <3>1
  <2>2. n \in Members(NamesOf(config, r)) /\ HasGrad(config, s, r, n)
    BY DEF Wants
  <2>3. grads[r][n] = GradAt(config, s, r, 1, n)
    BY <1>2, <1>3, <2>2 DEF GradsWorth
  <2>4. GradAt(config, s, r, 1, n) = PastData(config, s)[r][n]
    BY <1>1, LevelEnds
  <2>. QED BY <2>1, <2>3, <2>4
<1>. HIDE DEF L, s
<1>6. [i \in DOMAIN L |-> grads[r][L[i]]] = [i \in DOMAIN L |-> PastData(config, s)[r][L[i]]]
  BY <1>5
<1>7. LocalNorm(r) = Magnitude(FlattenSeq([i \in DOMAIN L |-> grads[r][L[i]]]))
  BY <1>4 DEF LocalNorm
<1>8. NormAlone(config, s, r) = Magnitude(FlattenSeq([i \in DOMAIN L |-> PastData(config, s)[r][L[i]]]))
  BY DEF NormAlone, L
<1>. QED BY <1>6, <1>7, <1>8 DEF s

PastAt(ph, s, q) == (ph = "share" /\ s > 0) \/ (ph = "sync" /\ q = <<>>)
NormAt(c, value, ph, s, q, r) == PastAt(ph, s, q) => value = NormOver(c, s, r)

(* NormWorth, rank by rank.                                                *)
LEMMA NormIsAt ==
    config.mode # "flat" =>
        (NormWorth <=> \A r \in RanksHere :
                          NormAt(config, norm[r], phase[r], step[r], queue[r], r))
BY DEF NormWorth, NormAt, PastNorm, PastAt

(* NormWorth is kept where no norm changes.                                *)
LEMMA NormKeeps ==
    ASSUME UNCHANGED <<config, norm>>, NormWorth,
           config.mode # "flat" =>
                \A r \in RanksHere : NormAt(config, norm[r], phase'[r], step'[r], queue'[r], r)
    PROVE  NormWorth'
<1>1. RanksHere' = RanksHere
  BY DEF RanksHere, P
<1>. QED BY <1>1 DEF NormWorth, NormAt, PastNorm, PastAt

(* At the start no norm has been agreed on.                                *)
LEMMA NormInit == Init => NormWorth
<1>1. ASSUME Init PROVE NormWorth
  <2>1. \A r \in RanksHere : step[r] = 0 /\ phase[r] = "share" /\ norm[r] = 0
    BY <1>1 DEF Init
  <2>. QED BY <2>1 DEF NormWorth, PastNorm
<1>. QED BY <1>1

(* The barrier keeps the norm.                                             *)
LEMMA NormStart == CollInv /\ NormWorth /\ StartStep => NormWorth'
<1>. SUFFICES ASSUME CollInv, NormWorth, StartStep PROVE NormWorth'
  OBVIOUS
<1>1. UNCHANGED <<config, norm>> /\ phase' = [r \in RanksHere |-> "backward"]
  BY DEF StartStep
<1>2. \A r \in RanksHere : NormAt(config, norm[r], phase'[r], step'[r], queue'[r], r)
  BY <1>1 DEF NormAt, PastAt
<1>. QED BY <1>1, <1>2, NormKeeps

(* So do the backward passes.                                              *)
LEMMA NormBackward ==
    ASSUME CollInv, NormWorth, NEW r \in RanksHere, Backward(r)
    PROVE  NormWorth'
<1>1. UNCHANGED <<config, norm, step>> /\ phase' = [phase EXCEPT ![r] = "sync"]
  BY DEF Backward
<1>2. queue' = [queue EXCEPT ![r] = Script(config, step[r], r)]
  BY BackwardInv
<1>3. DOMAIN phase = RanksHere /\ DOMAIN queue = RanksHere /\ config \in Configs
  BY DEF CollInv, ConfigAs, StepsAs, QueuesAs
<1>4. Script(config, step[r], r) # <<>>
  <2>1. /\ IsList(Script(config, step[r], r)) /\ Len(Script(config, step[r], r)) \in Nat
        /\ Len(Script(config, step[r], r)) >= After(config, step[r], r, "data")
                                                + Len(Part(config, step[r], r, "data"))
    BY <1>3, ScriptType DEF Rings
  <2>2. After(config, step[r], r, "data") \in Nat \ {0} /\ Len(Part(config, step[r], r, "data")) \in Nat
    BY <1>3, AfterType, PartLength DEF Rings
  <2>3. Len(Script(config, step[r], r)) # 0
    BY <2>1, <2>2
  <2>4. Len(<<>>) = 0
    OBVIOUS
  <2>. QED BY <2>3, <2>4
<1>5. ASSUME NEW x \in RanksHere, config.mode # "flat"
      PROVE  NormAt(config, norm[x], phase'[x], step'[x], queue'[x], x)
  <2>1. NormAt(config, norm[x], phase[x], step[x], queue[x], x)
    BY <1>5, NormIsAt
  <2>2. CASE x # r
    BY <1>1, <1>2, <1>3, <2>1, <2>2
  <2>3. CASE x = r
    BY <1>1, <1>2, <1>3, <1>4, <2>3 DEF NormAt, PastAt
  <2>. QED BY <2>2, <2>3
<1>. QED BY <1>1, <1>5, NormKeeps

(* So does the update.                                                     *)
LEMMA NormUpdate ==
    ASSUME CollInv, NormWorth, NEW r \in RanksHere, Update(r)
    PROVE  NormWorth'
<1>1. /\ UNCHANGED <<config, norm, step>> /\ phase' = [phase EXCEPT ![r] = "share"]
      /\ phase[r] = "sync" /\ queue[r] = <<>> /\ queue' = [queue EXCEPT ![r] = ParamCalls(r)]
  BY DEF Update
<1>2. DOMAIN phase = RanksHere /\ DOMAIN queue = RanksHere
  BY DEF CollInv, StepsAs, QueuesAs
<1>3. ASSUME NEW x \in RanksHere, config.mode # "flat"
      PROVE  NormAt(config, norm[x], phase'[x], step'[x], queue'[x], x)
  <2>1. NormAt(config, norm[x], phase[x], step[x], queue[x], x)
    BY <1>3, NormIsAt
  <2>2. CASE x # r
    BY <1>1, <1>2, <2>1, <2>2
  <2>3. CASE x = r
    BY <1>1, <1>2, <2>1, <2>3 DEF NormAt, PastAt
  <2>. QED BY <2>2, <2>3
<1>. QED BY <1>1, <1>3, NormKeeps

(* A collective keeps NormWorth: the one that reduces the norm gives it to *)
(* all.                                                                    *)
LEMMA NormCollective ==
    ASSUME CollInv, GradsWorth, NormWorth, NEW comm \in Comms, NEW o \in RanksHere,
           Collective(comm, GroupOf(o, comm))
    PROVE  NormWorth'
<1>. DEFINE g == GroupOf(o, comm)
            M == Members(g)
            x == Now(g[1])
<1>1. /\ UNCHANGED <<config, local, phase, step>>
      /\ M \subseteq RanksHere /\ g[1] \in M /\ o \in M /\ x.kind \in Kinds
  BY Taken
<1>2. \A r \in M : Pops(r, x, comm, step[o])
  BY Taken
<1>3. \A r \in RanksHere \ M : queue'[r] = queue[r]
  BY Taken
<1>4. (CASE x.kind \in {"sum", "mean"} -> AllReduce(g, x.kind)
           [] x.kind = "scatter"   -> ReduceScatter(g)
           [] x.kind = "norm"      -> ReduceNorm(g)
           [] x.kind = "gather"    -> AllGather(g)
           [] x.kind = "broadcast" -> Broadcast(g))
  BY Taken
<1>5. /\ ConfigAs /\ StepsAs /\ QueuesAs /\ config \in Configs
      /\ RanksHere = Ranks(config.dims) /\ RanksHere' = RanksHere
  BY <1>1, InConfig DEF CollInv, ConfigAs, RanksHere, P
<1>6. ASSUME NEW r \in M
      PROVE  /\ queue[r] # <<>> /\ Now(r) = x /\ x.comm = comm /\ r \in RanksHere
             /\ Len(queue'[r]) = Len(queue[r]) - 1 /\ step[r] = step[o]
             /\ phase[r] \in {"sync", "share"} /\ Len(queue[r]) \in Nat
  <2>1. /\ queue[r] # <<>> /\ Now(r) = x /\ x.comm = comm /\ r \in RanksHere
        /\ Len(queue'[r]) = Len(queue[r]) - 1 /\ step[r] = step[o]
    BY <1>1, <1>2 DEF Pops
  <2>. QED BY <1>5, <2>1, NowIs
<1>7. CASE x.kind # "norm"
  <2>1. norm' = norm
    <3>1. (\E op : AllReduce(g, op)) \/ ReduceScatter(g) \/ AllGather(g) \/ Broadcast(g)
      BY <1>1, <1>4, <1>7 DEF Kinds
    <3>. QED BY <3>1 DEF ReduceScatter, AllReduce, AllGather, Broadcast
  <2>2. ASSUME NEW r \in RanksHere, config.mode # "flat"
        PROVE  NormAt(config, norm[r], phase'[r], step'[r], queue'[r], r)
    <3>1. NormAt(config, norm[r], phase[r], step[r], queue[r], r)
      BY <2>2, NormIsAt
    <3>2. CASE r \notin M
      BY <1>1, <1>3, <3>1, <3>2
    <3>3. CASE r \in M
      <4>1. phase[r] = "sync" => queue'[r] # <<>>
        <5>1. Len(queue[r]) # 1 \/ phase[r] # "sync"
          BY <1>6, <1>7, <3>3, NormWhen
        <5>2. Len(queue[r]) - 1 # 0 \/ phase[r] # "sync"
          BY <1>6, <3>3, <5>1
        <5>3. Len(<<>>) = 0
          OBVIOUS
        <5>. QED BY <1>6, <3>3, <5>2, <5>3
      <4>. QED BY <1>1, <3>1, <4>1 DEF NormAt, PastAt
    <3>. QED BY <3>2, <3>3
  <2>. QED BY <1>1, <2>1, <2>2, NormKeeps
<1>8. CASE x.kind = "norm"
  <2>1. ReduceNorm(g)
    <3>. HIDE DEF g, x
    <3>. QED BY <1>4, <1>8
  <2>. DEFINE total == NumelOf([i \in DOMAIN g |-> LocalNorm(g[i])])
  <2>2. norm' = [r \in RanksHere |-> IF r \in M THEN total ELSE norm[r]]
    <3>. HIDE DEF g
    <3>. QED BY <2>1 DEF ReduceNorm
  <2>3. /\ \A r \in M : phase[r] = "sync" /\ Len(queue[r]) = 1
        /\ x = NormCall(config) /\ comm = NormCall(config).comm
    <3>1. ASSUME NEW r \in M PROVE phase[r] = "sync" /\ Len(queue[r]) = 1 /\ x = NormCall(config)
                                   /\ comm = x.comm
      BY <1>6, <1>8, NormWhen
    <3>. QED BY <1>1, <3>1
  <2>. HIDE DEF total
  <2>4. CASE config.mode = "flat"
    <3>1. M = RanksHere
      <4>1. M = {q \in RanksHere : MeetAtNorm(config, q, o)}
        BY <1>5, <2>3, NormGroup
      <4>. QED BY <2>4, <4>1 DEF MeetAtNorm
    <3>2. \A r \in RanksHere : norm'[r] = total
      BY <2>2, <3>1
    <3>. QED BY <1>1, <1>5, <2>4, <3>2 DEF NormWorth
  <2>5. CASE config.mode # "flat"
    <3>1. comm = "model" /\ g = ModelGroup(config.dims, Coordinates(config.dims, o))
      <4>1. comm = "model"
        BY <2>3, <2>5 DEF NormCall, Call
      <4>. QED BY <1>5, <4>1, AsConfigured
    <3>2. M = {q \in RanksHere : DataOf(config, q) = DataOf(config, o)}
      <4>1. M = {q \in RanksHere : MeetAtNorm(config, q, o)}
        BY <1>5, <2>3, NormGroup
      <4>. QED BY <2>5, <4>1 DEF MeetAtNorm
    <3>3. ASSUME NEW r \in M PROVE norm'[r] = NormOver(config, step[r], r)
      <4>1. r \in RanksHere /\ norm'[r] = total /\ step[r] = step[o]
        BY <1>6, <2>2
      <4>2. ModelGroup(config.dims, Coordinates(config.dims, r)) = g
        <5>1. DataOf(config, r) = DataOf(config, o)
          BY <3>2
        <5>. QED BY <3>1, <5>1 DEF ModelGroup, DataOf
      <4>3. DOMAIN g = 1..ModelSize(config.dims) /\ \A i \in DOMAIN g : g[i] \in M
        BY <3>1 DEF ModelGroup, Members
      <4>4. ASSUME NEW i \in DOMAIN g PROVE LocalNorm(g[i]) = NormAlone(config, step[o], g[i])
        <5>1. PICK q \in M : q = g[i]
          BY <4>3
        <5>2. LocalNorm(q) = NormAlone(config, step[q], q) /\ step[q] = step[o]
          BY <1>6, <1>8, <2>5, LocalNormIs
        <5>. QED BY <5>1, <5>2
      <4>5. total = NumelOf([i \in 1..ModelSize(config.dims) |-> NormAlone(config, step[o], g[i])])
        BY <4>3, <4>4 DEF total
      <4>6. NormOver(config, step[o], r) =
              NumelOf([i \in 1..ModelSize(config.dims) |-> NormAlone(config, step[o], g[i])])
        <5>. HIDE DEF g
        <5>. QED BY <4>2 DEF NormOver
      <4>. QED BY <4>1, <4>5, <4>6
    <3>4. ASSUME NEW r \in RanksHere
          PROVE  NormAt(config, norm'[r], phase'[r], step'[r], queue'[r], r)
      <4>1. CASE r \in M
        BY <1>1, <3>3, <4>1 DEF NormAt
      <4>2. CASE r \notin M
        <5>1. NormAt(config, norm[r], phase[r], step[r], queue[r], r)
          BY <2>5, NormIsAt
        <5>2. norm'[r] = norm[r] /\ queue'[r] = queue[r]
          BY <1>3, <2>2, <4>2
        <5>. QED BY <1>1, <5>1, <5>2
      <4>. QED BY <4>1, <4>2
    <3>5. config' = config
      BY <1>1
    <3>. QED BY <1>5, <2>5, <3>4, <3>5 DEF NormWorth, NormAt, PastNorm, PastAt
  <2>. QED BY <2>4, <2>5
<1>. QED BY <1>7, <1>8

(* The parameters an owner updates and sends, as the ranks of its group    *)
(* work them out.                                                          *)
Owned(c, r, q) == {NamesOf(c, r)[i] : i \in OwnedBy(Owners(c, r), q)}
Sends(x, n) == \E k \in 1..Len(x.data.bucket) : x.data.bucket[k].name = n
IsShare(x, q, names) ==
    /\ x.kind = "broadcast" /\ x.data.root = q
    /\ x.data.bucket \in Seq(AllEntries) /\ Distinct(x.data.bucket)
    /\ \A k \in 1..Len(x.data.bucket) : x.data.bucket[k].name \in names

(* The buckets of an owner carry all it owns and nothing else.             *)
LEMMA OwnerCarries ==
    ASSUME NEW c, NEW r, NEW q
    PROVE  LET calls == ByOwner(c, NamesOf(c, r), Owners(c, r), q)
               names == Members(NamesOf(c, r)) \cap Owned(c, r, q)
           IN  /\ \A b \in 1..Len(calls) : IsShare(calls[b], q, names)
               /\ \A n \in names : \E b \in 1..Len(calls) : Sends(calls[b], n)
<1>. DEFINE owned == Owned(c, r, q)
            sent == Among(NamesOf(c, r), owned)
            names == Members(NamesOf(c, r)) \cap owned
            entries == Sized(sent)
            cuts == Buckets(entries, c.bucket)
            calls == ByOwner(c, NamesOf(c, r), Owners(c, r), q)
            Nth(i) == Call("data", "broadcast", [root |-> q, bucket |-> cuts[i]],
                           BucketSize(cuts[i]))
<1>1. /\ NamesOf(c, r) \in Seq(AllNames) /\ NoTwice(NamesOf(c, r))
  BY NamesType, NamesOnce
<1>2. sent \in Seq(AllNames) /\ NoTwice(sent) /\ Members(sent) = names
  <2>. HIDE DEF owned
  <2>1. sent \in Seq(AllNames \cap owned)
    BY <1>1, AmongType
  <2>2. Seq(AllNames \cap owned) \subseteq Seq(AllNames)
    OBVIOUS
  <2>3. NoTwice(sent) /\ Members(sent) = names
    BY <1>1, AmongIs
  <2>. QED BY <2>1, <2>2, <2>3
<1>3. calls = [i \in DOMAIN cuts |-> Nth(i)]
  BY DEF ByOwner, Owned
<1>. HIDE DEF owned, sent, names
<1>4. /\ entries \in Seq(AllEntries) /\ Len(entries) = Len(sent) /\ Len(sent) \in Nat
      /\ \A j \in 1..Len(sent) : entries[j].name = sent[j]
  <2>1. entries \in Seq(AllEntries)
    BY <1>2, SizedType DEF AllEntries
  <2>2. entries = [i \in DOMAIN sent |-> EntryOf(sent[i])] /\ DOMAIN sent = 1..Len(sent) /\ Len(sent) \in Nat
    BY <1>2 DEF Sized, EntryOf
  <2>3. Len(entries) = Len(sent)
    BY <2>1, <2>2
  <2>4. \A m : EntryOf(m).name = m
    BY DEF EntryOf
  <2>. QED BY <2>1, <2>2, <2>3, <2>4
<1>. HIDE DEF entries
<1>5. Distinct(entries)
  BY <1>2, <1>4 DEF NoTwice, Distinct
<1>6. cuts \in Seq(Seq(AllEntries)) /\ OneHolds(cuts, entries, Len(entries))
  <2>1. \A e \in AllEntries : e.size \in Nat
    BY AllSized
  <2>. QED BY <1>4, <1>5, <2>1, BucketsType, BucketsOnce
<1>. HIDE DEF cuts, calls
<1>7. Len(cuts) \in Nat /\ DOMAIN cuts = 1..Len(cuts)
  BY <1>6
<1>8. Len(calls) = Len(cuts) /\ \A b \in 1..Len(cuts) : calls[b] = Nth(b)
  <2>. HIDE DEF Nth
  <2>1. calls = [i \in 1..Len(cuts) |-> calls[i]]
    BY <1>3, <1>7
  <2>. QED BY <1>3, <1>7, <2>1, ListOf
<1>9. ASSUME NEW b \in 1..Len(cuts)
      PROVE  /\ calls[b].kind = "broadcast" /\ calls[b].data.root = q
             /\ calls[b].data.bucket = cuts[b]
  <2>1. calls[b] = [comm |-> "data", kind |-> "broadcast",
                    data |-> [root |-> q, bucket |-> cuts[b]], size |-> BucketSize(cuts[b])]
    BY <1>8 DEF Call
  <2>. QED BY <2>1
<1>10. ASSUME NEW b \in 1..Len(cuts), NEW k \in 1..Len(cuts[b])
       PROVE  cuts[b][k].name \in names
  <2>1. PICK j \in 1..Len(entries) : cuts[b][k] = entries[j]
    <3>1. \A h \in 1..Len(cuts[b]) : \E j \in 1..Len(entries) : cuts[b][h] = entries[j]
      BY <1>6 DEF OneHolds
    <3>. QED BY <3>1
  <2>2. j \in DOMAIN sent /\ entries[j].name = sent[j]
    BY <1>2, <1>4
  <2>. QED BY <1>2, <2>1, <2>2 DEF Members
<1>11. ASSUME NEW b \in 1..Len(cuts) PROVE cuts[b] \in Seq(AllEntries) /\ Distinct(cuts[b])
  <2>1. \A u, v \in 1..Len(cuts) : \A k \in 1..Len(cuts[u]) : \A l \in 1..Len(cuts[v]) :
             cuts[u][k].name = cuts[v][l].name => u = v /\ k = l
    BY <1>6 DEF OneHolds
  <2>2. Distinct(cuts[b])
    BY <2>1 DEF Distinct
  <2>. QED BY <1>6, <2>2
<1>12. \A b \in 1..Len(calls) : IsShare(calls[b], q, names)
  BY <1>8, <1>9, <1>10, <1>11 DEF IsShare
<1>13. ASSUME NEW n \in names PROVE \E b \in 1..Len(calls) : Sends(calls[b], n)
  <2>1. PICK j \in 1..Len(entries) : entries[j].name = n
    <3>1. DOMAIN sent = 1..Len(entries)
      BY <1>2, <1>4
    <3>2. PICK j \in DOMAIN sent : sent[j] = n
      BY <1>2 DEF Members
    <3>. QED BY <1>4, <3>1, <3>2
  <2>2. PICK b \in 1..Len(cuts) : \E k \in 1..Len(cuts[b]) : cuts[b][k] = entries[j]
    BY <1>6 DEF OneHolds
  <2>3. Sends(calls[b], n)
    BY <1>9, <2>1, <2>2 DEF Sends
  <2>. QED BY <1>8, <2>2, <2>3
<1>. QED BY <1>12, <1>13 DEF calls, names, owned

(* What the ranks of a group share after the update.                       *)
ByOwners(c) == c.mode = "owner" /\ ~c.skip /\ c.dims.data # 1
SharesOf(c, r) ==
    /\ \A b \in 1..Len(Shares(c, r)) :
         \E q \in 0..(c.dims.data - 1) :
            ByOwners(c) /\ IsShare(Shares(c, r)[b], q, Members(NamesOf(c, r)) \cap Owned(c, r, q))
    /\ ByOwners(c) =>
         \A q \in 0..(c.dims.data - 1) : \A n \in Members(NamesOf(c, r)) \cap Owned(c, r, q) :
            \E b \in 1..Len(Shares(c, r)) : Sends(Shares(c, r)[b], n)

(* The broadcasts carry what every owner owns.                             *)
LEMMA ShareCarries ==
    ASSUME NEW c \in Configs, c.mode # "flat", NEW r
    PROVE  SharesOf(c, r)
<1>. DEFINE dp == c.dims.data
            Of(i) == ByOwner(c, NamesOf(c, r), Owners(c, r), i - 1)
            lists == [i \in 1..dp |-> Of(i)]
            NamesAt(q) == Members(NamesOf(c, r)) \cap Owned(c, r, q)
<1>1. dp \in Nat \ {0}
  BY ConfigType
<1>2. CASE ~ByOwners(c)
  <2>1. c.mode \in {"full", "owner"}
    <3>1. c.mode \in Modes
      BY DEF Configs
    <3>. QED BY <3>1, TrainAssumption
  <2>2. Shares(c, r) = <<>>
    BY <1>2, <2>1 DEF ByOwners, Shares
  <2>. QED BY <1>2, <2>2 DEF SharesOf
<1>3. CASE ByOwners(c)
  <2>1. Shares(c, r) = FlattenSeq(lists)
    BY <1>3 DEF ByOwners, Shares
  <2>2. ASSUME NEW i \in 1..dp
        PROVE  /\ IsList(Of(i)) /\ i - 1 \in 0..(dp - 1)
               /\ \A b \in 1..Len(Of(i)) : IsShare(Of(i)[b], i - 1, NamesAt(i - 1))
               /\ \A n \in NamesAt(i - 1) : \E b \in 1..Len(Of(i)) : Sends(Of(i)[b], n)
    <3>1. IsList(Of(i))
      BY NamesType, OwnerType DEF OnComm
    <3>2. i - 1 \in 0..(dp - 1)
      BY <1>1
    <3>. QED BY <3>1, <3>2, OwnerCarries
  <2>. HIDE DEF Of, dp, NamesAt
  <2>3. IsList(lists) /\ Len(lists) = dp /\ \A i \in 1..dp : lists[i] = Of(i)
    <3>1. lists = [i \in 1..dp |-> lists[i]]
      OBVIOUS
    <3>. HIDE DEF lists
    <3>2. IsList(lists) /\ Len(lists) = dp
      BY <1>1, <3>1, ListOf
    <3>. QED BY <3>2 DEF lists
  <2>. HIDE DEF lists
  <2>. DEFINE sizes == [i \in 1..dp |-> Len(Of(i))]
  <2>4. sizes \in Seq(Nat) /\ Len(sizes) = dp /\ \A i \in 1..dp : sizes[i] = Len(Of(i))
    <3>1. \A i \in 1..dp : Len(Of(i)) \in Nat
      BY <2>2, ListIs
    <3>2. sizes \in [1..dp -> Nat]
      BY <3>1
    <3>. HIDE DEF sizes
    <3>3. sizes \in Seq(Nat) /\ Len(sizes) = dp
      BY <1>1, <3>2
    <3>. QED BY <3>3 DEF sizes
  <2>. HIDE DEF sizes
  <2>5. Parts(lists, sizes)
    BY <2>2, <2>3, <2>4 DEF Parts
  <2>6. PICK f : Sums(f, sizes)
    BY <2>4, NumelRuns
  <2>7. PICK all : all = FlattenSeq(lists)
    OBVIOUS
  <2>8. Laid(all, lists, f, dp)
    BY <2>4, <2>5, <2>6, <2>7, FlattenAt
  <2>9. /\ Len(all) = f[dp]
        /\ \A i \in 1..dp : \A b \in 1..Len(Of(i)) : all[f[i - 1] + b] = Of(i)[b]
    BY <2>3, <2>8 DEF Laid
  <2>10. \A i \in 1..dp : f[i - 1] \in Nat /\ f[i] = f[i - 1] + Len(Of(i)) /\ f[i] <= f[dp] /\ f[dp] \in Nat
    <3>1. ASSUME NEW i \in 1..dp PROVE f[i - 1] \in Nat /\ f[i] = f[i - 1] + Len(Of(i)) /\ f[i] <= f[dp] /\ f[dp] \in Nat
      <4>1. i \in 1..Len(sizes) /\ i - 1 \in 0..Len(sizes) /\ dp \in 0..Len(sizes) /\ i \in 0..dp
        BY <1>1, <2>4
      <4>2. f[i] <= f[dp]
        BY <2>4, <2>6, <4>1, SumsGrow
      <4>. QED BY <2>4, <2>6, <4>1, <4>2 DEF Sums
    <3>. QED BY <3>1
  <2>11. ASSUME NEW b \in 1..Len(all)
         PROVE  \E q \in 0..(dp - 1) : IsShare(all[b], q, NamesAt(q))
    <3>1. Covers(f, sizes, b)
      BY <2>4, <2>6, <2>9, SumsCover
    <3>2. PICK i \in 1..dp : f[i - 1] < b /\ b <= f[i]
      BY <2>4, <3>1 DEF Covers
    <3>3. Len(Of(i)) \in Nat
      BY <2>2, ListIs
    <3>4. b - f[i - 1] \in 1..Len(Of(i)) /\ f[i - 1] + (b - f[i - 1]) = b
      BY <2>10, <3>2, <3>3
    <3>5. all[b] = Of(i)[b - f[i - 1]]
      BY <2>9, <3>4
    <3>. QED BY <2>2, <3>4, <3>5
  <2>12. ASSUME NEW q \in 0..(dp - 1), NEW n \in NamesAt(q)
         PROVE  \E b \in 1..Len(all) : Sends(all[b], n)
    <3>1. PICK i \in 1..dp : q = i - 1
      <4>1. q + 1 \in 1..dp /\ (q + 1) - 1 = q
        BY <1>1
      <4>. QED BY <4>1
    <3>2. PICK b \in 1..Len(Of(i)) : Sends(Of(i)[b], n)
      BY <2>2, <3>1
    <3>3. Len(Of(i)) \in Nat
      BY <2>2, ListIs
    <3>4. f[i - 1] + b \in 1..Len(all) /\ all[f[i - 1] + b] = Of(i)[b]
      BY <2>9, <2>10, <3>3
    <3>. QED BY <3>2, <3>4
  <2>. QED BY <1>3, <2>1, <2>7, <2>11, <2>12 DEF SharesOf, NamesAt, dp
<1>. QED BY <1>2, <1>3

(* What a parameter is once the step's update has reached it.              *)
Own(c, r, n) == c.mode = "owner" => n \in Owned(c, r, DataOf(c, r))
Sent(c, r, k, n) ==
    \E b \in 1..Len(Shares(c, r)) : b <= Len(Shares(c, r)) - k /\ Sends(Shares(c, r)[b], n)
Due(c, s, w, r, n) ==
    IF c.skip \/ n \notin Wants(c, s, r) THEN w[r][n]
    ELSE [j \in 1..Size[n] |-> Append(w[r][n][j], [grad |-> PastData(c, s)[r][n][j],
                                                   norm |-> NormOver(c, s, r)])]
ParamAt(c, s, ph, k, w, r, n) ==
    IF ph = "share" /\ s > 0 /\ (Own(c, r, n) \/ Sent(c, r, k, n)) THEN Due(c, s, w, r, n)
    ELSE w[r][n]

(* The parameters w are the same wherever a parameter is held again.       *)
Copies(c, w) == Vectors(c, w) /\ \A n \in AllNames : Uniform(c, w, n, MergedOver(c, n))

(* And every rank has of w, the parameters at the beginning of the step,   *)
(* what its own update and the buckets sent so far make of it.             *)
ParamsAre(w) ==
    /\ DOMAIN params = RanksHere
    /\ \A r \in RanksHere :
        /\ DOMAIN params[r] = Members(NamesOf(config, r))
        /\ \A n \in Members(NamesOf(config, r)) :
             params[r][n] = ParamAt(config, step[r], phase[r], Len(queue[r]), w, r, n)

(* What an element was loaded as, the steps that have updated it, and its  *)
(* history.                                                                *)
LoadedIn(c, n, j) == [grad |-> [ZeroIn(c) EXCEPT !.at = <<n, j>>], norm |-> 0]
StepsIn(c, n, s) ==
    {t \in 1..s : \/ c.mode = "flat"
                  \/ n # "expert"
                  \/ \E u \in 1..t : c.routed[u] # {}}
History(v, c, n, j, many) == IsList(v) /\ Len(v) = 1 + many /\ v[1] = LoadedIn(c, n, j)
Histories(w, c, s, r) ==
    \A n \in Members(NamesOf(c, r)) : \A j \in 1..Size[n] :
        History(w[n][j], c, n, j, Cardinality(StepsIn(c, n, s)))

(* The parameters w have been through the steps before the one a rank is   *)
(* in.                                                                     *)
Preceding(s) == IF s = 0 THEN 0 ELSE s - 1
Dated(w) == ~config.skip => \A r \in RanksHere : Histories(w[r], config, Preceding(step[r]), r)
ParamsWorth ==
    config.mode # "flat" => \E w : Copies(config, w) /\ ParamsAre(w) /\ Dated(w)

(* When everything has been sent: who owns a parameter does not matter.    *)
Reached(c, r, n) ==
    c.mode = "owner" => \E q \in 0..(c.dims.data - 1) : n \in Owned(c, r, q)
Settled(c, s, w) ==
    [r \in Ranks(c.dims) |-> [n \in Members(NamesOf(c, r)) |->
        IF s > 0 /\ Reached(c, r, n) THEN Due(c, s, w, r, n) ELSE w[r][n]]]

(* What the parameters are when all has been shared.                       *)
LEMMA AllSent ==
    ASSUME NEW c \in Configs, c.mode # "flat", NEW s, NEW w, NEW r \in Ranks(c.dims),
           NEW n \in Members(NamesOf(c, r))
    PROVE  ParamAt(c, s, "share", 0, w, r, n) = Settled(c, s, w)[r][n]
<1>. DEFINE dp == c.dims.data
<1>1. DataOf(c, r) \in 0..(dp - 1) /\ SharesOf(c, r) /\ Len(Shares(c, r)) \in Nat /\ dp \in Nat \ {0}
  BY ConfigType, CoordsOfRank, CoordsType, ShareCarries, SharesLength DEF DataOf
<1>2. Settled(c, s, w)[r][n] = IF s > 0 /\ Reached(c, r, n) THEN Due(c, s, w, r, n) ELSE w[r][n]
  BY DEF Settled
<1>3. CASE c.skip
  BY <1>2, <1>3 DEF ParamAt, Due
<1>4. CASE c.mode # "owner"
  BY <1>2, <1>4 DEF ParamAt, Own, Reached
<1>5. CASE c.mode = "owner" /\ ~c.skip
  <2>. HIDE DEF dp
  <2>1. ASSUME Own(c, r, n) \/ Sent(c, r, 0, n) PROVE Reached(c, r, n)
    <3>1. CASE Own(c, r, n)
      BY <1>1, <1>5, <3>1 DEF Own, Reached, dp
    <3>2. CASE Sent(c, r, 0, n)
      <4>1. PICK b \in 1..Len(Shares(c, r)) : Sends(Shares(c, r)[b], n)
        BY <3>2 DEF Sent
      <4>2. PICK q \in 0..(dp - 1) : IsShare(Shares(c, r)[b], q, Members(NamesOf(c, r)) \cap Owned(c, r, q))
        BY <1>1 DEF SharesOf, dp
      <4>3. n \in Owned(c, r, q)
        BY <4>1, <4>2 DEF Sends, IsShare
      <4>. QED BY <4>3 DEF Reached, dp
    <3>. QED BY <2>1, <3>1, <3>2
  <2>2. ASSUME Reached(c, r, n) PROVE Own(c, r, n) \/ Sent(c, r, 0, n)
    <3>1. PICK q \in 0..(dp - 1) : n \in Owned(c, r, q)
      BY <1>5, <2>2 DEF Reached, dp
    <3>2. CASE dp = 1
      <4>1. DataOf(c, r) = q
        BY <1>1, <3>2
      <4>. QED BY <3>1, <4>1 DEF Own
    <3>3. CASE dp # 1
      <4>1. ByOwners(c)
        BY <1>5, <3>3 DEF ByOwners, dp
      <4>2. PICK b \in 1..Len(Shares(c, r)) : Sends(Shares(c, r)[b], n)
        BY <1>1, <3>1, <4>1 DEF SharesOf, dp
      <4>3. b <= Len(Shares(c, r)) - 0
        BY <1>1
      <4>. QED BY <4>2, <4>3 DEF Sent
    <3>. QED BY <3>2, <3>3
  <2>. QED BY <1>2, <2>1, <2>2 DEF ParamAt
<1>. QED BY <1>3, <1>4, <1>5

(* Without the flat optimizer all data ranks have the same gradients.      *)
LEMMA GradsTogether ==
    ASSUME NEW c \in Configs, c.mode # "flat", NEW s \in 0..MaxSteps,
           NEW q \in Ranks(c.dims), NEW r \in Ranks(c.dims), NEW n
    PROVE  HasGrad(c, s, q, n) <=> HasGrad(c, s, r, n)
<1>1. DataOf(c, q) \in 0..(c.dims.data - 1) /\ DataOf(c, r) \in 0..(c.dims.data - 1)
  BY ConfigType, CoordsOfRank, CoordsType DEF DataOf
<1>2. \A t \in 1..s : c.routed[t] \in {{}, 0..(c.dims.data - 1)}
  <2>1. MaxSteps \in Nat
    BY TrainAssumption
  <2>2. \A t \in 1..s : t \in 1..MaxSteps
    BY <2>1
  <2>. QED BY <2>2, ConfigType
<1>3. \A t \in 1..s : DataOf(c, q) \in c.routed[t] <=> DataOf(c, r) \in c.routed[t]
  BY <1>1, <1>2
<1>. QED BY <1>3 DEF HasGrad

(* What is due to a parameter is the same on the ranks that hold it.       *)
LEMMA DueAgree ==
    ASSUME NEW c \in Configs, c.mode # "flat", NEW s \in 0..MaxSteps, NEW w, Copies(c, w),
           NEW n \in AllNames, NEW q \in Ranks(c.dims), NEW r \in Ranks(c.dims),
           Near(c, q, r, MergedOver(c, n)), n \in Members(NamesOf(c, r))
    PROVE  Due(c, s, w, q, n) = Due(c, s, w, r, n)
<1>1. NamesOf(c, q) = NamesOf(c, r)
  <2>1. MergedOver(c, n) \subseteq Rings
    BY DEF MergedOver
  <2>. QED BY <2>1, NearNames
<1>2. w[q][n] = w[r][n]
  BY DEF Copies, Uniform
<1>3. PastData(c, s)[q][n] = PastData(c, s)[r][n]
  <2>1. Uniform(c, PastData(c, s), n, MergedOver(c, n))
    BY GradsUniform
  <2>. QED BY <2>1 DEF Uniform
<1>4. NormOver(c, s, q) = NormOver(c, s, r)
  BY NormsAgree
<1>5. n \in Wants(c, s, q) <=> n \in Wants(c, s, r)
  BY <1>1, GradsTogether DEF Wants
<1>. QED BY <1>2, <1>3, <1>4, <1>5 DEF Due

(* So are the parameters at the end of a step.                             *)
LEMMA SettledCopies ==
    ASSUME NEW c \in Configs, c.mode # "flat", NEW s \in 0..MaxSteps, NEW w, Copies(c, w)
    PROVE  Copies(c, Settled(c, s, w))
<1>1. ASSUME NEW r \in Ranks(c.dims), NEW n \in Members(NamesOf(c, r))
      PROVE  IsVector(Settled(c, s, w)[r][n], n)
  <2>1. IsVector(w[r][n], n)
    BY DEF Copies, Vectors
  <2>2. IsVector(Due(c, s, w, r, n), n)
    BY <2>1 DEF Due, IsVector
  <2>. QED BY <2>1, <2>2 DEF Settled
<1>2. ASSUME NEW n \in AllNames, NEW q \in Ranks(c.dims), NEW r \in Ranks(c.dims),
             Near(c, q, r, MergedOver(c, n)), n \in Members(NamesOf(c, r))
      PROVE  Settled(c, s, w)[q][n] = Settled(c, s, w)[r][n]
  <2>1. NamesOf(c, q) = NamesOf(c, r)
    <3>1. MergedOver(c, n) \subseteq Rings
      BY DEF MergedOver
    <3>. QED BY <1>2, <3>1, NearNames
  <2>2. w[q][n] = w[r][n]
    BY <1>2 DEF Copies, Uniform
  <2>6. Reached(c, q, n) <=> Reached(c, r, n)
    <3>1. Owners(c, q) = Owners(c, r)
      BY <2>1 DEF Owners
    <3>2. \A d : Owned(c, q, d) = Owned(c, r, d)
      BY <2>1, <3>1 DEF Owned
    <3>. QED BY <3>2 DEF Reached
  <2>7. Due(c, s, w, q, n) = Due(c, s, w, r, n)
    BY <1>2, DueAgree
  <2>. QED BY <1>2, <2>1, <2>2, <2>6, <2>7 DEF Settled
<1>3. Vectors(c, Settled(c, s, w))
  BY <1>1 DEF Vectors
<1>4. \A n \in AllNames : Uniform(c, Settled(c, s, w), n, MergedOver(c, n))
  BY <1>2 DEF Uniform
<1>. QED BY <1>3, <1>4 DEF Copies

(* The first of the least, among indices.                                  *)
LEMMA FirstLeast ==
    ASSUME NEW S, S \subseteq Nat, S # {}, NEW f, \A i \in S : f[i] \in Nat
    PROVE  \E i \in S : \A j \in S : f[i] < f[j] \/ (f[i] = f[j] /\ i <= j)
<1>0. PICK V : V = {f[i] : i \in S}
  OBVIOUS
<1>a. V \subseteq Nat /\ V # {}
  BY <1>0
<1>b. PICK v \in V : \A u \in V : <<u, v>> \notin LessThan
  BY <1>a, LessThanWellFounded, WFMin
<1>1. v \in {f[i] : i \in S} /\ \A u \in {f[i] : i \in S} : <<u, v>> \notin LessThan
  BY <1>0, <1>b
<1>2. v \in Nat /\ \A j \in S : ~(f[j] < v)
  BY <1>1 DEF LessThan
<1>. DEFINE T == {i \in S : f[i] = v}
<1>3. T # {} /\ T \subseteq Nat
  BY <1>1
<1>4. PICK i \in T : \A j \in T : <<j, i>> \notin LessThan
  <2>. HIDE DEF T
  <2>. QED BY <1>3, LessThanWellFounded, WFMin
<1>5. \A j \in T : ~(j < i)
  BY <1>3, <1>4 DEF LessThan
<1>6. ASSUME NEW j \in S PROVE f[i] < f[j] \/ (f[i] = f[j] /\ i <= j)
  <2>1. f[i] = v /\ i \in Nat /\ j \in Nat /\ f[j] \in Nat
    BY <1>4
  <2>2. CASE f[j] = v
    BY <1>5, <2>1, <2>2
  <2>3. CASE f[j] # v
    BY <1>2, <2>1, <2>3
  <2>. QED BY <2>2, <2>3
<1>. QED BY <1>4, <1>6

(* A list of numbers has a bound.                                          *)
LEMMA Bounded ==
    ASSUME NEW bytes \in Seq(Nat)
    PROVE  \E b \in Nat : \A i \in 1..Len(bytes) : bytes[i] <= b
<1>. DEFINE B == {m \in Nat : m <= Len(bytes) => \E b \in Nat : \A i \in 1..m : bytes[i] <= b}
<1>0. Len(bytes) \in Nat /\ \A i \in 1..Len(bytes) : bytes[i] \in Nat
  OBVIOUS
<1>1. 0 \in B
  BY <1>0
<1>2. ASSUME NEW m \in Nat, m \in B PROVE m + 1 \in B
  <2>. SUFFICES ASSUME m + 1 <= Len(bytes) PROVE \E b \in Nat : \A i \in 1..(m + 1) : bytes[i] <= b
    OBVIOUS
  <2>1. PICK b \in Nat : \A i \in 1..m : bytes[i] <= b
    BY <1>0, <1>2
  <2>2. bytes[m + 1] \in Nat
    BY <1>0
  <2>3. \A i \in 1..(m + 1) : i \in 1..m \/ i = m + 1
    BY <1>0
  <2>4. \A i \in 1..(m + 1) : bytes[i] <= b + bytes[m + 1]
    <3>1. \A i \in 1..m : bytes[i] \in Nat
      BY <1>0
    <3>. QED BY <2>1, <2>2, <2>3, <3>1
  <2>5. b + bytes[m + 1] \in Nat
    BY <2>2
  <2>. QED BY <2>4, <2>5
<1>. HIDE DEF B
<1>3. Len(bytes) \in B
  BY <1>0, <1>1, <1>2, NaturalsIn
<1>. QED BY <1>3 DEF B

(* The parameter handed out next is one that is left.                      *)
LEMMA HeaviestIs ==
    ASSUME NEW bytes \in Seq(Nat), NEW left, left \subseteq DOMAIN bytes, left # {}
    PROVE  Heaviest(left, bytes) \in left
<1>0. DOMAIN bytes = 1..Len(bytes) /\ \A i \in DOMAIN bytes : bytes[i] \in Nat
  OBVIOUS
<1>1. PICK b \in Nat : \A i \in 1..Len(bytes) : bytes[i] <= b
  BY Bounded
<1>. DEFINE f == [i \in left |-> b - bytes[i]]
<1>2. left \subseteq Nat /\ \A i \in left : f[i] \in Nat
  BY <1>0, <1>1
<1>3. \A i \in left : f[i] = b - bytes[i] /\ bytes[i] \in Nat
  BY <1>0
<1>. HIDE DEF f
<1>4. PICK i \in left : \A j \in left : f[i] < f[j] \/ (f[i] = f[j] /\ i <= j)
  BY <1>2, FirstLeast
<1>5. ASSUME NEW j \in left PROVE bytes[i] > bytes[j] \/ (bytes[i] = bytes[j] /\ i <= j)
  <2>1. PICK x \in Nat : x = bytes[i]
    BY <1>3
  <2>2. PICK y \in Nat : y = bytes[j]
    BY <1>3
  <2>3. f[i] = b - x /\ f[j] = b - y
    BY <1>3, <2>1, <2>2
  <2>4. f[i] < f[j] \/ (f[i] = f[j] /\ i <= j)
    BY <1>4
  <2>. QED BY <2>1, <2>2, <2>3, <2>4
<1>. QED BY <1>5 DEF Heaviest

(* The rank it is given to is one of the ranks.                            *)
LEMMA LightestIs ==
    ASSUME NEW n \in Nat \ {0}, NEW load \in [0..(n - 1) -> Nat]
    PROVE  Lightest(load) \in 0..(n - 1)
<1>1. PICK r \in 0..(n - 1) : \A q \in 0..(n - 1) : load[r] < load[q] \/ (load[r] = load[q] /\ r <= q)
  <2>1. 0..(n - 1) \subseteq Nat /\ 0 \in 0..(n - 1) /\ \A i \in 0..(n - 1) : load[i] \in Nat
    OBVIOUS
  <2>. QED BY <2>1, FirstLeast
<1>. QED BY <1>1 DEF Lightest

LEMMA CountTo ==
    ASSUME NEW n \in Nat
    PROVE  IsFiniteSet(1..n) /\ Cardinality(1..n) = n
<1>. QED BY FS_Interval

Assignments(n, dp) ==
    [load : [0..(dp - 1) -> Nat], owner : [1..n -> 0..(dp - 1)], left : SUBSET (1..n)]

(* One more parameter handed out.                                          *)
LEMMA AssignedIs ==
    ASSUME NEW bytes \in Seq(Nat), NEW dp \in Nat \ {0}, NEW acc \in Assignments(Len(bytes), dp),
           acc.left # {}
    PROVE  /\ Assigned(acc, bytes) \in Assignments(Len(bytes), dp)
           /\ Cardinality(Assigned(acc, bytes).left) = Cardinality(acc.left) - 1
<1>. DEFINE i == Heaviest(acc.left, bytes)
            r == Lightest(acc.load)
            n == Len(bytes)
<1>1. i \in acc.left /\ i \in 1..n /\ bytes[i] \in Nat
  <2>1. acc.left \subseteq 1..n /\ DOMAIN bytes = 1..n /\ \A j \in 1..n : bytes[j] \in Nat
    BY DEF Assignments
  <2>2. i \in acc.left
    BY <2>1, HeaviestIs
  <2>. QED BY <2>1, <2>2
<1>2. r \in 0..(dp - 1)
  BY LightestIs DEF Assignments
<1>3. acc.load[r] \in Nat
  BY <1>2 DEF Assignments
<1>4. Assigned(acc, bytes) = [load |-> [acc.load EXCEPT ![r] = @ + bytes[i]],
                              owner |-> [acc.owner EXCEPT ![i] = r],
                              left |-> acc.left \ {i}]
  BY DEF Assigned
<1>5. IsFiniteSet(acc.left)
  <2>1. n \in Nat /\ acc.left \subseteq 1..n
    BY DEF Assignments
  <2>2. IsFiniteSet(1..n)
    BY <2>1, FS_Interval
  <2>. QED BY <2>1, <2>2, FS_Subset
<1>. HIDE DEF i, r
<1>6. [acc.load EXCEPT ![r] = @ + bytes[i]] \in [0..(dp - 1) -> Nat]
  <2>1. acc.load \in [0..(dp - 1) -> Nat]
    BY DEF Assignments
  <2>2. acc.load[r] + bytes[i] \in Nat
    BY <1>1, <1>3
  <2>. QED BY <1>2, <2>1, <2>2
<1>7. [acc.owner EXCEPT ![i] = r] \in [1..n -> 0..(dp - 1)]
  BY <1>1, <1>2 DEF Assignments
<1>8. Assigned(acc, bytes) \in Assignments(n, dp)
  <2>1. acc.left \ {i} \in SUBSET (1..n)
    BY DEF Assignments
  <2>2. PICK x, y, z : /\ x = [acc.load EXCEPT ![r] = @ + bytes[i]]
                       /\ y = [acc.owner EXCEPT ![i] = r]
                       /\ z = acc.left \ {i}
    OBVIOUS
  <2>3. x \in [0..(dp - 1) -> Nat] /\ y \in [1..n -> 0..(dp - 1)] /\ z \in SUBSET (1..n)
    BY <1>6, <1>7, <2>1, <2>2
  <2>4. Assigned(acc, bytes) = [load |-> x, owner |-> y, left |-> z]
    BY <1>4, <2>2
  <2>. QED BY ONLY <2>3, <2>4 DEF Assignments
<1>9. Cardinality(acc.left \ {i}) = Cardinality(acc.left) - 1
  BY <1>1, <1>5, FS_RemoveElement
<1>. QED BY <1>4, <1>8, <1>9

(* Every parameter gets a data rank as its owner.                          *)
LEMMA OwnersIn ==
    ASSUME NEW bytes \in Seq(Nat), NEW dp \in Nat \ {0}
    PROVE  GreedyOwner(bytes, dp) \in [1..Len(bytes) -> 0..(dp - 1)]
<1>. DEFINE n == Len(bytes)
            T == Assignments(n, dp)
            start == [load |-> [r \in 0..(dp - 1) |-> 0], owner |-> [i \in DOMAIN bytes |-> 0],
                      left |-> DOMAIN bytes]
            Rec(f) == f = [k \in 0..n |-> IF k = 0 THEN start ELSE Assigned(f[k - 1], bytes)]
            next == [x \in T \X (1..n) |-> IF x[1].left = {} THEN x[1] ELSE Assigned(x[1], bytes)]
<1>1. n \in Nat /\ DOMAIN bytes = 1..n
  OBVIOUS
<1>2. start \in T /\ start.left = 1..n
  <2>1. 0 \in 0..(dp - 1)
    OBVIOUS
  <2>. QED BY <1>1, <2>1 DEF Assignments
<1>3. \A x \in T, i \in 1..n : x.left # {} => next[<<x, i>>] = Assigned(x, bytes)
  OBVIOUS
<1>4. \A x \in T, i \in 1..n : next[<<x, i>>] \in T
  BY AssignedIs
<1>5. PICK g : g = start
  OBVIOUS
<1>. HIDE DEF next, start
<1>6. PICK f : RunsAlong(f, T, n, start, next)
  <2>. HIDE DEF T
  <2>1. StaysIn(T, n, start, next)
    BY <1>1, <1>2, <1>4 DEF StaysIn
  <2>. QED BY <2>1, Recursion
<1>7. f \in [0..n -> T] /\ f[0] = start /\ \A i \in 1..n : f[i] = next[<<f[i - 1], i>>]
  BY <1>6 DEF RunsAlong
<1>. DEFINE Left_ == {k \in Nat : k <= n => Cardinality(f[k].left) = n - k}
<1>8. 0 \in Left_
  <2>1. Cardinality(1..n) = n
    BY <1>1, CountTo
  <2>. QED BY <1>1, <1>2, <1>7, <2>1
<1>9. ASSUME NEW k \in Nat, k < n, Cardinality(f[k].left) = n - k
      PROVE  f[k + 1] = Assigned(f[k], bytes) /\ Cardinality(f[k + 1].left) = n - (k + 1)
  <2>1. f[k] \in T /\ k + 1 \in 1..n /\ (k + 1) - 1 = k
    <3>. HIDE DEF T, n
    <3>1. k \in 0..n /\ k + 1 \in 1..n /\ (k + 1) - 1 = k
      BY <1>1, <1>9
    <3>. QED BY <1>7, <3>1
  <2>2. f[k].left # {}
    <3>1. Cardinality({}) = 0
      BY FS_EmptySet
    <3>2. n - k # 0
      <4>1. \A m \in Nat : k < m => m - k # 0
        OBVIOUS
      <4>. QED BY <1>1, <1>9, <4>1
    <3>. QED BY <1>9, <3>1, <3>2
  <2>3. f[k + 1] = Assigned(f[k], bytes)
    BY <1>3, <1>7, <2>1, <2>2
  <2>4. Cardinality(f[k + 1].left) = Cardinality(f[k].left) - 1
    BY <2>1, <2>2, <2>3, AssignedIs
  <2>. QED BY <1>1, <1>9, <2>3, <2>4
<1>10. \A k \in Nat : k \in Left_ => k + 1 \in Left_
  BY <1>1, <1>9
<1>11. Nat \subseteq Left_
  <2>. HIDE DEF Left_
  <2>. QED BY <1>8, <1>10, NaturalsIn
<1>12. ASSUME NEW k \in 1..n PROVE f[k] = Assigned(f[k - 1], bytes)
  <2>1. k - 1 \in Nat /\ k - 1 < n /\ (k - 1) + 1 = k /\ k - 1 \in Left_
    BY <1>1, <1>11
  <2>. QED BY <1>9, <2>1
<1>13. \E h : Rec(h)
  <2>1. \A k \in 0..n : f[k] = IF k = 0 THEN start ELSE Assigned(f[k - 1], bytes)
    <3>1. \A k \in 0..n : k = 0 \/ (k # 0 /\ k \in 1..n)
      BY <1>1
    <3>. QED BY <1>7, <1>12, <3>1
  <2>2. f = [k \in 0..n |-> f[k]]
    BY <1>7
  <2>. QED BY <2>1, <2>2
<1>14. PICK h : Rec(h) /\ GreedyOwner(bytes, dp) = h[n].owner
  <2>. DEFINE h == CHOOSE x : Rec(x)
  <2>1. Rec(h)
    BY <1>13
  <2>2. GreedyOwner(bytes, dp) = h[n].owner
    BY DEF GreedyOwner, start
  <2>. QED BY <2>1, <2>2
<1>. DEFINE Same == {k \in Nat : k <= n => h[k] = f[k]}
<1>15. \A k \in 0..n : h[k] = IF k = 0 THEN start ELSE Assigned(h[k - 1], bytes)
  BY <1>14, Zenon
<1>16. 0 \in Same
  BY <1>1, <1>7, <1>15
<1>17. ASSUME NEW k \in Nat, k \in Same PROVE k + 1 \in Same
  <2>1. CASE k + 1 <= n
    <3>1. k + 1 \in 0..n /\ k + 1 # 0 /\ (k + 1) - 1 = k /\ k + 1 \in 1..n
      BY <1>1, <2>1
    <3>2. h[k + 1] = Assigned(h[k], bytes) /\ f[k + 1] = Assigned(f[k], bytes)
      BY <1>12, <1>15, <3>1
    <3>3. h[k] = f[k]
      BY <1>1, <1>17, <2>1
    <3>. QED BY <3>2, <3>3
  <2>. QED BY <1>1, <2>1
<1>18. h[n] = f[n]
  <2>. HIDE DEF Same
  <2>1. n \in Same
    BY <1>1, <1>16, <1>17, NaturalsIn
  <2>. QED BY <1>1, <2>1 DEF Same
<1>19. f[n] \in T
  BY <1>1, <1>7
<1>. QED BY <1>14, <1>18, <1>19 DEF Assignments

(* One more update.                                                        *)
LEMMA HistoryGrows ==
    ASSUME NEW v, NEW c, NEW n, NEW j, NEW many \in Nat, History(v, c, n, j, many), NEW x
    PROVE  /\ History(Append(v, x), c, n, j, many + 1)
           /\ Append(v, x)[Len(Append(v, x))] = x
<1>1. PICK S : v \in Seq(S)
  BY DEF History, IsList
<1>2. Len(v) = 1 + many /\ v[1] = LoadedIn(c, n, j)
  BY DEF History
<1>3. v \in Seq(S \cup {x}) /\ x \in S \cup {x}
  BY <1>1
<1>4. Append(v, x) \in Seq(S \cup {x}) /\ Len(Append(v, x)) = Len(v) + 1
      /\ Append(v, x)[Len(v) + 1] = x /\ \A i \in 1..Len(v) : Append(v, x)[i] = v[i]
  BY <1>3
<1>5. 1 \in 1..Len(v) /\ Len(v) + 1 = 1 + (many + 1)
  BY <1>2
<1>. QED BY <1>2, <1>4, <1>5 DEF History, IsList

(* The steps of the parameters are finitely many.                          *)
LEMMA StepsCount ==
    ASSUME NEW c, NEW n, NEW s \in Nat
    PROVE  /\ IsFiniteSet(StepsIn(c, n, s)) /\ Cardinality(StepsIn(c, n, s)) \in Nat
           /\ s > 0 => /\ s - 1 \in Nat
                       /\ Cardinality(StepsIn(c, n, s)) =
                            Cardinality(StepsIn(c, n, s - 1))
                              + (IF s \in StepsIn(c, n, s) THEN 1 ELSE 0)
<1>1. ASSUME NEW m \in Nat PROVE IsFiniteSet(StepsIn(c, n, m))
  <2>1. StepsIn(c, n, m) \subseteq 1..m /\ IsFiniteSet(1..m)
    BY FS_Interval DEF StepsIn
  <2>. QED BY <2>1, FS_Subset
<1>2. ASSUME NEW m \in Nat PROVE Cardinality(StepsIn(c, n, m)) \in Nat
  BY <1>1, FS_CardinalityType
<1>3. ASSUME s > 0
      PROVE  /\ s - 1 \in Nat
             /\ Cardinality(StepsIn(c, n, s)) = Cardinality(StepsIn(c, n, s - 1))
                              + (IF s \in StepsIn(c, n, s) THEN 1 ELSE 0)
  <2>1. s - 1 \in Nat /\ s \notin 1..(s - 1) /\ \A t : t \in 1..s <=> t \in 1..(s - 1) \/ t = s
    BY <1>3
  <2>2. s \notin StepsIn(c, n, s - 1)
    BY <2>1 DEF StepsIn
  <2>3. StepsIn(c, n, s) = IF s \in StepsIn(c, n, s) THEN StepsIn(c, n, s - 1) \cup {s}
                           ELSE StepsIn(c, n, s - 1)
    BY <2>1 DEF StepsIn
  <2>4. CASE s \in StepsIn(c, n, s)
    <3>1. Cardinality(StepsIn(c, n, s - 1) \cup {s}) = Cardinality(StepsIn(c, n, s - 1)) + 1
      BY <1>1, <2>1, <2>2, FS_AddElement
    <3>. QED BY <2>1, <2>3, <2>4, <3>1
  <2>5. CASE s \notin StepsIn(c, n, s)
    BY <1>2, <2>1, <2>3, <2>5
  <2>. QED BY <2>4, <2>5
<1>. QED BY <1>1, <1>2, <1>3

(* Every parameter has an owner.                                           *)
LEMMA SomebodyOwns ==
    ASSUME NEW c \in Configs, NEW r \in Ranks(c.dims), NEW n \in Members(NamesOf(c, r))
    PROVE  Reached(c, r, n)
<1>. DEFINE names == NamesOf(c, r)
            dp == c.dims.data
<1>1. names \in Seq(AllNames) /\ \A k \in AllNames : Size[k] \in Nat
  BY NamesType
<1>2. dp \in Nat \ {0}
  BY ConfigType
<1>. HIDE DEF names, dp
<1>3. NumelsOf(names) \in Seq(Nat) /\ Len(NumelsOf(names)) = Len(names)
  <2>1. NumelsOf(names) = [i \in 1..Len(names) |-> Size[names[i]]]
    BY <1>1 DEF NumelsOf
  <2>2. \A i \in 1..Len(names) : Size[names[i]] \in Nat
    BY <1>1
  <2>3. Len(names) \in Nat
    BY <1>1
  <2>. QED BY <2>1, <2>2, <2>3
<1>4. GreedyOwner(NumelsOf(names), dp) \in [1..Len(names) -> 0..(dp - 1)]
  BY <1>2, <1>3, OwnersIn
<1>5. PICK o : o = Owners(c, r)
  OBVIOUS
<1>6. o \in [1..Len(names) -> 0..(dp - 1)]
  BY <1>4, <1>5 DEF Owners, names, dp
<1>7. PICK i \in 1..Len(names) : names[i] = n
  <2>1. DOMAIN names = 1..Len(names)
    BY <1>1
  <2>. QED BY <2>1 DEF Members, names
<1>8. o[i] \in 0..(dp - 1) /\ i \in OwnedBy(o, o[i])
  BY <1>6, <1>7 DEF OwnedBy
<1>9. n \in Owned(c, r, o[i])
  BY <1>5, <1>7, <1>8 DEF Owned, names
<1>. QED BY <1>8, <1>9 DEF Reached, dp

(* Without the flat optimizer a parameter is updated once it has ever had  *)
(* a gradient.                                                             *)
LEMMA WantedSteps ==
    ASSUME NEW c \in Configs, c.mode # "flat", NEW s \in 0..MaxSteps, s > 0,
           NEW r \in Ranks(c.dims), NEW n \in Members(NamesOf(c, r))
    PROVE  n \in Wants(c, s, r) <=> s \in StepsIn(c, n, s)
<1>1. DataOf(c, r) \in 0..(c.dims.data - 1) /\ MaxSteps \in Nat
  BY ConfigType, CoordsOfRank, CoordsType, TrainAssumption DEF DataOf
<1>2. \A t \in 1..s : t \in 1..MaxSteps
  BY <1>1
<1>3. \A t \in 1..s : c.routed[t] \in {{}, 0..(c.dims.data - 1)}
  BY <1>2, ConfigType
<1>4. \A t \in 1..s : DataOf(c, r) \in c.routed[t] <=> c.routed[t] # {}
  BY <1>1, <1>3
<1>5. s \in 1..s
  BY <1>1
<1>. QED BY <1>4, <1>5 DEF Wants, HasGrad, StepsIn

(* A step adds one update to the history of what it updates.               *)
LEMMA SettledHistories ==
    ASSUME NEW c \in Configs, c.mode # "flat", ~c.skip, NEW s \in 0..MaxSteps, NEW w,
           NEW r \in Ranks(c.dims), Histories(w[r], c, Preceding(s), r)
    PROVE  Histories(Settled(c, s, w)[r], c, s, r)
<1>. SUFFICES ASSUME NEW n \in Members(NamesOf(c, r)), NEW j \in 1..Size[n]
              PROVE  History(Settled(c, s, w)[r][n][j], c, n, j, Cardinality(StepsIn(c, n, s)))
  BY DEF Histories
<1>1. History(w[r][n][j], c, n, j, Cardinality(StepsIn(c, n, Preceding(s))))
  BY DEF Histories
<1>2. Settled(c, s, w)[r][n] = IF s > 0 THEN Due(c, s, w, r, n) ELSE w[r][n]
  BY SomebodyOwns DEF Settled
<1>3. s \in Nat /\ MaxSteps \in Nat
  BY TrainAssumption
<1>4. CASE s = 0
  BY <1>1, <1>2, <1>4 DEF Preceding
<1>5. CASE s > 0
  <2>1. Preceding(s) = s - 1 /\ s - 1 \in Nat
    BY <1>3, <1>5 DEF Preceding
  <2>2. PICK old, new : /\ old = Cardinality(StepsIn(c, n, s - 1))
                        /\ new = Cardinality(StepsIn(c, n, s))
    OBVIOUS
  <2>3. old \in Nat /\ new = old + (IF n \in Wants(c, s, r) THEN 1 ELSE 0)
    BY <1>3, <1>5, <2>1, <2>2, StepsCount, WantedSteps
  <2>4. History(w[r][n][j], c, n, j, old)
    BY <1>1, <2>1, <2>2
  <2>5. CASE n \in Wants(c, s, r)
    <3>1. Due(c, s, w, r, n) = [i \in 1..Size[n] |->
              Append(w[r][n][i], [grad |-> PastData(c, s)[r][n][i], norm |-> NormOver(c, s, r)])]
      BY <2>5 DEF Due
    <3>2. PICK x : Due(c, s, w, r, n)[j] = Append(w[r][n][j], x)
      BY <3>1
    <3>3. History(Append(w[r][n][j], x), c, n, j, old + 1)
      BY <2>3, <2>4, HistoryGrows
    <3>. QED BY <1>2, <1>5, <2>2, <2>3, <2>5, <3>2, <3>3
  <2>6. CASE n \notin Wants(c, s, r)
    <3>1. Due(c, s, w, r, n) = w[r][n] /\ new = old
      BY <2>3, <2>6 DEF Due
    <3>. QED BY <1>2, <1>5, <2>2, <2>4, <3>1
  <2>. QED BY <2>5, <2>6
<1>. QED BY <1>3, <1>4, <1>5

(* Within a step the parameters at its beginning stay what they were.      *)
LEMMA DatedKeeps ==
    ASSUME NEW w, Dated(w), config' = config, step' = step, RanksHere' = RanksHere
    PROVE  Dated(w)'
BY DEF Dated

(* What has just been loaded has no history.                               *)
LEMMA LoadedHistory ==
    ASSUME NEW c, NEW n, NEW j, NEW s, s = 0, NEW v, v = <<LoadedIn(c, n, j)>>
    PROVE  History(v, c, n, j, Cardinality(StepsIn(c, n, s)))
<1>1. StepsIn(c, n, s) = {}
  <2>1. 1..0 = {}
    OBVIOUS
  <2>. QED BY <2>1 DEF StepsIn
<1>2. Cardinality(StepsIn(c, n, s)) = 0
  BY <1>1, FS_EmptySet
<1>3. v \in Seq({LoadedIn(c, n, j)}) /\ Len(v) = 1 /\ v[1] = LoadedIn(c, n, j)
  OBVIOUS
<1>4. IsList(v)
  BY <1>3 DEF IsList
<1>5. Len(v) = 1 + Cardinality(StepsIn(c, n, s))
  BY <1>2, <1>3
<1>. QED BY <1>3, <1>4, <1>5 DEF History

(* At the start the parameters are as they were loaded.                    *)
LEMMA ParamsInit == Init => ParamsWorth
<1>. SUFFICES ASSUME Init PROVE ParamsWorth
  OBVIOUS
<1>1. ConfigAs /\ config \in Configs
  BY DEF Init, ConfigAs
<1>2. /\ RanksHere = Ranks(config.dims) /\ \A r \in RanksHere : Names(r) = NamesOf(config, r)
      /\ \A r \in RanksHere : step[r] = 0
  BY <1>1, AsConfigured DEF RanksHere, P, Init
<1>3. params = [r \in RanksHere |-> [n \in Members(NamesOf(config, r)) |->
                    [i \in 1..Size[n] |-> <<Loaded(n, i)>>]]]
  <2>1. params = [r \in RanksHere |-> [n \in Members(Names(r)) |->
                    [i \in 1..Size[n] |-> <<Loaded(n, i)>>]]]
    BY DEF Init
  <2>. QED BY <1>2, <2>1
<1>4. ASSUME NEW r \in RanksHere, NEW n \in Members(NamesOf(config, r))
      PROVE  params[r][n] = [i \in 1..Size[n] |-> <<Loaded(n, i)>>]
  BY <1>3
<1>5. Vectors(config, params)
  <2>1. ASSUME NEW r \in RanksHere, NEW n \in Members(NamesOf(config, r))
        PROVE  IsVector(params[r][n], n)
    <3>1. PICK v : v = [i \in 1..Size[n] |-> <<Loaded(n, i)>>]
      OBVIOUS
    <3>2. v = [i \in 1..Size[n] |-> v[i]]
      BY <3>1
    <3>. QED BY <1>4, <3>1, <3>2 DEF IsVector
  <2>. QED BY <1>2, <2>1 DEF Vectors
<1>6. ASSUME NEW n \in AllNames, NEW q \in Ranks(config.dims), NEW r \in Ranks(config.dims),
             Near(config, q, r, MergedOver(config, n)), n \in Members(NamesOf(config, r))
      PROVE  params[q][n] = params[r][n]
  <2>1. NamesOf(config, q) = NamesOf(config, r)
    <3>1. MergedOver(config, n) \subseteq Rings
      BY DEF MergedOver
    <3>. QED BY <1>6, <3>1, NearNames
  <2>2. q \in RanksHere /\ r \in RanksHere /\ n \in Members(NamesOf(config, q))
    BY <1>2, <1>6, <2>1
  <2>3. PICK v : v = [i \in 1..Size[n] |-> <<Loaded(n, i)>>]
    OBVIOUS
  <2>4. params[q][n] = v
    BY <1>4, <2>2, <2>3
  <2>5. params[r][n] = v
    BY <1>4, <1>6, <2>2, <2>3
  <2>. QED BY <2>4, <2>5
<1>7. Copies(config, params)
  BY <1>5, <1>6 DEF Copies, Uniform
<1>8. ParamsAre(params)
  <2>1. \A r, n : ParamAt(config, 0, phase[r], Len(queue[r]), params, r, n) = params[r][n]
    BY DEF ParamAt
  <2>2. DOMAIN params = RanksHere /\ \A r \in RanksHere : DOMAIN params[r] = Members(NamesOf(config, r))
    BY <1>3
  <2>. QED BY <1>2, <2>1, <2>2 DEF ParamsAre
<1>9. Dated(params)
  <2>1. ASSUME NEW r \in RanksHere, NEW n \in Members(NamesOf(config, r)), NEW j \in 1..Size[n]
        PROVE  History(params[r][n][j], config, n, j, Cardinality(StepsIn(config, n, Preceding(step[r]))))
    <3>1. params[r][n][j] = <<LoadedIn(config, n, j)>>
      <4>1. params[r][n][j] = <<Loaded(n, j)>>
        BY <1>4
      <4>. QED BY <4>1 DEF Loaded, LoadedIn, ZeroGrad, ZeroIn, Nobody, NobodyIn, RanksHere, P
    <3>2. Preceding(step[r]) = 0
      BY <1>2 DEF Preceding
    <3>. QED BY <3>1, <3>2, LoadedHistory
  <2>. QED BY <2>1 DEF Dated, Histories
<1>10. PICK w : w = params
  OBVIOUS
<1>11. Copies(config, w) /\ ParamsAre(w) /\ Dated(w)
  BY <1>7, <1>8, <1>9, <1>10
<1>. QED BY <1>11 DEF ParamsWorth

(* The barrier keeps ParamsWorth: the end of a step is the beginning of    *)
(* the next.                                                               *)
LEMMA ParamsStart == CollInv /\ ParamsWorth /\ StartStep => ParamsWorth'
<1>. SUFFICES ASSUME CollInv, ParamsWorth, StartStep, config.mode # "flat" PROVE ParamsWorth'
  BY DEF StartStep, ParamsWorth
<1>1. /\ \A r \in RanksHere : phase[r] = "share" /\ queue[r] = <<>>
      /\ phase' = [r \in RanksHere |-> "backward"]
      /\ UNCHANGED <<config, params, local>>
  BY DEF StartStep, AllDone
<1>2. config' = config /\ RanksHere' = RanksHere /\ config \in Configs /\ RanksHere = Ranks(config.dims)
  BY <1>1 DEF RanksHere, P, CollInv, ConfigAs
<1>3. PICK w : Copies(config, w) /\ ParamsAre(w) /\ Dated(w)
  BY DEF ParamsWorth
<1>4. PICK s \in 0..MaxSteps : \A r \in RanksHere : step[r] = s
  <2>1. StepsAs /\ MaxSteps \in Nat
    BY TrainAssumption DEF CollInv
  <2>2. CASE RanksHere = {}
    BY <2>1, <2>2
  <2>3. CASE RanksHere # {}
    <3>1. PICK q \in RanksHere : TRUE
      BY <2>3
    <3>. QED BY <2>1, <3>1 DEF StepsAs
  <2>. QED BY <2>2, <2>3
<1>0. PICK v : v = Settled(config, s, w)
  OBVIOUS
<1>5. Copies(config, v)
  BY <1>0, <1>2, <1>3, SettledCopies
<1>6. ASSUME NEW r \in RanksHere, NEW n \in Members(NamesOf(config, r)) PROVE params[r][n] = v[r][n]
  <2>1. Len(queue[r]) = 0 /\ phase[r] = "share" /\ step[r] = s
    BY <1>1, <1>4
  <2>2. params[r][n] = ParamAt(config, s, "share", 0, w, r, n)
    BY <1>3, <2>1 DEF ParamsAre
  <2>. QED BY <1>0, <1>2, <2>2, AllSent
<1>7. ASSUME NEW r \in RanksHere, NEW n \in Members(NamesOf(config, r))
      PROVE  params'[r][n] = ParamAt(config, step'[r], phase'[r], Len(queue'[r]), v, r, n)
  BY <1>1, <1>6 DEF ParamAt
<1>8. ParamsAre(v)'
  BY <1>1, <1>2, <1>3, <1>7 DEF ParamsAre
<1>9. Copies(config', v)
  BY <1>2, <1>5
<1>10. Dated(v)'
  <2>1. ASSUME ~config.skip, NEW r \in RanksHere PROVE Histories(v[r], config, Preceding(step'[r]), r)
    <3>1. step'[r] = s + 1 /\ Preceding(step'[r]) = s /\ Preceding(step[r]) = Preceding(s)
      <4>1. MaxSteps \in Nat
        BY TrainAssumption
      <4>. QED BY <1>4, <4>1 DEF StartStep, Preceding
    <3>2. Histories(w[r], config, Preceding(s), r)
      BY <1>3, <2>1, <3>1 DEF Dated
    <3>3. Histories(v[r], config, s, r)
      BY <1>0, <1>2, <2>1, <3>2, SettledHistories
    <3>. QED BY <3>1, <3>3
  <2>. QED BY <1>2, <2>1 DEF Dated
<1>. QED BY <1>8, <1>9, <1>10 DEF ParamsWorth

(* The backward passes keep ParamsWorth.                                   *)
LEMMA ParamsBackward ==
    ASSUME CollInv, ParamsWorth, NEW r \in RanksHere, Backward(r)
    PROVE  ParamsWorth'
<1>. SUFFICES ASSUME config.mode # "flat" PROVE ParamsWorth'
  BY DEF Backward, ParamsWorth
<1>1. /\ UNCHANGED <<config, params, local, step>> /\ phase[r] = "backward"
      /\ phase' = [phase EXCEPT ![r] = "sync"]
      /\ config' = config /\ RanksHere' = RanksHere /\ DOMAIN phase = RanksHere
  BY DEF Backward, RanksHere, P, CollInv, StepsAs
<1>2. queue' = [queue EXCEPT ![r] = Script(config, step[r], r)]
  BY BackwardInv
<1>3. PICK w : Copies(config, w) /\ ParamsAre(w) /\ Dated(w)
  BY DEF ParamsWorth
<1>4. ASSUME NEW x \in RanksHere, NEW n \in Members(NamesOf(config, x))
      PROVE  params'[x][n] = ParamAt(config, step'[x], phase'[x], Len(queue'[x]), w, x, n)
  <2>1. params[x][n] = ParamAt(config, step[x], phase[x], Len(queue[x]), w, x, n)
    BY <1>3 DEF ParamsAre
  <2>2. CASE x # r
    <3>1. phase'[x] = phase[x] /\ queue'[x] = queue[x]
      BY <1>1, <1>2, <2>2 DEF CollInv, QueuesAs
    <3>. QED BY <1>1, <2>1, <3>1
  <2>3. CASE x = r
    <3>1. phase'[x] = "sync"
      BY <1>1, <2>3
    <3>. QED BY <1>1, <2>1, <2>3, <3>1 DEF ParamAt
  <2>. QED BY <2>2, <2>3
<1>5. ParamsAre(w)' /\ Copies(config', w)
  BY <1>1, <1>3, <1>4 DEF ParamsAre
<1>6. Dated(w)'
  BY <1>1, <1>3, DatedKeeps
<1>. QED BY <1>5, <1>6 DEF ParamsWorth

(* The update gives every parameter a rank is responsible for what is due  *)
(* to it.                                                                  *)
LEMMA ParamsUpdate ==
    ASSUME CollInv, GradsWorth, NormWorth, ParamsWorth, NEW r \in RanksHere, Update(r)
    PROVE  ParamsWorth'
<1>. SUFFICES ASSUME config.mode # "flat" PROVE ParamsWorth'
  BY DEF Update, ParamsWorth
<1>. DEFINE s == step[r]
            After_(n) == IF n \in Mine(r) /\ grads[r][n] # <<>>
                           THEN Updated(params[r][n], grads[r][n], norm[r]) ELSE params[r][n]
<1>1. /\ UNCHANGED <<config, local, step>> /\ phase[r] = "sync" /\ queue[r] = <<>>
      /\ phase' = [phase EXCEPT ![r] = "share"] /\ queue' = [queue EXCEPT ![r] = ParamCalls(r)]
      /\ params' = IF config.skip THEN params
                   ELSE [params EXCEPT ![r] = [n \in DOMAIN @ |-> After_(n)]]
  BY DEF Update
<1>2. /\ config' = config /\ RanksHere' = RanksHere /\ config \in Configs
      /\ RanksHere = Ranks(config.dims) /\ r \in Ranks(config.dims)
      /\ DOMAIN phase = RanksHere /\ DOMAIN queue = RanksHere /\ s > 0 /\ GradsAs /\ ConfigAs
  BY <1>1 DEF RanksHere, P, CollInv, ConfigAs, StepsAs, QueuesAs
<1>3. PICK w : Copies(config, w) /\ ParamsAre(w) /\ Dated(w)
  BY DEF ParamsWorth
<1>4. /\ DOMAIN params = RanksHere /\ DOMAIN params[r] = Members(NamesOf(config, r))
      /\ \A x \in RanksHere : DOMAIN params[x] = Members(NamesOf(config, x))
  BY <1>3 DEF ParamsAre
<1>5. queue'[r] = Shares(config, r) /\ Len(Shares(config, r)) \in Nat
  BY <1>1, <1>2, SharesAre, SharesLength
<1>6. ASSUME NEW n \in Members(NamesOf(config, r))
      PROVE  params'[r][n] = ParamAt(config, s, "share", Len(Shares(config, r)), w, r, n)
  <2>1. params[r][n] = w[r][n] /\ IsVector(w[r][n], n)
    <3>1. params[r][n] = ParamAt(config, s, phase[r], Len(queue[r]), w, r, n)
      BY <1>3 DEF ParamsAre
    <3>2. IsVector(w[r][n], n)
      BY <1>2, <1>3 DEF Copies, Vectors
    <3>. QED BY <1>1, <3>1, <3>2 DEF ParamAt
  <2>2. ~Sent(config, r, Len(Shares(config, r)), n)
    BY <1>5 DEF Sent
  <2>3. n \in Mine(r) <=> Own(config, r, n)
    <3>1. Names(r) = NamesOf(config, r) /\ Index(r, "data") = DataOf(config, r)
          /\ local[r].owner = Owners(config, r)
      BY <1>2, AsConfigured DEF Index, DataOf, P
    <3>2. Mine(r) = IF config.mode = "owner" THEN Owned(config, r, DataOf(config, r))
                    ELSE Members(NamesOf(config, r))
      BY <3>1 DEF Mine, Owned
    <3>. QED BY <3>2 DEF Own
  <2>4. grads[r][n] # <<>> <=> n \in Wants(config, s, r)
    <3>1. 1 \notin DOMAIN <<>>
      OBVIOUS
    <3>. HIDE DEF s
    <3>2. IF Keeps(config, s, phase[r], r, n) THEN 1 \in DOMAIN grads[r][n]
          ELSE grads[r][n] = <<>>
      BY <1>2 DEF GradsAs, s
    <3>3. Keeps(config, s, phase[r], r, n) <=> HasGrad(config, s, r, n)
      BY <1>1 DEF Keeps
    <3>. QED BY <3>1, <3>2, <3>3 DEF Wants
  <2>5. ASSUME n \in Wants(config, s, r)
        PROVE  grads[r][n] = PastData(config, s)[r][n]
    <3>1. Keeps(config, s, phase[r], r, n) /\ Len(queue[r]) = 0
      BY <1>1, <2>5 DEF Keeps, Wants
    <3>2. grads[r][n] = GradAt(config, s, r, 0, n)
      BY <1>1, <3>1 DEF GradsWorth
    <3>. QED BY <1>2, <2>5, <3>2, LevelEnds
  <2>6. norm[r] = NormOver(config, s, r)
    <3>1. PastNorm(r)
      BY <1>1 DEF PastNorm
    <3>. QED BY <3>1 DEF NormWorth
  <2>7. CASE config.skip
    <3>1. params'[r][n] = w[r][n]
      BY <1>1, <2>1, <2>7
    <3>. QED BY <2>7, <3>1 DEF ParamAt, Due
  <2>8. CASE ~config.skip
    <3>. HIDE DEF After_
    <3>1. params'[r][n] = After_(n)
      BY <1>1, <1>4, <2>8
    <3>. USE DEF After_
    <3>2. CASE Own(config, r, n) /\ n \in Wants(config, s, r)
      <4>1. params'[r][n] = Updated(params[r][n], grads[r][n], norm[r])
        BY <2>3, <2>4, <3>1, <3>2
      <4>2. DOMAIN params[r][n] = 1..Size[n]
        BY <2>1 DEF IsVector
      <4>3. params'[r][n] = [j \in 1..Size[n] |-> Append(w[r][n][j],
                                [grad |-> PastData(config, s)[r][n][j], norm |-> NormOver(config, s, r)])]
        BY <2>1, <2>5, <2>6, <3>2, <4>1, <4>2 DEF Updated
      <4>. HIDE DEF s
      <4>. QED BY <1>2, <2>8, <3>2, <4>3 DEF ParamAt, Due
    <3>3. CASE ~(Own(config, r, n) /\ n \in Wants(config, s, r))
      <4>1. params'[r][n] = w[r][n]
        BY <2>1, <2>3, <2>4, <3>1, <3>3
      <4>. HIDE DEF s
      <4>. QED BY <2>2, <3>3, <4>1 DEF ParamAt, Due
    <3>. QED BY <3>2, <3>3
  <2>. QED BY <2>7, <2>8
<1>7. DOMAIN params' = RanksHere /\ DOMAIN params'[r] = Members(NamesOf(config, r))
      /\ \A x \in RanksHere : x # r => params'[x] = params[x]
  <2>. HIDE DEF After_
  <2>. QED BY <1>1, <1>4
<1>8. ASSUME NEW x \in RanksHere, NEW n \in Members(NamesOf(config, x))
      PROVE  params'[x][n] = ParamAt(config, step'[x], phase'[x], Len(queue'[x]), w, x, n)
  <2>1. CASE x # r
    <3>1. phase'[x] = phase[x] /\ queue'[x] = queue[x] /\ params'[x] = params[x]
      BY <1>1, <1>2, <1>7, <2>1
    <3>. QED BY <1>1, <1>3, <3>1 DEF ParamsAre
  <2>2. CASE x = r
    BY <1>1, <1>2, <1>5, <1>6, <2>2
  <2>. QED BY <2>1, <2>2
<1>9. ParamsAre(w)' /\ Copies(config', w)
  <2>1. \A x \in RanksHere : DOMAIN params'[x] = Members(NamesOf(config, x))
    BY <1>4, <1>7
  <2>. QED BY <1>2, <1>3, <1>7, <1>8, <2>1 DEF ParamsAre
<1>10. Dated(w)'
  BY <1>1, <1>2, <1>3, DatedKeeps
<1>. QED BY <1>9, <1>10 DEF ParamsWorth

(* The call a rank has come to, when the optimizer is not the flat one.    *)
LEMMA ShareCall ==
    ASSUME CollInv, config.mode # "flat", NEW r \in RanksHere, queue[r] # <<>>
    PROVE  LET b == Len(Shares(config, r)) - Len(queue[r]) + 1
           IN  /\ phase[r] \in {"sync", "share"}
               /\ phase[r] = "sync" => Now(r).kind \notin {"gather", "broadcast"}
               /\ phase[r] = "share" =>
                    /\ b \in 1..Len(Shares(config, r)) /\ Now(r) = Shares(config, r)[b]
                    /\ \E q \in 0..(config.dims.data - 1) :
                         /\ ByOwners(config)
                         /\ IsShare(Now(r), q, Members(NamesOf(config, r)) \cap Owned(config, r, q))
<1>. DEFINE c == config
            s == step[r]
            k == Len(queue[r])
            x == Now(r)
<1>1. /\ c \in Configs /\ phase[r] \in {"sync", "share"} /\ k > 0 /\ Counted(c, s, phase[r], k, r)
      /\ x = CallAt(c, s, phase[r], k, r) /\ k \in Nat
  BY NowIs DEF CollInv, ConfigAs, QueuesAs
<1>2. SharesOf(c, r)
  BY <1>1, ShareCarries
<1>. HIDE DEF x, k, s
<1>3. ASSUME phase[r] = "sync" PROVE x.kind \notin {"gather", "broadcast"}
  <2>1. k \in 1..Len(Script(c, s, r)) /\ x = Script(c, s, r)[Len(Script(c, s, r)) - k + 1]
    <3>1. Len(Script(c, s, r)) \in Nat
      BY <1>1, ScriptType
    <3>. QED BY <1>1, <1>3, <3>1 DEF Counted, CallAt
  <2>2. Takes(c, s, r, k, x)
    BY <1>1, <2>1, PopSync
  <2>3. NormCall(c).kind = "norm"
    BY DEF NormCall, Call
  <2>. QED BY <2>2, <2>3 DEF Takes, PartKinds
<1>4. ASSUME phase[r] = "share"
      PROVE  /\ Len(Shares(c, r)) - k + 1 \in 1..Len(Shares(c, r))
             /\ x = Shares(c, r)[Len(Shares(c, r)) - k + 1]
  <2>1. Len(Shares(c, r)) \in Nat /\ k <= Len(Shares(c, r))
    BY <1>1, <1>4, SharesLength DEF Counted
  <2>. QED BY <1>1, <1>4, <2>1 DEF CallAt
<1>5. ASSUME phase[r] = "share"
      PROVE  \E q \in 0..(c.dims.data - 1) :
                 ByOwners(c) /\ IsShare(x, q, Members(NamesOf(c, r)) \cap Owned(c, r, q))
  BY <1>2, <1>4, <1>5 DEF SharesOf
<1>. QED BY <1>1, <1>3, <1>4, <1>5 DEF x, k

(* Sending one more parameter, or none of these.                           *)
LEMMA SentMoves ==
    ASSUME NEW c \in Configs, NEW r, NEW k, k \in Nat,
           NEW b \in 1..Len(Shares(c, r)), b = Len(Shares(c, r)) - k + 1, NEW n
    PROVE  Sent(c, r, k - 1, n) <=> Sent(c, r, k, n) \/ Sends(Shares(c, r)[b], n)
<1>1. Len(Shares(c, r)) \in Nat
  BY SharesLength
<1>2. \A d \in 1..Len(Shares(c, r)) :
         d <= Len(Shares(c, r)) - (k - 1) <=> d <= Len(Shares(c, r)) - k \/ d = b
  BY <1>1
<1>. QED BY <1>2 DEF Sent

(* A broadcast gives the others what the owner has updated.                *)
LEMMA BroadcastWorth ==
    ASSUME CollInv, config.mode # "flat", NEW w, Copies(config, w), ParamsAre(w),
           NEW comm \in Comms, NEW o \in RanksHere, Collective(comm, GroupOf(o, comm)),
           Now(GroupOf(o, comm)[1]).kind = "broadcast",
           NEW r \in Members(GroupOf(o, comm)), NEW n \in Members(NamesOf(config, r))
    PROVE  params'[r][n] = ParamAt(config, step[r], phase[r], Len(queue[r]) - 1, w, r, n)
<1>. DEFINE g == GroupOf(o, comm)
            M == Members(g)
            x == Now(g[1])
            s == step[o]
            bucket == x.data.bucket
<1>1. /\ M \subseteq RanksHere /\ g[1] \in M /\ o \in M
  BY Taken
<1>2. \A q \in M : Pops(q, x, comm, s)
  BY Taken
<1>3. Broadcast(g)
  <2>1. (CASE x.kind \in {"sum", "mean"} -> AllReduce(g, x.kind)
           [] x.kind = "scatter"   -> ReduceScatter(g)
           [] x.kind = "norm"      -> ReduceNorm(g)
           [] x.kind = "gather"    -> AllGather(g)
           [] x.kind = "broadcast" -> Broadcast(g))
    BY Taken
  <2>2. x.kind = "broadcast"
    OBVIOUS
  <2>. HIDE DEF x, g
  <2>. QED BY <2>1, <2>2
<1>4. /\ config \in Configs /\ RanksHere = Ranks(config.dims) /\ ConfigAs /\ StepsAs /\ QueuesAs
      /\ r \in RanksHere /\ r \in Ranks(config.dims) /\ s \in 0..MaxSteps
  BY <1>1, InConfig DEF CollInv, ConfigAs, StepsAs
<1>5. ASSUME NEW q \in M
      PROVE  /\ q \in RanksHere /\ queue[q] # <<>> /\ Now(q) = x /\ x.comm = comm /\ step[q] = s
             /\ phase[q] = "share"
  <2>1. q \in RanksHere /\ queue[q] # <<>> /\ Now(q) = x /\ x.comm = comm /\ step[q] = s
    BY <1>1, <1>2 DEF Pops
  <2>2. phase[q] \in {"sync", "share"} /\ (phase[q] = "sync" => Now(q).kind \notin {"gather", "broadcast"})
    BY <2>1, ShareCall
  <2>3. x.kind = "broadcast"
    OBVIOUS
  <2>. QED BY <2>1, <2>2, <2>3
<1>. DEFINE k == Len(queue[r])
            b == Len(Shares(config, r)) - k + 1
<1>6. /\ k \in Nat /\ b \in 1..Len(Shares(config, r)) /\ x = Shares(config, r)[b]
  <2>1. queue[r] # <<>> /\ phase[r] = "share" /\ Now(r) = x
    BY <1>5
  <2>2. b \in 1..Len(Shares(config, r)) /\ Now(r) = Shares(config, r)[b]
    BY <1>4, <2>1, ShareCall
  <2>3. k \in Nat
    BY <1>4, NowIs
  <2>. QED BY <2>1, <2>2, <2>3
<1>7. PICK q \in 0..(config.dims.data - 1) :
         ByOwners(config) /\ IsShare(x, q, Members(NamesOf(config, r)) \cap Owned(config, r, q))
  <2>1. queue[r] # <<>> /\ phase[r] = "share" /\ Now(r) = x
    BY <1>5
  <2>2. \E q \in 0..(config.dims.data - 1) :
           /\ ByOwners(config)
           /\ IsShare(Now(r), q, Members(NamesOf(config, r)) \cap Owned(config, r, q))
    BY <1>4, <2>1, ShareCall
  <2>. QED BY <2>1, <2>2
<1>8. comm = "data" /\ g = RingOf(config, o, "data")
  <2>1. Shares(config, r)[b].comm = "data"
    <3>1. OnComm(Shares(config, r), "data", {"gather", "broadcast"})
      BY <1>4, SharesType
    <3>. QED BY <1>6, <3>1 DEF OnComm
  <2>2. comm = "data"
    BY <1>5, <1>6, <2>1
  <2>. QED BY <1>4, <2>2, InConfig DEF Rings
<1>. HIDE DEF x, k, b, s
<1>9. PICK root \in M : /\ root = g[q + 1] /\ DataOf(config, root) = q
                        /\ Beside(config, root, o, "data")
  <2>1. config.dims.data \in Nat \ {0}
    BY <1>4, ConfigType
  <2>2. q + 1 \in 1..config.dims["data"] /\ (q + 1) - 1 = q
    BY <2>1
  <2>3. /\ RingOf(config, o, "data")[q + 1] \in Ranks(config.dims)
        /\ Coordinates(config.dims, RingOf(config, o, "data")[q + 1])["data"] = (q + 1) - 1
        /\ Beside(config, RingOf(config, o, "data")[q + 1], o, "data")
    <3>1. "data" \in Rings /\ o \in Ranks(config.dims)
      BY <1>4 DEF Rings
    <3>. QED BY <1>4, <2>2, <3>1, RingAt
  <2>4. DOMAIN g = 1..config.dims["data"]
    BY <1>8 DEF RingOf, Group
  <2>5. g[q + 1] \in M
    BY <2>2, <2>4 DEF Members
  <2>. HIDE DEF g, M
  <2>. QED BY <1>8, <2>2, <2>3, <2>5 DEF DataOf
<1>10. Beside(config, root, r, "data")
  <2>1. \A y, z \in M : Beside(config, y, z, comm)
    BY <1>4, <1>8, GroupFacts DEF Rings
  <2>. QED BY <1>8, <1>9, <2>1
<1>11. /\ NamesOf(config, root) = NamesOf(config, r) /\ root \in Ranks(config.dims)
       /\ Owned(config, root, q) = Owned(config, r, q)
  <2>1. NamesOf(config, root) = NamesOf(config, r)
    BY <1>10, NamesAgree DEF Rings
  <2>2. Owners(config, root) = Owners(config, r)
    BY <2>1 DEF Owners
  <2>. QED BY <1>1, <1>4, <2>1, <2>2 DEF Owned
<1>12. params'[r] = Unflatten(bucket, FlattenBucket(bucket, params[root]), params[r])
  <2>1. Now(g[1]) = x /\ Now(r) = x /\ Now(root) = x
    BY <1>1, <1>5, <1>9
  <2>2. x.data.root = q
    BY <1>7 DEF IsShare
  <2>. HIDE DEF g, M
  <2>3. params' = [y \in RanksHere |->
                    IF y \in Members(g)
                      THEN Unflatten(Now(y).data.bucket, FlattenBucket(Now(root).data.bucket, params[root]),
                                     params[y])
                    ELSE params[y]]
    BY <1>3, <1>9, <2>1, <2>2 DEF Broadcast
  <2>4. r \in Members(g)
    BY DEF g
  <2>. QED BY <1>4, <2>1, <2>3, <2>4
<1>13. /\ bucket \in Seq(AllEntries) /\ Distinct(bucket)
       /\ \A i \in 1..Len(bucket) : bucket[i].name \in Members(NamesOf(config, r)) \cap Owned(config, r, q)
  BY <1>7 DEF IsShare
<1>14. DOMAIN params[r] = Members(NamesOf(config, r)) /\ n \in AllNames
  <2>1. NamesOf(config, r) \in Seq(AllNames)
    BY NamesType
  <2>. QED BY <1>4, <2>1 DEF ParamsAre, Members
<1>15. /\ root \in RanksHere /\ step[root] = s /\ phase[root] = "share" /\ step[r] = s /\ phase[r] = "share"
       /\ \A m \in Members(NamesOf(config, root)) :
            params[root][m] = ParamAt(config, s, "share", Len(queue[root]), w, root, m)
  <2>1. root \in RanksHere /\ step[root] = s /\ phase[root] = "share" /\ step[r] = s /\ phase[r] = "share"
    BY <1>5, <1>9
  <2>. QED BY <2>1 DEF ParamsAre
<1>. DEFINE V(m) == IF s > 0 THEN Due(config, s, w, root, m) ELSE w[root][m]
<1>16. ASSUME NEW m \in Members(NamesOf(config, r)), m \in Owned(config, r, q)
       PROVE  params[root][m] = V(m) /\ IsVector(V(m), m) /\ m \in AllNames
  <2>1. m \in Members(NamesOf(config, root))
    BY <1>11
  <2>2. Own(config, root, m)
    BY <1>9, <1>11, <1>16 DEF Own
  <2>3. params[root][m] = V(m)
    BY <1>15, <2>1, <2>2 DEF ParamAt
  <2>4. IsVector(w[root][m], m)
    BY <1>11, <2>1 DEF Copies, Vectors
  <2>5. IsVector(V(m), m)
    BY <2>4 DEF Due, IsVector
  <2>6. m \in AllNames
    <3>1. NamesOf(config, r) \in Seq(AllNames)
      BY NamesType
    <3>. QED BY <3>1 DEF Members
  <2>. QED BY <2>3, <2>5, <2>6
<1>. HIDE DEF V
<1>17. \A e \in AllEntries : e.size \in Nat
  BY AllSized
<1>18. Fitting(bucket, params[root])
  <2>1. ASSUME NEW i \in 1..Len(bucket)
        PROVE  IsList(params[root][bucket[i].name]) /\ Len(params[root][bucket[i].name]) = bucket[i].size
    <3>1. PICK m : m = bucket[i].name
      OBVIOUS
    <3>2. m \in Members(NamesOf(config, r)) /\ m \in Owned(config, r, q)
      BY <1>13, <3>1
    <3>3. IsVector(params[root][m], m) /\ m \in AllNames
      BY <1>16, <3>2
    <3>4. IsList(params[root][m]) /\ Len(params[root][m]) = Size[m]
      BY <3>3, VectorIs
    <3>5. bucket[i].size = Size[m]
      <4>1. bucket[i] \in AllEntries
        BY <1>13
      <4>. QED BY <3>1, <4>1, AllSized
    <3>. QED BY <3>1, <3>4, <3>5
  <2>. QED BY <2>1 DEF Fitting
<1>19. Sent(config, r, k - 1, n) <=> Sent(config, r, k, n) \/ Sends(x, n)
  <2>1. b = Len(Shares(config, r)) - k + 1
    BY DEF b
  <2>. QED BY <1>4, <1>6, <2>1, SentMoves
<1>20. params[r][n] = ParamAt(config, s, "share", k, w, r, n)
  BY <1>4, <1>15 DEF ParamsAre, k
<1>21. CASE ~Sends(x, n)
  <2>1. \A i \in 1..Len(bucket) : bucket[i].name # n
    BY <1>21 DEF Sends
  <2>2. params'[r][n] = params[r][n]
    <3>. HIDE DEF bucket
    <3>. QED BY <1>12, <1>13, <1>14, <2>1, UnflattenAt
  <2>3. ParamAt(config, s, "share", k - 1, w, r, n) = ParamAt(config, s, "share", k, w, r, n)
    BY <1>19, <1>21 DEF ParamAt
  <2>. QED BY <1>15, <1>20, <2>2, <2>3 DEF k
<1>22. CASE Sends(x, n)
  <2>1. PICK i \in 1..Len(bucket) : bucket[i].name = n
    BY <1>22 DEF Sends
  <2>. DEFINE flat == FlattenBucket(bucket, params[root])
  <2>2. n \in Owned(config, r, q) /\ bucket[i].size = Size[n]
    <3>1. bucket[i] \in AllEntries
      BY <1>13
    <3>. QED BY <1>13, <2>1, <3>1, AllSized
  <2>3. params'[r][n] = [j \in 1..bucket[i].size |-> flat[Offset(bucket, i) + j]]
    <3>1. params'[r] = Unflatten(bucket, flat, params[r])
      BY <1>12
    <3>. HIDE DEF bucket, flat
    <3>2. Unflatten(bucket, flat, params[r])[n] = [j \in 1..bucket[i].size |-> flat[Offset(bucket, i) + j]]
      BY <1>13, <1>14, <2>1, UnflattenAt
    <3>. QED BY <3>1, <3>2
  <2>4. ASSUME NEW j \in 1..bucket[i].size
        PROVE  flat[Offset(bucket, i) + j] = params[root][n][j]
    <3>1. FlattenBucket(bucket, params[root])[Offset(bucket, i) + j] = params[root][bucket[i].name][j]
      <4>. HIDE DEF bucket
      <4>. QED BY <1>13, <1>17, <1>18, BucketAt
    <3>. QED BY <2>1, <3>1
  <2>. HIDE DEF flat, bucket
  <2>5. params'[r][n] = [j \in 1..Size[n] |-> V(n)[j]]
    <3>1. params[root][n] = V(n)
      BY <1>16, <2>2
    <3>. QED BY <2>2, <2>3, <2>4, <3>1
  <2>6. params'[r][n] = V(n)
    <3>1. IsVector(V(n), n)
      BY <1>16, <2>2
    <3>. QED BY <2>5, <3>1 DEF IsVector
  <2>7. Near(config, root, r, MergedOver(config, n))
    <3>1. "data" \in MergedOver(config, n)
      BY <1>14 DEF MergedOver, Merging, Rings
    <3>. QED BY <1>10, <3>1 DEF Near, Beside
  <2>8. V(n) = IF s > 0 THEN Due(config, s, w, r, n) ELSE w[r][n]
    <3>1. Due(config, s, w, root, n) = Due(config, s, w, r, n)
      BY <1>4, <1>11, <1>14, <2>7, DueAgree
    <3>2. w[root][n] = w[r][n]
      BY <1>4, <1>11, <1>14, <2>7 DEF Copies, Uniform
    <3>. QED BY <3>1, <3>2 DEF V
  <2>9. ParamAt(config, s, "share", k - 1, w, r, n) = V(n)
    BY <1>19, <1>22, <2>8 DEF ParamAt
  <2>. QED BY <1>15, <2>6, <2>9 DEF k
<1>. QED BY <1>21, <1>22

(* A collective keeps ParamsWorth.                                         *)
LEMMA ParamsCollective ==
    ASSUME CollInv, ParamsWorth, NEW comm \in Comms, NEW o \in RanksHere,
           Collective(comm, GroupOf(o, comm))
    PROVE  ParamsWorth'
<1>. DEFINE g == GroupOf(o, comm)
            M == Members(g)
            x == Now(g[1])
<1>1. UNCHANGED <<config, local, phase, step>> /\ M \subseteq RanksHere /\ g[1] \in M
  BY Taken
<1>. SUFFICES ASSUME config.mode # "flat" PROVE ParamsWorth'
  BY <1>1 DEF ParamsWorth
<1>2. \A q \in M : Pops(q, x, comm, step[o])
  BY Taken
<1>3. \A q \in RanksHere \ M : queue'[q] = queue[q]
  BY Taken
<1>4. /\ x.kind \in Kinds
      /\ CASE x.kind \in {"sum", "mean"} -> AllReduce(g, x.kind)
           [] x.kind = "scatter"   -> ReduceScatter(g)
           [] x.kind = "norm"      -> ReduceNorm(g)
           [] x.kind = "gather"    -> AllGather(g)
           [] x.kind = "broadcast" -> Broadcast(g)
  BY Taken
<1>5. RanksHere' = RanksHere /\ config' = config
  BY <1>1 DEF RanksHere, P
<1>6. PICK w : Copies(config, w) /\ ParamsAre(w) /\ Dated(w)
  BY DEF ParamsWorth
<1>a. Dated(w)'
  BY <1>1, <1>5, <1>6, DatedKeeps
<1>7. ASSUME NEW r \in M
      PROVE  /\ r \in RanksHere /\ queue[r] # <<>> /\ Now(r) = x /\ Len(queue'[r]) = Len(queue[r]) - 1
             /\ (phase[r] = "sync" => x.kind \notin {"gather", "broadcast"})
             /\ (phase[r] = "share" => x.kind = "broadcast")
             /\ phase[r] \in {"sync", "share"}
  <2>1. r \in RanksHere /\ queue[r] # <<>> /\ Now(r) = x /\ Len(queue'[r]) = Len(queue[r]) - 1
    BY <1>1, <1>2 DEF Pops
  <2>2. /\ phase[r] \in {"sync", "share"}
        /\ phase[r] = "sync" => Now(r).kind \notin {"gather", "broadcast"}
        /\ phase[r] = "share" => \E q \in 0..(config.dims.data - 1) :
                         /\ ByOwners(config)
                         /\ IsShare(Now(r), q, Members(NamesOf(config, r)) \cap Owned(config, r, q))
    BY <2>1, ShareCall
  <2>3. phase[r] = "share" => Now(r).kind = "broadcast"
    BY <2>2 DEF IsShare
  <2>. QED BY <2>1, <2>2, <2>3
<1>. HIDE DEF x
<1>8. CASE x.kind # "broadcast"
  <2>1. \A r \in M : phase[r] = "sync"
    BY <1>7, <1>8
  <2>2. x.kind # "gather"
    BY <1>1, <1>7, <2>1
  <2>3. params' = params
    <3>1. (\E op : AllReduce(g, op)) \/ ReduceScatter(g) \/ ReduceNorm(g)
      BY <1>4, <1>8, <2>2 DEF Kinds
    <3>. QED BY <3>1 DEF ReduceScatter, AllReduce, ReduceNorm
  <2>4. ASSUME NEW r \in RanksHere, NEW n \in Members(NamesOf(config, r))
        PROVE  params'[r][n] = ParamAt(config, step'[r], phase'[r], Len(queue'[r]), w, r, n)
    <3>1. params[r][n] = ParamAt(config, step[r], phase[r], Len(queue[r]), w, r, n)
      BY <1>6 DEF ParamsAre
    <3>2. CASE r \in M
      BY <1>1, <2>1, <2>3, <3>1, <3>2 DEF ParamAt
    <3>3. CASE r \notin M
      BY <1>1, <1>3, <2>3, <3>1, <3>3
    <3>. QED BY <3>2, <3>3
  <2>5. ParamsAre(w)' /\ Copies(config', w)
    BY <1>5, <1>6, <2>3, <2>4 DEF ParamsAre
  <2>. QED BY <1>a, <2>5 DEF ParamsWorth
<1>9. CASE x.kind = "broadcast"
  <2>1. Broadcast(g)
    <3>. HIDE DEF g
    <3>. QED BY <1>4, <1>9
  <2>. DEFINE root == g[x.data.root + 1]
              sent == FlattenBucket(Now(root).data.bucket, params[root])
  <2>2. params' = [r \in RanksHere |->
                        IF r \in M THEN Unflatten(Now(r).data.bucket, sent, params[r]) ELSE params[r]]
    <3>. HIDE DEF g
    <3>. QED BY <2>1 DEF Broadcast, x
  <2>. HIDE DEF sent
  <2>3. DOMAIN params' = RanksHere /\ \A r \in RanksHere : DOMAIN params'[r] = Members(NamesOf(config, r))
    <3>1. \A b, f, v : DOMAIN Unflatten(b, f, v) = DOMAIN v
      BY DEF Unflatten
    <3>. HIDE DEF g, M
    <3>2. ASSUME NEW r \in RanksHere PROVE DOMAIN params'[r] = Members(NamesOf(config, r))
      <4>1. DOMAIN params[r] = Members(NamesOf(config, r))
        BY <1>6 DEF ParamsAre
      <4>. QED BY <2>2, <3>1, <4>1
    <3>. QED BY <2>2, <3>2
  <2>4. ASSUME NEW r \in RanksHere, NEW n \in Members(NamesOf(config, r))
        PROVE  params'[r][n] = ParamAt(config, step'[r], phase'[r], Len(queue'[r]), w, r, n)
    <3>1. CASE r \in M
      <4>1. params'[r][n] = ParamAt(config, step[r], phase[r], Len(queue[r]) - 1, w, r, n)
        BY <1>6, <1>9, <3>1, BroadcastWorth DEF x
      <4>. QED BY <1>1, <1>7, <3>1, <4>1
    <3>2. CASE r \notin M
      <4>1. params[r][n] = ParamAt(config, step[r], phase[r], Len(queue[r]), w, r, n)
        BY <1>6 DEF ParamsAre
      <4>. HIDE DEF g, M
      <4>2. params'[r] = params[r] /\ queue'[r] = queue[r]
        BY <1>3, <2>2, <3>2
      <4>. QED BY <1>1, <4>1, <4>2
    <3>. QED BY <3>1, <3>2
  <2>5. ParamsAre(w)' /\ Copies(config', w)
    BY <1>5, <1>6, <2>3, <2>4 DEF ParamsAre
  <2>. QED BY <1>a, <2>5 DEF ParamsWorth
<1>. QED BY <1>8, <1>9

-----------------------------------------------------------------------------
(* The flat vector of a rank: its parameters end to end, cut into shards.  *)
NumelsIn(c, r) == NumelsOf(NamesOf(c, r))
ShardIn(c, r) == ShardSize(NumelOf(NumelsIn(c, r)), c.dims.data)
PiecesIn(c, r) == Pieces(ShardIn(c, r), ShardBucket(c.bucket, c.dims.data))
Much(c, r) == Len(PiecesIn(c, r))

(* Element j of parameter n lies at position p of the flat vector.         *)
At(c, r, n, j, p) ==
    \E i \in 1..Len(NamesOf(c, r)) :
        NamesOf(c, r)[i] = n /\ p = TensorBegin(NumelsIn(c, r), i) + j

(* How far the first t pieces of a shard reach.                            *)
Moved(c, r, t) == IF t = 0 THEN 0 ELSE PiecesIn(c, r)[t].offset + PiecesIn(c, r)[t].numel

(* The sizes of the parameters of a rank.                                  *)
LEMMA NumelsAre ==
    ASSUME NEW c, NEW r
    PROVE  /\ NumelsIn(c, r) \in Seq(Nat) /\ Len(NumelsIn(c, r)) = Len(NamesOf(c, r))
           /\ Len(NamesOf(c, r)) \in Nat
           /\ \A i \in 1..Len(NamesOf(c, r)) : NumelsIn(c, r)[i] = Size[NamesOf(c, r)[i]]
<1>. DEFINE names == NamesOf(c, r)
<1>1. names \in Seq(AllNames) /\ \A n \in AllNames : Size[n] \in Nat
  BY NamesType
<1>. HIDE DEF names
<1>2. NumelsOf(names) = [i \in 1..Len(names) |-> Size[names[i]]]
  BY <1>1 DEF NumelsOf
<1>3. \A i \in 1..Len(names) : Size[names[i]] \in Nat
  BY <1>1
<1>4. NumelsOf(names) \in Seq(Nat) /\ Len(NumelsOf(names)) = Len(names)
  BY <1>1, <1>2, <1>3
<1>. QED BY <1>1, <1>2, <1>4 DEF NumelsIn, names

(* The size of a shard, and of the pieces it is moved in.                  *)
LEMMA ShardType ==
    ASSUME NEW c \in Configs, NEW r
    PROVE  /\ NumelOf(NumelsIn(c, r)) \in Nat /\ ShardIn(c, r) \in Nat
           /\ ShardBucket(c.bucket, c.dims.data) \in Nat \ {0}
<1>. DEFINE dp == c.dims.data
            numel == NumelOf(NumelsIn(c, r))
<1>1. dp \in Nat \ {0} /\ c.bucket \in Nat \ {0}
  BY ConfigType
<1>2. numel \in Nat
  BY NumelsAre, NumelOfType
<1>. HIDE DEF numel
<1>3. ShardSize(numel, dp) \in Nat
  <2>1. numel % dp \in 0..(dp - 1)
    BY <1>1, <1>2, DigitsOf
  <2>2. PaddedNumel(numel, dp) \in Nat
    BY <1>1, <1>2, <2>1 DEF PaddedNumel
  <2>. QED BY <1>1, <2>2, DigitsOf DEF ShardSize
<1>4. ShardBucket(c.bucket, dp) \in Nat \ {0}
  <2>1. c.bucket \div dp \in Nat
    BY <1>1, DigitsOf
  <2>. QED BY <2>1 DEF ShardBucket, Most
<1>. QED BY <1>2, <1>3, <1>4 DEF ShardIn, numel

(* The pieces follow one another and fill the shard.                       *)
PiecesFill(pieces, size) ==
    /\ IsList(pieces)
    /\ \A t \in 1..Len(pieces) :
         /\ pieces[t].offset \in Nat /\ pieces[t].numel \in Nat
         /\ pieces[t].offset + pieces[t].numel <= size
         /\ pieces[t].offset = IF t = 1 THEN 0 ELSE pieces[t - 1].offset + pieces[t - 1].numel
    /\ size = IF Len(pieces) = 0 THEN 0
              ELSE pieces[Len(pieces)].offset + pieces[Len(pieces)].numel

(* The pieces of a shard fill it.                                          *)
LEMMA PiecesAre ==
    ASSUME NEW size \in Nat, NEW piece \in Nat \ {0}
    PROVE  PiecesFill(Pieces(size, piece), size)
<1>. DEFINE a == size + piece - 1
            m == a \div piece
            pieces == Pieces(size, piece)
<1>1. a \in Nat
  OBVIOUS
<1>2. m \in Nat /\ m * piece <= a /\ a <= m * piece + piece - 1 /\ m * piece \in Nat
  <2>1. m \in Nat /\ a % piece \in 0..(piece - 1) /\ a = m * piece + (a % piece)
    BY <1>1, DigitsOf
  <2>2. m * piece \in Nat
    BY <2>1
  <2>. HIDE DEF m, a
  <2>. QED BY <1>1, <2>1, <2>2
<1>3. pieces = [k \in 1..m |-> [offset |-> (k - 1) * piece, numel |-> Least(piece, size - (k - 1) * piece)]]
  BY DEF Pieces
<1>. HIDE DEF m, pieces
<1>4. IsList(pieces) /\ Len(pieces) = m
  <2>1. pieces = [k \in 1..m |-> pieces[k]]
    BY <1>3
  <2>. QED BY <1>2, <2>1, ListOf
<1>5. ASSUME NEW t \in 1..m
      PROVE  /\ (t - 1) * piece \in Nat /\ (t - 1) * piece < size
             /\ pieces[t].offset = (t - 1) * piece
             /\ pieces[t].numel = Least(piece, size - (t - 1) * piece)
             /\ t < m => (t - 1) * piece + piece < size
             /\ t = m => size <= (t - 1) * piece + piece
  <2>0. t \in Nat /\ t - 1 \in Nat /\ t <= m
    BY <1>2
  <2>1. (t - 1) * piece \in Nat /\ t * piece \in Nat /\ (t - 1) * piece = t * piece - piece
    BY <2>0
  <2>2. t * piece <= m * piece
    BY <1>2, <2>0
  <2>3. t < m => t * piece + piece <= m * piece
    <3>1. ASSUME t < m PROVE (t + 1) * piece <= m * piece /\ (t + 1) * piece = t * piece + piece
      BY <1>2, <2>0, <3>1
    <3>. QED BY <3>1
  <2>4. (t - 1) * piece < size
    BY <1>2, <2>1, <2>2
  <2>5. t < m => (t - 1) * piece + piece < size
    BY <1>2, <2>1, <2>3
  <2>6. t = m => size <= (t - 1) * piece + piece
    BY <1>2, <2>1
  <2>7. pieces[t] = [offset |-> (t - 1) * piece, numel |-> Least(piece, size - (t - 1) * piece)]
    BY <1>3
  <2>. QED BY <2>1, <2>4, <2>5, <2>6, <2>7
<1>6. ASSUME NEW t \in 1..m
      PROVE  /\ pieces[t].offset \in Nat /\ pieces[t].numel \in Nat
             /\ pieces[t].offset + pieces[t].numel <= size
             /\ t < m => pieces[t].offset + pieces[t].numel = (t - 1) * piece + piece
             /\ t = m => pieces[t].offset + pieces[t].numel = size
  <2>. DEFINE o == (t - 1) * piece
  <2>1. /\ o \in Nat /\ o < size /\ pieces[t].offset = o /\ pieces[t].numel = Least(piece, size - o)
        /\ t < m => o + piece < size
        /\ t = m => size <= o + piece
    BY <1>5
  <2>. HIDE DEF o
  <2>2. Least(piece, size - o) \in Nat /\ o + Least(piece, size - o) <= size
        /\ (t < m => o + Least(piece, size - o) = o + piece)
        /\ (t = m => o + Least(piece, size - o) = size)
    BY <2>1 DEF Least
  <2>. QED BY <2>1, <2>2 DEF o
<1>7. ASSUME NEW t \in 1..m
      PROVE  pieces[t].offset = IF t = 1 THEN 0 ELSE pieces[t - 1].offset + pieces[t - 1].numel
  <2>1. pieces[t].offset = (t - 1) * piece
    BY <1>5
  <2>2. CASE t = 1
    BY <2>1, <2>2
  <2>3. CASE t # 1
    <3>1. PICK u \in 1..m : u = t - 1 /\ u < m
      BY <1>2, <2>3
    <3>2. pieces[u].offset + pieces[u].numel = (u - 1) * piece + piece
      BY <1>6, <3>1
    <3>3. (u - 1) * piece + piece = u * piece
      BY <1>2
    <3>. QED BY <2>1, <2>3, <3>1, <3>2, <3>3
  <2>. QED BY <2>2, <2>3
<1>8. size = IF m = 0 THEN 0 ELSE pieces[m].offset + pieces[m].numel
  <2>1. CASE m = 0
    BY <1>1, <1>2, <2>1
  <2>2. CASE m # 0
    <3>1. m \in 1..m
      BY <1>2, <2>2
    <3>. QED BY <1>6, <2>2, <3>1
  <2>. QED BY <2>1, <2>2
<1>. HIDE DEF a
<1>9. PiecesFill(pieces, size)
  BY <1>4, <1>6, <1>7, <1>8 DEF PiecesFill
<1>. QED BY <1>9 DEF pieces

(* How far the pieces reach, one after the other.                          *)
LEMMA MovedIs ==
    ASSUME NEW c \in Configs, NEW r
    PROVE  /\ Much(c, r) \in Nat
           /\ \A t \in 0..Much(c, r) : Moved(c, r, t) \in 0..ShardIn(c, r)
           /\ Moved(c, r, 0) = 0 /\ Moved(c, r, Much(c, r)) = ShardIn(c, r)
           /\ \A t \in 0..(Much(c, r) - 1) :
                /\ PiecesIn(c, r)[t + 1].offset = Moved(c, r, t)
                /\ PiecesIn(c, r)[t + 1].numel \in Nat
                /\ Moved(c, r, t + 1) = Moved(c, r, t) + PiecesIn(c, r)[t + 1].numel
<1>. DEFINE pieces == PiecesIn(c, r)
            size == ShardIn(c, r)
            m == Len(pieces)
<1>1. PiecesFill(pieces, size)
  BY ShardType, PiecesAre DEF PiecesIn
<1>2. size \in Nat
  BY ShardType
<1>. HIDE DEF pieces, size
<1>3. m \in Nat
  BY <1>1, ListIs DEF PiecesFill
<1>. HIDE DEF m
<1>4. ASSUME NEW t \in 0..m PROVE Moved(c, r, t) \in 0..size
  <2>1. CASE t = 0
    BY <1>2, <2>1 DEF Moved
  <2>2. CASE t # 0
    <3>1. t \in 1..Len(pieces)
      BY <1>3, <2>2 DEF m
    <3>2. pieces[t].offset \in Nat /\ pieces[t].numel \in Nat /\ pieces[t].offset + pieces[t].numel <= size
      BY <1>1, <3>1 DEF PiecesFill
    <3>3. Moved(c, r, t) = pieces[t].offset + pieces[t].numel
      BY <2>2 DEF Moved, pieces
    <3>. QED BY <1>2, <3>2, <3>3
  <2>. QED BY <2>1, <2>2
<1>5. Moved(c, r, 0) = 0 /\ Moved(c, r, m) = size
  BY <1>1, <1>3 DEF Moved, PiecesFill, m, pieces
<1>6. ASSUME NEW t \in 0..(m - 1)
      PROVE  /\ pieces[t + 1].offset = Moved(c, r, t) /\ pieces[t + 1].numel \in Nat
             /\ Moved(c, r, t + 1) = Moved(c, r, t) + pieces[t + 1].numel
  <2>1. PICK u \in 1..Len(pieces) : u = t + 1
    BY <1>3 DEF m
  <2>2. /\ pieces[u].offset \in Nat /\ pieces[u].numel \in Nat
        /\ pieces[u].offset = IF u = 1 THEN 0 ELSE pieces[u - 1].offset + pieces[u - 1].numel
    BY <1>1, <2>1 DEF PiecesFill
  <2>3. u - 1 = t /\ (u = 1 <=> t = 0) /\ u # 0
    BY <1>3, <2>1
  <2>4. pieces[u].offset = Moved(c, r, t)
    BY <2>2, <2>3 DEF Moved, pieces
  <2>5. Moved(c, r, u) = pieces[u].offset + pieces[u].numel
    BY <2>3 DEF Moved, pieces
  <2>. QED BY <2>1, <2>2, <2>4, <2>5
<1>. QED BY <1>3, <1>4, <1>5, <1>6 DEF m, pieces, size, Much

(* The elements of vectors laid end to end.                                *)
LaidOut(c, r, v) == FlattenSeq([i \in DOMAIN NamesOf(c, r) |-> v[NamesOf(c, r)[i]]])

(* Where the elements of the parameters are in the flat vector.            *)
LEMMA FlatAt ==
    ASSUME NEW c, NEW r, NEW v, \A n \in Members(NamesOf(c, r)) : IsVector(v[n], n)
    PROVE  /\ IsList(LaidOut(c, r, v)) /\ Len(LaidOut(c, r, v)) = NumelOf(NumelsIn(c, r))
           /\ \A n \in Members(NamesOf(c, r)) : \A j \in 1..Size[n] : \A p :
                At(c, r, n, j, p) =>
                    p \in 1..Len(LaidOut(c, r, v)) /\ LaidOut(c, r, v)[p] = v[n][j]
<1>. DEFINE names == NamesOf(c, r)
            sizes == NumelsIn(c, r)
            seqs == [i \in DOMAIN names |-> v[names[i]]]
            flat == FlattenSeq(seqs)
            m == Len(names)
<1>1. /\ sizes \in Seq(Nat) /\ Len(sizes) = m /\ m \in Nat
      /\ \A i \in 1..m : sizes[i] = Size[names[i]]
  BY NumelsAre
<1>2. names \in Seq(AllNames) /\ DOMAIN names = 1..m
  <2>1. NamesOf(c, r) \in Seq(AllNames)
    BY NamesType
  <2>. QED BY <2>1
<1>3. LaidOut(c, r, v) = flat
  BY DEF LaidOut
<1>4. seqs = [i \in 1..m |-> seqs[i]] /\ \A i \in 1..m : seqs[i] = v[names[i]]
  BY <1>2
<1>. HIDE DEF names, sizes, seqs, flat, m
<1>5. IsList(seqs) /\ Len(seqs) = m
  BY <1>1, <1>4, ListOf
<1>6. ASSUME NEW i \in 1..m PROVE IsList(seqs[i]) /\ Len(seqs[i]) = sizes[i] /\ Len(seqs[i]) = Size[names[i]]
  <2>1. PICK n : n = names[i]
    OBVIOUS
  <2>2. n \in AllNames /\ n \in Members(names)
    BY <1>2, <2>1 DEF m, Members
  <2>3. IsVector(v[n], n)
    BY <2>2 DEF names
  <2>4. IsList(v[n]) /\ Len(v[n]) = Size[n]
    BY <2>2, <2>3, VectorIs
  <2>. QED BY <1>1, <1>4, <2>1, <2>4
<1>7. Parts(seqs, sizes)
  BY <1>1, <1>5, <1>6 DEF Parts
<1>8. PICK f : Sums(f, sizes)
  BY <1>1, NumelRuns
<1>9. Laid(flat, seqs, f, m)
  <2>1. Laid(FlattenSeq(seqs), seqs, f, Len(sizes))
    BY <1>7, <1>8, FlattenAt
  <2>. QED BY <1>1, <2>1 DEF flat
<1>10. NumelOf(sizes) = f[m] /\ \A i \in 1..m : TensorBegin(sizes, i) = f[i - 1]
  BY <1>1, <1>8, BeginsAt
<1>11. ASSUME NEW n \in Members(names), NEW j \in 1..Size[n], NEW p, At(c, r, n, j, p)
       PROVE  p \in 1..Len(flat) /\ flat[p] = v[n][j]
  <2>1. PICK i \in 1..m : names[i] = n /\ p = TensorBegin(sizes, i) + j
    BY <1>11 DEF At, names, m, sizes
  <2>2. p = f[i - 1] + j /\ j \in 1..Len(seqs[i]) /\ Len(seqs[i]) \in Nat /\ Len(seqs[i]) = sizes[i]
    BY <1>6, <1>10, <2>1, ListIs
  <2>3. flat[p] = v[n][j]
    <3>1. flat[f[i - 1] + j] = seqs[i][j]
      BY <1>9, <2>2 DEF Laid
    <3>. QED BY <1>4, <2>1, <2>2, <3>1
  <2>4. Len(flat) = f[m]
    BY <1>9 DEF Laid
  <2>5. f[i] <= f[m] /\ f[i] = f[i - 1] + sizes[i] /\ f[i - 1] \in Nat /\ f[m] \in Nat
    <3>1. i \in 1..Len(sizes) /\ i - 1 \in 0..Len(sizes) /\ m \in 0..Len(sizes) /\ i \in 0..m
      BY <1>1
    <3>2. f[i] <= f[m]
      BY <1>1, <1>8, <3>1, SumsGrow
    <3>. QED BY <1>8, <3>1, <3>2 DEF Sums
  <2>. QED BY <2>2, <2>3, <2>4, <2>5
<1>12. IsList(flat) /\ Len(flat) = NumelOf(sizes)
  BY <1>9, <1>10 DEF Laid
<1>. QED BY <1>3, <1>11, <1>12 DEF names, sizes

(* A position of the flat vector is in one parameter only.                 *)
LEMMA AtOnce ==
    ASSUME NEW c, NEW r, NEW n \in Members(NamesOf(c, r)), NEW j \in 1..Size[n], NEW p, At(c, r, n, j, p),
           NEW k \in 1..Len(NamesOf(c, r)),
           TensorBegin(NumelsIn(c, r), k) < p, p <= TensorBegin(NumelsIn(c, r), k) + NumelsIn(c, r)[k]
    PROVE  NamesOf(c, r)[k] = n /\ p = TensorBegin(NumelsIn(c, r), k) + j
<1>. DEFINE names == NamesOf(c, r)
            sizes == NumelsIn(c, r)
            m == Len(names)
<1>1. /\ sizes \in Seq(Nat) /\ Len(sizes) = m /\ m \in Nat
      /\ \A i \in 1..m : sizes[i] = Size[names[i]]
  BY NumelsAre
<1>2. PICK i \in 1..m : names[i] = n /\ p = TensorBegin(sizes, i) + j
  BY DEF At
<1>. HIDE DEF names, sizes
<1>3. PICK f : Sums(f, sizes)
  BY <1>1, NumelRuns
<1>4. TensorBegin(sizes, i) = f[i - 1] /\ TensorBegin(sizes, k) = f[k - 1]
  <2>1. \A h \in 1..m : TensorBegin(sizes, h) = f[h - 1]
    BY <1>1, <1>3, BeginsAt
  <2>. QED BY <2>1 DEF names
<1>5. /\ f[i - 1] \in Nat /\ f[k - 1] \in Nat /\ f[i] = f[i - 1] + sizes[i] /\ f[k] = f[k - 1] + sizes[k]
      /\ f[i] \in Nat /\ f[k] \in Nat
  <2>1. i \in 1..Len(sizes) /\ k \in 1..Len(sizes) /\ i \in 0..Len(sizes) /\ k \in 0..Len(sizes)
        /\ i - 1 \in 0..Len(sizes) /\ k - 1 \in 0..Len(sizes)
    BY <1>1 DEF names
  <2>. QED BY <1>3, <2>1 DEF Sums
<1>6. f[k - 1] < p /\ p <= f[k] /\ f[i - 1] < p /\ p <= f[i] /\ p \in Nat
  <2>1. TensorBegin(sizes, k) < p /\ p <= TensorBegin(sizes, k) + sizes[k]
    BY DEF sizes
  <2>2. j \in Nat /\ j > 0 /\ j <= sizes[i] /\ sizes[i] \in Nat
    <3>1. sizes[i] \in Nat
      BY <1>1
    <3>. QED BY <1>1, <1>2, <3>1
  <2>3. PICK b \in Nat : b = f[i - 1]
    BY <1>5
  <2>4. PICK e \in Nat : e = sizes[i]
    BY <2>2
  <2>5. p = b + j /\ f[i] = b + e /\ j <= e
    BY <1>2, <1>4, <1>5, <2>2, <2>3, <2>4
  <2>6. f[k - 1] < p /\ p <= f[k]
    BY <1>4, <1>5, <2>1
  <2>. QED BY <2>2, <2>3, <2>5, <2>6
<1>7. ~(i < k)
  <2>1. SUFFICES ASSUME i < k PROVE FALSE
    OBVIOUS
  <2>2. k - 1 \in 0..Len(sizes) /\ i \in 0..(k - 1)
    BY <1>1, <2>1 DEF names
  <2>3. f[i] <= f[k - 1]
    BY <1>1, <1>3, <2>2, SumsGrow
  <2>. QED BY <1>5, <1>6, <2>3
<1>8. ~(k < i)
  <2>1. SUFFICES ASSUME k < i PROVE FALSE
    OBVIOUS
  <2>2. i - 1 \in 0..Len(sizes) /\ k \in 0..(i - 1)
    BY <1>1, <2>1 DEF names
  <2>3. f[k] <= f[i - 1]
    BY <1>1, <1>3, <2>2, SumsGrow
  <2>. QED BY <1>5, <1>6, <2>3
<1>9. i = k
  BY <1>1, <1>7, <1>8 DEF names
<1>. QED BY <1>2, <1>9 DEF names, sizes

(* What a shard starts as: its part of the parameters.                     *)
Gathered(c, r, v, pad) ==
    GatherShard([i \in DOMAIN NamesOf(c, r) |-> v[NamesOf(c, r)[i]]],
                ShardRanges(NumelsIn(c, r), c.dims.data, DataOf(c, r)), ShardIn(c, r), pad)

(* A shard holds, at each of its positions, the element that lies there.   *)
LEMMA GatheredAt ==
    ASSUME NEW c \in Configs, NEW r \in Ranks(c.dims), NEW pad, NEW v,
           NEW x \in 1..ShardIn(c, r), NEW n \in Members(NamesOf(c, r)), NEW j \in 1..Size[n],
           At(c, r, n, j, DataOf(c, r) * ShardIn(c, r) + x)
    PROVE  Gathered(c, r, v, pad)[x] = v[n][j]
<1>. DEFINE names == NamesOf(c, r)
            sizes == NumelsIn(c, r)
            S == ShardIn(c, r)
            tensors == [i \in DOMAIN names |-> v[names[i]]]
            begin == ShardBegin(NumelOf(sizes), c.dims.data, DataOf(c, r))
            end == begin + ShardSize(NumelOf(sizes), c.dims.data)
            p == DataOf(c, r) * S + x
            B(i) == TensorBegin(sizes, i)
            From(i) == Most(B(i), begin)
            To(i) == Least(B(i) + sizes[i], end)
            Part_(i) == [parameter_index |-> i, parameter_offset |-> From(i) - B(i),
                         shard_offset |-> From(i) - begin, numel |-> To(i) - From(i)]
            ranges == ShardRanges(sizes, c.dims.data, DataOf(c, r))
            at == {g \in ranges : g.shard_offset < x /\ x <= g.shard_offset + g.numel}
<1>1. S \in Nat /\ DataOf(c, r) \in Nat
  BY ConfigType, CoordsOfRank, CoordsType, ShardType DEF DataOf
<1>2. begin = DataOf(c, r) * S /\ end = begin + S /\ begin \in Nat
  <2>1. begin = DataOf(c, r) * S /\ end = begin + S
    BY DEF ShardBegin, ShardIn
  <2>. QED BY <1>1, <2>1
<1>3. ranges = {Part_(i) : i \in {k \in DOMAIN sizes : From(k) < To(k)}}
  BY DEF ShardRanges
<1>4. sizes \in Seq(Nat) /\ Len(sizes) = Len(names) /\ DOMAIN sizes = 1..Len(names)
  <2>1. sizes \in Seq(Nat) /\ Len(sizes) = Len(names)
    BY NumelsAre
  <2>2. DOMAIN sizes = 1..Len(sizes)
    BY <2>1
  <2>. QED BY <2>1, <2>2
<1>5. \A i \in 1..Len(names) : B(i) \in Nat /\ sizes[i] \in Nat
  <2>1. PICK f : Sums(f, sizes)
    BY <1>4, NumelRuns
  <2>2. \A i \in 1..Len(sizes) : TensorBegin(sizes, i) = f[i - 1]
    BY <1>4, <2>1, BeginsAt
  <2>3. \A i \in 1..Len(sizes) : i - 1 \in 0..Len(sizes)
    BY <1>4
  <2>4. \A i \in 1..Len(sizes) : sizes[i] \in Nat
    BY <1>4
  <2>. QED BY <1>4, <2>1, <2>2, <2>3, <2>4 DEF Sums
<1>6. GatherShard(tensors, ranges, S, pad)[x] =
        IF at = {} THEN pad
        ELSE tensors[(CHOOSE g \in at : TRUE).parameter_index]
               [(CHOOSE g \in at : TRUE).parameter_offset + x - (CHOOSE g \in at : TRUE).shard_offset]
  <2>1. x \in 1..S
    OBVIOUS
  <2>2. PICK all : all = ranges
    OBVIOUS
  <2>. HIDE DEF ranges, tensors, S
  <2>. DEFINE here == {g \in all : g.shard_offset < x /\ x <= g.shard_offset + g.numel}
              Of(h) == tensors[h.parameter_index][h.parameter_offset + x - h.shard_offset]
  <2>3. GatherShard(tensors, all, S, pad)[x] = IF here = {} THEN pad ELSE Of(CHOOSE g \in here : TRUE)
    BY <2>1 DEF GatherShard
  <2>. QED BY <2>2, <2>3
<1>7. PICK k \in 1..Len(names) : names[k] = n /\ p = B(k) + j
  BY DEF At
<1>8. begin < p /\ p <= end /\ B(k) < p /\ p <= B(k) + sizes[k] /\ p \in Nat /\ p = begin + x /\ x \in Nat
  <2>1. sizes[k] = Size[n]
    BY <1>7, NumelsAre
  <2>2. p = begin + x /\ x \in Nat /\ x > 0 /\ x <= S
    BY <1>1, <1>2
  <2>. HIDE DEF begin, end, p, B, S
  <2>3. j \in Nat /\ j > 0 /\ j <= sizes[k]
    BY <1>5, <2>1
  <2>4. B(k) \in Nat /\ sizes[k] \in Nat /\ p = B(k) + j
    BY <1>5, <1>7
  <2>5. begin \in Nat /\ end = begin + S /\ S \in Nat
    BY <1>1, <1>2
  <2>6. PICK b \in Nat : b = B(k)
    BY <2>4
  <2>. HIDE DEF sizes
  <2>7. B(k) < p /\ p <= B(k) + sizes[k] /\ p \in Nat
    BY <2>3, <2>4, <2>6
  <2>8. begin < p /\ p <= end
    BY <2>2, <2>5, <2>7
  <2>. QED BY <2>2, <2>7, <2>8
<1>. HIDE DEF begin, end, p, B, S, sizes
<1>9. Part_(k) \in at
  <2>1. From(k) < p /\ p <= To(k) /\ From(k) \in Nat /\ To(k) \in Nat
    <3>1. PICK b \in Nat : b = B(k)
      BY <1>5
    <3>2. sizes[k] \in Nat /\ begin \in Nat /\ end \in Nat
      BY <1>1, <1>2, <1>5
    <3>3. b < p /\ p <= b + sizes[k]
      BY <1>8, <3>1
    <3>. QED BY <1>8, <3>1, <3>2, <3>3 DEF Most, Least
  <2>. HIDE DEF From, To
  <2>2. From(k) < To(k)
    BY <1>8, <2>1
  <2>3. Part_(k) \in ranges
    BY <1>3, <1>4, <2>2
  <2>4. Part_(k).shard_offset = From(k) - begin /\ Part_(k).numel = To(k) - From(k)
    OBVIOUS
  <2>. HIDE DEF Part_, ranges
  <2>5. From(k) - begin < x /\ x <= From(k) - begin + (To(k) - From(k))
    BY <1>2, <1>8, <2>1
  <2>. QED BY <2>3, <2>4, <2>5
<1>10. ASSUME NEW g \in at PROVE tensors[g.parameter_index][g.parameter_offset + x - g.shard_offset] = v[n][j]
  <2>1. PICK i \in 1..Len(names) : g = Part_(i)
    BY <1>3, <1>4
  <2>2. /\ g.parameter_index = i /\ g.parameter_offset = From(i) - B(i)
        /\ g.shard_offset = From(i) - begin /\ g.numel = To(i) - From(i)
    BY <2>1
  <2>3. From(i) - begin < x /\ x <= From(i) - begin + (To(i) - From(i))
    <3>. HIDE DEF From, To, Part_, ranges
    <3>. QED BY <2>2
  <2>4. B(i) \in Nat /\ sizes[i] \in Nat
    BY <1>5
  <2>5. From(i) \in Nat /\ To(i) \in Nat /\ From(i) >= B(i) /\ To(i) <= B(i) + sizes[i]
    <3>1. PICK b \in Nat : b = B(i)
      BY <2>4
    <3>2. PICK z \in Nat : z = sizes[i]
      BY <2>4
    <3>3. begin \in Nat /\ end \in Nat
      BY <1>1, <1>2
    <3>4. From(i) = Most(b, begin) /\ To(i) = Least(b + z, end)
      BY <3>1, <3>2
    <3>. HIDE DEF From, To
    <3>5. From(i) \in Nat /\ From(i) >= b
      BY <3>3, <3>4 DEF Most
    <3>6. To(i) \in Nat /\ To(i) <= b + z
      BY <3>3, <3>4 DEF Least
    <3>. QED BY <3>1, <3>2, <3>5, <3>6
  <2>. HIDE DEF From, To, Part_, ranges
  <2>6. From(i) < p /\ p <= To(i)
    BY <1>2, <1>8, <2>3, <2>5
  <2>7. B(i) < p /\ p <= B(i) + sizes[i]
    BY <1>8, <2>4, <2>5, <2>6
  <2>8. names[i] = n /\ p = B(i) + j
    <3>1. TensorBegin(NumelsIn(c, r), i) < p /\ p <= TensorBegin(NumelsIn(c, r), i) + NumelsIn(c, r)[i]
      BY <2>7 DEF B, sizes
    <3>2. At(c, r, n, j, p)
      BY DEF p, S
    <3>. QED BY <3>1, <3>2, AtOnce DEF B, sizes
  <2>9. g.parameter_offset + x - g.shard_offset = j
    <3>1. PICK b \in Nat : b = B(i)
      BY <2>4
    <3>2. PICK u \in Nat : u = From(i)
      BY <2>5
    <3>3. g.parameter_offset = u - b /\ g.shard_offset = u - begin /\ p = b + j /\ p = begin + x
      BY <1>8, <2>2, <2>8, <3>1, <3>2
    <3>4. j \in Nat /\ x \in Nat
      BY <1>8
    <3>5. PICK e \in Nat : e = begin
      BY <1>2
    <3>6. b + j = e + x
      BY <3>3, <3>5
    <3>7. (u - b) + x - (u - e) = j
      BY <3>4, <3>6
    <3>. QED BY <3>3, <3>5, <3>7
  <2>10. tensors[i] = v[names[i]]
    <3>1. i \in DOMAIN names
      <4>1. names \in Seq(AllNames)
        BY NamesType
      <4>. HIDE DEF names
      <4>. QED BY <4>1
    <3>. QED BY <3>1
  <2>. HIDE DEF at, tensors
  <2>. QED BY <2>2, <2>8, <2>9, <2>10
<1>11. GatherShard(tensors, ranges, S, pad)[x] = v[n][j]
  <2>1. (CHOOSE g \in at : TRUE) \in at
    BY <1>9
  <2>. HIDE DEF at, tensors, ranges, Part_
  <2>2. PICK g : g = (CHOOSE h \in at : TRUE)
    OBVIOUS
  <2>. QED BY <1>6, <1>9, <1>10, <2>1, <2>2
<1>. QED BY <1>11 DEF S, sizes, Gathered, names, tensors, ranges

(* The gradients as they are laid out, zeros where there is none, and what *)
(* the data ranks make of them.                                            *)
Whole(c, s) ==
    [r \in Ranks(c.dims) |-> [n \in Members(NamesOf(c, r)) |-> [j \in 1..Size[n] |->
        IF n \in Wants(c, s, r) THEN PastData(c, s)[r][n][j] ELSE ZeroIn(c)]]]
Meaned(c, s) ==
    [r \in Ranks(c.dims) |-> [n \in Members(NamesOf(c, r)) |-> [j \in 1..Size[n] |->
        ReducedIn(c, "mean", [i \in 1..c.dims.data |-> Whole(c, s)[RingOf(c, r, "data")[i]][n][j]])]]]
FlatOver(c, n) == MergedOver(c, n) \cup {"data"}

(* The mean over the data ranks is the same on all of them.                *)
LEMMA MeanUniform ==
    ASSUME NEW c \in Configs, c.mode = "flat", NEW s, NEW n
    PROVE  Uniform(c, Meaned(c, s), n, FlatOver(c, n))
<1>. SUFFICES ASSUME NEW q \in Ranks(c.dims), NEW r \in Ranks(c.dims),
                     Near(c, q, r, FlatOver(c, n)), n \in Members(NamesOf(c, r))
              PROVE  Meaned(c, s)[q][n] = Meaned(c, s)[r][n]
  BY DEF Uniform
<1>1. MergedOver(c, n) \subseteq Rings /\ "data" \notin MergedOver(c, n) /\ FlatOver(c, n) \subseteq Rings
  BY DEF MergedOver, Merging, FlatOver, Rings
<1>2. NamesOf(c, q) = NamesOf(c, r)
  BY <1>1, NearNames
<1>. DEFINE W == Whole(c, s)
            Of(x) == [j \in 1..Size[n] |-> ReducedIn(c, "mean",
                        [i \in 1..c.dims.data |-> W[RingOf(c, x, "data")[i]][n][j]])]
<1>3. Meaned(c, s)[q][n] = Of(q) /\ Meaned(c, s)[r][n] = Of(r)
  BY <1>2 DEF Meaned
<1>4. ASSUME NEW i \in 1..c.dims.data
      PROVE  W[RingOf(c, q, "data")[i]][n] = W[RingOf(c, r, "data")[i]][n]
  <2>0. "data" \in Rings /\ i \in 1..c.dims["data"]
    BY DEF Rings
  <2>1. PICK x \in Ranks(c.dims) : /\ x = RingOf(c, q, "data")[i]
                                   /\ Coordinates(c.dims, x)["data"] = i - 1 /\ Beside(c, x, q, "data")
    BY <2>0, RingAt
  <2>2. PICK y \in Ranks(c.dims) : /\ y = RingOf(c, r, "data")[i]
                                   /\ Coordinates(c.dims, y)["data"] = i - 1 /\ Beside(c, y, r, "data")
    BY <2>0, RingAt
  <2>3. Near(c, x, y, MergedOver(c, n))
    BY <2>1, <2>2 DEF Near, Beside, FlatOver
  <2>4. NamesOf(c, y) = NamesOf(c, r) /\ NamesOf(c, x) = NamesOf(c, r)
    BY <1>2, <2>0, <2>1, <2>2, NamesAgree
  <2>5. PastData(c, s)[x][n] = PastData(c, s)[y][n]
    <3>1. Uniform(c, PastData(c, s), n, MergedOver(c, n))
      BY GradsUniform
    <3>. QED BY <2>3, <2>4, <3>1 DEF Uniform
  <2>6. n \in Wants(c, s, x) <=> n \in Wants(c, s, y)
    <3>1. DataOf(c, x) = DataOf(c, y)
      BY <2>1, <2>2 DEF DataOf
    <3>. QED BY <2>4, <3>1 DEF Wants, HasGrad
  <2>7. \A z \in Ranks(c.dims) : n \in Members(NamesOf(c, z)) =>
           W[z][n] = [j \in 1..Size[n] |-> IF n \in Wants(c, s, z) THEN PastData(c, s)[z][n][j] ELSE ZeroIn(c)]
    BY DEF Whole
  <2>8. W[x][n] = W[y][n]
    <3>1. n \in Members(NamesOf(c, x)) /\ n \in Members(NamesOf(c, y))
      BY <2>4
    <3>2. W[x][n] = [j \in 1..Size[n] |-> IF n \in Wants(c, s, x) THEN PastData(c, s)[x][n][j] ELSE ZeroIn(c)]
      BY <2>7, <3>1
    <3>3. W[y][n] = [j \in 1..Size[n] |-> IF n \in Wants(c, s, y) THEN PastData(c, s)[y][n][j] ELSE ZeroIn(c)]
      BY <2>7, <3>1
    <3>. HIDE DEF W
    <3>4. PICK u : u = PastData(c, s)[x][n]
      OBVIOUS
    <3>5. W[x][n] = [j \in 1..Size[n] |-> IF n \in Wants(c, s, x) THEN u[j] ELSE ZeroIn(c)]
      BY <3>2, <3>4
    <3>6. W[y][n] = [j \in 1..Size[n] |-> IF n \in Wants(c, s, x) THEN u[j] ELSE ZeroIn(c)]
      BY <2>5, <2>6, <3>3, <3>4
    <3>. QED BY <3>5, <3>6
  <2>. QED BY <2>1, <2>2, <2>8
<1>5. ASSUME NEW j \in 1..Size[n]
      PROVE  [i \in 1..c.dims.data |-> W[RingOf(c, q, "data")[i]][n][j]]
                = [i \in 1..c.dims.data |-> W[RingOf(c, r, "data")[i]][n][j]]
  BY <1>4
<1>6. Of(q) = Of(r)
  BY <1>5
<1>. QED BY <1>3, <1>6

(* The calls that move the pieces of a shard.                              *)
LEMMA ByPieceIs ==
    ASSUME NEW c \in Configs, NEW r, NEW kind
    PROVE  LET calls == ByPiece(c, NamesOf(c, r), kind)
           IN  /\ IsList(calls) /\ Len(calls) = Much(c, r)
               /\ \A t \in 1..Much(c, r) : /\ calls[t].comm = "data" /\ calls[t].kind = kind
                                           /\ calls[t].data = PiecesIn(c, r)[t]
<1>. DEFINE pieces == PiecesIn(c, r)
            calls == ByPiece(c, NamesOf(c, r), kind)
            Nth(i) == Call("data", kind, pieces[i], c.dims.data * pieces[i].numel)
            m == Much(c, r)
<1>1. IsList(pieces)
  BY ShardType, PiecesAre DEF PiecesIn, PiecesFill
<1>2. m \in Nat /\ DOMAIN pieces = 1..m
  BY <1>1, ListIs DEF Much
<1>3. calls = [i \in DOMAIN pieces |-> Nth(i)]
  BY DEF ByPiece, PiecesIn, ShardIn, NumelsIn
<1>. HIDE DEF pieces, calls, m, Nth
<1>4. calls = [i \in 1..m |-> calls[i]] /\ \A t \in 1..m : calls[t] = Nth(t)
  BY <1>2, <1>3
<1>5. IsList(calls) /\ Len(calls) = m
  BY <1>2, <1>4, ListOf
<1>6. ASSUME NEW t \in 1..m PROVE calls[t].comm = "data" /\ calls[t].kind = kind /\ calls[t].data = pieces[t]
  <2>1. calls[t] = [comm |-> "data", kind |-> kind, data |-> pieces[t], size |-> c.dims.data * pieces[t].numel]
    BY <1>4 DEF Nth, Call
  <2>. QED BY <2>1
<1>. QED BY <1>5, <1>6 DEF calls, pieces, m

(* How many pieces of its shard a rank has reduced in a step, and how many *)
(* pieces of the parameters it has received.                               *)
In(c, s, r, k) == Much(c, r) - SyncLeft(c, s, "sync", k, r, "data")
Out(c, r, k) == Len(Shares(c, r)) - k
IsPiece(x, c, r, kind, t) ==
    /\ x.comm = "data" /\ x.kind = kind /\ t \in 0..(Much(c, r) - 1) /\ x.data = PiecesIn(c, r)[t + 1]

(* The call a rank has come to, when the optimizer is the flat one.        *)
FlatTakes(x, c, s, ph, k, r) ==
    /\ ph = "sync" =>
         /\ x.kind \in {"sum", "mean", "scatter", "norm"}
         /\ x.kind # "scatter" => In(c, s, r, k - 1) = In(c, s, r, k)
         /\ x.kind = "scatter" =>
              /\ IsPiece(x, c, r, "scatter", In(c, s, r, k))
              /\ In(c, s, r, k - 1) = In(c, s, r, k) + 1
              /\ \A n \in Wants(c, s, r) : GradAt(c, s, r, k, n) = PastData(c, s)[r][n]
    /\ ph = "share" =>
         /\ ~c.skip /\ Len(Shares(c, r)) = Much(c, r)
         /\ IsPiece(x, c, r, "gather", Out(c, r, k))
         /\ Out(c, r, k - 1) = Out(c, r, k) + 1

(* The call a rank comes to while it synchronises.                         *)
LEMMA SyncPiece ==
    ASSUME NEW c \in Configs, c.mode = "flat", NEW s, NEW r, NEW k \in 1..Len(Script(c, s, r)),
           NEW x, x = Script(c, s, r)[Len(Script(c, s, r)) - k + 1]
    PROVE  FlatTakes(x, c, s, "sync", k, r)
<1>. DEFINE calls == ByPiece(c, NamesOf(c, r), "scatter")
            left == SyncLeft(c, s, "sync", k, r, "data")
            less == SyncLeft(c, s, "sync", k - 1, r, "data")
            m == Much(c, r)
            after(b) == After(c, s, r, b)
            length(b) == Len(Part(c, s, r, b))
<1>1. Part(c, s, r, "data") = calls
  BY DEF Part
<1>2. /\ IsList(calls) /\ Len(calls) = m /\ m \in Nat
      /\ \A t \in 1..m : calls[t].comm = "data" /\ calls[t].kind = "scatter" /\ calls[t].data = PiecesIn(c, r)[t]
  BY ByPieceIs, MovedIs
<1>3. Takes(c, s, r, k, x)
  BY PopSync
<1>4. /\ less = left - (IF x.comm = "data" THEN 1 ELSE 0)
      /\ x.comm = "data" => left > 0 /\ x = calls[m - left + 1]
  <2>1. "data" \in Rings
    BY DEF Rings
  <2>. QED BY <1>1, <1>2, <1>3, <2>1 DEF Takes
<1>5. /\ left = Within(k, 1, m) /\ less = Within(k - 1, 1, m) /\ k \in Nat
      /\ \A b \in Rings : SyncLeft(c, s, "sync", k, r, b) = Within(k, after(b), length(b))
  <2>1. after("data") = 1
    BY DEF After
  <2>2. Len(Script(c, s, r)) \in Nat
    BY ScriptType
  <2>. QED BY <1>1, <1>2, <2>1, <2>2 DEF SyncLeft
<1>6. \A b \in Rings : length(b) \in Nat
  BY PartLength
<1>7. \A b \in {"context", "tensor", "expert"} : after(b) \in Nat /\ after(b) >= 1 + m
  <2>1. length("data") = m
    BY <1>1, <1>2
  <2>. HIDE DEF calls, m
  <2>2. length("expert") \in Nat /\ length("tensor") \in Nat
    BY <1>6 DEF Rings
  <2>3. /\ after("expert") = 1 + (length("data") + 0)
        /\ after("tensor") = 1 + (length("data") + (length("expert") + 0))
        /\ after("context") = 1 + (length("data") + (length("expert") + length("tensor")))
    BY DEF After
  <2>. HIDE DEF after, length
  <2>. QED BY <1>2, <2>1, <2>2, <2>3
<1>. HIDE DEF calls, left, less, m, after, length
<1>8. left \in 0..m
  BY <1>2, <1>5 DEF Within
<1>9. x.kind = "scatter" <=> x.comm = "data"
  <2>1. ASSUME x.comm = "data" PROVE x.kind = "scatter"
    <3>1. m - left + 1 \in 1..m
      BY <1>2, <1>4, <1>8, <2>1
    <3>. QED BY <1>2, <1>4, <2>1, <3>1
  <2>2. ASSUME x.comm # "data", x # NormCall(c) PROVE x.kind \in {"sum", "mean"}
    <3>1. PICK a \in Rings : a = x.comm
      BY <1>3, <2>2 DEF Takes
    <3>2. PICK b \in 1..length(a) : x = Part(c, s, r, a)[b]
      <4>. DEFINE l == SyncLeft(c, s, "sync", k, r, a)
      <4>1. l > 0 /\ x = Part(c, s, r, a)[length(a) - l + 1]
        BY <1>3, <3>1 DEF Takes, length
      <4>2. length(a) \in Nat /\ after(a) \in Nat
        BY AfterType, <1>6 DEF after
      <4>3. l = Within(k, after(a), length(a))
        BY <1>5
      <4>. HIDE DEF l
      <4>4. l \in 0..length(a)
        BY <1>5, <4>2, <4>3 DEF Within
      <4>5. length(a) - l + 1 \in 1..length(a)
        BY <4>1, <4>2, <4>4
      <4>. QED BY <4>1, <4>5
    <3>3. IF Shards(c, a) THEN x.kind = "scatter" ELSE IsBucket(x, OpOf(a))
      BY <3>2, PartCarries DEF length
    <3>4. x.kind = OpOf(a)
      BY <2>2, <3>1, <3>3 DEF Shards, IsBucket
    <3>. QED BY <3>4 DEF OpOf
  <2>3. NormCall(c).kind = "norm" /\ NormCall(c).comm # "data"
    BY DEF NormCall, Call
  <2>. QED BY <2>1, <2>2, <2>3
<1>10. x.kind \in {"sum", "mean", "scatter", "norm"}
  <2>1. NormCall(c).kind = "norm"
    BY DEF NormCall, Call
  <2>. QED BY <1>3, <2>1 DEF Takes, PartKinds
<1>11. In(c, s, r, k) = m - left /\ In(c, s, r, k - 1) = m - less
  BY DEF In, m, left, less
<1>12. ASSUME x.kind # "scatter" PROVE In(c, s, r, k - 1) = In(c, s, r, k)
  <2>1. less = left
    BY <1>4, <1>8, <1>9, <1>12
  <2>. QED BY <1>11, <2>1
<1>13. ASSUME x.kind = "scatter"
       PROVE  /\ IsPiece(x, c, r, "scatter", In(c, s, r, k))
              /\ In(c, s, r, k - 1) = In(c, s, r, k) + 1
              /\ \A n \in Wants(c, s, r) : GradAt(c, s, r, k, n) = PastData(c, s)[r][n]
  <2>1. x.comm = "data" /\ left > 0 /\ less = left - 1 /\ x = calls[m - left + 1]
    BY <1>4, <1>9, <1>13
  <2>2. m - left + 1 \in 1..m /\ m - left \in 0..(m - 1) /\ m - less = (m - left) + 1
    BY <1>2, <1>8, <2>1
  <2>3. IsPiece(x, c, r, "scatter", m - left)
    <3>1. x.comm = "data" /\ x.kind = "scatter" /\ x.data = PiecesIn(c, r)[m - left + 1]
      BY <1>2, <2>1, <2>2
    <3>. QED BY <2>2, <3>1 DEF IsPiece, m
  <2>4. k <= 1 + m
    BY <1>2, <1>5, <2>1 DEF Within
  <2>5. ASSUME NEW n \in Wants(c, s, r), NEW a \in {"context", "tensor", "expert"}
        PROVE  ~Waiting(c, s, r, a, k, n)
    <3>1. after(a) \in Nat /\ after(a) >= 1 + m /\ length(a) \in Nat
      BY <1>6, <1>7 DEF Rings
    <3>2. SyncLeft(c, s, "sync", k, r, a) = 0
      <4>1. k <= after(a)
        BY <1>2, <1>5, <2>4, <3>1
      <4>2. SyncLeft(c, s, "sync", k, r, a) = Within(k, after(a), length(a))
        BY <1>5 DEF Rings
      <4>. QED BY <4>1, <4>2 DEF Within
    <3>3. IsList(Part(c, s, r, a))
      BY PartLength DEF Rings
    <3>. QED BY <3>2, <3>3, AwaitsEnds DEF Waiting
  <2>6. ASSUME NEW n \in Wants(c, s, r) PROVE ~Waiting(c, s, r, "data", k, n)
    <3>1. \A t \in 1..Len(Part(c, s, r, "data")) : ~Carries(Part(c, s, r, "data")[t], n)
      BY <1>1, <1>2 DEF Carries
    <3>. QED BY <3>1 DEF Waiting, Awaits
  <2>7. \A n \in Wants(c, s, r) : GradAt(c, s, r, k, n) = PastData(c, s)[r][n]
    BY <2>5, <2>6 DEF GradAt
  <2>. QED BY <1>11, <2>2, <2>3, <2>7
<1>. QED BY <1>10, <1>12, <1>13 DEF FlatTakes

(* The call a rank has come to, under the flat optimizer.                  *)
LEMMA FlatCall ==
    ASSUME CollInv, config.mode = "flat", NEW r \in RanksHere, queue[r] # <<>>
    PROVE  /\ phase[r] \in {"sync", "share"}
           /\ FlatTakes(Now(r), config, step[r], phase[r], Len(queue[r]), r)
<1>. DEFINE c == config
            s == step[r]
            k == Len(queue[r])
            x == Now(r)
<1>1. /\ c \in Configs /\ phase[r] \in {"sync", "share"} /\ k > 0 /\ Counted(c, s, phase[r], k, r)
      /\ x = CallAt(c, s, phase[r], k, r) /\ k \in Nat
  BY NowIs DEF CollInv, ConfigAs, QueuesAs
<1>. HIDE DEF x, s, k
<1>2. CASE phase[r] = "sync"
  <2>1. Len(Script(c, s, r)) \in Nat
    BY <1>1, ScriptType
  <2>2. k \in 1..Len(Script(c, s, r)) /\ x = Script(c, s, r)[Len(Script(c, s, r)) - k + 1]
    BY <1>1, <1>2, <2>1 DEF Counted, CallAt
  <2>3. FlatTakes(x, c, s, "sync", k, r)
    BY <1>1, <2>2, SyncPiece
  <2>. QED BY <1>2, <2>3 DEF x, s, k
<1>3. CASE phase[r] = "share"
  <2>. DEFINE m == Much(c, r)
              calls == Shares(c, r)
  <2>1. /\ k <= Len(calls) /\ x = calls[Len(calls) - k + 1] /\ IsList(calls) /\ Len(calls) \in Nat
    BY <1>1, <1>3, SharesLength DEF Counted, CallAt
  <2>2. ~c.skip
    <3>1. c.skip => calls = <<>>
      BY DEF Shares
    <3>2. Len(<<>>) = 0
      OBVIOUS
    <3>. QED BY <1>1, <2>1, <3>1, <3>2
  <2>3. calls = ByPiece(c, NamesOf(c, r), "gather")
    BY <2>2 DEF Shares
  <2>4. /\ Len(calls) = m
        /\ \A t \in 1..m : calls[t].comm = "data" /\ calls[t].kind = "gather" /\ calls[t].data = PiecesIn(c, r)[t]
    BY <1>1, <2>3, ByPieceIs
  <2>. HIDE DEF calls, m
  <2>5. m - k + 1 \in 1..m /\ m - k \in 0..(m - 1) /\ m - (k - 1) = (m - k) + 1 /\ x = calls[m - k + 1]
    BY <1>1, <2>1, <2>4
  <2>6. Out(c, r, k) = m - k /\ Out(c, r, k - 1) = m - (k - 1)
    BY <2>4 DEF Out, calls
  <2>7. IsPiece(x, c, r, "gather", m - k)
    <3>1. x.comm = "data" /\ x.kind = "gather" /\ x.data = PiecesIn(c, r)[m - k + 1]
      BY <2>4, <2>5
    <3>. QED BY <2>5, <3>1 DEF IsPiece, m
  <2>8. FlatTakes(x, c, s, "share", k, r)
    BY <2>2, <2>4, <2>5, <2>6, <2>7 DEF FlatTakes, m, calls
  <2>. QED BY <1>3, <2>8 DEF x, s, k
<1>. QED BY <1>1, <1>2, <1>3

(* Ranks that hold the same part of a parameter differ only along the axes *)
(* whose collectives join them.                                            *)
LEMMA SlicesNear ==
    ASSUME ConfigAs, NEW q \in RanksHere, NEW r \in RanksHere, NEW n \in Members(Names(r)),
           SameSlice(q, r, n), n = "embed" => SameStage(q, r)
    PROVE  Near(config, q, r, FlatOver(config, n))
<1>1. /\ config \in Configs /\ P = config.dims /\ Names(r) = NamesOf(config, r)
      /\ Info(q) = Coordinates(P, q) /\ Info(r) = Coordinates(P, r)
  BY AsConfigured
<1>2. n \in AllNames
  BY <1>1, NamesType
<1>3. \A a \in SplitAlong(n) : Coordinates(config.dims, q)[a] = Coordinates(config.dims, r)[a]
  BY <1>1 DEF SameSlice
<1>4. n = "embed" => Coordinates(config.dims, q)["pipeline"] = Coordinates(config.dims, r)["pipeline"]
  BY <1>1 DEF SameStage
<1>5. \A a \in Axes \ FlatOver(config, n) : a \in SplitAlong(n) \/ (n = "embed" /\ a = "pipeline")
  <2>1. "context" \in FlatOver(config, n) /\ "data" \in FlatOver(config, n)
    BY <1>2 DEF FlatOver, MergedOver, Merging, Rings
  <2>2. n = "norm" => "tensor" \in FlatOver(config, n)
    BY DEF FlatOver, MergedOver, Merging, Rings, TpReplicated
  <2>3. n \in {"embed", "norm", "proj"} => "expert" \in FlatOver(config, n)
    BY DEF FlatOver, MergedOver, Merging, Rings, EpReplicated
  <2>4. \A a \in Axes : a \in {"pipeline", "tensor", "data", "context", "expert"}
    BY DEF Axes
  <2>. QED BY <1>2, <2>1, <2>2, <2>3, <2>4 DEF AllNames, SplitAlong
<1>. QED BY <1>3, <1>4, <1>5 DEF Near

(* Replicas agree when the parameters do along the rings that merge them.  *)
LEMMA AgreeFrom ==
    ASSUME ConfigAs, NEW v, \A n \in AllNames : Uniform(config, v, n, FlatOver(config, n)),
           \A r \in RanksHere : \A n \in Members(NamesOf(config, r)) : params[r][n] = v[r][n]
    PROVE  ReplicasAgree
<1>. SUFFICES ASSUME NEW q \in RanksHere, NEW r \in RanksHere, NEW n \in Members(Names(r)),
                     SameSlice(q, r, n), n = "embed" => SameStage(q, r)
              PROVE  params[q][n] = params[r][n]
  BY DEF ReplicasAgree
<1>1. /\ config \in Configs /\ RanksHere = Ranks(config.dims)
      /\ Names(q) = NamesOf(config, q) /\ Names(r) = NamesOf(config, r)
  BY AsConfigured, InConfig
<1>2. Near(config, q, r, FlatOver(config, n))
  BY SlicesNear
<1>3. n \in AllNames /\ n \in Members(NamesOf(config, q)) /\ n \in Members(NamesOf(config, r))
  BY <1>1, NamesType DEF SameSlice, Holds
<1>4. v[q][n] = v[r][n]
  BY <1>1, <1>2, <1>3 DEF Uniform
<1>. QED BY <1>3, <1>4

(* Without the flat optimizer.                                             *)
LEMMA WholeAgree ==
    ASSUME CollInv, ParamsWorth, config.mode # "flat"
    PROVE  ReplicasAgree
<1>. SUFFICES ASSUME AllDone PROVE ReplicasAgree
  BY DEF ReplicasAgree
<1>1. /\ ConfigAs /\ config \in Configs /\ RanksHere = Ranks(config.dims) /\ StepsAs
  BY InConfig DEF CollInv, ConfigAs
<1>2. PICK w : Copies(config, w) /\ ParamsAre(w)
  BY DEF ParamsWorth
<1>4. PICK s \in 0..MaxSteps : \A r \in RanksHere : step[r] = s
  <2>1. MaxSteps \in Nat
    BY TrainAssumption
  <2>2. CASE RanksHere = {}
    BY <2>1, <2>2
  <2>3. CASE RanksHere # {}
    <3>1. PICK q \in RanksHere : TRUE
      BY <2>3
    <3>. QED BY <1>1, <3>1 DEF StepsAs
  <2>. QED BY <2>2, <2>3
<1>5. PICK v : v = Settled(config, s, w)
  OBVIOUS
<1>6. Copies(config, v)
  BY <1>1, <1>2, <1>5, SettledCopies
<1>7. ASSUME NEW r \in RanksHere, NEW n \in Members(NamesOf(config, r))
      PROVE  params[r][n] = v[r][n]
  <2>1. phase[r] = "share" /\ queue[r] = <<>> /\ step[r] = s
    BY <1>4 DEF AllDone
  <2>2. params[r][n] = ParamAt(config, s, "share", 0, w, r, n)
    <3>1. Len(<<>>) = 0
      OBVIOUS
    <3>. QED BY <1>2, <2>1, <3>1 DEF ParamsAre
  <2>. QED BY <1>1, <1>5, <2>2, AllSent
<1>8. \A n \in AllNames : Uniform(config, v, n, FlatOver(config, n))
  <2>1. \A n \in AllNames : FlatOver(config, n) = MergedOver(config, n)
    BY DEF FlatOver, MergedOver, Merging, Rings
  <2>. QED BY <1>6, <2>1 DEF Copies
<1>. QED BY <1>1, <1>7, <1>8, AgreeFrom

-----------------------------------------------------------------------------
(* What parameters, shards and reduced gradients are in the course of a    *)
(* step of the flat optimizer: w is what the parameters were at its        *)
(* beginning, z the norm.                                                  *)
DueAt(c, s, z, w, r, n, j) ==
    IF s = 0 \/ c.skip THEN w[r][n][j]
    ELSE Append(w[r][n][j], [grad |-> Meaned(c, s)[r][n][j], norm |-> z])

(* The positions of the flat vector that the first t pieces of all shards  *)
(* make up.                                                                *)
Covered(c, r, t, p) ==
    \E m \in 1..c.dims.data :
        (m - 1) * ShardIn(c, r) < p /\ p <= (m - 1) * ShardIn(c, r) + Moved(c, r, t)

FlatElem(c, s, ph, t, z, w, r, n, j, p) ==
    IF ph = "share" /\ Covered(c, r, t, p) THEN DueAt(c, s, z, w, r, n, j) ELSE w[r][n][j]
FlatVector(v, c, s, ph, t, z, w, r, n) ==
    /\ IsVector(v, n)
    /\ \A j \in 1..Size[n] : \A p : At(c, r, n, j, p) => v[j] = FlatElem(c, s, ph, t, z, w, r, n, j, p)
FlatVectors(v, c, s, ph, t, z, w, r) ==
    /\ DOMAIN v = Members(NamesOf(c, r))
    /\ \A n \in Members(NamesOf(c, r)) : FlatVector(v[n], c, s, ph, t, z, w, r, n)
FlatParamsAre(w) ==
    /\ DOMAIN params = RanksHere
    /\ \A r \in RanksHere :
         FlatVectors(params[r], config, step[r], phase[r], Out(config, r, Len(queue[r])), norm[r], w, r)

(* The shard holds the elements of its range, updated when the gathering   *)
(* begins.                                                                 *)
ShardElem(c, s, ph, z, w, r, n, j) ==
    IF ph = "share" THEN DueAt(c, s, z, w, r, n, j) ELSE w[r][n][j]
InShard(c, r, n, j, x) == At(c, r, n, j, DataOf(c, r) * ShardIn(c, r) + x)
ShardIs(v, c, s, ph, z, w, r) ==
    /\ v = [x \in 1..ShardIn(c, r) |-> v[x]]
    /\ \A x \in 1..ShardIn(c, r) : \A n \in Members(NamesOf(c, r)) : \A j \in 1..Size[n] :
         InShard(c, r, n, j, x) => v[x] = ShardElem(c, s, ph, z, w, r, n, j)
ShardsAre(w) ==
    /\ DOMAIN shard = RanksHere
    /\ \A r \in RanksHere : ShardIs(shard[r], config, step[r], phase[r], norm[r], w, r)

(* And its reduced gradients the means over the data ranks, as far as the  *)
(* pieces have been scattered.                                             *)
ReducedTo(v, c, s, r, much) ==
    /\ IsList(v) /\ Len(v) = much
    /\ \A x \in 1..much : \A n \in Members(NamesOf(c, r)) : \A j \in 1..Size[n] :
         InShard(c, r, n, j, x) => v[x] = Meaned(c, s)[r][n][j]
GshardIs(v, c, s, ph, k, r) ==
    /\ ph = "backward" => v = <<>>
    /\ ph = "sync" => ReducedTo(v, c, s, r, Moved(c, r, In(c, s, r, k)))
GshardsAre ==
    /\ DOMAIN gshard = RanksHere
    /\ \A r \in RanksHere : GshardIs(gshard[r], config, step[r], phase[r], Len(queue[r]), r)

(* The flat optimizer makes the data ranks copies of each other too, and w *)
(* is in the parameters, in the shards and in the reduced shards.          *)
FlatCopies(c, w) == Vectors(c, w) /\ \A n \in AllNames : Uniform(c, w, n, FlatOver(c, n))
FlatWorth ==
    config.mode = "flat" =>
        GshardsAre /\ \E w : FlatCopies(config, w) /\ FlatParamsAre(w) /\ ShardsAre(w) /\ Dated(w)

(* No pieces make up no position.                                          *)
LEMMA NothingCovered ==
    ASSUME NEW c \in Configs, NEW r, NEW p \in Nat PROVE ~Covered(c, r, 0, p)
<1>1. Moved(c, r, 0) = 0 /\ ShardIn(c, r) \in Nat /\ c.dims.data \in Nat
  BY MovedIs, ShardType, ConfigType
<1>. DEFINE S == ShardIn(c, r)
<1>. SUFFICES ASSUME NEW m \in 1..c.dims.data, (m - 1) * S < p, p <= (m - 1) * S + 0 PROVE FALSE
  BY <1>1 DEF Covered
<1>2. PICK b \in Nat : b = (m - 1) * S
  <2>1. m - 1 \in Nat
    BY <1>1
  <2>. HIDE DEF S
  <2>2. S \in Nat
    BY <1>1 DEF S
  <2>. QED BY <2>1, <2>2
<1>3. b < p /\ p <= b + 0
  BY <1>2
<1>. QED BY <1>2, <1>3

(* Every element lies somewhere in the flat vector.                        *)
LEMMA AtType ==
    ASSUME NEW c, NEW r, NEW n \in Members(NamesOf(c, r)), NEW j \in 1..Size[n]
    PROVE  (\E p : At(c, r, n, j, p)) /\ (\A p : At(c, r, n, j, p) => p \in Nat)
<1>. DEFINE names == NamesOf(c, r)
            sizes == NumelsIn(c, r)
<1>1. names \in Seq(AllNames) /\ sizes \in Seq(Nat) /\ Len(sizes) = Len(names)
  BY NamesType, NumelsAre
<1>2. PICK i \in 1..Len(names) : names[i] = n
  BY <1>1 DEF Members
<1>3. \A k \in 1..Len(names) : TensorBegin(sizes, k) \in Nat
  <2>. HIDE DEF names, sizes
  <2>1. PICK f : Sums(f, sizes)
    BY <1>1, NumelRuns
  <2>2. \A k \in 1..Len(sizes) : TensorBegin(sizes, k) = f[k - 1]
    BY <1>1, <2>1, BeginsAt
  <2>3. ASSUME NEW k \in 1..Len(names) PROVE TensorBegin(sizes, k) \in Nat
    <3>1. k \in 1..Len(sizes) /\ k - 1 \in 0..Len(sizes)
      BY <1>1
    <3>. QED BY <2>1, <2>2, <3>1 DEF Sums
  <2>. QED BY <2>3
<1>4. Size[n] \in Nat
  BY NamesType
<1>. HIDE DEF names, sizes
<1>5. At(c, r, n, j, TensorBegin(sizes, i) + j)
  BY <1>2 DEF At, names, sizes
<1>6. ASSUME NEW p, At(c, r, n, j, p) PROVE p \in Nat
  <2>1. PICK k \in 1..Len(names) : p = TensorBegin(sizes, k) + j
    BY <1>6 DEF At, names, sizes
  <2>2. TensorBegin(sizes, k) \in Nat
    BY <1>3
  <2>. QED BY <1>4, <2>1, <2>2
<1>. QED BY <1>5, <1>6

(* Ranks with the same parameters lay them out in the same way.            *)
LEMMA SameLayout ==
    ASSUME NEW c, NEW q, NEW r, NamesOf(c, q) = NamesOf(c, r)
    PROVE  /\ \A n, j, p : At(c, q, n, j, p) <=> At(c, r, n, j, p)
           /\ ShardIn(c, q) = ShardIn(c, r) /\ PiecesIn(c, q) = PiecesIn(c, r) /\ Much(c, q) = Much(c, r)
           /\ \A t, p : Covered(c, q, t, p) <=> Covered(c, r, t, p)
           /\ c.mode = "flat" => Shares(c, q) = Shares(c, r)
<1>1. NumelsIn(c, q) = NumelsIn(c, r)
  BY DEF NumelsIn
<1>2. ShardIn(c, q) = ShardIn(c, r)
  BY <1>1 DEF ShardIn
<1>3. PiecesIn(c, q) = PiecesIn(c, r)
  BY <1>2 DEF PiecesIn
<1>4. \A t : Moved(c, q, t) = Moved(c, r, t)
  BY <1>3 DEF Moved
<1>5. \A n, j, p : At(c, q, n, j, p) <=> At(c, r, n, j, p)
  BY <1>1 DEF At
<1>6. \A t, p : Covered(c, q, t, p) <=> Covered(c, r, t, p)
  BY <1>2, <1>4 DEF Covered
<1>7. c.mode = "flat" => Shares(c, q) = Shares(c, r)
  BY DEF Shares
<1>. QED BY <1>2, <1>3, <1>5, <1>6, <1>7 DEF Much

(* When everything has been gathered the parameters are the same on the    *)
(* ranks that hold them.                                                   *)
LEMMA GatheredCopies ==
    ASSUME NEW c \in Configs, c.mode = "flat", NEW s, NEW z, NEW w, FlatCopies(c, w), NEW v,
           \A r \in Ranks(c.dims) : FlatVectors(v[r], c, s, "share", Out(c, r, 0), z, w, r)
    PROVE  FlatCopies(c, v)
<1>1. Vectors(c, v)
  BY DEF Vectors, FlatVectors, FlatVector
<1>2. ASSUME NEW n \in AllNames, NEW q \in Ranks(c.dims), NEW r \in Ranks(c.dims),
             Near(c, q, r, FlatOver(c, n)), n \in Members(NamesOf(c, r))
      PROVE  v[q][n] = v[r][n]
  <2>1. NamesOf(c, q) = NamesOf(c, r)
    <3>1. FlatOver(c, n) \subseteq Rings
      BY DEF FlatOver, MergedOver, Rings
    <3>. QED BY <1>2, <3>1, NearNames
  <2>2. /\ w[q][n] = w[r][n] /\ Meaned(c, s)[q][n] = Meaned(c, s)[r][n]
    <3>1. Uniform(c, Meaned(c, s), n, FlatOver(c, n))
      BY MeanUniform
    <3>. QED BY <1>2, <3>1 DEF FlatCopies, Uniform
  <2>3. \A j, p : FlatElem(c, s, "share", Out(c, q, 0), z, w, q, n, j, p)
                    = FlatElem(c, s, "share", Out(c, r, 0), z, w, r, n, j, p)
    <3>1. Shares(c, q) = Shares(c, r) /\ \A t, p : Covered(c, q, t, p) <=> Covered(c, r, t, p)
      BY <2>1, SameLayout
    <3>2. Out(c, q, 0) = Out(c, r, 0)
      BY <3>1 DEF Out
    <3>3. \A j : DueAt(c, s, z, w, q, n, j) = DueAt(c, s, z, w, r, n, j)
      BY <2>2 DEF DueAt
    <3>. QED BY <2>2, <3>1, <3>2, <3>3 DEF FlatElem
  <2>4. FlatVector(v[q][n], c, s, "share", Out(c, q, 0), z, w, q, n)
        /\ FlatVector(v[r][n], c, s, "share", Out(c, r, 0), z, w, r, n)
    BY <1>2, <2>1 DEF FlatVectors
  <2>5. ASSUME NEW j \in 1..Size[n] PROVE v[q][n][j] = v[r][n][j]
    <3>1. PICK p : At(c, r, n, j, p)
      BY <1>2, AtType
    <3>2. At(c, q, n, j, p)
      BY <2>1, <3>1, SameLayout
    <3>3. v[q][n][j] = FlatElem(c, s, "share", Out(c, q, 0), z, w, q, n, j, p)
      BY <2>4, <3>2 DEF FlatVector
    <3>4. v[r][n][j] = FlatElem(c, s, "share", Out(c, r, 0), z, w, r, n, j, p)
      BY <2>4, <3>1 DEF FlatVector
    <3>. QED BY <2>3, <3>3, <3>4
  <2>6. IsVector(v[q][n], n) /\ IsVector(v[r][n], n)
    BY <2>4 DEF FlatVector
  <2>. QED BY <2>5, <2>6 DEF IsVector
<1>3. \A n \in AllNames : Uniform(c, v, n, FlatOver(c, n))
  BY <1>2 DEF Uniform
<1>. QED BY <1>1, <1>3 DEF FlatCopies

(* An element of a shard is among the parameters that have been gathered.  *)
LEMMA ShardGathered ==
    ASSUME NEW c \in Configs, c.mode = "flat", NEW r \in Ranks(c.dims), NEW s, NEW z, NEW w,
           NEW v, FlatVectors(v, c, s, "share", Out(c, r, 0), z, w, r),
           NEW u, ShardIs(u, c, s, "share", z, w, r),
           NEW x \in 1..ShardIn(c, r), NEW n \in Members(NamesOf(c, r)), NEW j \in 1..Size[n],
           InShard(c, r, n, j, x)
    PROVE  u[x] = v[n][j]
<1>. DEFINE S == ShardIn(c, r)
            d == DataOf(c, r)
            p == d * S + x
            t == Out(c, r, 0)
<1>1. u[x] = DueAt(c, s, z, w, r, n, j)
  BY DEF ShardIs, ShardElem
<1>2. v[n][j] = IF Covered(c, r, t, p) THEN DueAt(c, s, z, w, r, n, j) ELSE w[r][n][j]
  BY DEF FlatVectors, FlatVector, FlatElem, InShard
<1>3. CASE c.skip
  BY <1>1, <1>2, <1>3 DEF DueAt
<1>4. CASE ~c.skip
  <2>1. t = Much(c, r)
    <3>1. Shares(c, r) = ByPiece(c, NamesOf(c, r), "gather")
      BY <1>4 DEF Shares
    <3>2. Len(Shares(c, r)) = Much(c, r) /\ Much(c, r) \in Nat
      BY <3>1, ByPieceIs, MovedIs
    <3>. QED BY <3>2 DEF Out
  <2>2. Moved(c, r, t) = S /\ S \in Nat
    BY <2>1, MovedIs, ShardType
  <2>3. d \in 0..(c.dims.data - 1) /\ c.dims.data \in Nat
    BY ConfigType, CoordsOfRank, CoordsType DEF DataOf
  <2>. HIDE DEF d, t
  <2>4. d + 1 \in 1..c.dims.data /\ (d + 1) - 1 = d
    BY <2>3
  <2>5. d * S < p /\ p <= d * S + S
    <3>1. d * S \in Nat
      BY <2>2, <2>3
    <3>2. x \in 1..S
      OBVIOUS
    <3>. HIDE DEF S
    <3>3. PICK b \in Nat : b = d * S
      BY <3>1
    <3>. QED BY <2>2, <3>2, <3>3
  <2>6. Covered(c, r, t, p)
    <3>. HIDE DEF p
    <3>1. (d + 1 - 1) * S < p /\ p <= (d + 1 - 1) * S + Moved(c, r, t)
      BY <2>2, <2>4, <2>5
    <3>. QED BY <2>4, <3>1 DEF Covered
  <2>. QED BY <1>1, <1>2, <2>6
<1>. QED BY <1>3, <1>4

(* The shards are no shorter than the flat vector.                         *)
LEMMA ShardsSuffice ==
    ASSUME NEW c \in Configs, NEW r
    PROVE  NumelOf(NumelsIn(c, r)) <= c.dims.data * ShardIn(c, r)
<1>. DEFINE dp == c.dims.data
            numel == NumelOf(NumelsIn(c, r))
            padded == PaddedNumel(numel, dp)
            a == numel \div dp
            b == numel % dp
<1>1. dp \in Nat \ {0} /\ numel \in Nat
  BY ConfigType, ShardType
<1>. HIDE DEF dp, numel
<1>2. a \in Nat /\ b \in 0..(dp - 1) /\ numel = a * dp + b
  BY <1>1, DigitsOf
<1>. HIDE DEF a
<1>3. CASE b = 0
  <2>1. padded = numel
    BY <1>3 DEF PaddedNumel
  <2>2. padded = a * dp + 0 /\ 0 \in 0..(dp - 1)
    BY <1>1, <1>2, <1>3, <2>1
  <2>3. (a * dp + 0) \div dp = a
    BY <1>1, <1>2, <2>2, DigitIs
  <2>4. ShardIn(c, r) = a
    BY <2>2, <2>3 DEF ShardIn, ShardSize, dp, numel
  <2>5. numel = dp * a
    BY <1>1, <1>2, <1>3
  <2>. QED BY <1>1, <2>4, <2>5 DEF dp, numel
<1>4. CASE b # 0
  <2>1. padded = numel + dp - b
    BY <1>4 DEF PaddedNumel
  <2>. HIDE DEF b, padded
  <2>2. a * dp \in Nat /\ (a + 1) * dp = a * dp + dp /\ a + 1 \in Nat /\ (a + 1) * dp \in Nat
    BY <1>1, <1>2
  <2>3. padded = (a + 1) * dp + 0 /\ 0 \in 0..(dp - 1) /\ numel <= (a + 1) * dp
    BY <1>1, <1>2, <2>1, <2>2
  <2>4. ((a + 1) * dp + 0) \div dp = a + 1
    BY <1>1, <2>2, <2>3, DigitIs
  <2>5. ShardIn(c, r) = a + 1
    BY <2>3, <2>4 DEF ShardIn, ShardSize, dp, numel, padded
  <2>6. (a + 1) * dp = dp * (a + 1)
    BY <1>1, <2>2
  <2>. QED BY <2>3, <2>5, <2>6 DEF dp, numel
<1>. QED BY <1>3, <1>4

(* Every element lies within the flat vector.                              *)
LEMMA AtWithin ==
    ASSUME NEW c, NEW r, NEW n \in Members(NamesOf(c, r)), NEW j \in 1..Size[n], NEW p, At(c, r, n, j, p)
    PROVE  p \in Nat /\ 1 <= p /\ p <= NumelOf(NumelsIn(c, r))
<1>. DEFINE names == NamesOf(c, r)
            sizes == NumelsIn(c, r)
<1>1. /\ sizes \in Seq(Nat) /\ Len(sizes) = Len(names) /\ Len(names) \in Nat
      /\ \A i \in 1..Len(names) : sizes[i] = Size[names[i]]
  BY NumelsAre
<1>2. PICK i \in 1..Len(names) : names[i] = n /\ p = TensorBegin(sizes, i) + j
  BY DEF At
<1>. HIDE DEF names, sizes
<1>3. PICK f : Sums(f, sizes)
  BY <1>1, NumelRuns
<1>4. NumelOf(sizes) = f[Len(sizes)] /\ TensorBegin(sizes, i) = f[i - 1]
  BY <1>1, <1>2, <1>3, BeginsAt
<1>5. i \in 1..Len(sizes) /\ i - 1 \in 0..Len(sizes) /\ i \in 0..Len(sizes)
      /\ Len(sizes) \in 0..Len(sizes) /\ i \in 0..Len(sizes)
  BY <1>1, <1>2
<1>6. f[i] <= f[Len(sizes)]
  BY <1>1, <1>3, <1>5, SumsGrow
<1>7. f[i] = f[i - 1] + sizes[i] /\ f[i] \in Nat /\ f[i - 1] \in Nat /\ f[Len(sizes)] \in Nat
  BY <1>3, <1>5 DEF Sums
<1>8. sizes[i] = Size[n] /\ Size[n] \in Nat
  BY <1>1, <1>2, NamesType
<1>. QED BY <1>2, <1>4, <1>6, <1>7, <1>8 DEF sizes

(* When all pieces have been gathered, so has every element.               *)
LEMMA AllCovered ==
    ASSUME NEW c \in Configs, NEW r, NEW n \in Members(NamesOf(c, r)), NEW j \in 1..Size[n],
           NEW p, At(c, r, n, j, p)
    PROVE  Covered(c, r, Much(c, r), p)
<1>. DEFINE dp == c.dims.data
            S == ShardIn(c, r)
            m == ((p - 1) \div S) + 1
            b == (p - 1) % S
<1>1. dp \in Nat \ {0} /\ S \in Nat /\ Moved(c, r, Much(c, r)) = S
  BY ConfigType, ShardType, MovedIs
<1>2. p \in Nat /\ 1 <= p /\ p <= dp * S
  <2>1. NumelOf(NumelsIn(c, r)) <= dp * S /\ NumelOf(NumelsIn(c, r)) \in Nat
    BY ShardsSuffice, ShardType
  <2>2. p \in Nat /\ 1 <= p /\ p <= NumelOf(NumelsIn(c, r))
    BY AtWithin
  <2>3. PICK y \in Nat : y = dp * S
    BY <1>1
  <2>. QED BY <2>1, <2>2, <2>3
<1>. HIDE DEF S, dp
<1>3. S # 0
  <2>1. ASSUME S = 0 PROVE dp * S = 0
    BY <1>1, <2>1
  <2>. QED BY <1>2, <2>1
<1>4. PICK a, e : a = (p - 1) \div S /\ e = (p - 1) % S
  OBVIOUS
<1>5. a \in Nat /\ e \in 0..(S - 1) /\ p - 1 = a * S + e /\ a * S \in Nat
  <2>1. p - 1 \in Nat /\ S \in Nat \ {0}
    BY <1>1, <1>2, <1>3
  <2>2. a \in Nat /\ e \in 0..(S - 1) /\ p - 1 = a * S + e
    BY <1>4, <2>1, DigitsOf
  <2>. QED BY <2>1, <2>2
<1>6. a \in 0..(dp - 1)
  <2>1. ASSUME dp <= a PROVE dp * S <= a * S
    BY <1>1, <1>5, <2>1
  <2>2. ASSUME dp <= a PROVE FALSE
    <3>1. PICK y \in Nat, z \in Nat : y = dp * S /\ z = a * S
      BY <1>1, <1>5
    <3>. QED BY <1>1, <1>2, <1>5, <2>1, <2>2, <3>1
  <2>. QED BY <1>1, <1>5, <2>2
<1>7. a + 1 \in 1..dp /\ (a + 1) - 1 = a
  BY <1>1, <1>6
<1>8. ((a + 1) - 1) * S < p /\ p <= ((a + 1) - 1) * S + S
  <2>1. PICK z \in Nat : z = a * S
    BY <1>5
  <2>2. z < p /\ p <= z + S
    BY <1>1, <1>2, <1>5, <2>1
  <2>. QED BY <1>7, <2>1, <2>2
<1>. QED BY <1>1, <1>7, <1>8 DEF Covered, S, dp

(* After a step the parameters are what their shards have become.          *)
LEMMA GatheredAll ==
    ASSUME NEW c \in Configs, c.mode = "flat", ~c.skip, NEW r \in Ranks(c.dims), NEW s, NEW z, NEW w,
           NEW v, FlatVectors(v, c, s, "share", Out(c, r, 0), z, w, r),
           NEW n \in Members(NamesOf(c, r)), NEW j \in 1..Size[n]
    PROVE  v[n][j] = DueAt(c, s, z, w, r, n, j)
<1>1. Out(c, r, 0) = Much(c, r)
  <2>1. Shares(c, r) = ByPiece(c, NamesOf(c, r), "gather")
    BY DEF Shares
  <2>2. Len(Shares(c, r)) = Much(c, r) /\ Much(c, r) \in Nat
    BY <2>1, ByPieceIs, MovedIs
  <2>. QED BY <2>2 DEF Out
<1>2. PICK p : At(c, r, n, j, p)
  BY AtType
<1>3. Covered(c, r, Out(c, r, 0), p)
  BY <1>1, <1>2, AllCovered
<1>4. FlatVector(v[n], c, s, "share", Out(c, r, 0), z, w, r, n)
  BY DEF FlatVectors
<1>5. v[n][j] = FlatElem(c, s, "share", Out(c, r, 0), z, w, r, n, j, p)
  BY <1>2, <1>4 DEF FlatVector
<1>. QED BY <1>3, <1>5 DEF FlatElem

(* And every element has had one update more.                              *)
LEMMA FlatHistories ==
    ASSUME NEW c \in Configs, c.mode = "flat", ~c.skip, NEW r \in Ranks(c.dims),
           NEW s \in 0..MaxSteps, NEW z, NEW w, Histories(w[r], c, Preceding(s), r),
           NEW v, FlatVectors(v, c, s, "share", Out(c, r, 0), z, w, r)
    PROVE  Histories(v, c, s, r)
<1>. SUFFICES ASSUME NEW n \in Members(NamesOf(c, r)), NEW j \in 1..Size[n]
              PROVE  History(v[n][j], c, n, j, Cardinality(StepsIn(c, n, s)))
  BY DEF Histories
<1>1. History(w[r][n][j], c, n, j, Cardinality(StepsIn(c, n, Preceding(s))))
  BY DEF Histories
<1>2. v[n][j] = DueAt(c, s, z, w, r, n, j)
  BY GatheredAll
<1>3. s \in Nat /\ MaxSteps \in Nat
  BY TrainAssumption
<1>4. CASE s = 0
  BY <1>1, <1>2, <1>4 DEF Preceding, DueAt
<1>5. CASE s > 0
  <2>1. Preceding(s) = s - 1 /\ s - 1 \in Nat
    BY <1>3, <1>5 DEF Preceding
  <2>2. PICK old, new : /\ old = Cardinality(StepsIn(c, n, s - 1))
                        /\ new = Cardinality(StepsIn(c, n, s))
    OBVIOUS
  <2>3. s \in StepsIn(c, n, s)
    BY <1>3, <1>5 DEF StepsIn
  <2>4. old \in Nat /\ new = old + 1
    BY <1>3, <1>5, <2>1, <2>2, <2>3, StepsCount
  <2>5. History(w[r][n][j], c, n, j, old)
    BY <1>1, <2>1, <2>2
  <2>6. PICK x : v[n][j] = Append(w[r][n][j], x)
    <3>1. ~(s = 0 \/ c.skip)
      BY <1>3, <1>5
    <3>2. v[n][j] = Append(w[r][n][j], [grad |-> Meaned(c, s)[r][n][j], norm |-> z])
      BY <1>2, <3>1 DEF DueAt
    <3>. QED BY <3>2
  <2>7. History(Append(w[r][n][j], x), c, n, j, old + 1)
    BY <2>4, <2>5, HistoryGrows
  <2>. QED BY <2>2, <2>4, <2>6, <2>7
<1>. QED BY <1>3, <1>4, <1>5

(* Nothing is left to be reduced at the end of the synchronisation.        *)
LEMMA NoneReduced ==
    ASSUME NEW c \in Configs, c.mode = "flat", NEW s, NEW r
    PROVE  /\ Moved(c, r, In(c, s, r, Len(Script(c, s, r)))) = 0
           /\ Moved(c, r, In(c, s, r, 0)) = ShardIn(c, r)
<1>. DEFINE calls == Part(c, s, r, "data")
            total == Len(Script(c, s, r))
            after == After(c, s, r, "data")
            m == Much(c, r)
<1>1. Len(calls) = m /\ m \in Nat
  BY ByPieceIs, MovedIs DEF Part
<1>2. "data" \in Rings
  BY DEF Rings
<1>3. total \in Nat /\ total >= after + Len(calls) /\ after \in Nat
  BY <1>2, ScriptType, AfterType
<1>4. /\ SyncLeft(c, s, "sync", total, r, "data") = Within(total, after, Len(calls))
      /\ SyncLeft(c, s, "sync", 0, r, "data") = Within(0, after, Len(calls))
  BY DEF SyncLeft
<1>. HIDE DEF calls, total, after, m
<1>5. Within(total, after, Len(calls)) = m /\ Within(0, after, Len(calls)) = 0
  BY <1>1, <1>3 DEF Within
<1>6. In(c, s, r, total) = 0 /\ In(c, s, r, 0) = m
  BY <1>1, <1>4, <1>5 DEF In, m
<1>. QED BY <1>6, MovedIs DEF total, m

(* Which elements an empty list has to account for.                        *)
LEMMA NothingReduced ==
    ASSUME NEW c, NEW s, NEW r PROVE ReducedTo(<<>>, c, s, r, 0)
<1>1. <<>> \in Seq({}) /\ Len(<<>>) = 0 /\ 1..0 = {}
  OBVIOUS
<1>. QED BY <1>1 DEF ReducedTo, IsList

(* At the start shards and parameters are as they were loaded.             *)
LEMMA FlatInit == Init => FlatWorth
<1>. SUFFICES ASSUME Init, config.mode = "flat" PROVE FlatWorth
  BY DEF FlatWorth
<1>1. ConfigAs /\ config \in Configs
  BY DEF Init, ConfigAs
<1>2. /\ RanksHere = Ranks(config.dims) /\ \A r \in RanksHere : Names(r) = NamesOf(config, r)
      /\ \A r \in RanksHere : step[r] = 0 /\ phase[r] = "share" /\ Index(r, "data") = DataOf(config, r)
      /\ P = config.dims
  BY <1>1, AsConfigured DEF RanksHere, P, Init, Index, DataOf
<1>3. params = [r \in RanksHere |-> [n \in Members(NamesOf(config, r)) |->
                    [i \in 1..Size[n] |-> <<Loaded(n, i)>>]]]
  <2>1. params = [r \in RanksHere |-> [n \in Members(Names(r)) |->
                    [i \in 1..Size[n] |-> <<Loaded(n, i)>>]]]
    BY DEF Init
  <2>. QED BY <1>2, <2>1
<1>4. ASSUME NEW r \in RanksHere, NEW n \in Members(NamesOf(config, r))
      PROVE  params[r][n] = [i \in 1..Size[n] |-> <<Loaded(n, i)>>] /\ IsVector(params[r][n], n)
  <2>1. params[r][n] = [i \in 1..Size[n] |-> <<Loaded(n, i)>>]
    BY <1>3
  <2>2. PICK v : v = [i \in 1..Size[n] |-> <<Loaded(n, i)>>]
    OBVIOUS
  <2>3. v = [i \in 1..Size[n] |-> v[i]]
    BY <2>2
  <2>. QED BY <2>1, <2>2, <2>3 DEF IsVector
<1>5. FlatCopies(config, params)
  <2>1. Vectors(config, params)
    BY <1>2, <1>4 DEF Vectors
  <2>2. ASSUME NEW n \in AllNames, NEW q \in Ranks(config.dims), NEW r \in Ranks(config.dims),
               Near(config, q, r, FlatOver(config, n)), n \in Members(NamesOf(config, r))
        PROVE  params[q][n] = params[r][n]
    <3>1. NamesOf(config, q) = NamesOf(config, r)
      <4>1. FlatOver(config, n) \subseteq Rings
        BY DEF FlatOver, MergedOver, Rings
      <4>. QED BY <2>2, <4>1, NearNames
    <3>2. PICK v : v = [i \in 1..Size[n] |-> <<Loaded(n, i)>>]
      OBVIOUS
    <3>3. params[q][n] = v /\ params[r][n] = v
      BY <1>2, <1>4, <2>2, <3>1, <3>2
    <3>. QED BY <3>3
  <2>. QED BY <2>1, <2>2 DEF FlatCopies, Uniform
<1>6. FlatParamsAre(params)
  <2>1. \A r, z, n, j : DueAt(config, 0, z, params, r, n, j) = params[r][n][j]
    BY DEF DueAt
  <2>2. DOMAIN params = RanksHere /\ \A r \in RanksHere : DOMAIN params[r] = Members(NamesOf(config, r))
    BY <1>3
  <2>3. \A r, ph, t, z, n, j, p : FlatElem(config, 0, ph, t, z, params, r, n, j, p) = params[r][n][j]
    BY <2>1 DEF FlatElem
  <2>4. ASSUME NEW r \in RanksHere, NEW ph, NEW t, NEW z
        PROVE  FlatVectors(params[r], config, 0, ph, t, z, params, r)
    <3>1. \A n \in Members(NamesOf(config, r)) : IsVector(params[r][n], n)
      BY <1>4
    <3>. QED BY <2>2, <2>3, <3>1 DEF FlatVectors, FlatVector
  <2>. QED BY <1>2, <2>2, <2>4 DEF FlatParamsAre
<1>7. ShardsAre(params)
  <2>. DEFINE Start(r) == Gathered(config, r, params[r], <<Padding>>)
  <2>1. shard = [r \in RanksHere |-> Start(r)]
    <3>1. \A r \in RanksHere : Numels(r) = NumelsIn(config, r)
                               /\ ShardSize(Numel(r), P.data) = ShardIn(config, r)
      BY <1>2 DEF Numels, Numel, NumelsIn, ShardIn
    <3>2. shard = [r \in RanksHere |->
                    GatherShard([i \in DOMAIN Names(r) |-> params[r][Names(r)[i]]],
                                ShardRanges(Numels(r), P.data, Index(r, "data")),
                                ShardSize(Numel(r), P.data), <<Padding>>)]
      BY DEF Init
    <3>. QED BY <1>2, <3>1, <3>2 DEF Gathered
  <2>2. ASSUME NEW r \in RanksHere
        PROVE  ShardIs(shard[r], config, step[r], phase[r], norm[r], params, r)
    <3>1. shard[r] = Start(r)
      BY <2>1
    <3>2. Start(r) = [x \in 1..ShardIn(config, r) |-> Start(r)[x]]
      BY DEF Gathered, GatherShard
    <3>3. ASSUME NEW x \in 1..ShardIn(config, r), NEW n \in Members(NamesOf(config, r)), NEW j \in 1..Size[n],
                 InShard(config, r, n, j, x)
          PROVE  Start(r)[x] = params[r][n][j]
      <4>1. PICK v, pad : v = params[r] /\ pad = <<Padding>>
        OBVIOUS
      <4>2. At(config, r, n, j, DataOf(config, r) * ShardIn(config, r) + x)
        BY <3>3 DEF InShard
      <4>3. Gathered(config, r, v, pad)[x] = v[n][j]
        <5>1. r \in Ranks(config.dims)
          BY <1>2
        <5>. QED BY <1>1, <4>2, <5>1, GatheredAt
      <4>. QED BY <4>1, <4>3
    <3>. HIDE DEF Start
    <3>4. \A n, j : ShardElem(config, step[r], phase[r], norm[r], params, r, n, j) = params[r][n][j]
      BY <1>2 DEF ShardElem, DueAt
    <3>. QED BY <3>1, <3>2, <3>3, <3>4 DEF ShardIs
  <2>. QED BY <2>1, <2>2 DEF ShardsAre
<1>8. GshardsAre
  <2>1. gshard = [r \in RanksHere |-> <<>>]
    BY DEF Init
  <2>. QED BY <1>2, <2>1 DEF GshardsAre, GshardIs
<1>9. Dated(params)
  <2>1. ASSUME NEW r \in RanksHere, NEW n \in Members(NamesOf(config, r)), NEW j \in 1..Size[n]
        PROVE  History(params[r][n][j], config, n, j, Cardinality(StepsIn(config, n, Preceding(step[r]))))
    <3>1. params[r][n][j] = <<LoadedIn(config, n, j)>>
      <4>1. params[r][n][j] = <<Loaded(n, j)>>
        BY <1>4
      <4>. QED BY <4>1 DEF Loaded, LoadedIn, ZeroGrad, ZeroIn, Nobody, NobodyIn, RanksHere, P
    <3>2. Preceding(step[r]) = 0
      BY <1>2 DEF Preceding
    <3>. QED BY <3>1, <3>2, LoadedHistory
  <2>. QED BY <2>1 DEF Dated, Histories
<1>10. PICK v : v = params
  OBVIOUS
<1>11. FlatCopies(config, v) /\ FlatParamsAre(v) /\ ShardsAre(v) /\ Dated(v)
  BY <1>5, <1>6, <1>7, <1>9, <1>10
<1>. QED BY <1>8, <1>11 DEF FlatWorth

(* Between two steps everything has been gathered, and the parameters are  *)
(* the same on the ranks that hold them.                                   *)
AllGathered(s, z, w) ==
    \A r \in RanksHere :
        /\ FlatVectors(params[r], config, s, "share", Out(config, r, 0), z, w, r)
        /\ ShardIs(shard[r], config, s, "share", z, w, r)
        /\ step[r] = s /\ s \in 0..MaxSteps
        /\ ~config.skip => Histories(w[r], config, Preceding(s), r)

(* When all ranks have come to the barrier everything has been gathered.   *)
LEMMA FlatDone ==
    ASSUME CollInv, NormWorth, FlatWorth, config.mode = "flat", AllDone
    PROVE  /\ FlatCopies(config, params)
           /\ DOMAIN params = RanksHere /\ DOMAIN shard = RanksHere
           /\ \E s, z, w : AllGathered(s, z, w)
<1>1. \A r \in RanksHere : phase[r] = "share" /\ queue[r] = <<>>
  BY DEF AllDone
<1>2. config \in Configs /\ RanksHere = Ranks(config.dims)
  BY InConfig DEF CollInv, ConfigAs
<1>3. PICK w : FlatCopies(config, w) /\ FlatParamsAre(w) /\ ShardsAre(w) /\ Dated(w)
  BY DEF FlatWorth
<1>4. PICK s, z : \A r \in RanksHere : step[r] = s /\ norm[r] = z
  <2>1. StepsAs /\ \A q, r \in RanksHere : norm[q] = norm[r]
    BY DEF CollInv, NormWorth
  <2>2. CASE RanksHere = {}
    BY <2>2
  <2>3. CASE RanksHere # {}
    <3>1. PICK q \in RanksHere : TRUE
      BY <2>3
    <3>2. PICK s, z : s = step[q] /\ z = norm[q]
      OBVIOUS
    <3>3. \A r \in RanksHere : step[r] = s /\ norm[r] = z
      BY <2>1, <3>1, <3>2 DEF StepsAs
    <3>. QED BY <3>3
  <2>. QED BY <2>2, <2>3
<1>5. ASSUME NEW r \in RanksHere
      PROVE  /\ FlatVectors(params[r], config, s, "share", Out(config, r, 0), z, w, r)
             /\ ShardIs(shard[r], config, s, "share", z, w, r)
             /\ step[r] = s /\ s \in 0..MaxSteps
             /\ ~config.skip => Histories(w[r], config, Preceding(s), r)
  <2>1. Len(queue[r]) = 0 /\ phase[r] = "share" /\ step[r] = s /\ norm[r] = z
    BY <1>1, <1>4
  <2>2. step[r] \in 0..MaxSteps
    BY DEF CollInv, StepsAs
  <2>3. ~config.skip => Histories(w[r], config, Preceding(s), r)
    BY <1>3, <2>1 DEF Dated
  <2>. QED BY <1>3, <2>1, <2>2, <2>3 DEF FlatParamsAre, ShardsAre
<1>6. FlatCopies(config, params)
  BY <1>2, <1>3, <1>5, GatheredCopies
<1>7. DOMAIN params = RanksHere /\ DOMAIN shard = RanksHere
  BY <1>3 DEF FlatParamsAre, ShardsAre
<1>. QED BY <1>5, <1>6, <1>7 DEF AllGathered

(* The barrier keeps FlatWorth: the end of a step is the beginning of the  *)
(* next.                                                                   *)
LEMMA FlatStart == CollInv /\ NormWorth /\ FlatWorth /\ StartStep => FlatWorth'
<1>. SUFFICES ASSUME CollInv, NormWorth, FlatWorth, StartStep, config.mode = "flat" PROVE FlatWorth'
  BY DEF StartStep, FlatWorth
<1>1. /\ \A r \in RanksHere : phase[r] = "share" /\ queue[r] = <<>>
      /\ phase' = [r \in RanksHere |-> "backward"] /\ gshard' = [r \in RanksHere |-> <<>>]
      /\ UNCHANGED <<config, params, local, shard, norm, queue>>
  BY DEF StartStep, AllDone
<1>2. config' = config /\ RanksHere' = RanksHere /\ config \in Configs /\ RanksHere = Ranks(config.dims)
  BY <1>1 DEF RanksHere, P, CollInv, ConfigAs
<1>3. /\ FlatCopies(config, params) /\ DOMAIN params = RanksHere /\ DOMAIN shard = RanksHere
       /\ \E s, z, w : AllGathered(s, z, w)
  BY FlatDone DEF StartStep
<1>4. PICK s, z, w : AllGathered(s, z, w)
  BY <1>3
<1>5. ASSUME NEW r \in RanksHere
      PROVE  /\ FlatVectors(params[r], config, s, "share", Out(config, r, 0), z, w, r)
             /\ ShardIs(shard[r], config, s, "share", z, w, r)
             /\ step[r] = s /\ s \in 0..MaxSteps
             /\ ~config.skip => Histories(w[r], config, Preceding(s), r)
  BY <1>4 DEF AllGathered
<1>6. FlatCopies(config, params)
  BY <1>3
<1>7. FlatParamsAre(params)'
  <2>1. ASSUME NEW r \in RanksHere, NEW t, NEW st, NEW sz
        PROVE  FlatVectors(params[r], config, st, "backward", t, sz, params, r)
    BY <1>5 DEF FlatVectors, FlatVector, FlatElem
  <2>2. \A r \in RanksHere : phase'[r] = "backward"
    BY <1>1
  <2>3. DOMAIN params = RanksHere
    BY <1>3
  <2>. QED BY <1>1, <1>2, <2>1, <2>2, <2>3 DEF FlatParamsAre
<1>8. ShardsAre(params)'
  <2>1. ASSUME NEW r \in RanksHere, NEW st, NEW sz
        PROVE  ShardIs(shard[r], config, st, "backward", sz, params, r)
    <3>1. ASSUME NEW x \in 1..ShardIn(config, r), NEW n \in Members(NamesOf(config, r)), NEW j \in 1..Size[n],
                 InShard(config, r, n, j, x)
          PROVE  shard[r][x] = params[r][n][j]
      <4>1. /\ FlatVectors(params[r], config, s, "share", Out(config, r, 0), z, w, r)
            /\ ShardIs(shard[r], config, s, "share", z, w, r)
        BY <1>5
      <4>. QED BY <1>2, <3>1, <4>1, ShardGathered
    <3>2. \A n, j : ShardElem(config, st, "backward", sz, params, r, n, j) = params[r][n][j]
      BY DEF ShardElem
    <3>. QED BY <1>5, <3>1, <3>2 DEF ShardIs
  <2>2. \A r \in RanksHere : phase'[r] = "backward"
    BY <1>1
  <2>3. DOMAIN shard = RanksHere
    BY <1>3
  <2>. QED BY <1>1, <1>2, <2>1, <2>2, <2>3 DEF ShardsAre
<1>9. GshardsAre'
  BY <1>1, <1>2 DEF GshardsAre, GshardIs
<1>10. FlatCopies(config', params')
  BY <1>1, <1>2, <1>6
<1>11. PICK v : v = params
  OBVIOUS
<1>12. Dated(v)'
  <2>1. ASSUME ~config.skip, NEW r \in RanksHere
        PROVE  Histories(v[r], config, Preceding(step'[r]), r)
    <3>1. step'[r] = s + 1 /\ Preceding(step'[r]) = s
      <4>1. MaxSteps \in Nat
        BY TrainAssumption
      <4>. QED BY <1>5, <4>1 DEF StartStep, Preceding
    <3>2. Histories(params[r], config, s, r)
      BY <1>2, <1>5, <2>1, FlatHistories
    <3>. QED BY <1>11, <3>1, <3>2
  <2>. QED BY <1>2, <2>1 DEF Dated
<1>13. FlatCopies(config', v) /\ FlatParamsAre(v)' /\ ShardsAre(v)' /\ Dated(v)'
  BY <1>1, <1>7, <1>8, <1>10, <1>11, <1>12
<1>. QED BY <1>9, <1>13 DEF FlatWorth

(* The backward passes keep FlatWorth.                                     *)
LEMMA FlatBackward ==
    ASSUME CollInv, FlatWorth, NEW r \in RanksHere, Backward(r)
    PROVE  FlatWorth'
<1>. SUFFICES ASSUME config.mode = "flat" PROVE FlatWorth'
  BY DEF Backward, FlatWorth
<1>1. /\ UNCHANGED <<config, params, shard, gshard, norm, local, step>> /\ phase[r] = "backward"
      /\ phase' = [phase EXCEPT ![r] = "sync"]
      /\ config' = config /\ RanksHere' = RanksHere /\ DOMAIN phase = RanksHere /\ DOMAIN queue = RanksHere
      /\ config \in Configs
  BY DEF Backward, RanksHere, P, CollInv, StepsAs, QueuesAs, ConfigAs
<1>2. queue' = [queue EXCEPT ![r] = Script(config, step[r], r)]
  BY BackwardInv
<1>3. PICK w : FlatCopies(config, w) /\ FlatParamsAre(w) /\ ShardsAre(w) /\ Dated(w)
  BY DEF FlatWorth
<1>4. \A x \in RanksHere : x # r => phase'[x] = phase[x] /\ queue'[x] = queue[x]
  BY <1>1, <1>2
<1>5. phase'[r] = "sync" /\ queue'[r] = Script(config, step[r], r)
  BY <1>1, <1>2
<1>6. FlatParamsAre(w)'
  <2>1. ASSUME NEW x \in RanksHere
        PROVE  FlatVectors(params[x], config, step[x], phase'[x], Out(config, x, Len(queue'[x])), norm[x], w, x)
    <3>1. FlatVectors(params[x], config, step[x], phase[x], Out(config, x, Len(queue[x])), norm[x], w, x)
      BY <1>3 DEF FlatParamsAre
    <3>2. CASE x # r
      BY <1>4, <3>1, <3>2
    <3>3. CASE x = r
      <4>1. \A s, t, z, n, j, p : FlatElem(config, s, "backward", t, z, w, r, n, j, p) = w[r][n][j]
        BY DEF FlatElem
      <4>2. \A s, t, z, n, j, p : FlatElem(config, s, "sync", t, z, w, r, n, j, p) = w[r][n][j]
        BY DEF FlatElem
      <4>3. \A v, s, t, z, t2, z2 : FlatVectors(v, config, s, "backward", t, z, w, r)
                    => FlatVectors(v, config, s, "sync", t2, z2, w, r)
        BY <4>1, <4>2 DEF FlatVectors, FlatVector
      <4>. QED BY <1>1, <1>5, <3>1, <3>3, <4>3
    <3>. QED BY <3>2, <3>3
  <2>2. DOMAIN params = RanksHere
    BY <1>3 DEF FlatParamsAre
  <2>. QED BY <1>1, <2>1, <2>2 DEF FlatParamsAre
<1>7. ShardsAre(w)'
  <2>1. ASSUME NEW x \in RanksHere
        PROVE  ShardIs(shard[x], config, step[x], phase'[x], norm[x], w, x)
    <3>1. ShardIs(shard[x], config, step[x], phase[x], norm[x], w, x)
      BY <1>3 DEF ShardsAre
    <3>2. CASE x # r
      BY <1>4, <3>1, <3>2
    <3>3. CASE x = r
      <4>1. \A s, z, n, j : ShardElem(config, s, "backward", z, w, r, n, j) = w[r][n][j]
                            /\ ShardElem(config, s, "sync", z, w, r, n, j) = w[r][n][j]
        BY DEF ShardElem
      <4>2. \A v, s, z : ShardIs(v, config, s, "backward", z, w, r) => ShardIs(v, config, s, "sync", z, w, r)
        BY <4>1 DEF ShardIs
      <4>. QED BY <1>1, <1>5, <3>1, <3>3, <4>2
    <3>. QED BY <3>2, <3>3
  <2>2. DOMAIN shard = RanksHere
    BY <1>3 DEF ShardsAre
  <2>. QED BY <1>1, <2>1, <2>2 DEF ShardsAre
<1>8. GshardsAre'
  <2>0. DOMAIN gshard = RanksHere
    BY DEF FlatWorth, GshardsAre
  <2>1. ASSUME NEW x \in RanksHere
        PROVE  GshardIs(gshard[x], config, step[x], phase'[x], Len(queue'[x]), x)
    <3>1. GshardIs(gshard[x], config, step[x], phase[x], Len(queue[x]), x)
      BY DEF FlatWorth, GshardsAre
    <3>2. CASE x # r
      BY <1>4, <3>1, <3>2
    <3>3. CASE x = r
      <4>1. gshard[r] = <<>>
        BY <1>1, <3>1, <3>3 DEF GshardIs
      <4>2. Moved(config, r, In(config, step[r], r, Len(Script(config, step[r], r)))) = 0
        BY <1>1, NoneReduced
      <4>3. ReducedTo(<<>>, config, step[r], r, 0)
        BY NothingReduced
      <4>. QED BY <1>5, <3>3, <4>1, <4>2, <4>3 DEF GshardIs
    <3>. QED BY <3>2, <3>3
  <2>. QED BY <1>1, <2>0, <2>1 DEF GshardsAre
<1>9. FlatCopies(config', w)
  BY <1>1, <1>3
<1>10. Dated(w)'
  BY <1>1, <1>3, DatedKeeps
<1>. QED BY <1>6, <1>7, <1>8, <1>9, <1>10 DEF FlatWorth

(* FlatAdamW gives every element of the shard what is due to it.           *)
LEMMA FlatUpdate ==
    ASSUME CollInv, FlatWorth, NEW r \in RanksHere, Update(r)
    PROVE  FlatWorth'
<1>. SUFFICES ASSUME config.mode = "flat" PROVE FlatWorth'
  BY DEF Update, FlatWorth
<1>1. /\ UNCHANGED <<config, params, gshard, norm, local, step>> /\ phase[r] = "sync" /\ queue[r] = <<>>
      /\ phase' = [phase EXCEPT ![r] = "share"] /\ queue' = [queue EXCEPT ![r] = ParamCalls(r)]
      /\ shard' = IF config.skip THEN shard
                  ELSE [shard EXCEPT ![r] = Updated(@, gshard[r], norm[r])]
  BY DEF Update
<1>2. /\ config' = config /\ RanksHere' = RanksHere /\ DOMAIN phase = RanksHere /\ DOMAIN queue = RanksHere
      /\ config \in Configs /\ ConfigAs /\ step[r] > 0 /\ step[r] \in Nat
  <2>1. MaxSteps \in Nat
    BY TrainAssumption
  <2>. QED BY <1>1, <2>1 DEF RanksHere, P, CollInv, StepsAs, QueuesAs, ConfigAs
<1>3. PICK w : FlatCopies(config, w) /\ FlatParamsAre(w) /\ ShardsAre(w) /\ Dated(w)
  BY DEF FlatWorth
<1>4. \A x \in RanksHere : x # r => phase'[x] = phase[x] /\ queue'[x] = queue[x] /\ shard'[x] = shard[x]
  BY <1>1, <1>2
<1>5. phase'[r] = "share" /\ queue'[r] = Shares(config, r)
  BY <1>1, <1>2, SharesAre
<1>6. FlatParamsAre(w)'
  <2>1. ASSUME NEW x \in RanksHere
        PROVE  FlatVectors(params[x], config, step[x], phase'[x], Out(config, x, Len(queue'[x])), norm[x], w, x)
    <3>1. FlatVectors(params[x], config, step[x], phase[x], Out(config, x, Len(queue[x])), norm[x], w, x)
      BY <1>3 DEF FlatParamsAre
    <3>2. CASE x # r
      BY <1>4, <3>1, <3>2
    <3>3. CASE x = r
      <4>0. Out(config, r, Len(queue'[r])) = 0
        <5>1. Len(Shares(config, r)) \in Nat
          BY <1>2, SharesLength
        <5>. QED BY <1>5, <5>1 DEF Out
      <4>1. \A s, t, z, n, j, p : FlatElem(config, s, "sync", t, z, w, r, n, j, p) = w[r][n][j]
        BY DEF FlatElem
      <4>2. \A s, z, n, j : \A p \in Nat : FlatElem(config, s, "share", 0, z, w, r, n, j, p) = w[r][n][j]
        <5>1. \A p \in Nat : ~Covered(config, r, 0, p)
          BY <1>2, NothingCovered
        <5>. QED BY <5>1 DEF FlatElem
      <4>3. \A n \in Members(NamesOf(config, r)) : \A j \in 1..Size[n] : \A p : At(config, r, n, j, p) => p \in Nat
        BY AtType
      <4>4. \A v, s, t, z, z2 : FlatVectors(v, config, s, "sync", t, z, w, r)
                    => FlatVectors(v, config, s, "share", 0, z2, w, r)
        BY <4>1, <4>2, <4>3 DEF FlatVectors, FlatVector
      <4>. QED BY <1>1, <1>5, <3>1, <3>3, <4>0, <4>4
    <3>. QED BY <3>2, <3>3
  <2>2. DOMAIN params = RanksHere
    BY <1>3 DEF FlatParamsAre
  <2>. QED BY <1>1, <1>2, <2>1, <2>2 DEF FlatParamsAre
<1>7. GshardsAre'
  <2>0. DOMAIN gshard = RanksHere
    BY DEF FlatWorth, GshardsAre
  <2>1. ASSUME NEW x \in RanksHere
        PROVE  GshardIs(gshard[x], config, step[x], phase'[x], Len(queue'[x]), x)
    <3>1. GshardIs(gshard[x], config, step[x], phase[x], Len(queue[x]), x)
      BY DEF FlatWorth, GshardsAre
    <3>2. CASE x # r
      BY <1>4, <3>1, <3>2
    <3>3. CASE x = r
      BY <1>5, <3>3 DEF GshardIs
    <3>. QED BY <3>2, <3>3
  <2>. QED BY <1>1, <1>2, <2>0, <2>1 DEF GshardsAre
<1>8. ShardsAre(w)'
  <2>0. DOMAIN shard = RanksHere
    BY <1>3 DEF ShardsAre
  <2>1. ShardIs(shard[r], config, step[r], "sync", norm[r], w, r)
    BY <1>1, <1>3 DEF ShardsAre
  <2>2. ShardIs(shard'[r], config, step[r], "share", norm[r], w, r)
    <3>. DEFINE S == ShardIn(config, r)
                s == step[r]
    <3>1. ReducedTo(gshard[r], config, s, r, S)
      <4>1. GshardIs(gshard[r], config, s, "sync", Len(queue[r]), r) /\ Len(queue[r]) = 0
        BY <1>1 DEF FlatWorth, GshardsAre
      <4>2. Moved(config, r, In(config, s, r, 0)) = S
        BY <1>2, NoneReduced
      <4>. QED BY <4>1, <4>2 DEF GshardIs
    <3>2. \A n, j : ShardElem(config, s, "sync", norm[r], w, r, n, j) = w[r][n][j]
      BY DEF ShardElem
    <3>. HIDE DEF S, s
    <3>3. CASE config.skip
      <4>1. shard'[r] = shard[r]
        BY <1>1, <3>3
      <4>2. \A n, j : ShardElem(config, s, "share", norm[r], w, r, n, j) = w[r][n][j]
        BY <3>3 DEF ShardElem, DueAt
      <4>. QED BY <2>1, <3>2, <4>1, <4>2 DEF ShardIs, s
    <3>4. CASE ~config.skip
      <4>1. shard'[r] = Updated(shard[r], gshard[r], norm[r])
        BY <1>1, <2>0, <3>4
      <4>2. shard'[r] = [x \in 1..S |-> Append(shard[r][x], [grad |-> gshard[r][x], norm |-> norm[r]])]
        <5>1. DOMAIN shard[r] = 1..S
          BY <2>1 DEF ShardIs, S
        <5>. QED BY <4>1, <5>1 DEF Updated
      <4>3. ASSUME NEW x \in 1..S, NEW n \in Members(NamesOf(config, r)), NEW j \in 1..Size[n],
                   InShard(config, r, n, j, x)
            PROVE  shard'[r][x] = ShardElem(config, s, "share", norm[r], w, r, n, j)
        <5>1. gshard[r][x] = Meaned(config, s)[r][n][j]
          BY <3>1, <4>3 DEF ReducedTo
        <5>2. shard[r][x] = w[r][n][j]
          BY <2>1, <3>2, <4>3 DEF ShardIs, S, s
        <5>3. s # 0
          BY <1>2 DEF s
        <5>. QED BY <3>4, <4>2, <5>1, <5>2, <5>3 DEF ShardElem, DueAt
      <4>4. shard'[r] = [x \in 1..S |-> shard'[r][x]]
        BY <4>2
      <4>. QED BY <4>3, <4>4 DEF ShardIs, S, s
    <3>. QED BY <3>3, <3>4
  <2>3. ASSUME NEW x \in RanksHere
        PROVE  ShardIs(shard'[x], config, step[x], phase'[x], norm[x], w, x)
    <3>1. ShardIs(shard[x], config, step[x], phase[x], norm[x], w, x)
      BY <1>3 DEF ShardsAre
    <3>2. CASE x # r
      BY <1>4, <3>1, <3>2
    <3>3. CASE x = r
      BY <1>5, <2>2, <3>3
    <3>. QED BY <3>2, <3>3
  <2>4. DOMAIN shard' = RanksHere
    BY <1>1, <2>0
  <2>. QED BY <1>1, <1>2, <2>3, <2>4 DEF ShardsAre
<1>9. FlatCopies(config', w)
  BY <1>2, <1>3
<1>10. Dated(w)'
  BY <1>1, <1>2, <1>3, DatedKeeps
<1>. QED BY <1>6, <1>7, <1>8, <1>9, <1>10 DEF FlatWorth

(* The gradients of a rank end to end are what the gradients are worth.    *)
LEMMA FlatGradsAre ==
    ASSUME CollInv, GradsWorth, config.mode = "flat", NEW r \in RanksHere, phase[r] = "sync",
           \A n \in Wants(config, step[r], r) :
                GradAt(config, step[r], r, Len(queue[r]), n) = PastData(config, step[r])[r][n]
    PROVE  /\ FlatGrads(r) = LaidOut(config, r, Whole(config, step[r])[r])
           /\ \A n \in Members(NamesOf(config, r)) : IsVector(Whole(config, step[r])[r][n], n)
<1>. DEFINE c == config
            s == step[r]
            names == NamesOf(c, r)
            w == Whole(c, s)[r]
            Laid_(n) == IF grads[r][n] = <<>> THEN [j \in 1..Size[n] |-> ZeroGrad] ELSE grads[r][n]
<1>1. /\ ConfigAs /\ GradsAs /\ c \in Configs /\ r \in Ranks(c.dims) /\ Names(r) = names
      /\ ZeroGrad = ZeroIn(c)
  BY InConfig, AsConfigured DEF CollInv, ConfigAs
<1>2. \A n \in Members(names) : w[n] = [j \in 1..Size[n] |->
        IF n \in Wants(c, s, r) THEN PastData(c, s)[r][n][j] ELSE ZeroIn(c)]
  <2>1. w = [n \in Members(names) |-> [j \in 1..Size[n] |->
                IF n \in Wants(c, s, r) THEN PastData(c, s)[r][n][j] ELSE ZeroIn(c)]]
    BY <1>1 DEF Whole
  <2>. HIDE DEF w, names, s
  <2>. QED BY <2>1
<1>3. ASSUME NEW n \in Members(names) PROVE w[n] = Laid_(n) /\ IsVector(w[n], n)
  <2>1. IF n \in Wants(c, s, r) THEN 1 \in DOMAIN grads[r][n] ELSE grads[r][n] = <<>>
    <3>. HIDE DEF s
    <3>1. IF Keeps(c, s, phase[r], r, n) THEN 1 \in DOMAIN grads[r][n] ELSE grads[r][n] = <<>>
      BY <1>1 DEF GradsAs, s
    <3>2. Keeps(c, s, phase[r], r, n) <=> n \in Wants(c, s, r)
      BY DEF Keeps, Wants
    <3>. QED BY <3>1, <3>2
  <2>2. CASE n \in Wants(c, s, r)
    <3>1. Keeps(c, s, phase[r], r, n)
      BY <2>2 DEF Keeps, Wants
    <3>2. IsVector(grads[r][n], n) /\ grads[r][n] = PastData(c, s)[r][n]
      BY <2>2, <3>1 DEF GradsWorth
    <3>3. grads[r][n] # <<>>
      <4>1. 1 \notin DOMAIN <<>>
        OBVIOUS
      <4>. QED BY <2>1, <2>2, <4>1
    <3>4. w[n] = [j \in 1..Size[n] |-> grads[r][n][j]]
      BY <1>2, <2>2, <3>2
    <3>. QED BY <3>2, <3>3, <3>4 DEF IsVector
  <2>3. CASE n \notin Wants(c, s, r)
    <3>1. w[n] = [j \in 1..Size[n] |-> ZeroIn(c)]
      BY <1>2, <2>3
    <3>2. IsVector([j \in 1..Size[n] |-> ZeroIn(c)], n)
      BY DEF IsVector
    <3>. QED BY <1>1, <2>1, <2>3, <3>1, <3>2
  <2>. QED BY <2>2, <2>3
<1>4. names \in Seq(AllNames)
  BY NamesType
<1>. HIDE DEF w
<1>5. FlatGrads(r) = FlattenSeq([i \in DOMAIN names |-> Laid_(names[i])])
  BY <1>1 DEF FlatGrads
<1>6. \A i \in DOMAIN names : w[names[i]] = Laid_(names[i])
  BY <1>3 DEF Members
<1>7. [i \in DOMAIN names |-> Laid_(names[i])] = [i \in DOMAIN names |-> w[names[i]]]
  <2>. HIDE DEF names, Laid_
  <2>. QED BY <1>6
<1>8. FlatGrads(r) = LaidOut(c, r, w)
  <2>. HIDE DEF Laid_
  <2>. QED BY <1>5, <1>7 DEF LaidOut
<1>. QED BY <1>3, <1>8 DEF w

(* What a reduce_scatter leaves with a rank.                               *)
Segment_(q, dp, k, piece) ==
    FlatRange(FlatGrads(q), PieceOfRank(Numel(q), dp, k, piece), piece.numel, ZeroGrad)
MeanOf(g, k, piece, j) ==
    Reduced("mean", [i \in DOMAIN g |-> Segment_(g[i], Len(g), k, piece)[j]])
MeansOf(g, k, piece) == [j \in 1..piece.numel |-> MeanOf(g, k, piece, j)]

(* What a reduce_scatter adds to the shard of a rank.                      *)
LEMMA ScatterIs ==
    ASSUME NEW g, ReduceScatter(g), NEW x, \A q \in Members(g) : Now(q) = x,
           NEW r \in Members(g), r \in RanksHere, Index(r, "data") \in 0..(Len(g) - 1)
    PROVE  gshard'[r] = gshard[r] \o MeansOf(g, Index(r, "data"), x.data)
<1>. DEFINE dp == Len(g)
            flat == [i \in DOMAIN g |-> FlatGrads(g[i])]
            Seg(f, q, k) == FlatRange(f, PieceOfRank(Numel(q), dp, k, Now(q).data), Now(q).data.numel, ZeroGrad)
            Sent_(fs) == [i \in DOMAIN g |-> [k \in 0..(dp - 1) |-> Seg(fs[i], g[i], k)]]
            After_(ss) == [q \in RanksHere |->
                            IF q \notin Members(g) THEN gshard[q]
                            ELSE gshard[q] \o
                                 [j \in 1..Now(q).data.numel |->
                                    Reduced("mean", [i \in DOMAIN g |-> ss[i][Index(q, "data")][j]])]]
<1>1. \E fs \in {flat} : \E ss \in {Sent_(fs)} : gshard' = After_(ss)
  BY DEF ReduceScatter
<1>. DEFINE sent == Sent_(flat)
<1>. HIDE DEF flat, Sent_, After_
<1>2. gshard' = After_(sent)
  BY <1>1
<1>. USE DEF After_
<1>3. gshard'[r] = gshard[r] \o [j \in 1..x.data.numel |->
                        Reduced("mean", [i \in DOMAIN g |-> sent[i][Index(r, "data")][j]])]
  <2>. HIDE DEF sent
  <2>1. Now(r) = x
    OBVIOUS
  <2>. QED BY <1>2, <2>1
<1>4. ASSUME NEW i \in DOMAIN g
      PROVE  sent[i][Index(r, "data")] = Segment_(g[i], dp, Index(r, "data"), x.data)
  <2>1. g[i] \in Members(g)
    BY DEF Members
  <2>2. sent[i] = [k \in 0..(dp - 1) |-> Seg(flat[i], g[i], k)] /\ flat[i] = FlatGrads(g[i])
    <3>. HIDE DEF Seg
    <3>. QED BY DEF Sent_, flat
  <2>3. sent[i][Index(r, "data")] = Seg(flat[i], g[i], Index(r, "data"))
    <3>. HIDE DEF Seg, sent
    <3>. QED BY <2>2
  <2>. QED BY <2>1, <2>2, <2>3 DEF Segment_
<1>. HIDE DEF sent
<1>5. \A j : [i \in DOMAIN g |-> sent[i][Index(r, "data")][j]]
              = [i \in DOMAIN g |-> Segment_(g[i], Len(g), Index(r, "data"), x.data)[j]]
  BY <1>4
<1>6. \A j : Reduced("mean", [i \in DOMAIN g |-> sent[i][Index(r, "data")][j]])
              = MeanOf(g, Index(r, "data"), x.data, j)
  BY <1>5 DEF MeanOf
<1>7. PICK k : k = Index(r, "data")
  OBVIOUS
<1>8. [j \in 1..x.data.numel |-> Reduced("mean", [i \in DOMAIN g |-> sent[i][k][j]])]
        = MeansOf(g, k, x.data)
  BY <1>6, <1>7 DEF MeansOf
<1>. QED BY <1>3, <1>7, <1>8

(* An element of what a rank sends to a reduce_scatter.                    *)
LEMMA SegmentAt ==
    ASSUME CollInv, GradsWorth, config.mode = "flat", NEW q \in RanksHere, phase[q] = "sync",
           \A n \in Wants(config, step[q], q) :
                GradAt(config, step[q], q, Len(queue[q]), n) = PastData(config, step[q])[q][n],
           NEW dp, NEW k, NEW piece, NEW y \in 1..piece.numel,
           NEW n \in Members(NamesOf(config, q)), NEW j \in 1..Size[n],
           NEW p, At(config, q, n, j, p), p = PieceOfRank(Numel(q), dp, k, piece) + y
    PROVE  Segment_(q, dp, k, piece)[y] = Whole(config, step[q])[q][n][j]
<1>. DEFINE flat == FlatGrads(q)
            w == Whole(config, step[q])[q]
            begin == PieceOfRank(Numel(q), dp, k, piece)
<1>1. flat = LaidOut(config, q, w) /\ \A m \in Members(NamesOf(config, q)) : IsVector(w[m], m)
  BY FlatGradsAre
<1>. HIDE DEF w, flat
<1>2. p \in 1..Len(flat) /\ flat[p] = w[n][j] /\ Len(flat) \in Nat
  <2>1. IsList(LaidOut(config, q, w)) /\ p \in 1..Len(LaidOut(config, q, w)) /\ LaidOut(config, q, w)[p] = w[n][j]
    BY <1>1, FlatAt
  <2>2. Len(LaidOut(config, q, w)) \in Nat
    BY <2>1, ListIs
  <2>. QED BY <1>1, <2>1, <2>2
<1>3. FlatRange(flat, begin, piece.numel, ZeroGrad)[y] =
        IF begin + y <= Len(flat) THEN flat[begin + y] ELSE ZeroGrad
  <2>. HIDE DEF begin
  <2>. QED BY DEF FlatRange
<1>. HIDE DEF begin
<1>4. p = begin + y
  BY DEF begin
<1>5. FlatRange(flat, begin, piece.numel, ZeroGrad)[y] = w[n][j]
  <2>1. p <= Len(flat)
    BY <1>2
  <2>. QED BY <1>2, <1>3, <1>4, <2>1
<1>. QED BY <1>5 DEF Segment_, flat, begin, w

(* The ranks that meet to move a piece of their shards.                    *)
Brings(q, o, x) ==
    /\ q \in RanksHere /\ queue[q] # <<>> /\ Now(q) = x /\ step[q] = step[o]
    /\ phase[q] = IF x.kind = "scatter" THEN "sync" ELSE "share"
    /\ Index(q, "data") = DataOf(config, q) /\ DataOf(config, q) \in 0..(config.dims.data - 1)
    /\ NamesOf(config, q) = NamesOf(config, o) /\ Numel(q) = NumelOf(NumelsIn(config, o))
    /\ FlatTakes(x, config, step[q], phase[q], Len(queue[q]), q)
    /\ Len(queue'[q]) = Len(queue[q]) - 1

(* They are a ring of data ranks, in order, and bring the same call.       *)
LEMMA FlatMeeting ==
    ASSUME CollInv, config.mode = "flat", NEW comm \in Comms, NEW o \in RanksHere,
           Collective(comm, GroupOf(o, comm)),
           NEW x, x = Now(GroupOf(o, comm)[1]), x.kind \in {"scatter", "gather"}
    PROVE  LET g == GroupOf(o, comm)
           IN  /\ comm = "data" /\ Len(g) = config.dims.data /\ DOMAIN g = 1..config.dims.data
               /\ \A q \in Members(g) : g = RingOf(config, q, "data") /\ Brings(q, o, x)
               /\ \A i \in 1..config.dims.data :
                    g[i] \in Members(g) /\ DataOf(config, g[i]) = i - 1
<1>. DEFINE c == config
            g == GroupOf(o, comm)
            dp == config.dims.data
<1>1. /\ ConfigAs /\ c \in Configs /\ RanksHere = Ranks(c.dims) /\ P = c.dims
      /\ \A r \in RanksHere : Info(r) = Coordinates(c.dims, r) /\ Names(r) = NamesOf(c, r)
  BY InConfig, AsConfigured DEF CollInv, ConfigAs
<1>2. /\ Members(g) \subseteq RanksHere /\ g[1] \in Members(g) /\ o \in Members(g)
      /\ \A r \in Members(g) : Pops(r, x, comm, step[o])
  BY Taken
<1>3. ASSUME NEW q \in Members(g)
      PROVE  /\ FlatTakes(x, c, step[q], phase[q], Len(queue[q]), q)
             /\ phase[q] = IF x.kind = "scatter" THEN "sync" ELSE "share"
             /\ x.comm = "data"
  <2>1. q \in RanksHere /\ queue[q] # <<>> /\ Now(q) = x
    BY <1>2 DEF Pops
  <2>2. phase[q] \in {"sync", "share"} /\ FlatTakes(x, c, step[q], phase[q], Len(queue[q]), q)
    BY <2>1, FlatCall
  <2>. QED BY <2>2 DEF FlatTakes, IsPiece
<1>4. comm = "data"
  BY <1>2, <1>3 DEF Pops
<1>5. ASSUME NEW q \in Members(g) PROVE g = RingOf(c, q, "data") /\ Beside(c, q, o, "data")
  <2>1. "data" \in Rings /\ q \in RanksHere
    BY <1>2 DEF Rings
  <2>2. Beside(c, o, q, "data") /\ Beside(c, q, o, "data")
    BY <1>1, <1>2, <1>4, <2>1, GroupFacts
  <2>3. g = RingOf(c, o, "data")
    BY <1>1, <1>4, <2>1, InConfig
  <2>. QED BY <1>1, <2>1, <2>2, <2>3, OneRing
<1>6. DOMAIN g = 1..dp /\ Len(g) = dp /\ dp \in Nat
  <2>1. g = [i \in 1..dp |-> RingOf(c, o, "data")[i]]
    BY <1>2, <1>5 DEF RingOf, Group
  <2>2. dp \in Nat
    BY <1>1, ConfigType
  <2>. HIDE DEF g
  <2>. QED BY <2>1, <2>2
<1>7. ASSUME NEW i \in 1..dp PROVE g[i] \in Members(g) /\ DataOf(c, g[i]) = i - 1
  <2>1. g[i] \in Members(g)
    BY <1>6 DEF Members
  <2>2. "data" \in Rings /\ i \in 1..c.dims["data"]
    BY DEF Rings
  <2>3. g = RingOf(c, o, "data")
    BY <1>2, <1>5
  <2>4. Coordinates(c.dims, RingOf(c, o, "data")[i])["data"] = i - 1
    BY <1>1, <2>2, RingAt
  <2>. QED BY <2>1, <2>3, <2>4 DEF DataOf
<1>8. ASSUME NEW q \in Members(g) PROVE Brings(q, o, x)
  <2>1. q \in RanksHere /\ queue[q] # <<>> /\ Now(q) = x /\ step[q] = step[o]
        /\ Len(queue'[q]) = Len(queue[q]) - 1
    BY <1>2 DEF Pops
  <2>2. NamesOf(c, q) = NamesOf(c, o)
    <3>1. "data" \in Rings /\ Beside(c, q, o, "data")
      BY <1>5 DEF Rings
    <3>. QED BY <3>1, NamesAgree
  <2>3. Numel(q) = NumelOf(NumelsIn(c, o))
    BY <1>1, <2>1, <2>2 DEF Numel, Numels, NumelsIn
  <2>4. Index(q, "data") = DataOf(c, q)
    BY <1>1, <2>1 DEF Index, DataOf
  <2>5. DataOf(c, q) \in 0..(dp - 1)
    <3>1. PICK i \in 1..dp : g[i] = q
      BY <1>6 DEF Members
    <3>2. DataOf(c, q) = i - 1
      BY <1>7, <3>1
    <3>. QED BY <1>6, <3>2
  <2>. QED BY <1>3, <2>1, <2>2, <2>3, <2>4, <2>5 DEF Brings
<1>. QED BY <1>4, <1>5, <1>6, <1>7, <1>8

(* One more piece of the reduced gradients.                                *)
LEMMA ScatterWorth ==
    ASSUME CollInv, GradsWorth, config.mode = "flat", GshardsAre, NEW comm \in Comms, NEW o \in RanksHere,
           Collective(comm, GroupOf(o, comm)), Now(GroupOf(o, comm)[1]).kind = "scatter",
           NEW r \in Members(GroupOf(o, comm))
    PROVE  /\ phase[r] = "sync"
           /\ ReducedTo(gshard'[r], config, step[r], r,
                        Moved(config, r, In(config, step[r], r, Len(queue[r]) - 1)))
<1>. DEFINE c == config
            g == GroupOf(o, comm)
            x == Now(g[1])
            s == step[r]
            dp == c.dims.data
            S == ShardIn(c, r)
            k == DataOf(c, r)
            t == In(c, s, r, Len(queue[r]))
            a == Moved(c, r, t)
            b == Moved(c, r, t + 1)
            piece == x.data
            mean(y) == MeanOf(g, k, piece, y)
            tail == MeansOf(g, k, piece)
<1>1. /\ c \in Configs /\ RanksHere = Ranks(c.dims)
      /\ \A op, values : Reduced(op, values) = ReducedIn(c, op, values)
  BY InConfig DEF CollInv, ConfigAs
<1>2. /\ comm = "data" /\ Len(g) = dp /\ DOMAIN g = 1..dp
      /\ \A q \in Members(g) : g = RingOf(c, q, "data") /\ Brings(q, o, x)
      /\ \A i \in 1..dp : g[i] \in Members(g) /\ DataOf(c, g[i]) = i - 1
  <2>1. x.kind \in {"scatter", "gather"}
    OBVIOUS
  <2>. QED BY <2>1, FlatMeeting
<1>3. ReduceScatter(g)
  BY Taken
<1>4. ASSUME NEW q \in Members(g)
      PROVE  /\ q \in RanksHere /\ queue[q] # <<>> /\ Now(q) = x /\ step[q] = s /\ phase[q] = "sync"
             /\ NamesOf(c, q) = NamesOf(c, r) /\ Numel(q) = NumelOf(NumelsIn(c, r))
             /\ \A n \in Wants(c, s, q) : GradAt(c, s, q, Len(queue[q]), n) = PastData(c, s)[q][n]
  <2>1. Brings(q, o, x) /\ Brings(r, o, x) /\ x.kind = "scatter"
    BY <1>2
  <2>2. NumelsIn(c, r) = NumelsIn(c, o)
    BY <2>1 DEF Brings, NumelsIn
  <2>3. phase[q] = "sync" /\ FlatTakes(x, c, step[q], "sync", Len(queue[q]), q) /\ step[q] = s
    <3>. HIDE DEF x
    <3>. QED BY <2>1 DEF Brings
  <2>4. \A n \in Wants(c, s, q) : GradAt(c, s, q, Len(queue[q]), n) = PastData(c, s)[q][n]
    <3>. HIDE DEF x, s
    <3>. QED BY <2>1, <2>3 DEF FlatTakes
  <2>. QED BY <2>1, <2>2, <2>3, <2>4 DEF Brings
<1>5. /\ IsPiece(x, c, r, "scatter", t) /\ In(c, s, r, Len(queue[r]) - 1) = t + 1
      /\ Index(r, "data") = k /\ k \in 0..(dp - 1) /\ phase[r] = "sync" /\ r \in RanksHere
  <2>1. Brings(r, o, x) /\ x.kind = "scatter"
    BY <1>2
  <2>. HIDE DEF x
  <2>2. phase[r] = "sync" /\ FlatTakes(x, c, s, "sync", Len(queue[r]), r)
    BY <2>1 DEF Brings
  <2>. QED BY <2>1, <2>2 DEF FlatTakes, Brings
<1>6. /\ S \in Nat /\ a \in Nat /\ b \in Nat /\ piece.offset = a /\ piece.numel \in Nat /\ b = a + piece.numel
      /\ b <= S
  <2>1. t \in 0..(Much(c, r) - 1) /\ piece = PiecesIn(c, r)[t + 1]
    <3>. HIDE DEF x, t
    <3>. QED BY <1>5 DEF IsPiece
  <2>2. S \in Nat /\ Much(c, r) \in Nat
    BY <1>1, ShardType, MovedIs
  <2>. HIDE DEF t, piece, S
  <2>3. a = Moved(c, r, t) /\ b = Moved(c, r, t + 1) /\ S = ShardIn(c, r)
    BY DEF S
  <2>. HIDE DEF a, b
  <2>4. t \in 0..Much(c, r) /\ t + 1 \in 0..Much(c, r)
    BY <2>1, <2>2
  <2>5. /\ a \in 0..S /\ b \in 0..S /\ piece.offset = a /\ piece.numel \in Nat /\ b = a + piece.numel
    BY <1>1, <2>1, <2>3, <2>4, MovedIs
  <2>. QED BY <2>2, <2>5
<1>7. gshard'[r] = gshard[r] \o tail
  <2>1. \A q \in Members(g) : Now(q) = x
    BY <1>4
  <2>2. Index(r, "data") \in 0..(Len(g) - 1) /\ r \in Members(g)
    BY <1>2, <1>5
  <2>3. gshard'[r] = gshard[r] \o MeansOf(g, Index(r, "data"), x.data)
    <3>. HIDE DEF x, g
    <3>. QED BY <1>3, <1>5, <2>1, <2>2, ScatterIs
  <2>4. Index(r, "data") = k
    BY <1>5
  <2>. HIDE DEF x, g, k
  <2>. QED BY <2>3, <2>4
<1>8. ReducedTo(gshard[r], c, s, r, a)
  BY <1>5 DEF GshardsAre, GshardIs
<1>9. ASSUME NEW y \in 1..piece.numel, NEW n \in Members(NamesOf(c, r)), NEW j \in 1..Size[n],
             InShard(c, r, n, j, a + y)
      PROVE  mean(y) = Meaned(c, s)[r][n][j]
  <2>. DEFINE p == k * S + (a + y)
              w == Whole(c, s)
              seg(i) == Segment_(g[i], Len(g), k, piece)[y]
  <2>1. At(c, r, n, j, p)
    BY <1>9 DEF InShard
  <2>2. ASSUME NEW q \in Members(g)
        PROVE  Segment_(q, Len(g), k, piece)[y] = w[q][n][j]
    <3>1. /\ q \in RanksHere /\ step[q] = s /\ phase[q] = "sync" /\ NamesOf(c, q) = NamesOf(c, r)
          /\ Numel(q) = NumelOf(NumelsIn(c, r))
          /\ \A m \in Wants(c, s, q) : GradAt(c, s, q, Len(queue[q]), m) = PastData(c, s)[q][m]
      BY <1>4
    <3>2. At(c, q, n, j, p) /\ n \in Members(NamesOf(c, q))
      BY <2>1, <3>1, SameLayout
    <3>3. p = PieceOfRank(Numel(q), Len(g), k, piece) + y
      <4>1. PieceOfRank(Numel(q), Len(g), k, piece) = k * S + piece.offset
        BY <1>2, <3>1 DEF PieceOfRank, ShardBegin, ShardIn
      <4>2. k * S \in Nat /\ y \in Nat
        <5>1. k \in Nat
          BY <1>5
        <5>. HIDE DEF k, S
        <5>. QED BY <1>6, <5>1
      <4>3. PICK z \in Nat : z = k * S
        BY <4>2
      <4>4. p = z + (a + y) /\ PieceOfRank(Numel(q), Len(g), k, piece) = z + a
        BY <1>6, <4>1, <4>3
      <4>. HIDE DEF p, a
      <4>5. a \in Nat
        BY <1>6 DEF a
      <4>. QED BY <4>2, <4>3, <4>4, <4>5
    <3>. HIDE DEF p, k, S, piece, s
    <3>4. Segment_(q, Len(g), k, piece)[y] = Whole(c, step[q])[q][n][j]
      BY <3>1, <3>2, <3>3, SegmentAt
    <3>. QED BY <3>1, <3>4
  <2>3. ASSUME NEW i \in 1..dp PROVE seg(i) = w[RingOf(c, r, "data")[i]][n][j]
    <3>1. g[i] \in Members(g) /\ g = RingOf(c, r, "data")
      BY <1>2
    <3>. HIDE DEF w, piece, k
    <3>. QED BY <2>2, <3>1
  <2>4. [i \in DOMAIN g |-> seg(i)] = [i \in 1..dp |-> w[RingOf(c, r, "data")[i]][n][j]]
    <3>. HIDE DEF seg, w
    <3>. QED BY <1>2, <2>3
  <2>5. mean(y) = ReducedIn(c, "mean", [i \in DOMAIN g |-> seg(i)])
    BY <1>1 DEF MeanOf
  <2>6. Meaned(c, s)[r][n][j] = ReducedIn(c, "mean", [i \in 1..dp |-> w[RingOf(c, r, "data")[i]][n][j]])
    <3>1. r \in Ranks(c.dims)
      BY <1>1, <1>5
    <3>. HIDE DEF s
    <3>. QED BY <3>1 DEF Meaned
  <2>. HIDE DEF seg, w, mean
  <2>. QED BY <2>4, <2>5, <2>6
<1>10. IsList(tail) /\ Len(tail) = piece.numel /\ \A y \in 1..piece.numel : tail[y] = mean(y)
  <2>1. tail = [y \in 1..piece.numel |-> tail[y]] /\ \A y \in 1..piece.numel : tail[y] = mean(y)
    <3>. HIDE DEF piece, g, k
    <3>. QED BY DEF MeansOf
  <2>. HIDE DEF mean, piece
  <2>. HIDE DEF tail
  <2>. QED BY <1>6, <2>1, ListOf
<1>. HIDE DEF tail, mean, piece, a, b, S, k
<1>11. /\ IsList(gshard'[r]) /\ Len(gshard'[r]) = b
       /\ \A y \in 1..a : gshard'[r][y] = gshard[r][y]
       /\ \A y \in 1..piece.numel : gshard'[r][a + y] = tail[y]
  <2>1. IsList(gshard[r]) /\ Len(gshard[r]) = a
    BY <1>8 DEF ReducedTo
  <2>0. PICK u, v, w : u = gshard[r] /\ v = gshard'[r] /\ w = tail
    OBVIOUS
  <2>2. IsList(u) /\ Len(u) = a /\ v = u \o w /\ IsList(w) /\ Len(w) = piece.numel
    BY <1>7, <1>10, <2>0, <2>1
  <2>3. /\ IsList(u \o w) /\ Len(u \o w) = Len(u) + Len(w)
        /\ \A y \in 1..Len(u) : (u \o w)[y] = u[y]
        /\ \A y \in 1..Len(w) : (u \o w)[Len(u) + y] = w[y]
    <3>1. IsList(u) /\ IsList(w)
      BY <2>2
    <3>. QED BY <3>1, Concat
  <2>4. /\ IsList(v) /\ Len(v) = b
        /\ \A y \in 1..a : v[y] = u[y]
        /\ \A y \in 1..piece.numel : v[a + y] = w[y]
    BY <1>6, <2>2, <2>3
  <2>. QED BY <2>0, <2>4
<1>12. ASSUME NEW y \in 1..b, NEW n \in Members(NamesOf(c, r)), NEW j \in 1..Size[n], InShard(c, r, n, j, y)
       PROVE  gshard'[r][y] = Meaned(c, s)[r][n][j]
  <2>. HIDE DEF s
  <2>1. CASE y \in 1..a
    BY <1>8, <1>11, <1>12, <2>1 DEF ReducedTo
  <2>2. CASE y \notin 1..a
    <3>1. PICK z \in 1..piece.numel : y = a + z
      <4>1. y - a \in 1..piece.numel /\ y = a + (y - a)
        BY <1>6, <2>2
      <4>. QED BY <4>1
    <3>2. mean(z) = Meaned(c, s)[r][n][j]
      BY <1>9, <1>12, <3>1
    <3>. QED BY <1>10, <1>11, <3>1, <3>2
  <2>. QED BY <2>1, <2>2
<1>13. ReducedTo(gshard'[r], c, s, r, b)
  BY <1>11, <1>12 DEF ReducedTo
<1>. QED BY <1>5, <1>13 DEF b

(* A part of a sequence.                                                   *)
LEMMA SubSeqIs ==
    ASSUME NEW f, NEW a \in Nat, NEW m \in Nat
    PROVE  SubSeq(f, a + 1, a + m) = [j \in 1..m |-> f[a + j]]
<1>1. SubSeq(f, a + 1, a + m) = [i \in 1..(1 + (a + m) - (a + 1)) |-> f[i + (a + 1) - 1]]
  OBVIOUS
<1>2. 1 + (a + m) - (a + 1) = m /\ \A j \in 1..m : j + (a + 1) - 1 = a + j
  OBVIOUS
<1>. QED BY <1>1, <1>2

(* What an all_gather writes over the parameters of a rank.                *)
Cut(q, piece) == SubSeq(shard[q], piece.offset + 1, piece.offset + piece.numel)
CutsOf(g, piece) == [i \in DOMAIN g |-> Cut(g[i], piece)]
BeginsOf(g, numel, piece) == [i \in DOMAIN g |-> PieceOfRank(numel, Len(g), i - 1, piece)]
Overwritten(g, r, piece) ==
    ApplyRanges(FlatParams(r), BeginsOf(g, Numel(r), piece), CutsOf(g, piece))

(* What an all_gather leaves as parameters.                                *)
LEMMA GatherIs ==
    ASSUME NEW g, AllGather(g), NEW x, \A q \in Members(g) : Now(q) = x,
           NEW r \in Members(g), r \in RanksHere, Position(r, g) \in DOMAIN g, g[Position(r, g)] = r
    PROVE  params'[r] = Assign(r, Overwritten(g, r, x.data))
<1>. DEFINE dp == Len(g)
            Piece(q) == SubSeq(shard[q], Now(q).data.offset + 1, Now(q).data.offset + Now(q).data.numel)
            Over_(q, f, ps) ==
                ApplyRanges(f, [i \in DOMAIN g |-> PieceOfRank(Numel(q), dp, i - 1, Now(q).data)], ps)
            ps == [i \in DOMAIN g |-> Piece(g[i])]
            fs == [i \in DOMAIN g |-> FlatParams(g[i])]
            Ws(f, p) == [i \in DOMAIN g |-> Over_(g[i], f[i], p)]
            After_(ws) == [q \in RanksHere |-> IF q \in Members(g) THEN Assign(q, ws[Position(q, g)])
                                               ELSE params[q]]
<1>1. \E p \in {ps} : \E f \in {fs} : \E ws \in {Ws(f, p)} :
        params' = After_(ws) /\ UNCHANGED <<grads, shard, gshard, norm>>
  BY DEF AllGather
<1>. DEFINE ws == Ws(fs, ps)
<1>. HIDE DEF ps, fs, Ws, After_
<1>2. params' = After_(ws)
  BY <1>1
<1>3. params'[r] = Assign(r, ws[Position(r, g)])
  <2>. HIDE DEF ws
  <2>. QED BY <1>2 DEF After_
<1>4. PICK k \in DOMAIN g : k = Position(r, g) /\ g[k] = r
  OBVIOUS
<1>5. ws[k] = Over_(g[k], fs[k], ps)
  <2>. HIDE DEF Over_
  <2>. QED BY DEF Ws
<1>6. fs[k] = FlatParams(r)
  BY <1>4 DEF fs
<1>7. ps = CutsOf(g, x.data)
  <2>1. \A i \in DOMAIN g : Piece(g[i]) = Cut(g[i], x.data)
    BY DEF Cut, Members
  <2>. HIDE DEF Piece
  <2>. QED BY <2>1 DEF ps, CutsOf
<1>8. [i \in DOMAIN g |-> PieceOfRank(Numel(r), dp, i - 1, Now(r).data)] = BeginsOf(g, Numel(r), x.data)
  <2>1. Now(r) = x
    OBVIOUS
  <2>. QED BY <2>1 DEF BeginsOf
<1>9. ws[k] = Overwritten(g, r, x.data)
  <2>. HIDE DEF ws
  <2>. QED BY <1>4, <1>5, <1>6, <1>7, <1>8 DEF Overwritten
<1>. HIDE DEF ws
<1>. QED BY <1>3, <1>4, <1>9

(* What is due to an element is the same on the ranks that hold it.        *)
LEMMA DueTogether ==
    ASSUME NEW c \in Configs, c.mode = "flat", NEW s, NEW w, FlatCopies(c, w),
           NEW q \in Ranks(c.dims), NEW r \in Ranks(c.dims), Beside(c, q, r, "data"),
           NEW n \in Members(NamesOf(c, r))
    PROVE  \A z, j : DueAt(c, s, z, w, q, n, j) = DueAt(c, s, z, w, r, n, j)
<1>1. Near(c, q, r, FlatOver(c, n)) /\ n \in AllNames
  BY NamesType DEF Near, Beside, FlatOver
<1>2. w[q][n] = w[r][n]
  BY <1>1 DEF FlatCopies, Uniform
<1>3. Meaned(c, s)[q][n] = Meaned(c, s)[r][n]
  <2>1. Uniform(c, Meaned(c, s), n, FlatOver(c, n))
    BY MeanUniform
  <2>. QED BY <1>1, <2>1 DEF Uniform
<1>. QED BY <1>2, <1>3 DEF DueAt

(* A position of the flat vector that a piece of some shard reaches.       *)
Reaching_(c, r, t, i, p) ==
    /\ (i - 1) * ShardIn(c, r) + Moved(c, r, t) < p
    /\ p <= (i - 1) * ShardIn(c, r) + Moved(c, r, t + 1)

(* The pieces of different shards do not overlap.                          *)
LEMMA ReachedOnce ==
    ASSUME NEW c \in Configs, NEW r, NEW t \in 0..(Much(c, r) - 1), NEW p \in Nat,
           NEW i \in 1..c.dims.data, NEW k \in 1..c.dims.data,
           Reaching_(c, r, t, i, p), Reaching_(c, r, t, k, p)
    PROVE  i = k
<1>. DEFINE S == ShardIn(c, r)
            a == Moved(c, r, t)
            b == Moved(c, r, t + 1)
<1>1. S \in Nat /\ a \in Nat /\ b \in Nat /\ a <= b /\ b <= S /\ c.dims.data \in Nat
  <2>1. S \in Nat /\ Much(c, r) \in Nat
    BY ShardType, MovedIs
  <2>2. t \in 0..Much(c, r) /\ t + 1 \in 0..Much(c, r)
    BY <2>1
  <2>3. a \in 0..S /\ b \in 0..S /\ PiecesIn(c, r)[t + 1].numel \in Nat /\ b = a + PiecesIn(c, r)[t + 1].numel
    BY <2>2, MovedIs
  <2>. HIDE DEF a, b, S
  <2>4. c.dims.data \in Nat
    BY ConfigType
  <2>5. PICK e \in Nat : b = a + e
    BY <2>3
  <2>. QED BY <2>1, <2>3, <2>4, <2>5
<1>2. /\ (i - 1) * S + a < p /\ p <= (i - 1) * S + b
      /\ (k - 1) * S + a < p /\ p <= (k - 1) * S + b
  BY DEF Reaching_
<1>. HIDE DEF S, a, b
<1>3. ASSUME NEW u \in Nat, NEW v \in Nat, u < v PROVE u * S \in Nat /\ v * S \in Nat /\ u * S + S <= v * S
  <2>1. PICK d \in Nat : v = u + 1 + d
    <3>1. v - u - 1 \in Nat /\ v = u + 1 + (v - u - 1)
      BY <1>3
    <3>. QED BY <3>1
  <2>2. v * S = u * S + S + d * S /\ d * S \in Nat /\ u * S \in Nat
    BY <1>1, <2>1
  <2>. QED BY <1>1, <2>2
<1>4. PICK u \in Nat, v \in Nat : u = i - 1 /\ v = k - 1
  BY <1>1
<1>5. PICK x, y : x = u * S /\ y = v * S /\ x \in Nat /\ y \in Nat
  <2>1. u * S \in Nat /\ v * S \in Nat
    BY <1>1
  <2>. QED BY <2>1
<1>6. x + a < p /\ p <= x + b /\ y + a < p /\ p <= y + b
  BY <1>2, <1>4, <1>5
<1>7. ~(u < v)
  <2>1. u < v => x + S <= y
    BY <1>3, <1>5
  <2>. QED BY <1>1, <1>5, <1>6, <2>1
<1>8. ~(v < u)
  <2>1. v < u => y + S <= x
    BY <1>3, <1>5
  <2>. QED BY <1>1, <1>5, <1>6, <2>1
<1>. QED BY <1>4, <1>7, <1>8

(* One more piece of every shard.                                          *)
LEMMA CoveredNext ==
    ASSUME NEW c \in Configs, NEW r, NEW t \in 0..(Much(c, r) - 1), NEW p \in Nat
    PROVE  Covered(c, r, t + 1, p) <=>
                Covered(c, r, t, p) \/ \E i \in 1..c.dims.data : Reaching_(c, r, t, i, p)
<1>. DEFINE S == ShardIn(c, r)
            a == Moved(c, r, t)
            b == Moved(c, r, t + 1)
<1>1. S \in Nat /\ a \in Nat /\ b \in Nat /\ a <= b /\ c.dims.data \in Nat
  <2>1. S \in Nat /\ Much(c, r) \in Nat
    BY ShardType, MovedIs
  <2>2. t \in 0..Much(c, r) /\ t + 1 \in 0..Much(c, r)
    BY <2>1
  <2>3. a \in 0..S /\ b \in 0..S /\ PiecesIn(c, r)[t + 1].numel \in Nat /\ b = a + PiecesIn(c, r)[t + 1].numel
    BY <2>2, MovedIs
  <2>. HIDE DEF a, b, S
  <2>4. c.dims.data \in Nat
    BY ConfigType
  <2>5. PICK e \in Nat : b = a + e
    BY <2>3
  <2>. QED BY <2>1, <2>3, <2>4, <2>5
<1>2. ASSUME NEW m \in 1..c.dims.data
      PROVE  /\ Reaching_(c, r, t, m, p) <=> (m - 1) * S + a < p /\ p <= (m - 1) * S + b
             /\ (m - 1) * S \in Nat
  <2>1. m - 1 \in Nat
    BY <1>1
  <2>2. (m - 1) * S \in Nat
    <3>. HIDE DEF S
    <3>. QED BY <1>1, <2>1
  <2>. QED BY <2>2 DEF Reaching_
<1>3. /\ Covered(c, r, t, p) <=> \E m \in 1..c.dims.data : (m - 1) * S < p /\ p <= (m - 1) * S + a
      /\ Covered(c, r, t + 1, p) <=> \E m \in 1..c.dims.data : (m - 1) * S < p /\ p <= (m - 1) * S + b
  BY DEF Covered
<1>. HIDE DEF S, a, b
<1>4. ASSUME NEW m \in 1..c.dims.data
      PROVE  (m - 1) * S < p /\ p <= (m - 1) * S + b <=>
                ((m - 1) * S < p /\ p <= (m - 1) * S + a) \/ Reaching_(c, r, t, m, p)
  <2>1. PICK z \in Nat : z = (m - 1) * S
    BY <1>2
  <2>2. Reaching_(c, r, t, m, p) <=> z + a < p /\ p <= z + b
    BY <1>2, <2>1
  <2>3. z < p /\ p <= z + b <=> (z < p /\ p <= z + a) \/ Reaching_(c, r, t, m, p)
    BY <1>1, <2>2
  <2>. QED BY <2>1, <2>3
<1>. QED BY <1>3, <1>4

(* The parameters that an all_gather assigns, out of the flat vector.      *)
LEMMA AssignIs ==
    ASSUME ConfigAs, NEW r \in RanksHere, DOMAIN params[r] = Members(NamesOf(config, r)), NEW f
    PROVE  /\ DOMAIN Assign(r, f) = Members(NamesOf(config, r))
           /\ \A n \in Members(NamesOf(config, r)) :
                /\ IsVector(Assign(r, f)[n], n)
                /\ \A j \in 1..Size[n] : \A p : At(config, r, n, j, p) => Assign(r, f)[n][j] = f[p]
<1>. DEFINE names == NamesOf(config, r)
            sizes == NumelsIn(config, r)
            Begin(n) == TensorBegin(sizes, CHOOSE i \in DOMAIN names : names[i] = n)
            Cut_(n) == SubSeq(f, Begin(n) + 1, Begin(n) + Size[n])
<1>1. Names(r) = names /\ Numels(r) = sizes
  <2>1. Names(r) = names
    BY AsConfigured
  <2>. QED BY <2>1 DEF Numels, NumelsIn
<1>2. Assign(r, f) = [n \in Members(names) |-> Cut_(n)]
  BY <1>1 DEF Assign
<1>3. /\ sizes \in Seq(Nat) /\ Len(sizes) = Len(names) /\ Len(names) \in Nat
      /\ names \in Seq(AllNames) /\ NoTwice(names) /\ DOMAIN names = 1..Len(names)
  BY NumelsAre, NamesType, NamesOnce
<1>. HIDE DEF names, sizes
<1>4. ASSUME NEW k \in 1..Len(names) PROVE TensorBegin(sizes, k) \in Nat
  <2>1. PICK h : Sums(h, sizes)
    BY <1>3, NumelRuns
  <2>2. \A i \in 1..Len(sizes) : TensorBegin(sizes, i) = h[i - 1]
    BY <1>3, <2>1, BeginsAt
  <2>3. k \in 1..Len(sizes) /\ k - 1 \in 0..Len(sizes)
    BY <1>3
  <2>. QED BY <2>1, <2>2, <2>3 DEF Sums
<1>5. ASSUME NEW n \in Members(names)
      PROVE  /\ IsVector(Assign(r, f)[n], n)
             /\ \A j \in 1..Size[n] : \A p : At(config, r, n, j, p) => Assign(r, f)[n][j] = f[p]
  <2>1. \E i \in DOMAIN names : names[i] = n
    BY DEF Members
  <2>2. PICK k \in 1..Len(names) : names[k] = n /\ k = CHOOSE i \in DOMAIN names : names[i] = n
    BY <1>3, <2>1
  <2>3. Size[n] \in Nat
    BY NamesType DEF names
  <2>4. PICK b \in Nat : b = TensorBegin(sizes, k)
    BY <1>4
  <2>5. Assign(r, f)[n] = [j \in 1..Size[n] |-> f[b + j]]
    <3>1. Assign(r, f)[n] = SubSeq(f, b + 1, b + Size[n])
      BY <1>2, <2>2, <2>4
    <3>2. PICK m \in Nat : m = Size[n]
      BY <2>3
    <3>3. SubSeq(f, b + 1, b + m) = [j \in 1..m |-> f[b + j]]
      BY SubSeqIs
    <3>. QED BY <3>1, <3>2, <3>3
  <2>6. ASSUME NEW j \in 1..Size[n], NEW p, At(config, r, n, j, p) PROVE Assign(r, f)[n][j] = f[p]
    <3>1. PICK i \in 1..Len(names) : names[i] = n /\ p = TensorBegin(sizes, i) + j
      BY <2>6 DEF At, names, sizes
    <3>2. i = k
      BY <1>3, <2>2, <3>1 DEF NoTwice
    <3>. QED BY <2>4, <2>5, <3>1, <3>2
  <2>. QED BY <2>5, <2>6 DEF IsVector
<1>. QED BY <1>2, <1>5 DEF names

(* Where the pieces that are gathered go.                                  *)
CutsGo(c, r, t, g, begins, cuts) ==
    /\ Ranges(begins, cuts) /\ Len(begins) = c.dims.data
    /\ \A i \in 1..c.dims.data : \A p \in Nat :
         /\ Reaches(begins, cuts, i, p) <=> Reaching_(c, r, t, i, p)
         /\ Reaching_(c, r, t, i, p) =>
              \E y \in 1..ShardIn(c, r) : /\ p = (i - 1) * ShardIn(c, r) + y
                                          /\ cuts[i][p - begins[i]] = shard[g[i]][y]

(* The pieces that meet, and where each goes.                              *)
LEMMA CutsAre ==
    ASSUME NEW c \in Configs, NEW r, NEW t \in 0..(Much(c, r) - 1),
           NEW g, Len(g) = c.dims.data, DOMAIN g = 1..c.dims.data,
           NEW piece, piece = PiecesIn(c, r)[t + 1], NEW numel, numel = NumelOf(NumelsIn(c, r))
    PROVE  CutsGo(c, r, t, g, BeginsOf(g, numel, piece), CutsOf(g, piece))
<1>. DEFINE begins == BeginsOf(g, numel, piece)
            cuts == CutsOf(g, piece)
            dp == c.dims.data
            S == ShardIn(c, r)
            a == Moved(c, r, t)
            b == Moved(c, r, t + 1)
            m == piece.numel
<1>1. /\ S \in Nat /\ a \in Nat /\ b \in Nat /\ m \in Nat /\ b = a + m /\ b <= S /\ dp \in Nat
      /\ piece.offset = a
  <2>1. S \in Nat /\ Much(c, r) \in Nat
    BY ShardType, MovedIs
  <2>2. t \in 0..Much(c, r) /\ t + 1 \in 0..Much(c, r)
    BY <2>1
  <2>3. a \in 0..S /\ b \in 0..S /\ m \in Nat /\ b = a + m /\ piece.offset = a
    BY <2>2, MovedIs
  <2>. HIDE DEF a, b, S, m
  <2>. QED BY <2>1, <2>3, ConfigType
<1>2. /\ begins = [i \in 1..dp |-> begins[i]]
      /\ \A i \in 1..dp : begins[i] = (i - 1) * S + a
  <2>1. \A i : PieceOfRank(numel, Len(g), i - 1, piece) = (i - 1) * S + a
    BY <1>1 DEF PieceOfRank, ShardBegin, ShardIn
  <2>. HIDE DEF S, a
  <2>. QED BY <2>1 DEF BeginsOf
<1>3. \A i \in 1..dp : cuts[i] = Cut(g[i], piece)
  BY DEF CutsOf
<1>. HIDE DEF begins, cuts, dp, S, a, b, m
<1>4. IsList(begins) /\ Len(begins) = dp
  BY <1>1, <1>2, ListOf
<1>5. ASSUME NEW i \in 1..dp
      PROVE  /\ cuts[i] = [y \in 1..m |-> shard[g[i]][a + y]] /\ IsList(cuts[i]) /\ Len(cuts[i]) = m
             /\ (i - 1) * S \in Nat /\ begins[i] \in Nat
  <2>1. Cut(g[i], piece) = SubSeq(shard[g[i]], a + 1, a + m)
    BY <1>1 DEF Cut, m
  <2>2. cuts[i] = [y \in 1..m |-> shard[g[i]][a + y]]
    <3>1. PICK f : f = shard[g[i]]
      OBVIOUS
    <3>2. SubSeq(f, a + 1, a + m) = [y \in 1..m |-> f[a + y]]
      BY <1>1, SubSeqIs
    <3>. QED BY <1>3, <2>1, <3>1, <3>2
  <2>3. IsList(cuts[i]) /\ Len(cuts[i]) = m
    <3>1. PICK v : v = cuts[i]
      OBVIOUS
    <3>2. v = [y \in 1..m |-> v[y]]
      BY <2>2, <3>1
    <3>3. IsList(v) /\ Len(v) = m
      BY <1>1, <3>2, ListOf
    <3>. QED BY <3>1, <3>3
  <2>4. (i - 1) * S \in Nat
    <3>1. i - 1 \in Nat
      BY <1>1
    <3>. QED BY <1>1, <3>1
  <2>5. begins[i] \in Nat
    BY <1>1, <1>2, <2>4
  <2>. QED BY <2>2, <2>3, <2>4, <2>5
<1>6. Ranges(begins, cuts)
  BY <1>4, <1>5 DEF Ranges
<1>7. ASSUME NEW i \in 1..dp, NEW p \in Nat
      PROVE  /\ Reaches(begins, cuts, i, p) <=> Reaching_(c, r, t, i, p)
             /\ Reaching_(c, r, t, i, p) =>
                  \E y \in 1..S : p = (i - 1) * S + y /\ cuts[i][p - begins[i]] = shard[g[i]][y]
  <2>1. PICK z \in Nat : z = (i - 1) * S
    BY <1>5
  <2>2. begins[i] = z + a /\ Len(cuts[i]) = m
    BY <1>2, <1>5, <2>1
  <2>3. Reaching_(c, r, t, i, p) <=> z + a < p /\ p <= z + b
    BY <2>1 DEF Reaching_, S, a, b
  <2>4. Reaches(begins, cuts, i, p) <=> z + a < p /\ p <= (z + a) + m
    BY <2>2 DEF Reaches
  <2>5. ASSUME Reaching_(c, r, t, i, p)
        PROVE  \E y \in 1..S : p = (i - 1) * S + y /\ cuts[i][p - begins[i]] = shard[g[i]][y]
    <3>1. PICK d \in 1..m : d = p - (z + a)
      BY <1>1, <2>3, <2>5
    <3>2. a + d \in 1..S /\ p = z + (a + d)
      BY <1>1, <3>1
    <3>3. cuts[i][p - begins[i]] = shard[g[i]][a + d]
      <4>1. cuts[i][d] = shard[g[i]][a + d]
        BY <1>5
      <4>2. d = p - begins[i]
        BY <2>2, <3>1
      <4>. QED BY <4>1, <4>2
    <3>. QED BY <2>1, <3>2, <3>3
  <2>. QED BY <1>1, <2>3, <2>4, <2>5
<1>8. CutsGo(c, r, t, g, begins, cuts)
  BY <1>4, <1>6, <1>7 DEF CutsGo, dp, S
<1>. QED BY <1>8 DEF begins, cuts

(* One more piece of the parameters.                                       *)
LEMMA GatherWorth ==
    ASSUME CollInv, NormWorth, config.mode = "flat", NEW w, FlatCopies(config, w), FlatParamsAre(w), ShardsAre(w),
           NEW comm \in Comms, NEW o \in RanksHere,
           Collective(comm, GroupOf(o, comm)), Now(GroupOf(o, comm)[1]).kind = "gather",
           NEW r \in Members(GroupOf(o, comm))
    PROVE  /\ phase[r] = "share"
           /\ FlatVectors(params'[r], config, step[r], "share", Out(config, r, Len(queue[r]) - 1), norm[r], w, r)
<1>. DEFINE c == config
            g == GroupOf(o, comm)
            x == Now(g[1])
            s == step[r]
            z == norm[r]
            dp == c.dims.data
            S == ShardIn(c, r)
            t == Out(c, r, Len(queue[r]))
            piece == x.data
            flat == FlatParams(r)
            begins == BeginsOf(g, Numel(r), piece)
            cuts == CutsOf(g, piece)
            over == Overwritten(g, r, piece)
            Elem(u, n, j, p) == FlatElem(c, s, "share", u, z, w, r, n, j, p)
<1>1. /\ c \in Configs /\ RanksHere = Ranks(c.dims) /\ ConfigAs
      /\ \A q \in RanksHere : Names(q) = NamesOf(c, q)
  BY InConfig, AsConfigured DEF CollInv, ConfigAs
<1>2. /\ comm = "data" /\ Len(g) = dp /\ DOMAIN g = 1..dp
      /\ \A q \in Members(g) : g = RingOf(c, q, "data") /\ Brings(q, o, x)
      /\ \A i \in 1..dp : g[i] \in Members(g) /\ DataOf(c, g[i]) = i - 1
  <2>1. x.kind \in {"scatter", "gather"}
    OBVIOUS
  <2>. QED BY <2>1, FlatMeeting
<1>3. AllGather(g)
  BY Taken
<1>4. /\ r \in RanksHere /\ phase[r] = "share" /\ IsPiece(x, c, r, "gather", t)
      /\ Out(c, r, Len(queue[r]) - 1) = t + 1 /\ Numel(r) = NumelOf(NumelsIn(c, r))
      /\ t \in 0..(Much(c, r) - 1) /\ piece = PiecesIn(c, r)[t + 1]
  <2>1. Brings(r, o, x) /\ x.kind = "gather"
    BY <1>2
  <2>2. NumelsIn(c, r) = NumelsIn(c, o)
    BY <2>1 DEF Brings, NumelsIn
  <2>. HIDE DEF x
  <2>3. phase[r] = "share" /\ FlatTakes(x, c, s, "share", Len(queue[r]), r)
    BY <2>1 DEF Brings
  <2>. QED BY <2>1, <2>2, <2>3 DEF FlatTakes, Brings, IsPiece
<1>5. ASSUME NEW i \in 1..dp
      PROVE  /\ g[i] \in RanksHere /\ Now(g[i]) = x /\ step[g[i]] = s /\ phase[g[i]] = "share"
             /\ NamesOf(c, g[i]) = NamesOf(c, r) /\ ShardIn(c, g[i]) = S /\ DataOf(c, g[i]) = i - 1
             /\ norm[g[i]] = z /\ Beside(c, g[i], r, "data")
  <2>1. PICK q \in Members(g) : q = g[i]
    BY <1>2
  <2>2. Brings(q, o, x) /\ Brings(r, o, x) /\ x.kind = "gather"
    BY <1>2
  <2>3. NamesOf(c, q) = NamesOf(c, r)
    BY <2>2 DEF Brings
  <2>4. ShardIn(c, q) = S
    BY <2>3, SameLayout
  <2>5. norm[q] = z
    BY <2>2 DEF NormWorth, Brings
  <2>6. "data" \in Rings
    BY DEF Rings
  <2>7. Beside(c, q, r, "data")
    BY <1>1, <1>2, <2>6, GroupFacts
  <2>8. q \in RanksHere /\ Now(q) = x /\ step[q] = s /\ phase[q] = "share"
    <3>. HIDE DEF x
    <3>. QED BY <2>2 DEF Brings
  <2>. QED BY <1>2, <2>1, <2>3, <2>4, <2>5, <2>7, <2>8
<1>6. /\ DOMAIN params[r] = Members(NamesOf(c, r))
      /\ \A n \in Members(NamesOf(c, r)) : FlatVector(params[r][n], c, s, "share", t, z, w, r, n)
  BY <1>4 DEF FlatParamsAre, FlatVectors
<1>7. flat = LaidOut(c, r, params[r])
  BY <1>1, <1>4 DEF FlatParams, LaidOut
<1>8. /\ IsList(flat)
      /\ \A n \in Members(NamesOf(c, r)) : \A j \in 1..Size[n] : \A p :
           At(c, r, n, j, p) => p \in 1..Len(flat) /\ flat[p] = params[r][n][j]
  <2>1. \A n \in Members(NamesOf(c, r)) : IsVector(params[r][n], n)
    BY <1>6 DEF FlatVector
  <2>. HIDE DEF flat
  <2>. QED BY <1>7, <2>1, FlatAt
<1>9. /\ Ranges(begins, cuts) /\ Len(begins) = dp
      /\ \A i \in 1..dp : \A p \in Nat :
            /\ Reaches(begins, cuts, i, p) <=> Reaching_(c, r, t, i, p)
            /\ Reaching_(c, r, t, i, p) =>
                 \E y \in 1..S : p = (i - 1) * S + y /\ cuts[i][p - begins[i]] = shard[g[i]][y]
  <2>1. Len(g) = c.dims.data /\ DOMAIN g = 1..c.dims.data
    BY <1>2
  <2>2. CutsGo(c, r, t, g, begins, cuts)
    <3>. HIDE DEF t, piece, g
    <3>. QED BY <1>1, <1>4, <2>1, CutsAre
  <2>. HIDE DEF t, piece, g, begins, cuts
  <2>. QED BY <2>2 DEF CutsGo
<1>10. Written(over, flat, begins, cuts, dp)
  <2>1. over = ApplyRanges(flat, begins, cuts)
    BY DEF Overwritten
  <2>. HIDE DEF over, flat, begins, cuts
  <2>. QED BY <1>8, <1>9, <2>1, ApplyRangesAt
<1>11. params'[r] = Assign(r, over)
  <2>1. \A q \in Members(g) : Now(q) = x
    BY <1>2 DEF Brings
  <2>2. Position(r, g) \in DOMAIN g /\ g[Position(r, g)] = r
    <3>1. \E i \in DOMAIN g : g[i] = r
      BY DEF Members
    <3>. HIDE DEF g
    <3>. QED BY <3>1 DEF Position
  <2>3. r \in Members(g)
    OBVIOUS
  <2>. HIDE DEF g, x
  <2>. QED BY <1>3, <1>4, <2>1, <2>2, <2>3, GatherIs
<1>. HIDE DEF over, flat, begins, cuts, piece, x, t, z
<1>12. ASSUME NEW n \in Members(NamesOf(c, r)), NEW j \in 1..Size[n], NEW p, At(c, r, n, j, p)
       PROVE  over[p] = Elem(t + 1, n, j, p)
  <2>1. p \in 1..Len(flat) /\ p \in Nat /\ flat[p] = params[r][n][j]
    BY <1>8, <1>12, AtType
  <2>2. flat[p] = Elem(t, n, j, p)
    BY <1>6, <1>12, <2>1 DEF FlatVector
  <2>3. Covered(c, r, t + 1, p) <=> Covered(c, r, t, p) \/ \E i \in 1..dp : Reaching_(c, r, t, i, p)
    BY <1>1, <1>4, <2>1, CoveredNext
  <2>4. CASE \A i \in 1..dp : ~Reaching_(c, r, t, i, p)
    <3>1. \A i \in 1..dp : ~Reaches(begins, cuts, i, p)
      BY <1>9, <2>1, <2>4
    <3>2. over[p] = flat[p]
      BY <1>10, <2>1, <3>1 DEF Written
    <3>. QED BY <2>2, <2>3, <2>4, <3>2 DEF FlatElem
  <2>5. ASSUME NEW i \in 1..dp, Reaching_(c, r, t, i, p) PROVE over[p] = Elem(t + 1, n, j, p)
    <3>1. \A k \in 1..dp : k # i => ~Reaches(begins, cuts, k, p)
      <4>1. ASSUME NEW k \in 1..dp, Reaching_(c, r, t, k, p) PROVE i = k
        BY <1>1, <1>4, <2>1, <2>5, <4>1, ReachedOnce
      <4>. QED BY <1>9, <2>1, <4>1
    <3>2. Reaches(begins, cuts, i, p)
      BY <1>9, <2>1, <2>5
    <3>3. over[p] = cuts[i][p - begins[i]]
      BY <1>10, <2>1, <3>1, <3>2 DEF Written
    <3>4. PICK y \in 1..S : p = (i - 1) * S + y /\ cuts[i][p - begins[i]] = shard[g[i]][y]
      BY <1>9, <2>1, <2>5
    <3>5. PICK q \in RanksHere : q = g[i]
      BY <1>5
    <3>6. /\ step[q] = s /\ phase[q] = "share" /\ NamesOf(c, q) = NamesOf(c, r) /\ ShardIn(c, q) = S
          /\ DataOf(c, q) = i - 1 /\ norm[q] = z /\ Beside(c, q, r, "data")
      BY <1>5, <3>5
    <3>7. InShard(c, q, n, j, y)
      <4>1. At(c, q, n, j, p)
        BY <1>12, <3>6, SameLayout
      <4>2. DataOf(c, q) * ShardIn(c, q) + y = p
        BY <3>4, <3>6
      <4>. QED BY <4>1, <4>2 DEF InShard
    <3>8. shard[q][y] = DueAt(c, s, z, w, q, n, j)
      <4>1. ShardIs(shard[q], c, s, "share", z, w, q)
        BY <3>6 DEF ShardsAre
      <4>2. n \in Members(NamesOf(c, q)) /\ y \in 1..ShardIn(c, q)
        BY <3>6
      <4>3. shard[q][y] = ShardElem(c, s, "share", z, w, q, n, j)
        BY <3>7, <4>1, <4>2 DEF ShardIs
      <4>. QED BY <4>3 DEF ShardElem
    <3>9. DueAt(c, s, z, w, q, n, j) = DueAt(c, s, z, w, r, n, j)
      BY <1>1, <1>4, <3>6, DueTogether
    <3>10. over[p] = DueAt(c, s, z, w, r, n, j)
      BY <3>3, <3>4, <3>5, <3>8, <3>9
    <3>. QED BY <2>3, <2>5, <3>10 DEF FlatElem
  <2>. QED BY <2>4, <2>5
<1>13. FlatVectors(params'[r], c, s, "share", t + 1, z, w, r)
  <2>1. /\ DOMAIN Assign(r, over) = Members(NamesOf(c, r))
        /\ \A n \in Members(NamesOf(c, r)) :
             /\ IsVector(Assign(r, over)[n], n)
             /\ \A j \in 1..Size[n] : \A p : At(c, r, n, j, p) => Assign(r, over)[n][j] = over[p]
    BY <1>1, <1>4, <1>6, AssignIs
  <2>. QED BY <1>11, <1>12, <2>1 DEF FlatVectors, FlatVector
<1>. QED BY <1>4, <1>13 DEF z, t

(* What a collective leaves alone.                                         *)
LEMMA CollectiveLeaves ==
    ASSUME CollInv, NEW comm \in Comms, NEW o \in RanksHere, Collective(comm, GroupOf(o, comm)),
           DOMAIN params = RanksHere, DOMAIN gshard = RanksHere
    PROVE  LET g == GroupOf(o, comm)
               x == Now(g[1])
           IN  /\ shard' = shard /\ DOMAIN params' = RanksHere /\ DOMAIN gshard' = RanksHere
               /\ x.kind \notin {"gather", "broadcast"} => params' = params
               /\ x.kind # "scatter" => gshard' = gshard
               /\ x.kind # "norm" => norm' = norm
               /\ \A r \in RanksHere \ Members(g) :
                    params'[r] = params[r] /\ gshard'[r] = gshard[r] /\ norm'[r] = norm[r]
<1>. DEFINE g == GroupOf(o, comm)
            M == Members(g)
            x == Now(g[1])
<1>1. x.kind \in Kinds
  BY Taken
<1>2. (CASE x.kind \in {"sum", "mean"} -> AllReduce(g, x.kind)
           [] x.kind = "scatter"   -> ReduceScatter(g)
           [] x.kind = "norm"      -> ReduceNorm(g)
           [] x.kind = "gather"    -> AllGather(g)
           [] x.kind = "broadcast" -> Broadcast(g))
  BY Taken
<1>. HIDE DEF g, M, x
<1>3. CASE x.kind \in {"sum", "mean"}
  <2>1. AllReduce(g, x.kind)
    BY <1>2, <1>3
  <2>2. UNCHANGED <<params, shard, gshard, norm>>
    BY <2>1 DEF AllReduce
  <2>. QED BY <1>3, <2>2 DEF g, M, x
<1>4. CASE x.kind = "scatter"
  <2>1. ReduceScatter(g)
    BY <1>2, <1>4
  <2>. DEFINE After_(ss) == [q \in RanksHere |->
                            IF q \notin Members(g) THEN gshard[q]
                            ELSE gshard[q] \o
                                 [j \in 1..Now(q).data.numel |->
                                    Reduced("mean", [i \in DOMAIN g |-> ss[i][Index(q, "data")][j]])]]
  <2>2. UNCHANGED <<params, shard, norm>> /\ \E ss : gshard' = After_(ss)
    BY <2>1 DEF ReduceScatter
  <2>3. DOMAIN gshard' = RanksHere /\ \A r \in RanksHere \ M : gshard'[r] = gshard[r]
    BY <2>2 DEF M
  <2>. QED BY <1>4, <2>2, <2>3 DEF g, M, x
<1>5. CASE x.kind = "norm"
  <2>1. ReduceNorm(g)
    BY <1>2, <1>5
  <2>2. UNCHANGED <<params, shard, gshard>> /\ \E t : norm' = [r \in RanksHere |-> IF r \in M THEN t ELSE norm[r]]
    BY <2>1 DEF ReduceNorm, M
  <2>3. \A r \in RanksHere \ M : norm'[r] = norm[r]
    BY <2>2
  <2>. QED BY <1>5, <2>2, <2>3 DEF g, M, x
<1>6. CASE x.kind = "gather"
  <2>1. AllGather(g)
    BY <1>2, <1>6
  <2>. DEFINE After_(ws) == [q \in RanksHere |-> IF q \in Members(g) THEN Assign(q, ws[Position(q, g)])
                                                 ELSE params[q]]
  <2>2. UNCHANGED <<shard, gshard, norm>> /\ \E ws : params' = After_(ws)
    BY <2>1 DEF AllGather
  <2>3. DOMAIN params' = RanksHere /\ \A r \in RanksHere \ M : params'[r] = params[r]
    <3>1. PICK ws : params' = After_(ws)
      BY <2>2
    <3>. QED BY <3>1 DEF M
  <2>. QED BY <1>6, <2>2, <2>3 DEF g, M, x
<1>7. CASE x.kind = "broadcast"
  <2>1. Broadcast(g)
    BY <1>2, <1>7
  <2>2. UNCHANGED <<shard, gshard, norm>>
        /\ \E s : params' = [r \in RanksHere |->
                                IF r \in M THEN Unflatten(Now(r).data.bucket, s, params[r]) ELSE params[r]]
    BY <2>1 DEF Broadcast, M
  <2>3. DOMAIN params' = RanksHere /\ \A r \in RanksHere \ M : params'[r] = params[r]
    BY <2>2
  <2>. QED BY <1>7, <2>2, <2>3 DEF g, M, x
<1>. QED BY <1>1, <1>3, <1>4, <1>5, <1>6, <1>7 DEF Kinds

(* The optimizer's state is worth what it should be, past a collective.    *)
LEMMA FlatCollective ==
    ASSUME CollInv, GradsWorth, NormWorth, FlatWorth, NEW comm \in Comms, NEW o \in RanksHere,
           Collective(comm, GroupOf(o, comm))
    PROVE  FlatWorth'
<1>. DEFINE c == config
            g == GroupOf(o, comm)
            M == Members(g)
            x == Now(g[1])
            k(r) == Len(queue[r])
<1>1. UNCHANGED <<config, local, phase, step>> /\ M \subseteq RanksHere /\ g[1] \in M /\ x.kind \in Kinds
  BY Taken
<1>. SUFFICES ASSUME config.mode = "flat" PROVE FlatWorth'
  BY <1>1 DEF FlatWorth
<1>2. \A q \in M : Pops(q, x, comm, step[o])
  BY Taken
<1>3. \A q \in RanksHere \ M : queue'[q] = queue[q]
  BY Taken
<1>4. RanksHere' = RanksHere /\ config' = config
  BY <1>1 DEF RanksHere, P
<1>5. GshardsAre
  BY DEF FlatWorth
<1>6. PICK w : FlatCopies(config, w) /\ FlatParamsAre(w) /\ ShardsAre(w) /\ Dated(w)
  BY DEF FlatWorth
<1>7. /\ shard' = shard /\ DOMAIN params' = RanksHere /\ DOMAIN gshard' = RanksHere
      /\ x.kind \notin {"gather", "broadcast"} => params' = params
      /\ x.kind # "scatter" => gshard' = gshard
      /\ x.kind # "norm" => norm' = norm
      /\ \A r \in RanksHere \ M :
           params'[r] = params[r] /\ gshard'[r] = gshard[r] /\ norm'[r] = norm[r]
  <2>1. DOMAIN params = RanksHere /\ DOMAIN gshard = RanksHere
    BY <1>5, <1>6 DEF FlatParamsAre, GshardsAre
  <2>. QED BY <2>1, CollectiveLeaves
<1>8. ASSUME NEW r \in M
      PROVE  /\ r \in RanksHere /\ Len(queue'[r]) = k(r) - 1 /\ phase[r] \in {"sync", "share"}
             /\ FlatTakes(x, c, step[r], phase[r], k(r), r)
  <2>1. r \in RanksHere /\ queue[r] # <<>> /\ Now(r) = x /\ Len(queue'[r]) = k(r) - 1
    BY <1>1, <1>2 DEF Pops
  <2>2. phase[r] \in {"sync", "share"} /\ FlatTakes(Now(r), c, step[r], phase[r], k(r), r)
    BY <2>1, FlatCall
  <2>. QED BY <2>1, <2>2
<1>9. ASSUME NEW r \in RanksHere
      PROVE  /\ FlatVectors(params[r], c, step[r], phase[r], Out(c, r, k(r)), norm[r], w, r)
             /\ GshardIs(gshard[r], c, step[r], phase[r], k(r), r)
             /\ ShardIs(shard[r], c, step[r], phase[r], norm[r], w, r)
  BY <1>5, <1>6 DEF FlatParamsAre, GshardsAre, ShardsAre
<1>10. ASSUME NEW r
       PROVE  /\ \A v, s, t, t2, z, z2 : FlatVectors(v, c, s, "sync", t, z, w, r)
                                            => FlatVectors(v, c, s, "sync", t2, z2, w, r)
              /\ \A v, s, z, z2 : ShardIs(v, c, s, "sync", z, w, r) => ShardIs(v, c, s, "sync", z2, w, r)
  <2>1. \A s, t, z, n, j, p : FlatElem(c, s, "sync", t, z, w, r, n, j, p) = w[r][n][j]
    BY DEF FlatElem
  <2>2. \A s, z, n, j : ShardElem(c, s, "sync", z, w, r, n, j) = w[r][n][j]
    BY DEF ShardElem
  <2>3. \A v, s, t, t2, z, z2 : FlatVectors(v, c, s, "sync", t, z, w, r)
                                  => FlatVectors(v, c, s, "sync", t2, z2, w, r)
    BY <2>1 DEF FlatVectors, FlatVector
  <2>4. \A v, s, z, z2 : ShardIs(v, c, s, "sync", z, w, r) => ShardIs(v, c, s, "sync", z2, w, r)
    BY <2>2 DEF ShardIs
  <2>. QED BY <2>3, <2>4
<1>. HIDE DEF x
<1>11. ASSUME NEW r \in RanksHere
       PROVE  /\ FlatVectors(params'[r], c, step[r], phase[r], Out(c, r, Len(queue'[r])), norm'[r], w, r)
              /\ GshardIs(gshard'[r], c, step[r], phase[r], Len(queue'[r]), r)
              /\ ShardIs(shard'[r], c, step[r], phase[r], norm'[r], w, r)
  <2>1. CASE r \notin M
    <3>1. params'[r] = params[r] /\ gshard'[r] = gshard[r] /\ norm'[r] = norm[r] /\ queue'[r] = queue[r]
          /\ shard' = shard
      BY <1>3, <1>7, <2>1
    <3>. QED BY <1>9, <3>1
  <2>2. CASE r \in M /\ x.kind \in {"sum", "mean", "norm"}
    <3>1. phase[r] = "sync" /\ In(c, step[r], r, k(r) - 1) = In(c, step[r], r, k(r)) /\ Len(queue'[r]) = k(r) - 1
      BY <1>8, <2>2 DEF FlatTakes, IsPiece
    <3>2. params' = params /\ gshard' = gshard /\ shard' = shard
      BY <1>7, <2>2
    <3>3. GshardIs(gshard[r], c, step[r], "sync", k(r) - 1, r)
      <4>1. GshardIs(gshard[r], c, step[r], "sync", k(r), r)
        BY <1>9, <3>1
      <4>. QED BY <3>1, <4>1 DEF GshardIs
    <3>4. FlatVectors(params[r], c, step[r], "sync", Out(c, r, k(r) - 1), norm'[r], w, r)
      <4>1. FlatVectors(params[r], c, step[r], "sync", Out(c, r, k(r)), norm[r], w, r)
        BY <1>9, <3>1
      <4>. QED BY <1>10, <4>1
    <3>5. ShardIs(shard[r], c, step[r], "sync", norm'[r], w, r)
      <4>1. ShardIs(shard[r], c, step[r], "sync", norm[r], w, r)
        BY <1>9, <3>1
      <4>. QED BY <1>10, <4>1
    <3>. QED BY <3>1, <3>2, <3>3, <3>4, <3>5
  <2>3. CASE r \in M /\ x.kind = "scatter"
    <3>1. /\ phase[r] = "sync"
          /\ ReducedTo(gshard'[r], c, step[r], r, Moved(c, r, In(c, step[r], r, k(r) - 1)))
      BY <1>5, <2>3, ScatterWorth DEF x
    <3>2. params' = params /\ norm' = norm /\ shard' = shard /\ Len(queue'[r]) = k(r) - 1
      BY <1>7, <1>8, <2>3
    <3>3. GshardIs(gshard'[r], c, step[r], "sync", k(r) - 1, r)
      BY <3>1 DEF GshardIs
    <3>4. FlatVectors(params[r], c, step[r], "sync", Out(c, r, k(r) - 1), norm[r], w, r)
      <4>1. FlatVectors(params[r], c, step[r], "sync", Out(c, r, k(r)), norm[r], w, r)
        BY <1>9, <3>1
      <4>. QED BY <1>10, <4>1
    <3>. QED BY <1>9, <3>1, <3>2, <3>3, <3>4
  <2>4. CASE r \in M /\ x.kind = "gather"
    <3>1. /\ phase[r] = "share"
          /\ FlatVectors(params'[r], c, step[r], "share", Out(c, r, k(r) - 1), norm[r], w, r)
      BY <1>6, <2>4, GatherWorth DEF x
    <3>2. gshard' = gshard /\ norm' = norm /\ shard' = shard /\ Len(queue'[r]) = k(r) - 1
      BY <1>7, <1>8, <2>4
    <3>3. GshardIs(gshard[r], c, step[r], "share", k(r) - 1, r)
      BY DEF GshardIs
    <3>. QED BY <1>9, <3>1, <3>2, <3>3
  <2>5. CASE r \in M /\ x.kind = "broadcast"
    BY <1>8, <2>5 DEF FlatTakes, IsPiece
  <2>. QED BY <1>1, <2>1, <2>2, <2>3, <2>4, <2>5 DEF Kinds
<1>12. DOMAIN shard' = RanksHere
  BY <1>6, <1>7 DEF ShardsAre
<1>13. FlatParamsAre(w)' /\ ShardsAre(w)' /\ GshardsAre'
  BY <1>1, <1>4, <1>7, <1>11, <1>12 DEF FlatParamsAre, ShardsAre, GshardsAre
<1>14. FlatCopies(config', w)
  BY <1>4, <1>6
<1>15. Dated(w)'
  BY <1>1, <1>4, <1>6, DatedKeeps
<1>. QED BY <1>13, <1>14, <1>15 DEF FlatWorth

(* With the flat optimizer.                                                *)
LEMMA FlatAgree ==
    ASSUME CollInv, NormWorth, FlatWorth, config.mode = "flat"
    PROVE  ReplicasAgree
<1>. SUFFICES ASSUME AllDone PROVE ReplicasAgree
  BY DEF ReplicasAgree
<1>1. FlatCopies(config, params)
  BY FlatDone
<1>2. PICK v : v = params
  OBVIOUS
<1>3. \A n \in AllNames : Uniform(config, v, n, FlatOver(config, n))
  BY <1>1, <1>2 DEF FlatCopies
<1>4. \A r \in RanksHere : \A n \in Members(NamesOf(config, r)) : params[r][n] = v[r][n]
  BY <1>2
<1>. QED BY <1>3, <1>4, AgreeFrom DEF CollInv

(* What gradients, norms, parameters and shards are worth, in every state. *)
WorthInv == CollInv /\ GradsWorth /\ NormWorth /\ ParamsWorth /\ FlatWorth

(* It holds in every state.                                                *)
LEMMA WorthInvHolds == Spec => []WorthInv
<1>1. Init => WorthInv
  BY InitInv, WorthInit, NormInit, ParamsInit, FlatInit DEF WorthInv
<1>2. WorthInv /\ [Next]_vars => WorthInv'
  <2>. SUFFICES ASSUME WorthInv, [Next]_vars PROVE WorthInv'
    OBVIOUS
  <2>0. CollInv /\ GradsWorth /\ NormWorth /\ ParamsWorth /\ FlatWorth
    BY DEF WorthInv
  <2>1. CASE StartStep
    BY <2>0, <2>1, StartStepInv, WorthStart, NormStart, ParamsStart, FlatStart DEF WorthInv
  <2>2. CASE \E r \in RanksHere : Backward(r)
    BY <2>0, <2>2, BackwardInv, WorthBackward, NormBackward, ParamsBackward, FlatBackward DEF WorthInv
  <2>3. CASE \E r \in RanksHere : Update(r)
    BY <2>0, <2>3, UpdateInv, WorthUpdate, NormUpdate, ParamsUpdate, FlatUpdate DEF WorthInv
  <2>4. CASE \E comm \in Comms : \E g \in {GroupOf(r, comm) : r \in RanksHere} : Collective(comm, g)
    <3>1. PICK comm \in Comms, o \in RanksHere : Collective(comm, GroupOf(o, comm))
      BY <2>4
    <3>. QED BY <2>0, <3>1, CollectiveInv, WorthCollective, NormCollective, ParamsCollective,
                FlatCollective DEF WorthInv
  <2>5. CASE UNCHANGED vars
    <3>1. UNCHANGED <<config, local, params, grads, shard, gshard, norm, phase, queue, step, bad>>
      BY <2>5 DEF vars
    <3>2. CollInv' <=> CollInv
      BY <3>1 DEF CollInv, ConfigAs, StepsAs, GradsAs, QueuesAs, Balanced, LeftNow, RanksHere, P
    <3>3. RanksHere' = RanksHere
      BY <3>1 DEF RanksHere, P
    <3>4. GradsWorth' <=> GradsWorth
      BY <3>1, <3>3 DEF GradsWorth
    <3>5. NormWorth' <=> NormWorth
      BY <3>1, <3>3 DEF NormWorth, PastNorm
    <3>6. ParamsWorth' <=> ParamsWorth
      BY <3>1, <3>3 DEF ParamsWorth, ParamsAre, Dated
    <3>7. FlatWorth' <=> FlatWorth
      <4>1. GshardsAre' <=> GshardsAre
        BY <3>1, <3>3 DEF GshardsAre
      <4>2. \A w : (FlatParamsAre(w)' <=> FlatParamsAre(w)) /\ (ShardsAre(w)' <=> ShardsAre(w))
                /\ (Dated(w)' <=> Dated(w))
        BY <3>1, <3>3 DEF FlatParamsAre, ShardsAre, Dated
      <4>. QED BY <3>1, <4>1, <4>2 DEF FlatWorth
    <3>. QED BY <2>0, <3>2, <3>4, <3>5, <3>6, <3>7 DEF WorthInv
  <2>6. CASE Finished
    <3>1. UNCHANGED vars
      BY <2>6 DEF Finished
    <3>. QED BY <2>5, <3>1
  <2>. QED BY <2>1, <2>2, <2>3, <2>4, <2>5, <2>6 DEF Next
<1>. QED BY <1>1, <1>2, PTL DEF Spec

(* Between two steps all ranks that hold the same part of a parameter hold *)
(* the same values, whichever way the optimizer is divided.                *)
THEOREM ReplicasStayEqual == Spec => []ReplicasAgree
<1>1. WorthInv => ReplicasAgree
  BY WholeAgree, FlatAgree DEF WorthInv
<1>. QED BY <1>1, WorthInvHolds, PTL

(* Sets of at most one place.                                              *)
OnlyOne(S) == \A i, k \in S : i = k

(* What is in one of the values, or in none.                               *)
LEMMA TimesOnce ==
    ASSUME NEW values, Len(values) \in Nat, NEW q, NEW S, S \subseteq 1..Len(values), OnlyOne(S),
           \A i \in 1..Len(values) : values[i].from[q] = IF i \in S THEN 1 ELSE 0
    PROVE  TimesIn(values, q) = IF S = {} THEN 0 ELSE 1
<1>. DEFINE n == Len(values)
            Upto(i) == {k \in S : k <= i}
            Rec(f) == f = [i \in 0..n |-> IF i = 0 THEN 0 ELSE f[i - 1] + values[i].from[q]]
            f == [i \in 0..n |-> IF Upto(i) = {} THEN 0 ELSE 1]
<1>1. n \in Nat /\ S \subseteq 1..n
  OBVIOUS
<1>2. ASSUME NEW i \in 1..n
      PROVE  (IF Upto(i) = {} THEN 0 ELSE 1)
                 = (IF Upto(i - 1) = {} THEN 0 ELSE 1) + values[i].from[q]
  <2>1. CASE i \in S
    <3>1. Upto(i - 1) = {} /\ i \in Upto(i)
      BY <1>1, <2>1 DEF OnlyOne
    <3>2. values[i].from[q] = 1
      BY <2>1
    <3>. QED BY <3>1, <3>2
  <2>2. CASE i \notin S
    <3>1. Upto(i) = Upto(i - 1)
      <4>1. \A k \in S : k \in Nat /\ k # i
        BY <1>1, <2>2
      <4>2. \A k \in S : k <= i <=> k <= i - 1
        BY <4>1
      <4>. QED BY <4>2
    <3>2. values[i].from[q] = 0
      BY <2>2
    <3>. QED BY <3>1, <3>2
  <2>. QED BY <2>1, <2>2
<1>3. Upto(0) = {} /\ Upto(n) = S
  <2>1. \A k \in S : k \in Nat /\ ~(k <= 0) /\ k <= n
    BY <1>1
  <2>. HIDE DEF n
  <2>. QED BY <2>1
<1>. HIDE DEF Upto
<1>4. \A i \in 0..n : f[i] = IF Upto(i) = {} THEN 0 ELSE 1
  OBVIOUS
<1>5. Rec(f)
  <2>1. ASSUME NEW i \in 0..n PROVE f[i] = IF i = 0 THEN 0 ELSE f[i - 1] + values[i].from[q]
    <3>1. CASE i = 0
      BY <1>3, <3>1
    <3>2. CASE i # 0
      <4>1. i \in 1..n /\ i - 1 \in 0..n
        BY <1>1, <3>2
      <4>2. f[i] = f[i - 1] + values[i].from[q]
        BY <1>2, <1>4, <4>1
      <4>. QED BY <3>2, <4>2
    <3>. QED BY <3>1, <3>2
  <2>2. f = [i \in 0..n |-> f[i]]
    OBVIOUS
  <2>. HIDE DEF f
  <2>. QED BY <2>1, <2>2
<1>6. PICK g : Rec(g) /\ TimesIn(values, q) = g[n]
  <2>. DEFINE g == CHOOSE h : Rec(h)
  <2>. HIDE DEF f
  <2>1. Rec(g)
    BY <1>5
  <2>2. TimesIn(values, q) = g[n]
    BY DEF TimesIn
  <2>. QED BY <2>1, <2>2
<1>7. \A i \in 0..n : g[i] = IF i = 0 THEN 0 ELSE g[i - 1] + values[i].from[q]
  BY <1>6, Zenon
<1>8. \A i \in 0..n : f[i] = IF i = 0 THEN 0 ELSE f[i - 1] + values[i].from[q]
  <2>. HIDE DEF f
  <2>. QED BY <1>5, Zenon
<1>. HIDE DEF f, Rec
<1>. DEFINE Same == {m \in Nat : m <= n => g[m] = f[m]}
<1>9. 0 \in Same
  BY <1>1, <1>7, <1>8
<1>10. ASSUME NEW m \in Nat, m \in Same PROVE m + 1 \in Same
  <2>1. CASE m + 1 <= n
    <3>1. m + 1 \in 0..n /\ m + 1 # 0 /\ (m + 1) - 1 = m
      BY <1>1, <2>1
    <3>2. g[m + 1] = g[m] + values[m + 1].from[q] /\ f[m + 1] = f[m] + values[m + 1].from[q]
      BY <1>7, <1>8, <3>1
    <3>3. g[m] = f[m]
      BY <1>1, <1>10, <2>1
    <3>. QED BY <3>2, <3>3
  <2>. QED BY <1>1, <2>1
<1>11. g[n] = f[n]
  <2>. HIDE DEF Same
  <2>1. n \in Same
    BY <1>1, <1>9, <1>10, NaturalsIn
  <2>. QED BY <1>1, <2>1 DEF Same
<1>12. f[n] = IF S = {} THEN 0 ELSE 1
  <2>1. n \in 0..n
    BY <1>1
  <2>. QED BY <1>3, <1>4, <2>1
<1>. QED BY <1>6, <1>11, <1>12

(* What the local gradients of rank q went into when ranks that differ     *)
(* along the axes of over have been merged, and what the result is.        *)
Feeds(c, s, n, over, q, r) ==
    \E h \in Ranks(c.dims) : Near(c, h, r, over) /\ RoutedIn(c, s, h, n) /\ q \in SourcesIn(c, h, n)
Fed(c, s, n, over, r) == \E h \in Ranks(c.dims) : Near(c, h, r, over) /\ RoutedIn(c, s, h, n)
Tally(c, s, n, over, d, r, j) ==
    IF Fed(c, s, n, over, r)
      THEN [at |-> <<n, j>>,
            from |-> [q \in Ranks(c.dims) |-> IF Feeds(c, s, n, over, q, r) THEN 1 ELSE 0],
            div |-> d]
      ELSE ZeroIn(c)
CountsOnce(c, s, w, n, over, d) ==
    \A r \in Ranks(c.dims) : n \in Members(NamesOf(c, r)) =>
        \A j \in 1..Size[n] : w[r][n][j] = Tally(c, s, n, over, d, r, j)

(* The local gradients.                                                    *)
LEMMA TokensOnce ==
    ASSUME NEW c \in Configs, NEW s, NEW n
    PROVE  CountsOnce(c, s, FromTokens(c, s), n, {}, 1)
<1>. SUFFICES ASSUME NEW r \in Ranks(c.dims), n \in Members(NamesOf(c, r)), NEW j \in 1..Size[n]
              PROVE  FromTokens(c, s)[r][n][j] = Tally(c, s, n, {}, 1, r, j)
  BY DEF CountsOnce
<1>1. \A h \in Ranks(c.dims) : Near(c, h, r, {}) <=> h = r
  <2>1. Near(c, r, r, {})
    BY DEF Near
  <2>. QED BY <2>1, NearNothing
<1>2. \A q : Feeds(c, s, n, {}, q, r) <=> RoutedIn(c, s, r, n) /\ q \in SourcesIn(c, r, n)
  BY <1>1 DEF Feeds
<1>3. Fed(c, s, n, {}, r) <=> RoutedIn(c, s, r, n)
  BY <1>1 DEF Fed
<1>4. FromTokens(c, s)[r][n][j] =
        IF RoutedIn(c, s, r, n)
          THEN [at |-> <<n, j>>, div |-> 1,
                from |-> [q \in Ranks(c.dims) |-> IF q \in SourcesIn(c, r, n) THEN 1 ELSE 0]]
          ELSE ZeroIn(c)
  BY DEF FromTokens
<1>5. CASE ~RoutedIn(c, s, r, n)
  BY <1>3, <1>4, <1>5 DEF Tally
<1>6. CASE RoutedIn(c, s, r, n)
  <2>1. [q \in Ranks(c.dims) |-> IF Feeds(c, s, n, {}, q, r) THEN 1 ELSE 0]
          = [q \in Ranks(c.dims) |-> IF q \in SourcesIn(c, r, n) THEN 1 ELSE 0]
    BY <1>2, <1>6
  <2>. QED BY <1>3, <1>4, <1>6, <2>1 DEF Tally
<1>. QED BY <1>5, <1>6

(* The values that meet in a ring, and the ranks they come from.           *)
Along(c, r, comm) == [i \in 1..c.dims[comm] |-> RingOf(c, r, comm)[i]]
ValuesAlong(c, w, r, comm, n, j) == [i \in 1..c.dims[comm] |-> w[RingOf(c, r, comm)[i]][n][j]]
MayJoin(n, over, comm) ==
    comm \in Rings /\ over \subseteq Rings /\ comm \notin over /\ (n = "expert" => comm # "expert")

NearInRing(c, h, r, over, comm) ==
    /\ \A i \in 1..c.dims[comm] : Near(c, h, RingOf(c, r, comm)[i], over) <=>
                /\ Near(c, h, r, over \cup {comm})
                /\ Coordinates(c.dims, h)[comm] = i - 1
    /\ Coordinates(c.dims, h)[comm] + 1 \in 1..c.dims[comm]
    /\ Coordinates(c.dims, h)[comm] \in Nat

(* A rank that is near along one axis more is near to one of the ring.     *)
LEMMA NearAlong ==
    ASSUME NEW c \in Configs, NEW n, NEW over, NEW comm, MayJoin(n, over, comm),
           NEW r \in Ranks(c.dims), NEW h \in Ranks(c.dims)
    PROVE  NearInRing(c, h, r, over, comm)
<1>1. /\ comm \in Rings /\ comm \in Axes /\ comm \notin over /\ IsDims(c.dims)
  BY ConfigType DEF MayJoin, Rings, Axes
<1>2. Coordinates(c.dims, h) \in Coords(c.dims)
  BY <1>1, CoordsOfRank
<1>3. Coordinates(c.dims, h)[comm] \in 0..(c.dims[comm] - 1) /\ c.dims[comm] \in Nat \ {0}
  BY <1>1, <1>2, AxisType
<1>4. Coordinates(c.dims, h)[comm] + 1 \in 1..c.dims[comm]
  BY <1>3
<1>5. ASSUME NEW i \in 1..c.dims[comm]
      PROVE  Near(c, h, RingOf(c, r, comm)[i], over) <=>
                 Near(c, h, r, over \cup {comm}) /\ Coordinates(c.dims, h)[comm] = i - 1
  <2>1. PICK x : x = RingOf(c, r, comm)[i]
    OBVIOUS
  <2>2. Coordinates(c.dims, x)[comm] = i - 1 /\ Beside(c, x, r, comm)
    BY <1>1, <2>1, RingAt
  <2>3. \A a \in Axes \ {comm} : Coordinates(c.dims, x)[a] = Coordinates(c.dims, r)[a]
    BY <2>2 DEF Beside
  <2>4. Near(c, h, x, over) <=> Near(c, h, r, over \cup {comm}) /\ Coordinates(c.dims, h)[comm] = i - 1
    BY <1>1, <2>2, <2>3 DEF Near
  <2>. QED BY <2>1, <2>4
<1>6. Coordinates(c.dims, h)[comm] \in Nat
  BY <1>3
<1>. QED BY <1>4, <1>5, <1>6 DEF NearInRing

(* The places of a ring that the gradients of rank q went into.            *)
FedBy(c, s, n, over, q, r, comm) ==
    {i \in 1..c.dims[comm] : Feeds(c, s, n, over, q, RingOf(c, r, comm)[i])}

(* So the ranks that feed the ring feed one of it each.                    *)
LEMMA FeedsAlong ==
    ASSUME NEW c \in Configs, NEW s, NEW n, NEW over, NEW comm, MayJoin(n, over, comm),
           NEW r \in Ranks(c.dims), NEW q \in Ranks(c.dims)
    PROVE  /\ OnlyOne(FedBy(c, s, n, over, q, r, comm))
           /\ Feeds(c, s, n, over \cup {comm}, q, r) <=> FedBy(c, s, n, over, q, r, comm) # {}
<1>. DEFINE S == {i \in 1..c.dims[comm] : Feeds(c, s, n, over, q, RingOf(c, r, comm)[i])}
<1>1. \A h \in Ranks(c.dims) : \A i \in 1..c.dims[comm] : Near(c, h, RingOf(c, r, comm)[i], over) <=>
          Near(c, h, r, over \cup {comm}) /\ Coordinates(c.dims, h)[comm] = i - 1
  <2>1. \A h \in Ranks(c.dims) : NearInRing(c, h, r, over, comm)
    BY NearAlong
  <2>. QED BY <2>1 DEF NearInRing
<1>2. \A h \in Ranks(c.dims) : /\ Coordinates(c.dims, h)[comm] + 1 \in 1..c.dims[comm]
                              /\ (Coordinates(c.dims, h)[comm] + 1) - 1 = Coordinates(c.dims, h)[comm]
  <2>. TAKE h \in Ranks(c.dims)
  <2>1. comm \in Axes /\ IsDims(c.dims)
    BY ConfigType DEF MayJoin, Rings, Axes
  <2>2. Coordinates(c.dims, h) \in Coords(c.dims)
    BY <2>1, CoordsOfRank
  <2>3. Coordinates(c.dims, h)[comm] \in 0..(c.dims[comm] - 1) /\ c.dims[comm] \in Nat \ {0}
    BY <2>1, <2>2, AxisType
  <2>. QED BY <2>3
<1>3. \A h \in Ranks(c.dims) : q \in SourcesIn(c, h, n) =>
          Coordinates(c.dims, q)[comm] = Coordinates(c.dims, h)[comm]
  <2>. SUFFICES ASSUME NEW h \in Ranks(c.dims), q \in SourcesIn(c, h, n)
                PROVE  Coordinates(c.dims, q)[comm] = Coordinates(c.dims, h)[comm]
    OBVIOUS
  <2>1. CASE n # "expert"
    BY <2>1 DEF SourcesIn
  <2>2. CASE n = "expert"
    <3>1. comm \in Axes \ {"expert"} /\ "expert" \in Rings
      BY <2>2 DEF MayJoin, Rings, Axes
    <3>2. q \in Members(RingOf(c, h, "expert"))
      BY <2>2 DEF SourcesIn
    <3>3. DOMAIN RingOf(c, h, "expert") = 1..c.dims["expert"]
      BY DEF RingOf, Group
    <3>4. PICK i \in 1..c.dims["expert"] : q = RingOf(c, h, "expert")[i]
      BY <3>2, <3>3 DEF Members
    <3>5. Beside(c, q, h, "expert")
      BY <3>1, <3>4, RingAt
    <3>. QED BY <3>1, <3>5 DEF Beside
  <2>. QED BY <2>1, <2>2
<1>4. ASSUME NEW i \in S PROVE Coordinates(c.dims, q)[comm] = i - 1
  <2>1. PICK h \in Ranks(c.dims) : Near(c, h, RingOf(c, r, comm)[i], over) /\ q \in SourcesIn(c, h, n)
    BY DEF Feeds
  <2>. QED BY <1>1, <1>3, <2>1
<1>5. OnlyOne(S)
  <2>1. \A i \in S : i \in Int
    OBVIOUS
  <2>. HIDE DEF S
  <2>. QED BY <1>4, <2>1 DEF OnlyOne
<1>6. ASSUME Feeds(c, s, n, over \cup {comm}, q, r) PROVE S # {}
  <2>1. PICK h \in Ranks(c.dims) : /\ Near(c, h, r, over \cup {comm}) /\ RoutedIn(c, s, h, n)
                                   /\ q \in SourcesIn(c, h, n)
    BY <1>6 DEF Feeds
  <2>2. PICK i \in 1..c.dims[comm] : Coordinates(c.dims, h)[comm] = i - 1
    BY <1>2
  <2>3. Near(c, h, RingOf(c, r, comm)[i], over)
    BY <1>1, <2>1, <2>2
  <2>4. Feeds(c, s, n, over, q, RingOf(c, r, comm)[i])
    BY <2>1, <2>3 DEF Feeds
  <2>. QED BY <2>4
<1>7. ASSUME S # {} PROVE Feeds(c, s, n, over \cup {comm}, q, r)
  <2>1. PICK i \in 1..c.dims[comm] : Feeds(c, s, n, over, q, RingOf(c, r, comm)[i])
    BY <1>7
  <2>2. PICK h \in Ranks(c.dims) : /\ Near(c, h, RingOf(c, r, comm)[i], over)
                                   /\ RoutedIn(c, s, h, n) /\ q \in SourcesIn(c, h, n)
    BY <2>1 DEF Feeds
  <2>3. Near(c, h, r, over \cup {comm})
    BY <1>1, <2>2
  <2>. QED BY <2>2, <2>3 DEF Feeds
<1>. QED BY <1>5, <1>6, <1>7 DEF FedBy

(* And some gradient comes to the ring when it does to one of it.          *)
LEMMA FedAlong ==
    ASSUME NEW c \in Configs, NEW s, NEW n, NEW over, NEW comm, MayJoin(n, over, comm),
           NEW r \in Ranks(c.dims)
    PROVE  Fed(c, s, n, over \cup {comm}, r) <=>
               \E i \in 1..c.dims[comm] : Fed(c, s, n, over, RingOf(c, r, comm)[i])
<1>1. \A h \in Ranks(c.dims) : \A i \in 1..c.dims[comm] : Near(c, h, RingOf(c, r, comm)[i], over) <=>
          Near(c, h, r, over \cup {comm}) /\ Coordinates(c.dims, h)[comm] = i - 1
  <2>1. \A h \in Ranks(c.dims) : NearInRing(c, h, r, over, comm)
    BY NearAlong
  <2>. QED BY <2>1 DEF NearInRing
<1>2. ASSUME Fed(c, s, n, over \cup {comm}, r)
      PROVE  \E i \in 1..c.dims[comm] : Fed(c, s, n, over, RingOf(c, r, comm)[i])
  <2>1. PICK h \in Ranks(c.dims) : Near(c, h, r, over \cup {comm}) /\ RoutedIn(c, s, h, n)
    BY <1>2 DEF Fed
  <2>2. PICK i \in 1..c.dims[comm] : i = Coordinates(c.dims, h)[comm] + 1
    <3>1. NearInRing(c, h, r, over, comm)
      BY NearAlong
    <3>. QED BY <3>1 DEF NearInRing
  <2>3. Coordinates(c.dims, h)[comm] = i - 1
    <3>1. Coordinates(c.dims, h)[comm] \in Int
      <4>1. comm \in Axes /\ IsDims(c.dims)
        BY ConfigType DEF MayJoin, Rings, Axes
      <4>2. Coordinates(c.dims, h) \in Coords(c.dims)
        BY <4>1, CoordsOfRank
      <4>. QED BY <4>1, <4>2, AxisType
    <3>. QED BY <2>2, <3>1
  <2>4. Near(c, h, RingOf(c, r, comm)[i], over)
    BY <1>1, <2>1, <2>3
  <2>. QED BY <2>1, <2>4 DEF Fed
<1>3. ASSUME NEW i \in 1..c.dims[comm], Fed(c, s, n, over, RingOf(c, r, comm)[i])
      PROVE  Fed(c, s, n, over \cup {comm}, r)
  BY <1>1, <1>3 DEF Fed
<1>. QED BY <1>2, <1>3

(* What a ring of tallies is, and what reducing it should give.            *)
Tallies(c, s, n, over, d, r, comm, j) ==
    [i \in 1..c.dims[comm] |-> Tally(c, s, n, over, d, RingOf(c, r, comm)[i], j)]

Counting(op, d, m) == IF op = "mean" THEN d * m ELSE d

Reduces(c, s, n, over, comm, d, op, r, j) ==
    ReducedIn(c, op, Tallies(c, s, n, over, d, r, comm, j))
        = Tally(c, s, n, over \cup {comm}, Counting(op, d, c.dims[comm]), r, j)

(* Reducing a ring of tallies gives the tally of the ranks they came from. *)
LEMMA TalliesReduced ==
    ASSUME NEW c \in Configs, NEW s, NEW n, NEW over, NEW comm, MayJoin(n, over, comm),
           NEW d \in Nat, NEW op, NEW r \in Ranks(c.dims), NEW j \in Nat \ {0}
    PROVE  Reduces(c, s, n, over, comm, d, op, r, j)
<1>b. PICK values, dd : /\ values = Tallies(c, s, n, over, d, r, comm, j)
                        /\ dd = Counting(op, d, c.dims[comm])
  OBVIOUS
<1>. SUFFICES ReducedIn(c, op, values) = Tally(c, s, n, over \cup {comm}, dd, r, j)
  BY <1>b DEF Reduces
<1>. DEFINE m == c.dims[comm]
            X(i) == RingOf(c, r, comm)[i]
            real == {i \in DOMAIN values : values[i].at # ZeroIn(c).at}
            first == values[CHOOSE i \in real : TRUE]
<1>0. m \in Nat \ {0}
  <2>1. NearInRing(c, r, r, over, comm)
    BY NearAlong
  <2>2. comm \in Axes /\ IsDims(c.dims)
    BY ConfigType DEF MayJoin, Rings, Axes
  <2>3. Coordinates(c.dims, r) \in Coords(c.dims)
    BY <2>2, CoordsOfRank
  <2>. QED BY <2>2, <2>3, AxisType
<1>a. values = [i \in 1..m |-> Tally(c, s, n, over, d, X(i), j)]
  BY <1>b DEF Tallies
<1>1. IsList(values) /\ Len(values) = m /\ DOMAIN values = 1..m
  <2>. HIDE DEF m
  <2>1. values = [i \in 1..m |-> values[i]] /\ DOMAIN values = 1..m
    BY <1>a
  <2>. QED BY <1>0, <2>1, ListOf
<1>2. \A i \in 1..m : values[i] = Tally(c, s, n, over, d, X(i), j)
  BY <1>a
<1>3. ASSUME NEW i \in 1..m, Fed(c, s, n, over, X(i))
      PROVE  /\ values[i].at = <<n, j>> /\ values[i].div = d
             /\ \A q \in Ranks(c.dims) : values[i].from[q] = IF Feeds(c, s, n, over, q, X(i)) THEN 1 ELSE 0
  <2>. HIDE DEF m, X
  <2>1. PICK F : F = [q \in Ranks(c.dims) |-> IF Feeds(c, s, n, over, q, X(i)) THEN 1 ELSE 0]
    OBVIOUS
  <2>2. \A q \in Ranks(c.dims) : F[q] = IF Feeds(c, s, n, over, q, X(i)) THEN 1 ELSE 0
    BY <2>1
  <2>3. values[i] = [at |-> <<n, j>>, from |-> F, div |-> d]
    BY <1>2, <1>3, <2>1 DEF Tally
  <2>4. PICK v, t : v = values[i] /\ t = <<n, j>>
    OBVIOUS
  <2>5. v = [at |-> t, from |-> F, div |-> d]
    BY <2>3, <2>4
  <2>6. v.at = t /\ v.div = d /\ v.from = F
    BY <2>5
  <2>. QED BY <2>2, <2>4, <2>6
<1>4. ASSUME NEW i \in 1..m, ~Fed(c, s, n, over, X(i))
      PROVE  /\ values[i] = ZeroIn(c)
             /\ \A q \in Ranks(c.dims) : values[i].from[q] = 0 /\ ~Feeds(c, s, n, over, q, X(i))
  <2>. HIDE DEF m, X
  <2>1. values[i] = ZeroIn(c)
    BY <1>2, <1>4 DEF Tally
  <2>2. \A q \in Ranks(c.dims) : ~Feeds(c, s, n, over, q, X(i))
    BY <1>4 DEF Feeds, Fed
  <2>3. \A q \in Ranks(c.dims) : ZeroIn(c).from[q] = 0
    BY DEF ZeroIn, NobodyIn
  <2>. QED BY <2>1, <2>2, <2>3
<1>5. <<n, j>> # ZeroIn(c).at
  <2>1. ZeroIn(c).at = <<"none", 0>>
    BY DEF ZeroIn
  <2>2. <<n, j>>[2] = j /\ <<"none", 0>>[2] = 0
    OBVIOUS
  <2>. QED BY <2>1, <2>2
<1>6. real = {i \in 1..m : Fed(c, s, n, over, X(i))}
  <2>1. ASSUME NEW i \in 1..m PROVE values[i].at # ZeroIn(c).at <=> Fed(c, s, n, over, X(i))
    <3>. HIDE DEF m, X
    <3>. QED BY <1>3, <1>4, <1>5
  <2>. HIDE DEF m, X
  <2>. QED BY <1>1, <2>1
<1>7. Fed(c, s, n, over \cup {comm}, r) <=> real # {}
  <2>1. Fed(c, s, n, over \cup {comm}, r) <=> \E i \in 1..m : Fed(c, s, n, over, X(i))
    BY FedAlong
  <2>. HIDE DEF real, m, X
  <2>. QED BY <1>6, <2>1
<1>8. CASE real = {}
  <2>1. ReducedIn(c, op, values) = ZeroIn(c)
    BY <1>8 DEF ReducedIn
  <2>. HIDE DEF real
  <2>. QED BY <1>7, <1>8, <2>1 DEF Tally
<1>9. CASE real # {}
  <2>1. PICK i \in real : first = values[i]
    <3>1. (CHOOSE i \in real : TRUE) \in real
      BY <1>9
    <3>. QED BY <3>1
  <2>2. \A k \in real : values[k].at = <<n, j>> /\ values[k].div = d
    <3>. HIDE DEF real, m, X
    <3>. QED BY <1>3, <1>6
  <2>3. first.at = <<n, j>> /\ first.div = d
    BY <2>1, <2>2
  <2>4. ASSUME NEW q \in Ranks(c.dims)
        PROVE  TimesIn(values, q) = IF Feeds(c, s, n, over \cup {comm}, q, r) THEN 1 ELSE 0
    <3>1. PICK S : S = FedBy(c, s, n, over, q, r, comm)
      OBVIOUS
    <3>2. OnlyOne(S) /\ (Feeds(c, s, n, over \cup {comm}, q, r) <=> S # {})
      BY <3>1, FeedsAlong
    <3>3. S \subseteq 1..m /\ \A k \in 1..m : k \in S <=> Feeds(c, s, n, over, q, X(k))
      BY <3>1 DEF FedBy
    <3>. HIDE DEF m, X
    <3>4. \A k \in 1..m : values[k].from[q] = IF k \in S THEN 1 ELSE 0
      <4>. TAKE k \in 1..m
      <4>1. CASE Fed(c, s, n, over, X(k))
        BY <1>3, <3>3, <4>1
      <4>2. CASE ~Fed(c, s, n, over, X(k))
        BY <1>4, <3>3, <4>2
      <4>. QED BY <4>1, <4>2
    <3>5. TimesIn(values, q) = IF S = {} THEN 0 ELSE 1
      <4>1. Len(values) \in Nat /\ S \subseteq 1..Len(values)
        BY <1>0, <1>1, <3>3
      <4>. QED BY <1>1, <3>2, <3>4, <4>1, TimesOnce
    <3>. QED BY <3>2, <3>5
  <2>5. [q \in Ranks(c.dims) |-> TimesIn(values, q)]
          = [q \in Ranks(c.dims) |-> IF Feeds(c, s, n, over \cup {comm}, q, r) THEN 1 ELSE 0]
    BY <2>4
  <2>6. ~\E k \in real : values[k].at # first.at \/ values[k].div # first.div
    BY <2>2, <2>3
  <2>7. ReducedIn(c, op, values) =
            [at |-> first.at, from |-> [q \in Ranks(c.dims) |-> TimesIn(values, q)],
             div |-> IF op = "mean" THEN first.div * Len(values) ELSE first.div]
    BY <1>9, <2>6 DEF ReducedIn
  <2>8. (IF op = "mean" THEN first.div * Len(values) ELSE first.div) = dd
    BY <1>1, <1>b, <2>3 DEF Counting
  <2>9. ReducedIn(c, op, values) =
            [at |-> <<n, j>>,
             from |-> [q \in Ranks(c.dims) |-> IF Feeds(c, s, n, over \cup {comm}, q, r) THEN 1 ELSE 0],
             div |-> dd]
    BY <2>3, <2>5, <2>7, <2>8
  <2>. HIDE DEF real
  <2>10. Fed(c, s, n, over \cup {comm}, r)
    BY <1>7, <1>9
  <2>11. Tally(c, s, n, over \cup {comm}, dd, r, j) =
            [at |-> <<n, j>>,
             from |-> [q \in Ranks(c.dims) |-> IF Feeds(c, s, n, over \cup {comm}, q, r) THEN 1 ELSE 0],
             div |-> dd]
    BY <2>10 DEF Tally
  <2>. QED BY <2>9, <2>11
<1>. QED BY <1>8, <1>9

(* Along an axis of one rank nothing changes.                              *)
LEMMA TallyAlone ==
    ASSUME NEW c \in Configs, NEW s, NEW n, NEW over, NEW comm \in Rings, c.dims[comm] = 1, NEW d,
           NEW r \in Ranks(c.dims), NEW j
    PROVE  Tally(c, s, n, over \cup {comm}, d, r, j) = Tally(c, s, n, over, d, r, j)
<1>1. \A x \in Ranks(c.dims) : Coordinates(c.dims, x)[comm] = 0
  <2>. TAKE x \in Ranks(c.dims)
  <2>1. IsDims(c.dims) /\ comm \in Axes
    BY ConfigType DEF Rings, Axes
  <2>2. Coordinates(c.dims, x) \in Coords(c.dims)
    BY <2>1, CoordsOfRank
  <2>3. Coordinates(c.dims, x)[comm] \in 0..(1 - 1)
    BY <2>1, <2>2, AxisType
  <2>. QED BY <2>3
<1>2. \A h \in Ranks(c.dims) : Near(c, h, r, over \cup {comm}) <=> Near(c, h, r, over)
  BY <1>1 DEF Near
<1>3. \A q : Feeds(c, s, n, over \cup {comm}, q, r) <=> Feeds(c, s, n, over, q, r)
  BY <1>2 DEF Feeds
<1>4. Fed(c, s, n, over \cup {comm}, r) <=> Fed(c, s, n, over, r)
  BY <1>2 DEF Fed
<1>5. [q \in Ranks(c.dims) |-> IF Feeds(c, s, n, over \cup {comm}, q, r) THEN 1 ELSE 0]
        = [q \in Ranks(c.dims) |-> IF Feeds(c, s, n, over, q, r) THEN 1 ELSE 0]
  BY <1>3
<1>. QED BY <1>4, <1>5 DEF Tally

(* What a level of collectives divides by.                                 *)
Dividing(c, n, comm) == IF n \in Merging(c, comm) /\ comm # "context" THEN c.dims[comm] ELSE 1

(* Every axis has a rank.                                                  *)
LEMMA RingSize ==
    ASSUME NEW c \in Configs, NEW comm \in Rings
    PROVE  c.dims[comm] \in Nat \ {0}
<1>1. IsDims(c.dims)
  BY ConfigType
<1>. QED BY <1>1 DEF IsDims, Rings

(* What has been merged along one ring more counts the ranks along it too. *)
LEMMA MergedCounts ==
    ASSUME NEW c \in Configs, NEW s, NEW n \in AllNames, NEW over, NEW comm \in Rings,
           n \in Merging(c, comm), MayJoin(n, over, comm), NEW d \in Nat, NEW w,
           CountsOnce(c, s, w, n, over, d)
    PROVE  CountsOnce(c, s, Merged(c, w, comm), n, over \cup {comm}, d * Dividing(c, n, comm))
<1>. DEFINE m == c.dims[comm]
            dd == d * Dividing(c, n, comm)
<1>0. m \in Nat \ {0} /\ dd = IF OpOf(comm) = "mean" THEN d * m ELSE d
  BY RingSize DEF Dividing, OpOf
<1>. HIDE DEF dd
<1>. SUFFICES ASSUME NEW r \in Ranks(c.dims), n \in Members(NamesOf(c, r)), NEW j \in 1..Size[n]
              PROVE  Merged(c, w, comm)[r][n][j] = Tally(c, s, n, over \cup {comm}, dd, r, j)
  BY DEF CountsOnce, dd
<1>1. \A x \in Ranks(c.dims) : n \in Members(NamesOf(c, x)) => w[x][n][j] = Tally(c, s, n, over, d, x, j)
  BY DEF CountsOnce
<1>2. CASE m = 1
  <2>1. Merged(c, w, comm)[r][n] = w[r][n]
    BY <1>2 DEF Merged
  <2>2. dd = d
    BY <1>0, <1>2
  <2>3. Tally(c, s, n, over \cup {comm}, d, r, j) = Tally(c, s, n, over, d, r, j)
    BY <1>2, TallyAlone
  <2>. QED BY <1>1, <2>1, <2>2, <2>3
<1>3. CASE m # 1
  <2>1. Merged(c, w, comm)[r][n] = [k \in 1..Size[n] |->
             ReducedIn(c, OpOf(comm), [i \in 1..c.dims[comm] |-> w[RingOf(c, r, comm)[i]][n][k]])]
    BY <1>3 DEF Merged
  <2>2. PICK v : v = [i \in 1..c.dims[comm] |-> w[RingOf(c, r, comm)[i]][n][j]]
    OBVIOUS
  <2>3. Merged(c, w, comm)[r][n][j] = ReducedIn(c, OpOf(comm), v)
    BY <2>1, <2>2
  <2>4. ASSUME NEW i \in 1..c.dims[comm]
        PROVE  w[RingOf(c, r, comm)[i]][n][j] = Tally(c, s, n, over, d, RingOf(c, r, comm)[i], j)
    <3>1. PICK x \in Ranks(c.dims) : x = RingOf(c, r, comm)[i] /\ Beside(c, x, r, comm)
      BY RingAt
    <3>2. NamesOf(c, x) = NamesOf(c, r)
      BY <3>1, NamesAgree
    <3>. QED BY <1>1, <3>1, <3>2
  <2>5. v = Tallies(c, s, n, over, d, r, comm, j)
    BY <2>2, <2>4 DEF Tallies
  <2>6. j \in Nat \ {0}
    <3>1. Size[n] \in Nat
      BY TrainAssumption DEF AllNames
    <3>. QED BY <3>1
  <2>7. ReducedIn(c, OpOf(comm), v) = Tally(c, s, n, over \cup {comm}, dd, r, j)
    <3>1. PICK op, e : op = OpOf(comm) /\ e = dd
      OBVIOUS
    <3>2. e = Counting(op, d, c.dims[comm])
      BY <1>0, <3>1 DEF Counting
    <3>3. ReducedIn(c, op, v) = Tally(c, s, n, over \cup {comm}, e, r, j)
      <4>1. Reduces(c, s, n, over, comm, d, op, r, j)
        BY <2>6, TalliesReduced
      <4>. QED BY <2>5, <3>2, <4>1 DEF Reduces
    <3>. QED BY <3>1, <3>3
  <2>. QED BY <1>0, <2>3, <2>7
<1>. QED BY <1>2, <1>3

(* What is not merged counts what it did.                                  *)
LEMMA UnmergedCounts ==
    ASSUME NEW c \in Configs, NEW s, NEW n, NEW over, NEW comm, n \notin Merging(c, comm), NEW d \in Nat,
           NEW w, CountsOnce(c, s, w, n, over, d)
    PROVE  CountsOnce(c, s, Merged(c, w, comm), n, over, d * Dividing(c, n, comm))
<1>1. d * Dividing(c, n, comm) = d
  BY DEF Dividing
<1>2. \A r \in Ranks(c.dims) : n \in Members(NamesOf(c, r)) => Merged(c, w, comm)[r][n] = w[r][n]
  BY DEF Merged
<1>. QED BY <1>1, <1>2 DEF CountsOnce

(* How many ranks replicate a parameter along the tensor and expert axes.  *)
Replicas(c, n) == Dividing(c, n, "tensor") * Dividing(c, n, "expert")

(* What all the collectives of a step but those of the flat optimizer      *)
(* count.                                                                  *)
LEMMA LevelsCount ==
    ASSUME NEW c \in Configs, NEW s, NEW n \in AllNames
    PROVE  /\ CountsOnce(c, s, PastData(c, s), n, MergedOver(c, n), Replicas(c, n) * Dividing(c, n, "data"))
           /\ Replicas(c, n) \in Nat
<1>. DEFINE Over(seen) == {a \in seen : n \in Merging(c, a)}
<1>0. \A a \in Rings : Dividing(c, n, a) \in Nat
  BY RingSize DEF Dividing
<1>1. CountsOnce(c, s, FromTokens(c, s), n, Over({}), 1)
  <2>1. Over({}) = {}
    OBVIOUS
  <2>. QED BY <2>1, TokensOnce
<1>2. ASSUME NEW seen, seen \subseteq Rings, NEW comm \in Rings, comm \notin seen, NEW w, NEW d \in Nat,
             CountsOnce(c, s, w, n, Over(seen), d)
      PROVE  CountsOnce(c, s, Merged(c, w, comm), n, Over(seen \cup {comm}), d * Dividing(c, n, comm))
  <2>1. CASE n \in Merging(c, comm)
    <3>1. Over(seen \cup {comm}) = Over(seen) \cup {comm} /\ Over(seen) \subseteq Rings /\ comm \notin Over(seen)
      BY <1>2, <2>1
    <3>2. n = "expert" => comm # "expert"
      BY <2>1 DEF Merging, EpReplicated
    <3>. HIDE DEF Over
    <3>3. PICK over : over = Over(seen)
      OBVIOUS
    <3>4. MayJoin(n, over, comm) /\ CountsOnce(c, s, w, n, over, d)
      BY <1>2, <3>1, <3>2, <3>3 DEF MayJoin
    <3>5. CountsOnce(c, s, Merged(c, w, comm), n, over \cup {comm}, d * Dividing(c, n, comm))
      BY <2>1, <3>4, MergedCounts
    <3>. QED BY <3>1, <3>3, <3>5
  <2>2. CASE n \notin Merging(c, comm)
    <3>1. Over(seen \cup {comm}) = Over(seen)
      BY <2>2
    <3>. HIDE DEF Over
    <3>. QED BY <1>2, <2>2, <3>1, UnmergedCounts
  <2>. QED BY <2>1, <2>2
<1>. HIDE DEF Over
<1>3. CountsOnce(c, s, PastContext(c, s), n, Over({} \cup {"context"}), 1)
  <2>1. Dividing(c, n, "context") = 1
    BY DEF Dividing
  <2>2. CountsOnce(c, s, PastContext(c, s), n, Over({} \cup {"context"}), 1 * Dividing(c, n, "context"))
    BY <1>1, <1>2 DEF PastContext, Rings
  <2>. QED BY <2>1, <2>2
<1>4. PICK t \in Nat : t = Dividing(c, n, "tensor")
  BY <1>0 DEF Rings
<1>5. PICK e \in Nat : e = Dividing(c, n, "expert")
  BY <1>0 DEF Rings
<1>6. CountsOnce(c, s, PastTensor(c, s), n, Over({"context"} \cup {"tensor"}), t)
  <2>1. {} \cup {"context"} = {"context"}
    OBVIOUS
  <2>2. CountsOnce(c, s, PastTensor(c, s), n, Over({"context"} \cup {"tensor"}), 1 * Dividing(c, n, "tensor"))
    BY <1>2, <1>3, <2>1 DEF PastTensor, Rings
  <2>3. 1 * Dividing(c, n, "tensor") = t
    BY <1>4
  <2>. QED BY <2>2, <2>3
<1>7. CountsOnce(c, s, PastExpert(c, s), n, Over({"context", "tensor"} \cup {"expert"}), t * e)
  <2>1. {"context"} \cup {"tensor"} = {"context", "tensor"}
    OBVIOUS
  <2>2. CountsOnce(c, s, PastTensor(c, s), n, Over({"context", "tensor"}), t)
    BY <1>6, <2>1
  <2>. QED BY <1>2, <1>5, <2>2 DEF PastExpert, Rings
<1>8. t * e \in Nat /\ Replicas(c, n) = t * e
  BY <1>4, <1>5 DEF Replicas
<1>9. CountsOnce(c, s, PastData(c, s), n, Over({"context", "tensor", "expert"} \cup {"data"}),
                 Replicas(c, n) * Dividing(c, n, "data"))
  <2>1. {"context", "tensor"} \cup {"expert"} = {"context", "tensor", "expert"}
    OBVIOUS
  <2>2. PICK d \in Nat : d = t * e
    BY <1>8
  <2>3. CountsOnce(c, s, PastExpert(c, s), n, Over({"context", "tensor", "expert"}), d)
    BY <1>7, <2>1, <2>2
  <2>4. CountsOnce(c, s, PastData(c, s), n, Over({"context", "tensor", "expert"} \cup {"data"}),
                   d * Dividing(c, n, "data"))
    BY <1>2, <2>3 DEF PastData, Rings
  <2>. QED BY <1>8, <2>2, <2>4
<1>10. Over({"context", "tensor", "expert"} \cup {"data"}) = MergedOver(c, n)
  BY DEF Over, MergedOver, Rings
<1>. QED BY <1>8, <1>9, <1>10

(* A missing gradient is one that nobody's tokens reached.                 *)
LEMMA WholeCounts ==
    ASSUME NEW c \in Configs, c.mode = "flat", NEW s, NEW n \in AllNames
    PROVE  CountsOnce(c, s, Whole(c, s), n, MergedOver(c, n), Replicas(c, n))
<1>. SUFFICES ASSUME NEW r \in Ranks(c.dims), n \in Members(NamesOf(c, r)), NEW j \in 1..Size[n]
              PROVE  Whole(c, s)[r][n][j] = Tally(c, s, n, MergedOver(c, n), Replicas(c, n), r, j)
  BY DEF CountsOnce
<1>1. PastData(c, s)[r][n][j] = Tally(c, s, n, MergedOver(c, n), Replicas(c, n), r, j)
  <2>1. Dividing(c, n, "data") = 1
    BY DEF Dividing, Merging
  <2>2. Replicas(c, n) * Dividing(c, n, "data") = Replicas(c, n)
    BY <2>1, LevelsCount
  <2>3. CountsOnce(c, s, PastData(c, s), n, MergedOver(c, n), Replicas(c, n))
    BY <2>2, LevelsCount
  <2>. QED BY <2>3 DEF CountsOnce
<1>2. Whole(c, s)[r][n][j] = IF n \in Wants(c, s, r) THEN PastData(c, s)[r][n][j] ELSE ZeroIn(c)
  BY DEF Whole
<1>3. CASE n \in Wants(c, s, r)
  BY <1>1, <1>2, <1>3
<1>4. CASE n \notin Wants(c, s, r)
  <2>1. n = "expert" /\ DataOf(c, r) \notin c.routed[s]
    BY <1>4 DEF Wants, HasGrad
  <2>2. "data" \notin MergedOver(c, n) /\ "data" \in Axes
    BY DEF MergedOver, Merging, Axes
  <2>3. ~Fed(c, s, n, MergedOver(c, n), r)
    <3>1. ASSUME NEW h \in Ranks(c.dims), Near(c, h, r, MergedOver(c, n)) PROVE ~RoutedIn(c, s, h, n)
      <4>1. DataOf(c, h) = DataOf(c, r)
        BY <2>2, <3>1 DEF Near, DataOf
      <4>. QED BY <2>1, <4>1 DEF RoutedIn
    <3>. QED BY <3>1 DEF Fed
  <2>. QED BY <1>2, <1>4, <2>3 DEF Tally
<1>. QED BY <1>3, <1>4

(* The flat optimizer's gradients count the data ranks' once too.          *)
LEMMA MeanedCounts ==
    ASSUME NEW c \in Configs, c.mode = "flat", NEW s, NEW n \in AllNames
    PROVE  CountsOnce(c, s, Meaned(c, s), n, FlatOver(c, n), Replicas(c, n) * c.dims.data)
<1>. SUFFICES ASSUME NEW r \in Ranks(c.dims), n \in Members(NamesOf(c, r)), NEW j \in 1..Size[n]
              PROVE  Meaned(c, s)[r][n][j]
                       = Tally(c, s, n, FlatOver(c, n), Replicas(c, n) * c.dims.data, r, j)
  BY DEF CountsOnce
<1>0. PICK over, d : over = MergedOver(c, n) /\ d = Replicas(c, n)
  OBVIOUS
<1>1. d \in Nat /\ MayJoin(n, over, "data") /\ FlatOver(c, n) = over \cup {"data"}
  <2>1. over \subseteq Rings /\ "data" \notin over
    BY <1>0 DEF MergedOver, Merging, Rings
  <2>. QED BY <1>0, <2>1, LevelsCount DEF MayJoin, FlatOver, Rings
<1>2. PICK v : v = [i \in 1..c.dims.data |-> Whole(c, s)[RingOf(c, r, "data")[i]][n][j]]
  OBVIOUS
<1>3. Meaned(c, s)[r][n][j] = ReducedIn(c, "mean", v)
  BY <1>2 DEF Meaned
<1>4. ASSUME NEW i \in 1..c.dims["data"]
      PROVE  Whole(c, s)[RingOf(c, r, "data")[i]][n][j] = Tally(c, s, n, over, d, RingOf(c, r, "data")[i], j)
  <2>0. "data" \in Rings
    BY DEF Rings
  <2>1. PICK x \in Ranks(c.dims) : x = RingOf(c, r, "data")[i] /\ Beside(c, x, r, "data")
    BY <2>0, RingAt
  <2>2. n \in Members(NamesOf(c, x))
    BY <2>0, <2>1, NamesAgree
  <2>3. CountsOnce(c, s, Whole(c, s), n, over, d)
    BY <1>0, WholeCounts
  <2>. QED BY <2>1, <2>2, <2>3 DEF CountsOnce
<1>5. v = Tallies(c, s, n, over, d, r, "data", j)
  BY <1>2, <1>4 DEF Tallies
<1>6. j \in Nat \ {0}
  <2>1. Size[n] \in Nat
    BY TrainAssumption DEF AllNames
  <2>. QED BY <2>1
<1>7. Reduces(c, s, n, over, "data", d, "mean", r, j)
  BY <1>1, <1>6, TalliesReduced
<1>8. Counting("mean", d, c.dims["data"]) = Replicas(c, n) * c.dims.data
  BY <1>0 DEF Counting
<1>. QED BY <1>1, <1>3, <1>5, <1>7, <1>8 DEF Reduces

(* The divisor of the property.                                            *)
LEMMA DivisorIs ==
    ASSUME ConfigAs, NEW n
    PROVE  /\ Divisor(n) = Replicas(config, n) * config.dims.data
           /\ config.mode # "flat" /\ n \in AllNames =>
                Divisor(n) = Replicas(config, n) * Dividing(config, n, "data")
<1>1. config \in Configs
  BY InConfig DEF ConfigAs
<1>2. PICK t, e, d : t = config.dims.tensor /\ e = config.dims.expert /\ d = config.dims.data
  OBVIOUS
<1>3. t \in Nat /\ e \in Nat /\ d \in Nat
  <2>1. config.dims["tensor"] \in Nat /\ config.dims["expert"] \in Nat /\ config.dims["data"] \in Nat
    BY <1>1, RingSize DEF Rings
  <2>. QED BY <1>2, <2>1
<1>4. PICK a \in Nat : a = IF n \in TpReplicated THEN t ELSE 1
  BY <1>3
<1>5. PICK b \in Nat : b = IF n \in EpReplicated THEN e ELSE 1
  BY <1>3
<1>6. Dividing(config, n, "tensor") = a /\ Dividing(config, n, "expert") = b
  BY <1>2, <1>4, <1>5 DEF Dividing, Merging
<1>7. Divisor(n) = d * a * b
  BY <1>2, <1>4, <1>5 DEF Divisor, P
<1>8. Replicas(config, n) * d = d * a * b
  <2>1. Replicas(config, n) = a * b
    BY <1>6 DEF Replicas
  <2>2. \A x, y, z \in Nat : (y * z) * x = x * y * z
    OBVIOUS
  <2>. QED BY <1>3, <2>1, <2>2
<1>9. config.mode # "flat" /\ n \in AllNames => Dividing(config, n, "data") = d
  BY <1>2 DEF Dividing, Merging
<1>. QED BY <1>2, <1>7, <1>8, <1>9

(* Ranks that differ only along the axes whose collectives join them hold  *)
(* the same part of a parameter.                                           *)
LEMMA NearSlices ==
    ASSUME ConfigAs, NEW q \in RanksHere, NEW r \in RanksHere, NEW n \in Members(Names(r)),
           Near(config, q, r, FlatOver(config, n))
    PROVE  SameSlice(q, r, n) /\ (n = "embed" => SameStage(q, r))
<1>1. /\ config \in Configs /\ P = config.dims
      /\ Names(r) = NamesOf(config, r) /\ Names(q) = NamesOf(config, q)
      /\ Info(q) = Coordinates(P, q) /\ Info(r) = Coordinates(P, r)
      /\ RanksHere = Ranks(config.dims)
  BY AsConfigured, InConfig
<1>2. n \in AllNames
  BY <1>1, NamesType
<1>3. Names(q) = Names(r)
  <2>1. FlatOver(config, n) \subseteq Rings
    BY DEF FlatOver, MergedOver, Rings
  <2>. QED BY <1>1, <2>1, NearNames
<1>4. "pipeline" \in Axes \ FlatOver(config, n)
  BY DEF Axes, FlatOver, MergedOver, Rings
<1>5. \A a \in SplitAlong(n) : a \in Axes \ FlatOver(config, n)
  <2>1. SplitAlong(n) \subseteq Axes /\ "data" \notin SplitAlong(n)
    BY <1>2 DEF AllNames, SplitAlong, Axes
  <2>2. "context" \notin SplitAlong(n)
    BY <1>2 DEF AllNames, SplitAlong
  <2>3. "tensor" \in SplitAlong(n) => n \notin Merging(config, "tensor")
    BY <1>2 DEF AllNames, SplitAlong, Merging, TpReplicated
  <2>4. "expert" \in SplitAlong(n) => n \notin Merging(config, "expert")
    BY <1>2 DEF AllNames, SplitAlong, Merging, EpReplicated
  <2>. QED BY <2>1, <2>2, <2>3, <2>4 DEF FlatOver, MergedOver, Rings
<1>6. \A a \in Axes \ FlatOver(config, n) : Info(q)[a] = Info(r)[a]
  BY <1>1 DEF Near
<1>7. Info(q)["pipeline"] = Info(r)["pipeline"]
  BY <1>4, <1>6
<1>. QED BY <1>3, <1>5, <1>6, <1>7 DEF SameSlice, SameStage, Holds

(* The ranks whose tokens reach a parameter are those that feed it.        *)
LEMMA ReachingIs ==
    ASSUME ConfigAs, NEW s, \A h \in RanksHere : step[h] = s,
           NEW r \in RanksHere, NEW n \in Members(Names(r))
    PROVE  /\ \A q : q \in Reaching(r, n) <=> Feeds(config, s, n, FlatOver(config, n), q, r)
           /\ Reaching(r, n) # {} => Fed(config, s, n, FlatOver(config, n), r)
<1>1. RanksHere = Ranks(config.dims)
  BY InConfig
<1>2. \A h \in RanksHere : /\ SameSlice(h, r, n) /\ (n = "embed" => SameStage(h, r))
                              <=> Near(config, h, r, FlatOver(config, n))
  BY NearSlices, SlicesNear
<1>3. ASSUME NEW h \in RanksHere
      PROVE  Sources(h, n) = SourcesIn(config, h, n) /\ (Routed(h, n) <=> RoutedIn(config, s, h, n))
  <2>1. GroupOf(h, "expert") = RingOf(config, h, "expert")
    BY InConfig DEF Rings
  <2>2. Info(h) = Coordinates(config.dims, h)
    BY AsConfigured
  <2>3. Info(h).data = DataOf(config, h)
    BY <2>2 DEF DataOf
  <2>. QED BY <2>1, <2>3 DEF Sources, SourcesIn, Routed, RoutedIn
<1>4. \A q : q \in Reaching(r, n) <=>
               \E h \in RanksHere : /\ SameSlice(h, r, n)
                                    /\ n = "embed" => SameStage(h, r)
                                    /\ Routed(h, n) /\ q \in Sources(h, n)
  BY DEF Reaching
<1>5. \A q : q \in Reaching(r, n) <=>
               \E h \in RanksHere : /\ Near(config, h, r, FlatOver(config, n))
                                    /\ RoutedIn(config, s, h, n) /\ q \in SourcesIn(config, h, n)
  BY <1>2, <1>3, <1>4
<1>6. \A q : q \in Reaching(r, n) <=> Feeds(config, s, n, FlatOver(config, n), q, r)
  BY <1>1, <1>5 DEF Feeds
<1>7. ASSUME NEW q \in Reaching(r, n) PROVE Fed(config, s, n, FlatOver(config, n), r)
  BY <1>6, <1>7 DEF Feeds, Fed
<1>. QED BY <1>6, <1>7

(* Between two steps every element has one update for every step behind    *)
(* it, and the last one counts every gradient it should once.              *)
LastGrad(h) == h[Len(h)].grad
AllCounted(s) ==
    \A r \in RanksHere :
        /\ Histories(params[r], config, s, r)
        /\ \A n \in Members(NamesOf(config, r)) : \A j \in 1..Size[n] :
             s > 0 /\ Fed(config, s, n, FlatOver(config, n), r) =>
                 LastGrad(params[r][n][j]) = Tally(config, s, n, FlatOver(config, n), Divisor(n), r, j)

(* Which is what the property says.                                        *)
LEMMA CountedOnce ==
    ASSUME ConfigAs, NEW s \in 0..MaxSteps, \A h \in RanksHere : step[h] = s, AllCounted(s)
    PROVE  EveryGradientOnce
<1>. SUFFICES ASSUME NEW r \in RanksHere, NEW n \in Members(Names(r)), NEW i \in 1..Size[n]
              PROVE  LET h == params[r][n][i]
                         last == h[Len(h)].grad
                     IN  /\ h[1] = Loaded(n, i)
                         /\ Len(h) = 1 + Cardinality(StepsOf(r, n))
                         /\ step[r] > 0 /\ Reaching(r, n) # {} =>
                             /\ last.at = <<n, i>>
                             /\ last.div = Divisor(n)
                             /\ last.from = [q \in RanksHere |-> IF q \in Reaching(r, n) THEN 1 ELSE 0]
  BY DEF EveryGradientOnce
<1>1. RanksHere = Ranks(config.dims) /\ Names(r) = NamesOf(config, r) /\ step[r] = s
  BY AsConfigured, InConfig
<1>2. PICK h : h = params[r][n][i]
  OBVIOUS
<1>3. History(h, config, n, i, Cardinality(StepsIn(config, n, s)))
  BY <1>1, <1>2 DEF AllCounted, Histories
<1>4. Loaded(n, i) = LoadedIn(config, n, i)
  BY DEF Loaded, LoadedIn, ZeroGrad, ZeroIn, Nobody, NobodyIn, RanksHere, P
<1>5. StepsOf(r, n) = StepsIn(config, n, s)
  BY <1>1 DEF StepsOf, StepsIn
<1>6. h[1] = Loaded(n, i) /\ Len(h) = 1 + Cardinality(StepsOf(r, n))
  BY <1>3, <1>4, <1>5 DEF History
<1>7. ASSUME s > 0, Reaching(r, n) # {}
      PROVE  /\ LastGrad(h).at = <<n, i>> /\ LastGrad(h).div = Divisor(n)
             /\ LastGrad(h).from = [q \in RanksHere |-> IF q \in Reaching(r, n) THEN 1 ELSE 0]
  <2>1. Fed(config, s, n, FlatOver(config, n), r)
    BY <1>7, ReachingIs
  <2>2. LastGrad(h) = Tally(config, s, n, FlatOver(config, n), Divisor(n), r, i)
    BY <1>1, <1>2, <1>7, <2>1 DEF AllCounted
  <2>3. PICK F : F = [q \in RanksHere |-> IF q \in Reaching(r, n) THEN 1 ELSE 0]
    OBVIOUS
  <2>4. F = [q \in Ranks(config.dims) |-> IF Feeds(config, s, n, FlatOver(config, n), q, r) THEN 1 ELSE 0]
    <3>1. \A q : q \in Reaching(r, n) <=> Feeds(config, s, n, FlatOver(config, n), q, r)
      BY ReachingIs
    <3>. QED BY <1>1, <2>3, <3>1
  <2>5. PICK v, t, d : v = LastGrad(h) /\ t = <<n, i>> /\ d = Divisor(n)
    OBVIOUS
  <2>6. v = [at |-> t, from |-> F, div |-> d]
    BY <2>1, <2>2, <2>4, <2>5 DEF Tally
  <2>7. v.at = t /\ v.from = F /\ v.div = d
    BY <2>6
  <2>. QED BY <2>3, <2>5, <2>7
<1>. QED BY <1>1, <1>2, <1>6, <1>7 DEF LastGrad

(* Without the flat optimizer.                                             *)
LEMMA WholeOnce ==
    ASSUME CollInv, ParamsWorth, config.mode # "flat"
    PROVE  EveryGradientOnce
<1>. SUFFICES ASSUME AllDone, ~config.skip PROVE EveryGradientOnce
  BY DEF EveryGradientOnce
<1>1. /\ ConfigAs /\ config \in Configs /\ RanksHere = Ranks(config.dims) /\ StepsAs
      /\ MaxSteps \in Nat
  BY InConfig, TrainAssumption DEF CollInv, ConfigAs
<1>2. PICK w : Copies(config, w) /\ ParamsAre(w) /\ Dated(w)
  BY DEF ParamsWorth
<1>3. PICK s \in 0..MaxSteps : \A r \in RanksHere : step[r] = s
  <2>1. CASE RanksHere = {}
    BY <1>1, <2>1
  <2>2. CASE RanksHere # {}
    <3>1. PICK q \in RanksHere : TRUE
      BY <2>2
    <3>. QED BY <1>1, <3>1 DEF StepsAs
  <2>. QED BY <2>1, <2>2
<1>4. PICK v : v = Settled(config, s, w)
  OBVIOUS
<1>5. ASSUME NEW r \in RanksHere, NEW n \in Members(NamesOf(config, r))
      PROVE  params[r][n] = v[r][n]
  <2>1. phase[r] = "share" /\ queue[r] = <<>> /\ step[r] = s
    BY <1>3 DEF AllDone
  <2>2. params[r][n] = ParamAt(config, s, "share", 0, w, r, n)
    <3>1. Len(<<>>) = 0
      OBVIOUS
    <3>. QED BY <1>2, <2>1, <3>1 DEF ParamsAre
  <2>. QED BY <1>1, <1>4, <2>2, AllSent
<1>6. ASSUME NEW r \in RanksHere PROVE Histories(w[r], config, Preceding(s), r)
  BY <1>2, <1>3 DEF Dated
<1>7. ASSUME NEW r \in RanksHere PROVE Histories(params[r], config, s, r)
  <2>1. Histories(v[r], config, s, r)
    BY <1>1, <1>4, <1>6, SettledHistories
  <2>. QED BY <1>5, <2>1 DEF Histories
<1>8. ASSUME NEW r \in RanksHere, NEW n \in Members(NamesOf(config, r)), NEW j \in 1..Size[n],
             s > 0, Fed(config, s, n, FlatOver(config, n), r)
      PROVE  LastGrad(params[r][n][j]) = Tally(config, s, n, FlatOver(config, n), Divisor(n), r, j)
  <2>1. n \in AllNames
    BY NamesType
  <2>2. s \in StepsIn(config, n, s)
    <3>1. s \in 1..s
      BY <1>1, <1>8
    <3>2. n = "expert" => config.routed[s] # {}
      BY <1>8 DEF Fed, RoutedIn
    <3>. QED BY <3>1, <3>2 DEF StepsIn
  <2>3. n \in Wants(config, s, r)
    BY <1>1, <1>8, <2>2, WantedSteps
  <2>4. v[r][n] = Due(config, s, w, r, n)
    <3>1. Settled(config, s, w)[r][n] = IF s > 0 /\ Reached(config, r, n)
                                        THEN Due(config, s, w, r, n) ELSE w[r][n]
      BY <1>1 DEF Settled
    <3>2. Reached(config, r, n)
      BY <1>1, SomebodyOwns
    <3>. QED BY <1>4, <1>8, <3>1, <3>2
  <2>5. PICK x, z, y : /\ x = [grad |-> y, norm |-> z] /\ y = PastData(config, s)[r][n][j]
                       /\ Due(config, s, w, r, n)[j] = Append(w[r][n][j], x)
    <3>1. Due(config, s, w, r, n) = [i \in 1..Size[n] |->
              Append(w[r][n][i], [grad |-> PastData(config, s)[r][n][i], norm |-> NormOver(config, s, r)])]
      BY <2>3 DEF Due
    <3>. QED BY <3>1
  <2>6. x.grad = y
    BY <2>5
  <2>7. LastGrad(params[r][n][j]) = y
    <3>1. params[r][n][j] = Append(w[r][n][j], x)
      BY <1>5, <2>4, <2>5
    <3>2. PICK many \in Nat : History(w[r][n][j], config, n, j, many)
      <4>1. Preceding(s) \in Nat
        BY <1>1 DEF Preceding
      <4>2. Cardinality(StepsIn(config, n, Preceding(s))) \in Nat
        BY <4>1, StepsCount
      <4>. QED BY <1>6, <4>2 DEF Histories
    <3>3. Append(w[r][n][j], x)[Len(Append(w[r][n][j], x))] = x
      BY <3>2, HistoryGrows
    <3>. QED BY <2>6, <3>1, <3>3 DEF LastGrad
  <2>8. Divisor(n) = Replicas(config, n) * Dividing(config, n, "data")
    BY <1>1, <2>1, DivisorIs
  <2>9. MergedOver(config, n) = FlatOver(config, n)
    BY <2>1 DEF FlatOver, MergedOver, Merging, Rings
  <2>10. CountsOnce(config, s, PastData(config, s), n, FlatOver(config, n), Divisor(n))
    BY <1>1, <2>1, <2>8, <2>9, LevelsCount
  <2>. QED BY <1>1, <2>5, <2>7, <2>10 DEF CountsOnce
<1>9. AllCounted(s)
  BY <1>7, <1>8 DEF AllCounted
<1>. QED BY <1>1, <1>3, <1>9, CountedOnce

(* With the flat optimizer.                                                *)
LEMMA FlatOnce ==
    ASSUME CollInv, NormWorth, FlatWorth, config.mode = "flat"
    PROVE  EveryGradientOnce
<1>. SUFFICES ASSUME AllDone, ~config.skip PROVE EveryGradientOnce
  BY DEF EveryGradientOnce
<1>1. /\ ConfigAs /\ config \in Configs /\ RanksHere = Ranks(config.dims)
      /\ MaxSteps \in Nat
  BY InConfig, TrainAssumption DEF CollInv, ConfigAs
<1>2. PICK s, z, w : AllGathered(s, z, w)
  BY FlatDone
<1>3. ASSUME NEW r \in RanksHere
      PROVE  /\ FlatVectors(params[r], config, s, "share", Out(config, r, 0), z, w, r)
             /\ step[r] = s /\ s \in 0..MaxSteps
             /\ Histories(w[r], config, Preceding(s), r)
  BY <1>2 DEF AllGathered
<1>4. ASSUME NEW r \in RanksHere PROVE Histories(params[r], config, s, r)
  BY <1>1, <1>3, FlatHistories
<1>5. ASSUME NEW r \in RanksHere, NEW n \in Members(NamesOf(config, r)), NEW j \in 1..Size[n], s > 0
      PROVE  LastGrad(params[r][n][j]) = Tally(config, s, n, FlatOver(config, n), Divisor(n), r, j)
  <2>1. n \in AllNames
    BY NamesType
  <2>2. PICK v : v = params[r]
    OBVIOUS
  <2>3. v[n][j] = DueAt(config, s, z, w, r, n, j)
    BY <1>1, <1>3, <2>2, GatheredAll
  <2>4. PICK x, y : /\ x = [grad |-> y, norm |-> z] /\ y = Meaned(config, s)[r][n][j]
                    /\ v[n][j] = Append(w[r][n][j], x)
    <3>1. ~(s = 0 \/ config.skip)
      BY <1>3, <1>5
    <3>2. v[n][j] = Append(w[r][n][j], [grad |-> Meaned(config, s)[r][n][j], norm |-> z])
      BY <2>3, <3>1 DEF DueAt
    <3>. QED BY <3>2
  <2>5. x.grad = y
    BY <2>4
  <2>6. PICK many \in Nat : History(w[r][n][j], config, n, j, many)
    <3>1. Preceding(s) \in Nat
      BY <1>1, <1>3 DEF Preceding
    <3>2. Cardinality(StepsIn(config, n, Preceding(s))) \in Nat
      BY <3>1, StepsCount
    <3>. QED BY <1>3, <3>2 DEF Histories
  <2>7. Append(w[r][n][j], x)[Len(Append(w[r][n][j], x))] = x
    BY <2>6, HistoryGrows
  <2>8. LastGrad(params[r][n][j]) = y
    BY <2>2, <2>4, <2>5, <2>7 DEF LastGrad
  <2>9. CountsOnce(config, s, Meaned(config, s), n, FlatOver(config, n), Divisor(n))
    BY <1>1, <2>1, MeanedCounts, DivisorIs
  <2>. QED BY <1>1, <2>4, <2>8, <2>9 DEF CountsOnce
<1>6. AllCounted(s)
  BY <1>4, <1>5 DEF AllCounted
<1>7. CASE RanksHere = {}
  BY <1>7 DEF EveryGradientOnce
<1>8. CASE RanksHere # {}
  <2>1. s \in 0..MaxSteps /\ \A r \in RanksHere : step[r] = s
    BY <1>3, <1>8
  <2>. QED BY <1>1, <1>6, <2>1, CountedOnce
<1>. QED BY <1>7, <1>8

(* Between two steps every element has had one update for each step, and   *)
(* the last one is made of the local gradient of every rank whose tokens   *)
(* reach the element, each exactly once, divided by the number of ranks    *)
(* that are averaged over, whichever way the optimizer is divided.         *)
THEOREM GradientsCountedOnce == Spec => []EveryGradientOnce
<1>1. WorthInv => EveryGradientOnce
  BY WholeOnce, FlatOnce DEF WorthInv
<1>. QED BY <1>1, WorthInvHolds, PTL
=============================================================================
