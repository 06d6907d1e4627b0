--------------------------- MODULE TopologyProofs ---------------------------
(***************************************************************************)
(* What other proofs rest on: induction over a set of numbers and lists    *)
(* end to end, then the arrangement of ranks, for axes, worlds and models  *)
(* of any size.  The latter rests on one fact about positional numbers: a  *)
(* quotient and a remainder determine a number and order it as a pair:     *)
(* rank numbers are five-digit numbers whose digits are the coordinates.   *)
(* The multiplications are hidden behind Join, and the ranges of digits    *)
(* behind Digits, where a proof needs nothing of them but that fact.       *)
(***************************************************************************)
EXTENDS Topology, SequencesExt, WellFoundedInduction, TLAPS

-----------------------------------------------------------------------------
(* Induction and lists                                                     *)

(* Induction over the natural numbers, for a set.                          *)
LessThan == {ss \in Nat \X Nat : ss[1] < ss[2]}

LEMMA LessThanWellFounded == IsWellFoundedOn(LessThan, Nat)
BY NatLessThanWellFounded DEF OpToRel, LessThan

LEMMA NaturalsIn ==
    ASSUME NEW S, 0 \in S, \A n \in Nat : n \in S => n + 1 \in S
    PROVE  Nat \subseteq S
<1>. SUFFICES ASSUME Nat \ S # {} PROVE FALSE
  OBVIOUS
<1>1. PICK n \in Nat \ S : \A m \in Nat \ S : <<m, n>> \notin LessThan
  BY LessThanWellFounded, WFMin
<1>2. \A m \in Nat \ S : ~(m < n)
  BY <1>1 DEF LessThan
<1>3. n # 0 /\ n - 1 \in Nat
  BY <1>1
<1>. QED BY <1>1, <1>2, <1>3

(* A function defined along 0..n by a step from one value to the next      *)
(* exists, and keeps to a set the steps stay in.                           *)
StaysIn(T, n, base, next) ==
    n \in Nat /\ base \in T /\ \A x \in T, i \in 1..n : next[<<x, i>>] \in T
RunsAlong(f, T, n, base, next) ==
    f \in [0..n -> T] /\ f[0] = base /\ \A i \in 1..n : f[i] = next[<<f[i - 1], i>>]

LEMMA Recursion ==
    ASSUME NEW T, NEW n, NEW base, NEW next, StaysIn(T, n, base, next)
    PROVE  \E f : RunsAlong(f, T, n, base, next)
<1>0. n \in Nat /\ base \in T /\ \A x \in T, i \in 1..n : next[<<x, i>>] \in T
  BY DEF StaysIn
<1>. DEFINE Along(f, m) == f[0] = base /\ \A i \in 1..m : f[i] = next[<<f[i - 1], i>>]
            Exists == {m \in Nat : m <= n => \E f \in [0..m -> T] : Along(f, m)}
<1>1. 0 \in Exists
  <2>1. [i \in 0..0 |-> base] \in [0..0 -> T] /\ Along([i \in 0..0 |-> base], 0)
    BY <1>0
  <2>. QED BY <2>1
<1>2. ASSUME NEW m \in Nat, m \in Exists PROVE m + 1 \in Exists
  <2>. SUFFICES ASSUME m + 1 <= n PROVE \E g \in [0..(m + 1) -> T] : Along(g, m + 1)
    OBVIOUS
  <2>1. PICK f \in [0..m -> T] : Along(f, m)
    BY <1>0, <1>2
  <2>. DEFINE last == next[<<f[m], m + 1>>]
              g == [i \in 0..(m + 1) |-> IF i <= m THEN f[i] ELSE last]
  <2>2. last \in T
    <3>1. f[m] \in T /\ m + 1 \in 1..n
      BY <1>0, <2>1
    <3>. QED BY <1>0, <3>1
  <2>3. g \in [0..(m + 1) -> T]
    BY <2>1, <2>2
  <2>4. g[0] = base
    BY <2>1
  <2>5. ASSUME NEW i \in 1..(m + 1) PROVE g[i] = next[<<g[i - 1], i>>]
    <3>1. CASE i <= m
      <4>1. g[i] = f[i] /\ g[i - 1] = f[i - 1] /\ f[i] = next[<<f[i - 1], i>>]
        BY <2>1, <3>1
      <4>. QED BY <4>1
    <3>2. CASE i = m + 1
      <4>1. g[i] = last /\ g[i - 1] = f[m]
        BY <3>2
      <4>. QED BY <3>2, <4>1
    <3>. QED BY <3>1, <3>2
  <2>. HIDE DEF g
  <2>. QED BY <2>3, <2>4, <2>5
<1>. HIDE DEF Exists
<1>3. n \in Exists
  BY <1>0, <1>1, <1>2, NaturalsIn
<1>4. PICK f \in [0..n -> T] : Along(f, n)
  BY <1>0, <1>3 DEF Exists
<1>. QED BY <1>4 DEF RunsAlong

KeepsTo(f, T, n) == n \in Nat /\ f[0] \in T /\ \A i \in 1..n : f[i - 1] \in T => f[i] \in T

LEMMA AlongType ==
    ASSUME NEW T, NEW n, NEW f, KeepsTo(f, T, n)
    PROVE  f[n] \in T
<1>0. n \in Nat /\ f[0] \in T /\ \A i \in 1..n : f[i - 1] \in T => f[i] \in T
  BY DEF KeepsTo
<1>. DEFINE Typed == {m \in Nat : m <= n => f[m] \in T}
<1>1. 0 \in Typed
  BY <1>0
<1>2. ASSUME NEW m \in Nat, m \in Typed PROVE m + 1 \in Typed
  <2>1. CASE m + 1 <= n
    <3>1. f[m] \in T /\ m + 1 \in 1..n /\ (m + 1) - 1 = m
      BY <1>0, <1>2, <2>1
    <3>. QED BY <1>0, <3>1
  <2>. QED BY <1>0, <2>1
<1>. HIDE DEF Typed
<1>3. n \in Typed
  BY <1>0, <1>1, <1>2, NaturalsIn
<1>. QED BY <1>0, <1>3 DEF Typed

IsList(s) == \E S : s \in Seq(S)

LEMMA ListOf ==
    ASSUME NEW n \in Nat, NEW s, s = [i \in 1..n |-> s[i]]
    PROVE  IsList(s) /\ Len(s) = n
<1>1. s \in [1..n -> {s[i] : i \in 1..n}]
  <2>1. \A i \in 1..n : s[i] \in {s[j] : j \in 1..n}
    OBVIOUS
  <2>. QED BY <2>1
<1>2. s \in Seq({s[i] : i \in 1..n}) /\ Len(s) = n
  BY <1>1
<1>. QED BY <1>2 DEF IsList

LEMMA ListIs ==
    ASSUME NEW s, IsList(s)
    PROVE  Len(s) \in Nat /\ DOMAIN s = 1..Len(s) /\ s = [i \in 1..Len(s) |-> s[i]]
BY DEF IsList

LEMMA Concat ==
    ASSUME NEW s, NEW t, IsList(s), IsList(t)
    PROVE  /\ IsList(s \o t) /\ Len(s \o t) = Len(s) + Len(t)
           /\ \A i \in 1..Len(s) : (s \o t)[i] = s[i]
           /\ \A i \in 1..Len(t) : (s \o t)[Len(s) + i] = t[i]
<1>1. PICK S : s \in Seq(S)
  BY DEF IsList
<1>2. PICK T : t \in Seq(T)
  BY DEF IsList
<1>. DEFINE U == S \cup T
<1>3. s \in Seq(U) /\ t \in Seq(U)
  BY <1>1, <1>2
<1>. HIDE DEF U
<1>4. s \o t \in Seq(U) /\ Len(s \o t) = Len(s) + Len(t)
  BY <1>3
<1>5. /\ \A i \in 1..Len(s) : (s \o t)[i] = s[i]
      /\ \A i \in 1..Len(t) : (s \o t)[Len(s) + i] = t[i]
  BY <1>3
<1>. QED BY <1>4, <1>5 DEF IsList

Closed(T) == \A x, y \in T : x \o y \in T

(* Laying lists end to end goes along the list of them.                    *)
FlattensTo(f, seqs) ==
    /\ \A i \in 1..Len(seqs) : f[i] = IF i = 1 THEN seqs[i] ELSE f[i - 1] \o seqs[i]
    /\ FlattenSeq(seqs) = f[Len(seqs)]

LEMMA FlattenRuns ==
    ASSUME NEW T, Closed(T), NEW seqs \in Seq(T), seqs # <<>>
    PROVE  \E f : FlattensTo(f, seqs)
<1>. DEFINE n == Len(seqs) - 1
            Step(x, i) == x \o seqs[i + 1]
            Rec(f) == f = [i \in 1..Len(seqs) |-> IF i = 1 THEN seqs[i] ELSE f[i - 1] \o seqs[i]]
            next == [x \in T \X (1..n) |-> Step(x[1], x[2])]
<1>1. n \in Nat /\ Len(seqs) = n + 1 /\ \A i \in 1..(n + 1) : seqs[i] \in T
  OBVIOUS
<1>2. \A x \in T, i \in 1..n : Step(x, i) \in T
  <2>1. ASSUME NEW x \in T, NEW i \in 1..n PROVE Step(x, i) \in T
    <3>1. seqs[i + 1] \in T
      BY <1>1
    <3>. QED BY <3>1 DEF Closed
  <2>. HIDE DEF Step, n
  <2>. QED BY <2>1
<1>3. \E f : Rec(f)
  <2>1. \A x \in T, i \in 1..n : next[<<x, i>>] = Step(x, i)
    OBVIOUS
  <2>. HIDE DEF next, n
  <2>2. StaysIn(T, n, seqs[1], next)
    <3>1. seqs[1] \in T /\ n \in Nat
      BY <1>1
    <3>2. \A x \in T, i \in 1..n : next[<<x, i>>] \in T
      BY <1>2, <2>1
    <3>. QED BY <3>1, <3>2 DEF StaysIn
  <2>3. PICK f : RunsAlong(f, T, n, seqs[1], next)
    BY <2>2, Recursion
  <2>4. f \in [0..n -> T] /\ f[0] = seqs[1] /\ \A i \in 1..n : f[i] = next[<<f[i - 1], i>>]
    BY <2>3 DEF RunsAlong
  <2>5. ASSUME NEW i \in 1..n PROVE f[i] = f[i - 1] \o seqs[i + 1]
    <3>1. f[i - 1] \in T
      BY <1>1, <2>4
    <3>. QED BY <2>1, <2>4, <3>1
  <2>. DEFINE g == [i \in 1..(n + 1) |-> f[i - 1]]
  <2>6. ASSUME NEW i \in 1..(n + 1) PROVE g[i] = IF i = 1 THEN seqs[i] ELSE g[i - 1] \o seqs[i]
    <3>1. CASE i = 1
      BY <2>4, <3>1
    <3>2. CASE i # 1
      <4>1. i - 1 \in 1..n /\ (i - 1) + 1 = i
        BY <1>1, <3>2
      <4>2. f[i - 1] = f[(i - 1) - 1] \o seqs[i]
        BY <2>5, <4>1
      <4>3. g[i - 1] = f[(i - 1) - 1] /\ g[i] = f[i - 1]
        BY <1>1, <4>1
      <4>. HIDE DEF g
      <4>. QED BY <3>2, <4>2, <4>3
    <3>. QED BY <3>1, <3>2
  <2>7. g = [i \in 1..(n + 1) |-> g[i]]
    OBVIOUS
  <2>. HIDE DEF g
  <2>8. g = [i \in 1..(n + 1) |-> IF i = 1 THEN seqs[i] ELSE g[i - 1] \o seqs[i]]
    BY <2>6, <2>7
  <2>. QED BY <1>1, <2>8
<1>4. PICK f : Rec(f) /\ FlattenSeq(seqs) = f[Len(seqs)]
  <2>. DEFINE f == CHOOSE g : Rec(g)
  <2>1. Rec(f)
    BY <1>3
  <2>2. Len(seqs) # 0
    BY <1>1
  <2>3. FlattenSeq(seqs) = f[Len(seqs)]
    BY <2>2 DEF FlattenSeq
  <2>. QED BY <2>1, <2>3
<1>5. \A i \in 1..Len(seqs) : f[i] = IF i = 1 THEN seqs[i] ELSE f[i - 1] \o seqs[i]
  BY <1>4, Zenon
<1>. QED BY <1>4, <1>5 DEF FlattensTo

(* Lists end to end stay in a set that is closed under it.                 *)
LEMMA FlattenIn ==
    ASSUME NEW T, Closed(T), NEW seqs \in Seq(T), seqs # <<>>
    PROVE  FlattenSeq(seqs) \in T
<1>. DEFINE n == Len(seqs) - 1
<1>1. n \in Nat /\ Len(seqs) = n + 1 /\ \A i \in 1..(n + 1) : seqs[i] \in T
  OBVIOUS
<1>2. PICK f : FlattensTo(f, seqs)
  BY FlattenRuns
<1>3. /\ \A i \in 1..Len(seqs) : f[i] = IF i = 1 THEN seqs[i] ELSE f[i - 1] \o seqs[i]
      /\ FlattenSeq(seqs) = f[Len(seqs)]
  BY <1>2 DEF FlattensTo
<1>. DEFINE h == [i \in 0..n |-> f[i + 1]]
<1>4. h[0] \in T
  <2>1. h[0] = f[1] /\ f[1] = seqs[1]
    BY <1>1, <1>3
  <2>. QED BY <1>1, <2>1
<1>5. ASSUME NEW i \in 1..n, h[i - 1] \in T PROVE h[i] \in T
  <2>1. i + 1 \in 1..Len(seqs) /\ i + 1 # 1 /\ (i + 1) - 1 = i
    BY <1>1
  <2>2. f[i + 1] = f[i] \o seqs[i + 1]
    BY <1>3, <2>1
  <2>3. h[i] = f[i + 1] /\ h[i - 1] = f[i]
    BY <1>1
  <2>4. seqs[i + 1] \in T
    BY <1>1, <2>1
  <2>. HIDE DEF h
  <2>. QED BY <1>5, <2>2, <2>3, <2>4 DEF Closed
<1>6. h[n] = f[Len(seqs)]
  BY <1>1
<1>. HIDE DEF n, h
<1>7. KeepsTo(h, T, n)
  BY <1>1, <1>4, <1>5 DEF KeepsTo
<1>8. h[n] \in T
  BY <1>7, AlongType
<1>. QED BY <1>3, <1>6, <1>8

(* The running sums of a list of sizes.                                    *)
Sums(f, numels) ==
    /\ f[0] = 0
    /\ \A i \in 1..Len(numels) : f[i] = f[i - 1] + numels[i]
    /\ \A i \in 0..Len(numels) : f[i] \in Nat

LEMMA SumsType ==
    ASSUME NEW numels \in Seq(Nat), NEW f, f[0] = 0,
           \A i \in 1..Len(numels) : f[i] = f[i - 1] + numels[i]
    PROVE  \A i \in 0..Len(numels) : f[i] \in Nat
<1>. DEFINE n == Len(numels)
            Typed == {m \in Nat : m <= n => f[m] \in Nat}
<1>1. n \in Nat /\ \A i \in 1..n : numels[i] \in Nat
  OBVIOUS
<1>2. 0 \in Typed
  OBVIOUS
<1>3. ASSUME NEW m \in Nat, m \in Typed PROVE m + 1 \in Typed
  <2>1. CASE m + 1 <= n
    <3>1. m + 1 \in 1..n /\ (m + 1) - 1 = m /\ f[m] \in Nat
      BY <1>1, <1>3, <2>1
    <3>2. f[m + 1] = f[m] + numels[m + 1] /\ numels[m + 1] \in Nat
      BY <1>1, <3>1
    <3>. QED BY <3>1, <3>2
  <2>. QED BY <1>1, <2>1
<1>. HIDE DEF Typed
<1>4. Nat \subseteq Typed
  BY <1>2, <1>3, NaturalsIn
<1>. QED BY <1>1, <1>4 DEF Typed

(* Two functions that sum the same sizes are the same.                     *)
LEMMA SumsAgree ==
    ASSUME NEW sizes, NEW sizes2, NEW n \in Nat, n <= Len(sizes), n <= Len(sizes2),
           Len(sizes) \in Nat, Len(sizes2) \in Nat,
           \A i \in 1..n : sizes[i] = sizes2[i],
           NEW f, Sums(f, sizes), NEW g, Sums(g, sizes2)
    PROVE  \A i \in 0..n : f[i] = g[i]
<1>. DEFINE Same == {m \in Nat : m <= n => f[m] = g[m]}
<1>1. 0 \in Same
  BY DEF Sums
<1>2. ASSUME NEW m \in Nat, m \in Same PROVE m + 1 \in Same
  <2>1. CASE m + 1 <= n
    <3>1. m + 1 \in 1..Len(sizes) /\ m + 1 \in 1..Len(sizes2) /\ m + 1 \in 1..n /\ f[m] = g[m]
      BY <1>2, <2>1
    <3>2. f[m + 1] = f[m + 1 - 1] + sizes[m + 1] /\ g[m + 1] = g[m + 1 - 1] + sizes2[m + 1]
      BY <3>1 DEF Sums
    <3>3. m + 1 - 1 = m
      OBVIOUS
    <3>. QED BY <3>1, <3>2, <3>3
  <2>. QED BY <2>1
<1>. HIDE DEF Same
<1>3. Nat \subseteq Same
  BY <1>1, <1>2, NaturalsIn
<1>. QED BY <1>3 DEF Same

(* Running sums grow, and every position up to the total is in one part.   *)
LEMMA SumsGrow ==
    ASSUME NEW sizes \in Seq(Nat), NEW f, Sums(f, sizes)
    PROVE  \A j \in 0..Len(sizes) : \A i \in 0..j : f[i] <= f[j]
<1>. DEFINE Grown == {m \in Nat : m <= Len(sizes) => \A i \in 0..m : f[i] <= f[m]}
<1>0. Len(sizes) \in Nat /\ \A i \in 1..Len(sizes) : sizes[i] \in Nat
  OBVIOUS
<1>1. 0 \in Grown
  BY DEF Sums
<1>2. ASSUME NEW m \in Nat, m \in Grown PROVE m + 1 \in Grown
  <2>1. ASSUME m + 1 <= Len(sizes), NEW i \in 0..(m + 1) PROVE f[i] <= f[m + 1]
    <3>1. m + 1 \in 1..Len(sizes) /\ m + 1 - 1 = m /\ m \in 0..Len(sizes) /\ m + 1 \in 0..Len(sizes)
      BY <1>0, <2>1
    <3>2. f[m + 1] = f[m] + sizes[m + 1] /\ sizes[m + 1] \in Nat /\ f[m] \in Nat /\ f[m + 1] \in Nat
      BY <1>0, <3>1 DEF Sums
    <3>3. CASE i = m + 1
      BY <3>2, <3>3
    <3>4. CASE i # m + 1
      <4>1. i \in 0..m /\ f[i] <= f[m] /\ i \in 0..Len(sizes)
        BY <1>2, <2>1, <3>1, <3>4
      <4>2. f[i] \in Nat
        BY <4>1 DEF Sums
      <4>. QED BY <3>2, <4>1, <4>2
    <3>. QED BY <3>3, <3>4
  <2>. QED BY <2>1
<1>. HIDE DEF Grown
<1>3. Nat \subseteq Grown
  BY <1>1, <1>2, NaturalsIn
<1>. QED BY <1>0, <1>3 DEF Grown

Covers(f, sizes, p) == \E i \in 1..Len(sizes) : f[i - 1] < p /\ p <= f[i]

(* Every position up to the total lies in some part.                       *)
LEMMA SumsCover ==
    ASSUME NEW sizes \in Seq(Nat), NEW f, Sums(f, sizes), NEW p \in 1..f[Len(sizes)]
    PROVE  Covers(f, sizes, p)
<1>. DEFINE Reached == {m \in Nat : m <= Len(sizes) /\ p <= f[m] =>
                            \E i \in 1..m : f[i - 1] < p /\ p <= f[i]}
<1>0. Len(sizes) \in Nat
  OBVIOUS
<1>1. 0 \in Reached
  BY DEF Sums
<1>2. ASSUME NEW m \in Nat, m \in Reached PROVE m + 1 \in Reached
  <2>. SUFFICES ASSUME m + 1 <= Len(sizes), p <= f[m + 1]
                PROVE  \E i \in 1..(m + 1) : f[i - 1] < p /\ p <= f[i]
    OBVIOUS
  <2>1. m \in 0..Len(sizes) /\ m + 1 - 1 = m /\ m + 1 \in 1..(m + 1)
    BY <1>0
  <2>2. f[m] \in Nat /\ f[Len(sizes)] \in Nat /\ p \in Nat
    BY <1>0, <2>1 DEF Sums
  <2>3. CASE p <= f[m]
    <3>1. PICK i \in 1..m : f[i - 1] < p /\ p <= f[i]
      BY <1>2, <2>3
    <3>2. i \in 1..(m + 1)
      OBVIOUS
    <3>. QED BY <3>1, <3>2
  <2>4. CASE f[m] < p
    BY <2>1, <2>4
  <2>. QED BY <2>2, <2>3, <2>4
<1>. HIDE DEF Reached
<1>3. Nat \subseteq Reached
  BY <1>1, <1>2, NaturalsIn
<1>4. f[Len(sizes)] \in Nat /\ p <= f[Len(sizes)]
  BY <1>0 DEF Sums
<1>. QED BY <1>0, <1>3, <1>4 DEF Reached, Covers

(* Where the parts are when lists of known sizes are laid end to end.      *)
Parts(seqs, sizes) ==
    /\ sizes \in Seq(Nat)
    /\ IsList(seqs) /\ Len(seqs) = Len(sizes)
    /\ \A i \in 1..Len(sizes) : IsList(seqs[i]) /\ Len(seqs[i]) = sizes[i]
Laid(s, seqs, f, m) ==
    /\ IsList(s) /\ Len(s) = f[m]
    /\ \A i \in 1..m : \A k \in 1..Len(seqs[i]) : s[f[i - 1] + k] = seqs[i][k]

(* One more sequence laid at the end.                                      *)
LEMMA LaidNext ==
    ASSUME NEW seqs, NEW sizes, Parts(seqs, sizes), NEW f, Sums(f, sizes),
           NEW m \in 1..Len(sizes), m < Len(sizes), NEW s, Laid(s, seqs, f, m)
    PROVE  Laid(s \o seqs[m + 1], seqs, f, m + 1)
<1>0. PICK t : t = seqs[m + 1]
  OBVIOUS
<1>. DEFINE all == s \o t
<1>1. Len(sizes) \in Nat /\ m + 1 \in 1..Len(sizes) /\ m + 1 - 1 = m
  BY DEF Parts
<1>2. IsList(t) /\ Len(t) = sizes[m + 1] /\ sizes[m + 1] \in Nat
  BY <1>0, <1>1 DEF Parts
<1>3. f[m] \in Nat /\ f[m + 1] = f[m] + sizes[m + 1]
  BY <1>1 DEF Sums
<1>4. IsList(s) /\ Len(s) = f[m]
  BY DEF Laid
<1>5. /\ IsList(all) /\ Len(all) = Len(s) + Len(t)
      /\ \A i \in 1..Len(s) : all[i] = s[i]
      /\ \A i \in 1..Len(t) : all[Len(s) + i] = t[i]
  <2>1. IsList(s) /\ IsList(t)
    BY <1>2, <1>4
  <2>. QED BY <2>1, Concat
<1>. HIDE DEF all
<1>6. ASSUME NEW i \in 1..(m + 1), NEW k \in 1..Len(seqs[i]) PROVE all[f[i - 1] + k] = seqs[i][k]
  <2>1. CASE i = m + 1
    <3>1. k \in 1..Len(t) /\ f[i - 1] + k = Len(s) + k
      BY <1>0, <1>1, <1>4, <2>1
    <3>. QED BY <1>0, <1>5, <2>1, <3>1
  <2>2. CASE i # m + 1
    <3>1. i \in 1..m /\ i \in 1..Len(sizes) /\ i \in 0..m /\ i - 1 \in 0..Len(sizes) /\ m \in 0..Len(sizes)
      BY <1>1, <2>2
    <3>2. f[i] = f[i - 1] + sizes[i] /\ f[i - 1] \in Nat /\ sizes[i] \in Nat /\ Len(seqs[i]) = sizes[i]
      <4>1. f[i] = f[i - 1] + sizes[i] /\ f[i - 1] \in Nat
        BY <3>1 DEF Sums
      <4>2. sizes[i] \in Nat /\ Len(seqs[i]) = sizes[i]
        BY <3>1 DEF Parts
      <4>. QED BY <4>1, <4>2
    <3>3. f[i] <= f[m]
      BY <3>1, SumsGrow DEF Parts
    <3>4. f[i - 1] + k \in 1..Len(s)
      BY <1>3, <1>4, <3>2, <3>3
    <3>5. s[f[i - 1] + k] = seqs[i][k]
      BY <3>1 DEF Laid
    <3>. QED BY <1>5, <3>4, <3>5
  <2>. QED BY <2>1, <2>2
<1>7. Len(all) = f[m + 1]
  BY <1>2, <1>3, <1>4, <1>5
<1>8. Laid(all, seqs, f, m + 1)
  BY <1>5, <1>6, <1>7 DEF Laid
<1>. QED BY <1>0, <1>8 DEF all

(* Sequences laid end to end: each begins where the sum of the sizes       *)
(* before it says.                                                         *)
LEMMA FlattenAt ==
    ASSUME NEW seqs, NEW sizes, Parts(seqs, sizes), NEW f, Sums(f, sizes)
    PROVE  Laid(FlattenSeq(seqs), seqs, f, Len(sizes))
<1>. DEFINE n == Len(sizes)
            U == UNION {{seqs[i][k] : k \in 1..Len(seqs[i])} : i \in 1..n}
<1>0. n \in Nat /\ sizes \in Seq(Nat)
  BY DEF Parts
<1>1. CASE n = 0
  <2>1. seqs = <<>>
    BY <1>1 DEF Parts, IsList
  <2>2. FlattenSeq(seqs) = <<>>
    BY <2>1 DEF FlattenSeq
  <2>3. IsList(<<>>) /\ Len(<<>>) = 0
    BY DEF IsList
  <2>4. f[0] = 0 /\ \A i \in 1..0 : FALSE
    BY DEF Sums
  <2>. QED BY <1>1, <2>2, <2>3, <2>4 DEF Laid
<1>2. CASE n # 0
  <2>1. ASSUME NEW i \in 1..n PROVE seqs[i] \in Seq(U)
    <3>1. IsList(seqs[i])
      BY DEF Parts
    <3>2. Len(seqs[i]) \in Nat /\ seqs[i] = [k \in 1..Len(seqs[i]) |-> seqs[i][k]]
      BY <3>1, ListIs
    <3>3. \A k \in 1..Len(seqs[i]) : seqs[i][k] \in U
      OBVIOUS
    <3>4. PICK s : s = seqs[i]
      OBVIOUS
    <3>. HIDE DEF U
    <3>5. s \in [1..Len(s) -> U] /\ Len(s) \in Nat
      BY <3>2, <3>3, <3>4
    <3>6. s \in Seq(U)
      BY <3>5
    <3>. QED BY <3>4, <3>6
  <2>2. seqs \in Seq(Seq(U)) /\ seqs # <<>> /\ Len(seqs) = n
    <3>. HIDE DEF U
    <3>1. IsList(seqs) /\ Len(seqs) = n
      BY DEF Parts
    <3>2. seqs = [i \in 1..n |-> seqs[i]]
      BY <3>1, ListIs
    <3>3. seqs \in [1..n -> Seq(U)]
      BY <2>1, <3>2
    <3>4. seqs \in Seq(Seq(U))
      BY <1>0, <3>3
    <3>. QED BY <1>2, <3>1, <3>4
  <2>3. Closed(Seq(U))
    <3>. HIDE DEF U
    <3>. QED BY DEF Closed
  <2>. HIDE DEF U
  <2>4. PICK g : FlattensTo(g, seqs)
    BY <2>2, <2>3, FlattenRuns
  <2>5. \A i \in 1..n : g[i] = IF i = 1 THEN seqs[i] ELSE g[i - 1] \o seqs[i]
    BY <2>2, <2>4 DEF FlattensTo
  <2>. DEFINE Done == {m \in Nat : m \in 1..n => Laid(g[m], seqs, f, m)}
  <2>6. 0 \in Done
    OBVIOUS
  <2>7. ASSUME NEW m \in Nat, m \in Done PROVE m + 1 \in Done
    <3>1. CASE m + 1 <= n /\ m = 0
      <4>1. 1 \in 1..n /\ g[1] = seqs[1]
        BY <1>0, <2>5, <3>1
      <4>2. IsList(seqs[1]) /\ Len(seqs[1]) = sizes[1] /\ sizes[1] \in Nat
        BY <1>0, <4>1 DEF Parts
      <4>3. f[1] = sizes[1] /\ f[0] = 0 /\ 1 - 1 = 0
        <5>1. f[1] = f[1 - 1] + sizes[1] /\ f[0] = 0 /\ 1 - 1 = 0
          BY <4>1 DEF Sums
        <5>. QED BY <4>2, <5>1
      <4>4. \A i \in 1..1 : i = 1
        OBVIOUS
      <4>5. \A k \in 1..Len(seqs[1]) : 0 + k = k
        OBVIOUS
      <4>6. Laid(g[1], seqs, f, 1)
        BY <4>1, <4>2, <4>3, <4>4, <4>5 DEF Laid
      <4>. QED BY <3>1, <4>6
    <3>2. CASE m + 1 <= n /\ m # 0
      <4>1. m \in 1..n /\ m < n /\ m + 1 \in 1..n /\ m + 1 # 1 /\ m + 1 - 1 = m
        BY <1>0, <3>2
      <4>2. g[m + 1] = g[m] \o seqs[m + 1]
        <5>1. PICK j \in 1..n : j = m + 1
          BY <4>1
        <5>2. g[j] = IF j = 1 THEN seqs[j] ELSE g[j - 1] \o seqs[j]
          BY <2>5
        <5>3. j - 1 = m /\ j # 1
          BY <4>1, <5>1
        <5>4. g[j] = g[m] \o seqs[j]
          BY <5>2, <5>3
        <5>. QED BY <5>1, <5>4
      <4>3. Laid(g[m], seqs, f, m)
        BY <2>7, <4>1
      <4>4. Laid(g[m] \o seqs[m + 1], seqs, f, m + 1)
        BY <4>1, <4>3, LaidNext
      <4>5. Laid(g[m + 1], seqs, f, m + 1)
        <5>1. PICK x : x = g[m] \o seqs[m + 1]
          OBVIOUS
        <5>. QED BY <4>2, <4>4, <5>1
      <4>. QED BY <4>5
    <3>. QED BY <1>0, <3>1, <3>2
  <2>. HIDE DEF Done
  <2>8. n \in Done
    BY <1>0, <2>6, <2>7, NaturalsIn
  <2>9. Laid(g[n], seqs, f, n)
    BY <1>0, <1>2, <2>8 DEF Done
  <2>. QED BY <2>2, <2>4, <2>9 DEF FlattensTo
<1>. QED BY <1>1, <1>2

-----------------------------------------------------------------------------
(* Positional numbers                                                      *)

LEMMA DigitsOf ==
    ASSUME NEW r \in Nat, NEW n \in Nat \ {0}
    PROVE  r \div n \in Nat /\ r % n \in 0..(n - 1) /\ r = (r \div n) * n + (r % n)
OBVIOUS

LEMMA DigitLimit ==
    ASSUME NEW m \in Nat \ {0}, NEW n \in Nat \ {0}, NEW r \in Nat, r < m * n
    PROVE  r \div n \in 0..(m - 1)
<1>. DEFINE a == r \div n
<1>1. a \in Nat /\ r % n \in 0..(n - 1) /\ r = a * n + (r % n)
  BY DigitsOf
<1>. HIDE DEF a
<1>2. CASE a >= m
  <2>1. a * n >= m * n
    BY <1>1, <1>2
  <2>. QED BY <1>1, <2>1
<1>. QED BY <1>1, <1>2 DEF a

LEMMA DigitBound ==
    ASSUME NEW m \in Nat \ {0}, NEW n \in Nat \ {0}, NEW a \in 0..(m - 1), NEW b \in 0..(n - 1)
    PROVE  a * n + b \in Nat /\ a * n + b < m * n /\ m * n \in Nat \ {0}
<1>1. (a + 1) * n <= m * n /\ m * n \in Nat /\ a * n \in Nat
  OBVIOUS
<1>2. (a + 1) * n = a * n + n
  OBVIOUS
<1>. QED BY <1>1, <1>2

LEMMA DigitOrder ==
    ASSUME NEW n \in Nat \ {0}, NEW a \in Nat, NEW a2 \in Nat,
           NEW b \in 0..(n - 1), NEW b2 \in 0..(n - 1)
    PROVE  a * n + b < a2 * n + b2 <=> a < a2 \/ (a = a2 /\ b < b2)
<1>1. CASE a < a2
  <2>1. (a + 1) * n <= a2 * n /\ (a + 1) * n = a * n + n /\ a * n \in Nat /\ a2 * n \in Nat
    BY <1>1
  <2>. QED BY <1>1, <2>1
<1>2. CASE a2 < a
  <2>1. (a2 + 1) * n <= a * n /\ (a2 + 1) * n = a2 * n + n /\ a * n \in Nat /\ a2 * n \in Nat
    BY <1>2
  <2>. QED BY <1>2, <2>1
<1>3. CASE a = a2
  <2>1. a * n = a2 * n /\ a * n \in Nat
    BY <1>3
  <2>. QED BY <1>3, <2>1
<1>. QED BY <1>1, <1>2, <1>3

(* A number with the digit b after a, and the order of such numbers.       *)
Join(a, n, b) == a * n + b
Digits(n) == 0..(n - 1)
Lt(a, b) == a < b

LEMMA DigitLess ==
    ASSUME NEW n, NEW a, NEW a2, NEW b, NEW b2,
           n \in Nat \ {0}, a \in Nat, a2 \in Nat, b \in Digits(n), b2 \in Digits(n)
    PROVE  Lt(Join(a, n, b), Join(a2, n, b2)) <=> Lt(a, a2) \/ (a = a2 /\ Lt(b, b2))
BY DigitOrder DEF Join, Lt, Digits

LEMMA DigitEqual ==
    ASSUME NEW n, NEW a, NEW a2, NEW b, NEW b2,
           n \in Nat \ {0}, a \in Nat, a2 \in Nat, b \in Digits(n), b2 \in Digits(n)
    PROVE  Join(a, n, b) = Join(a2, n, b2) <=> a = a2 /\ b = b2
<1>. DEFINE x == Join(a, n, b)
            x2 == Join(a2, n, b2)
<1>1. a * n \in Nat /\ a2 * n \in Nat
  OBVIOUS
<1>2. x \in Nat /\ x2 \in Nat
  BY <1>1 DEF Join, Digits
<1>3. x < x2 <=> a < a2 \/ (a = a2 /\ b < b2)
  BY DigitOrder DEF Join, Digits
<1>4. x2 < x <=> a2 < a \/ (a2 = a /\ b2 < b)
  BY DigitOrder DEF Join, Digits
<1>. HIDE DEF x, x2
<1>5. a \in Nat /\ a2 \in Nat /\ b \in Nat /\ b2 \in Nat
  BY DEF Digits
<1>6. x = x2 <=> a = a2 /\ b = b2
  BY ONLY <1>2, <1>3, <1>4, <1>5
<1>. QED BY <1>6 DEF x, x2

LEMMA DigitIs ==
    ASSUME NEW n \in Nat \ {0}, NEW a \in Nat, NEW b \in 0..(n - 1)
    PROVE  /\ a * n + b \in Nat
           /\ (a * n + b) \div n = a
           /\ (a * n + b) % n = b
<1>. DEFINE r == a * n + b
<1>1. r \in Nat
  <2>1. a * n \in Nat
    OBVIOUS
  <2>. QED BY <2>1
<1>2. r \div n \in Nat /\ r % n \in 0..(n - 1) /\ r = (r \div n) * n + (r % n)
  BY <1>1, DigitsOf
<1>. DEFINE q == r \div n
            m == r % n
<1>3. q = a /\ m = b
  <2>1. q \in Nat /\ m \in 0..(n - 1) /\ a * n + b = q * n + m
    BY <1>2
  <2>. HIDE DEF q, m, r
  <2>2. ~(a * n + b < q * n + m) /\ ~(q * n + m < a * n + b)
    <3>1. a * n \in Nat /\ q * n \in Nat
      BY <2>1
    <3>. QED BY <2>1, <3>1
  <2>3. ~(a < q) /\ ~(q < a) /\ (a = q => ~(b < m) /\ ~(m < b))
    BY <2>1, <2>2, DigitOrder
  <2>. QED BY <2>1, <2>3
<1>. QED BY <1>1, <1>3

-----------------------------------------------------------------------------
(* Rank numbers and coordinates                                            *)

(* What the code's rank arithmetic passes through, one axis at a time.     *)
StagePlace(p, c) == Join(c.data, p.pipeline, c.pipeline)
ContextPlace(p, c) == Join(StagePlace(p, c), p.context, c.context)
TensorPlace(p, c) == Join(ContextPlace(p, c), p.tensor, c.tensor)

LEMMA Horner ==
    ASSUME NEW p, IsDims(p), NEW c
    PROVE  GlobalRank(p, c) = Join(TensorPlace(p, c), p.expert, c.expert)
BY DEF GlobalRank, TensorPlace, ContextPlace, StagePlace, Join

LEMMA DimsType ==
    ASSUME NEW p, IsDims(p)
    PROVE  /\ p.data \in Nat \ {0} /\ p.pipeline \in Nat \ {0} /\ p.context \in Nat \ {0}
           /\ p.tensor \in Nat \ {0} /\ p.expert \in Nat \ {0} /\ p.sequence \in Nat \ {0}
BY DEF IsDims

LEMMA CoordsType ==
    ASSUME NEW p, NEW c \in Coords(p)
    PROVE  /\ c.data \in 0..(p.data - 1) /\ c.pipeline \in 0..(p.pipeline - 1)
           /\ c.context \in 0..(p.context - 1) /\ c.tensor \in 0..(p.tensor - 1)
           /\ c.expert \in 0..(p.expert - 1)
BY DEF Coords

LEMMA PartialRanks ==
    ASSUME NEW p, IsDims(p), NEW c \in Coords(p)
    PROVE  /\ StagePlace(p, c) \in Nat /\ StagePlace(p, c) < p.data * p.pipeline
           /\ ContextPlace(p, c) \in Nat /\ ContextPlace(p, c) < p.data * p.pipeline * p.context
           /\ TensorPlace(p, c) \in Nat /\ TensorPlace(p, c) < p.data * p.pipeline * p.context * p.tensor
           /\ GlobalRank(p, c) \in Nat /\ GlobalRank(p, c) < World(p)
           /\ World(p) \in Nat \ {0}
<1>. USE DimsType, CoordsType
<1>1. /\ StagePlace(p, c) \in Nat /\ StagePlace(p, c) < p.data * p.pipeline
      /\ p.data * p.pipeline \in Nat \ {0}
  BY DigitBound DEF StagePlace, Join
<1>2. /\ ContextPlace(p, c) \in Nat /\ ContextPlace(p, c) < p.data * p.pipeline * p.context
      /\ p.data * p.pipeline * p.context \in Nat \ {0}
  <2>. DEFINE m == p.data * p.pipeline
              a == StagePlace(p, c)
  <2>. SUFFICES a * p.context + c.context \in Nat /\ a * p.context + c.context < m * p.context
                /\ m * p.context \in Nat \ {0}
    BY DEF ContextPlace, Join
  <2>1. a \in 0..(m - 1) /\ m \in Nat \ {0}
    BY <1>1
  <2>. HIDE DEF a, m
  <2>. QED BY <2>1, DigitBound
<1>3. /\ TensorPlace(p, c) \in Nat /\ TensorPlace(p, c) < p.data * p.pipeline * p.context * p.tensor
      /\ p.data * p.pipeline * p.context * p.tensor \in Nat \ {0}
  <2>. DEFINE m == p.data * p.pipeline * p.context
              a == ContextPlace(p, c)
  <2>. SUFFICES a * p.tensor + c.tensor \in Nat /\ a * p.tensor + c.tensor < m * p.tensor
                /\ m * p.tensor \in Nat \ {0}
    BY DEF TensorPlace, Join
  <2>1. a \in 0..(m - 1) /\ m \in Nat \ {0}
    BY <1>2
  <2>. HIDE DEF a, m
  <2>. QED BY <2>1, DigitBound
<1>4. /\ GlobalRank(p, c) \in Nat /\ GlobalRank(p, c) < World(p)
      /\ World(p) \in Nat \ {0}
  <2>. DEFINE m == p.data * p.pipeline * p.context * p.tensor
              a == TensorPlace(p, c)
  <2>. SUFFICES a * p.expert + c.expert \in Nat /\ a * p.expert + c.expert < m * p.expert
                /\ m * p.expert \in Nat \ {0}
    BY Horner DEF World, Join
  <2>1. a \in 0..(m - 1) /\ m \in Nat \ {0}
    BY <1>3
  <2>. HIDE DEF a, m
  <2>. QED BY <2>1, DigitBound
<1>. QED BY <1>1, <1>2, <1>3, <1>4

(* Of a rank number, the code's divisions recover the coordinates.         *)
LEMMA RankOfCoords ==
    ASSUME NEW p, IsDims(p), NEW c \in Coords(p)
    PROVE  GlobalRank(p, c) \in Ranks(p) /\ Coordinates(p, GlobalRank(p, c)) = c
<1>. DEFINE r == GlobalRank(p, c)
<1>. USE DimsType, CoordsType, PartialRanks
<1>1. r \div p.expert = TensorPlace(p, c) /\ r % p.expert = c.expert
  <2>1. r = TensorPlace(p, c) * p.expert + c.expert
    BY Horner DEF Join
  <2>. DEFINE a == TensorPlace(p, c)
              e == c.expert
              n == p.expert
  <2>2. a \in Nat /\ e \in 0..(n - 1) /\ n \in Nat \ {0} /\ r = a * n + e
    BY <2>1
  <2>. HIDE DEF r, a, e, n
  <2>3. r \div n = a /\ r % n = e
    BY ONLY <2>2, DigitIs
  <2>. QED BY <2>3 DEF a, e, n
<1>2. TensorPlace(p, c) \div p.tensor = ContextPlace(p, c) /\ TensorPlace(p, c) % p.tensor = c.tensor
  <2>. DEFINE s == TensorPlace(p, c)
              a == ContextPlace(p, c)
              e == c.tensor
              n == p.tensor
  <2>1. s = a * n + e
    BY DEF TensorPlace, Join
  <2>2. a \in Nat /\ e \in 0..(n - 1) /\ n \in Nat \ {0}
    OBVIOUS
  <2>. HIDE DEF s, a, e, n
  <2>3. s \div n = a /\ s % n = e
    BY ONLY <2>1, <2>2, DigitIs
  <2>. QED BY <2>3 DEF s, a, e, n
<1>3. ContextPlace(p, c) \div p.context = StagePlace(p, c) /\ ContextPlace(p, c) % p.context = c.context
  <2>. DEFINE s == ContextPlace(p, c)
              a == StagePlace(p, c)
              e == c.context
              n == p.context
  <2>1. s = a * n + e
    BY DEF ContextPlace, Join
  <2>2. a \in Nat /\ e \in 0..(n - 1) /\ n \in Nat \ {0}
    OBVIOUS
  <2>. HIDE DEF s, a, e, n
  <2>3. s \div n = a /\ s % n = e
    BY ONLY <2>1, <2>2, DigitIs
  <2>. QED BY <2>3 DEF s, a, e, n
<1>4. StagePlace(p, c) \div p.pipeline = c.data /\ StagePlace(p, c) % p.pipeline = c.pipeline
  <2>. DEFINE s == StagePlace(p, c)
              a == c.data
              e == c.pipeline
              n == p.pipeline
  <2>1. s = a * n + e
    BY DEF StagePlace, Join
  <2>2. a \in Nat /\ e \in 0..(n - 1) /\ n \in Nat \ {0}
    OBVIOUS
  <2>. HIDE DEF s, a, e, n
  <2>3. s \div n = a /\ s % n = e
    BY ONLY <2>1, <2>2, DigitIs
  <2>. QED BY <2>3 DEF s, a, e, n
<1>5. Coordinates(p, r) = [data |-> c.data, pipeline |-> c.pipeline, context |-> c.context,
                           tensor |-> c.tensor, expert |-> c.expert]
  BY <1>1, <1>2, <1>3, <1>4 DEF Coordinates
<1>6. c = [data |-> c.data, pipeline |-> c.pipeline, context |-> c.context,
           tensor |-> c.tensor, expert |-> c.expert]
  BY DEF Coords
<1>7. r \in Ranks(p)
  BY DEF Ranks
<1>. QED BY <1>5, <1>6, <1>7

LEMMA CoordsOfRank ==
    ASSUME NEW p, IsDims(p), NEW r \in Ranks(p)
    PROVE  Coordinates(p, r) \in Coords(p) /\ GlobalRank(p, Coordinates(p, r)) = r
<1>. DEFINE t == r \div p.expert
            x == t \div p.tensor
            s == x \div p.context
<1>. USE DimsType
<1>0. /\ p.data * p.pipeline \in Nat \ {0}
      /\ p.data * p.pipeline * p.context \in Nat \ {0}
      /\ p.data * p.pipeline * p.context * p.tensor \in Nat \ {0}
      /\ World(p) = p.data * p.pipeline * p.context * p.tensor * p.expert
  <2>1. p.data * p.pipeline \in Nat \ {0}
    OBVIOUS
  <2>2. p.data * p.pipeline * p.context \in Nat \ {0}
    BY <2>1
  <2>3. p.data * p.pipeline * p.context * p.tensor \in Nat \ {0}
    BY <2>2
  <2>. QED BY <2>1, <2>2, <2>3 DEF World
<1>1. /\ t \in 0..(p.data * p.pipeline * p.context * p.tensor - 1)
      /\ r % p.expert \in 0..(p.expert - 1) /\ r = t * p.expert + (r % p.expert)
  <2>. DEFINE m == p.data * p.pipeline * p.context * p.tensor
  <2>1. m \in Nat \ {0} /\ r \in Nat /\ r < m * p.expert
    BY <1>0 DEF Ranks
  <2>. HIDE DEF m
  <2>2. t \in 0..(m - 1)
    BY <2>1, DigitLimit
  <2>. QED BY <2>1, <2>2, DigitsOf DEF m
<1>2. /\ x \in 0..(p.data * p.pipeline * p.context - 1)
      /\ t % p.tensor \in 0..(p.tensor - 1) /\ t = x * p.tensor + (t % p.tensor)
  <2>. DEFINE m == p.data * p.pipeline * p.context
  <2>1. m \in Nat \ {0} /\ t \in Nat /\ t < m * p.tensor
    BY <1>0, <1>1
  <2>. HIDE DEF m, t
  <2>2. x \in 0..(m - 1)
    BY <2>1, DigitLimit
  <2>. QED BY <2>1, <2>2, DigitsOf DEF m
<1>3. /\ s \in 0..(p.data * p.pipeline - 1)
      /\ x % p.context \in 0..(p.context - 1) /\ x = s * p.context + (x % p.context)
  <2>. DEFINE m == p.data * p.pipeline
  <2>1. m \in Nat \ {0} /\ x \in Nat /\ x < m * p.context
    BY <1>0, <1>2
  <2>. HIDE DEF m, x
  <2>2. s \in 0..(m - 1)
    BY <2>1, DigitLimit
  <2>. QED BY <2>1, <2>2, DigitsOf DEF m
<1>4. /\ s \div p.pipeline \in 0..(p.data - 1)
      /\ s % p.pipeline \in 0..(p.pipeline - 1)
      /\ s = (s \div p.pipeline) * p.pipeline + (s % p.pipeline)
  <2>1. s \in Nat /\ s < p.data * p.pipeline
    BY <1>0, <1>3
  <2>. HIDE DEF s
  <2>. QED BY <2>1, DigitLimit, DigitsOf
<1>5. Coordinates(p, r) = [data |-> s \div p.pipeline, pipeline |-> s % p.pipeline,
                           context |-> x % p.context, tensor |-> t % p.tensor,
                           expert |-> r % p.expert]
  BY DEF Coordinates
<1>. HIDE DEF t, x, s
<1>6. Coordinates(p, r) \in Coords(p)
  BY <1>1, <1>2, <1>3, <1>4, <1>5 DEF Coords
<1>7. GlobalRank(p, Coordinates(p, r)) = r
  BY <1>1, <1>2, <1>3, <1>4, <1>5 DEF GlobalRank
<1>. QED BY <1>6, <1>7

(* Rank numbers are in the order of the coordinates, slowest axis first.   *)
Before(c, d) ==
    \/ c.data < d.data
    \/ c.data = d.data /\ c.pipeline < d.pipeline
    \/ c.data = d.data /\ c.pipeline = d.pipeline /\ c.context < d.context
    \/ c.data = d.data /\ c.pipeline = d.pipeline /\ c.context = d.context
       /\ c.tensor < d.tensor
    \/ c.data = d.data /\ c.pipeline = d.pipeline /\ c.context = d.context
       /\ c.tensor = d.tensor /\ c.expert < d.expert

LEMMA RanksInOrder ==
    ASSUME NEW p, IsDims(p), NEW c \in Coords(p), NEW d \in Coords(p)
    PROVE  GlobalRank(p, c) < GlobalRank(p, d) <=> Before(c, d)
<1>0. /\ p.pipeline \in Nat \ {0} /\ p.context \in Nat \ {0}
      /\ p.tensor \in Nat \ {0} /\ p.expert \in Nat \ {0}
  BY DimsType
<1>1. /\ c.data \in Nat /\ d.data \in Nat
      /\ c.pipeline \in Digits(p.pipeline) /\ d.pipeline \in Digits(p.pipeline)
      /\ c.context \in Digits(p.context) /\ d.context \in Digits(p.context)
      /\ c.tensor \in Digits(p.tensor) /\ d.tensor \in Digits(p.tensor)
      /\ c.expert \in Digits(p.expert) /\ d.expert \in Digits(p.expert)
  BY CoordsType DEF Digits
<1>2. /\ StagePlace(p, c) \in Nat /\ StagePlace(p, d) \in Nat
      /\ ContextPlace(p, c) \in Nat /\ ContextPlace(p, d) \in Nat
      /\ TensorPlace(p, c) \in Nat /\ TensorPlace(p, d) \in Nat
  BY PartialRanks
<1>3. /\ Lt(StagePlace(p, c), StagePlace(p, d)) <=>
            Lt(c.data, d.data) \/ (c.data = d.data /\ Lt(c.pipeline, d.pipeline))
      /\ StagePlace(p, c) = StagePlace(p, d) <=> c.data = d.data /\ c.pipeline = d.pipeline
  BY <1>0, <1>1, DigitLess, DigitEqual DEF StagePlace
<1>4. /\ Lt(ContextPlace(p, c), ContextPlace(p, d)) <=>
            \/ Lt(StagePlace(p, c), StagePlace(p, d))
            \/ StagePlace(p, c) = StagePlace(p, d) /\ Lt(c.context, d.context)
      /\ ContextPlace(p, c) = ContextPlace(p, d) <=> StagePlace(p, c) = StagePlace(p, d) /\ c.context = d.context
  BY <1>0, <1>1, <1>2, DigitLess, DigitEqual DEF ContextPlace
<1>5. /\ Lt(TensorPlace(p, c), TensorPlace(p, d)) <=>
            \/ Lt(ContextPlace(p, c), ContextPlace(p, d))
            \/ ContextPlace(p, c) = ContextPlace(p, d) /\ Lt(c.tensor, d.tensor)
      /\ TensorPlace(p, c) = TensorPlace(p, d) <=> ContextPlace(p, c) = ContextPlace(p, d) /\ c.tensor = d.tensor
  BY <1>0, <1>1, <1>2, DigitLess, DigitEqual DEF TensorPlace
<1>6. Lt(GlobalRank(p, c), GlobalRank(p, d)) <=>
            \/ Lt(TensorPlace(p, c), TensorPlace(p, d))
            \/ TensorPlace(p, c) = TensorPlace(p, d) /\ Lt(c.expert, d.expert)
  <2>1. /\ GlobalRank(p, c) = Join(TensorPlace(p, c), p.expert, c.expert)
        /\ GlobalRank(p, d) = Join(TensorPlace(p, d), p.expert, d.expert)
    BY Horner
  <2>. QED BY <1>0, <1>1, <1>2, <2>1, DigitLess, DigitEqual
<1>7. GlobalRank(p, c) < GlobalRank(p, d) <=> Lt(GlobalRank(p, c), GlobalRank(p, d))
  BY DEF Lt
<1>. QED BY <1>3, <1>4, <1>5, <1>6, <1>7 DEF Before, Lt

-----------------------------------------------------------------------------
(* One axis at a time                                                      *)

LEMMA AxisType ==
    ASSUME NEW p, IsDims(p), NEW c \in Coords(p), NEW axis \in Axes
    PROVE  p[axis] \in Nat \ {0} /\ c[axis] \in 0..(p[axis] - 1)
BY DimsType, CoordsType DEF Axes

(* A rank moved along an axis.                                             *)
LEMMA AxisMove ==
    ASSUME NEW p, IsDims(p), NEW c \in Coords(p), NEW axis \in Axes, NEW v \in 0..(p[axis] - 1)
    PROVE  /\ [c EXCEPT ![axis] = v] \in Coords(p)
           /\ [c EXCEPT ![axis] = v][axis] = v
           /\ \A a \in Axes \ {axis} : [c EXCEPT ![axis] = v][a] = c[a]
<1>1. CASE axis = "data" BY <1>1 DEF Coords, Axes
<1>2. CASE axis = "pipeline" BY <1>2 DEF Coords, Axes
<1>3. CASE axis = "context" BY <1>3 DEF Coords, Axes
<1>4. CASE axis = "tensor" BY <1>4 DEF Coords, Axes
<1>5. CASE axis = "expert" BY <1>5 DEF Coords, Axes
<1>. QED BY <1>1, <1>2, <1>3, <1>4, <1>5 DEF Axes

LEMMA CoordsEqual ==
    ASSUME NEW p, NEW c \in Coords(p), NEW d \in Coords(p), \A a \in Axes : c[a] = d[a]
    PROVE  c = d
<1>1. c = [data |-> c.data, pipeline |-> c.pipeline, context |-> c.context,
           tensor |-> c.tensor, expert |-> c.expert]
  BY DEF Coords
<1>2. d = [data |-> d.data, pipeline |-> d.pipeline, context |-> d.context,
           tensor |-> d.tensor, expert |-> d.expert]
  BY DEF Coords
<1>3. /\ c.data = d.data /\ c.pipeline = d.pipeline /\ c.context = d.context
      /\ c.tensor = d.tensor /\ c.expert = d.expert
  BY DEF Axes
<1>. QED BY <1>1, <1>2, <1>3

LEMMA AxisOrdered ==
    ASSUME NEW p, IsDims(p), NEW c \in Coords(p), NEW d \in Coords(p), NEW axis \in Axes,
           \A a \in Axes \ {axis} : c[a] = d[a], c[axis] < d[axis]
    PROVE  GlobalRank(p, c) < GlobalRank(p, d)
<1>1. Before(c, d)
  BY CoordsType DEF Before, Axes
<1>. QED BY <1>1, RanksInOrder

-----------------------------------------------------------------------------
(* Groups, layers and neighbours                                           *)

(* A group is exactly the ranks along its axis, in order.                  *)
LEMMA GroupIsClass ==
    ASSUME NEW p, IsDims(p), NEW r \in Ranks(p), NEW axis \in Axes
    PROVE  LET c == Coordinates(p, r)
               g == Group(p, c, axis)
           IN  /\ Elements(g) = {q \in Ranks(p) : \A a \in Axes \ {axis} :
                                     Coordinates(p, q)[a] = c[a]}
               /\ Increasing(g)
               /\ g[c[axis] + 1] = r
<1>. DEFINE c == Coordinates(p, r)
            n == p[axis]
            g == Group(p, c, axis)
            Move(i) == [c EXCEPT ![axis] = i - 1]
<1>1. c \in Coords(p) /\ GlobalRank(p, c) = r
  BY CoordsOfRank
<1>2. n \in Nat \ {0} /\ c[axis] \in 0..(n - 1)
  BY <1>1, AxisType
<1>3. g = [i \in 1..n |-> GlobalRank(p, Move(i))]
  BY DEF Group
<1>4. \A i \in 1..n : /\ Move(i) \in Coords(p) /\ Move(i)[axis] = i - 1
                      /\ \A a \in Axes \ {axis} : Move(i)[a] = c[a]
  <2>. SUFFICES ASSUME NEW i \in 1..n
                PROVE  /\ Move(i) \in Coords(p) /\ Move(i)[axis] = i - 1
                       /\ \A a \in Axes \ {axis} : Move(i)[a] = c[a]
    OBVIOUS
  <2>1. i - 1 \in 0..(n - 1)
    BY <1>2
  <2>. HIDE DEF c
  <2>. QED BY <1>1, <2>1, AxisMove
<1>. HIDE DEF c, n, g, Move
<1>5. ASSUME NEW d \in Coords(p), \A a \in Axes \ {axis} : d[a] = c[a]
      PROVE  d[axis] + 1 \in 1..n /\ d = Move(d[axis] + 1)
  <2>1. d[axis] \in 0..(n - 1)
    BY AxisType DEF n
  <2>2. d[axis] + 1 \in 1..n /\ (d[axis] + 1) - 1 = d[axis]
    BY <1>2, <2>1
  <2>3. Move(d[axis] + 1) \in Coords(p) /\ \A a \in Axes : Move(d[axis] + 1)[a] = d[a]
    BY <1>4, <1>5, <2>2
  <2>. QED BY <2>2, <2>3, CoordsEqual
<1>6. ASSUME NEW q \in Elements(g)
      PROVE  q \in Ranks(p) /\ \A a \in Axes \ {axis} : Coordinates(p, q)[a] = c[a]
  <2>1. PICK i \in 1..n : q = GlobalRank(p, Move(i))
    BY <1>3 DEF Elements
  <2>. QED BY <1>4, <2>1, RankOfCoords
<1>7. ASSUME NEW q \in Ranks(p), \A a \in Axes \ {axis} : Coordinates(p, q)[a] = c[a]
      PROVE  q \in Elements(g)
  <2>1. Coordinates(p, q) \in Coords(p) /\ GlobalRank(p, Coordinates(p, q)) = q
    BY CoordsOfRank
  <2>2. PICK i \in 1..n : Coordinates(p, q) = Move(i)
    BY <1>5, <1>7, <2>1
  <2>. QED BY <1>3, <2>1, <2>2 DEF Elements
<1>8. Increasing(g)
  <2>. SUFFICES ASSUME NEW i \in 1..n, NEW j \in 1..n, i < j PROVE g[i] < g[j]
    BY <1>3 DEF Increasing
  <2>1. Move(i)[axis] < Move(j)[axis]
    BY <1>2, <1>4
  <2>2. \A a \in Axes \ {axis} : Move(i)[a] = Move(j)[a]
    BY <1>4
  <2>3. GlobalRank(p, Move(i)) < GlobalRank(p, Move(j))
    BY <1>4, <2>1, <2>2, AxisOrdered
  <2>. QED BY <1>3, <2>3
<1>9. g[c[axis] + 1] = r
  <2>1. c[axis] + 1 \in 1..n /\ c = Move(c[axis] + 1)
    BY <1>1, <1>5
  <2>. QED BY <1>1, <1>3, <2>1
<1>. QED BY <1>6, <1>7, <1>8, <1>9 DEF c, g

(* The pipeline ranges of the layers.                                      *)
LEMMA LayersInOrder ==
    ASSUME NEW p, IsDims(p), NEW n \in Nat, NEW s \in 0..(p.pipeline - 1)
    PROVE  /\ LayerRange(p, n, s).begin \in Nat /\ LayerRange(p, n, s).end \in Nat
           /\ LayerRange(p, n, s).begin = IF s = 0 THEN 0 ELSE LayerRange(p, n, s - 1).end
           /\ s = p.pipeline - 1 => LayerRange(p, n, s).end = n
           /\ LayerRange(p, n, s).end - LayerRange(p, n, s).begin
                \in {n \div p.pipeline, n \div p.pipeline + 1}
<1>. DEFINE stages == p.pipeline
            base == n \div stages
            rem == n % stages
<1>1. stages \in Nat \ {0} /\ s \in 0..(stages - 1)
  BY DimsType
<1>2. base \in Nat /\ rem \in 0..(stages - 1) /\ n = base * stages + rem
  BY <1>1, DigitsOf
<1>3. \A t : /\ LayerRange(p, n, t).begin = t * base + (IF t <= rem THEN t ELSE rem)
             /\ LayerRange(p, n, t).end = LayerRange(p, n, t).begin + base
                                          + (IF t < rem THEN 1 ELSE 0)
  BY DEF LayerRange
<1>. HIDE DEF stages, base, rem
<1>4. s * base \in Nat /\ (s - 1) * base = s * base - base /\ (stages - 1) * base = base * stages - base
  BY <1>1, <1>2
<1>. DEFINE begin == LayerRange(p, n, s).begin
            end == LayerRange(p, n, s).end
<1>5. /\ begin = s * base + (IF s <= rem THEN s ELSE rem)
      /\ end = begin + base + (IF s < rem THEN 1 ELSE 0)
  BY <1>3
<1>6. LayerRange(p, n, s - 1).end = (s - 1) * base + (IF s - 1 <= rem THEN s - 1 ELSE rem)
                                    + base + (IF s - 1 < rem THEN 1 ELSE 0)
  BY <1>3
<1>. HIDE DEF begin, end
<1>7. begin \in Nat /\ end \in Nat
  BY <1>1, <1>2, <1>4, <1>5
<1>8. begin = IF s = 0 THEN 0 ELSE LayerRange(p, n, s - 1).end
  <2>1. CASE s = 0
    <3>1. s * base = 0
      BY <1>2, <2>1
    <3>. QED BY <1>2, <1>5, <2>1, <3>1
  <2>2. CASE s > 0
    BY <1>1, <1>2, <1>4, <1>5, <1>6, <2>2
  <2>. QED BY <1>1, <2>1, <2>2
<1>9. s = stages - 1 => end = n
  <2>1. base * stages \in Nat
    BY <1>1, <1>2
  <2>. QED BY <1>1, <1>2, <1>4, <1>5, <2>1
<1>10. end - begin \in {base, base + 1}
  BY <1>1, <1>2, <1>7, <1>5
<1>. QED BY <1>7, <1>8, <1>9, <1>10 DEF stages, base, begin, end

(* A rank's sequence group: the block of tensor coordinates around its own.*)
LEMMA SequenceBlock ==
    ASSUME NEW p, IsDims(p), NEW r \in Ranks(p)
    PROVE  LET c == Coordinates(p, r)
               g == SequenceGroup(p, c)
           IN  /\ Elements(g) \subseteq Elements(Group(p, c, "tensor"))
               /\ Increasing(g)
               /\ g[SequenceRank(p, c) + 1] = r
               /\ \A q \in Elements(g) : SequenceGroup(p, Coordinates(p, q)) = g
<1>. DEFINE c == Coordinates(p, r)
            n == p.sequence
            tensors == p.tensor
            x == c.tensor
            k == x \div n
            g == SequenceGroup(p, c)
            Move(i) == [c EXCEPT !.tensor = k * n + i - 1]
<1>1. c \in Coords(p) /\ GlobalRank(p, c) = r
  BY CoordsOfRank
<1>2. n \in Nat \ {0} /\ tensors \in Nat \ {0} /\ x \in Nat /\ x < tensors
  BY <1>1, DimsType, CoordsType
<1>3. g = [i \in 1..n |-> GlobalRank(p, Move(i))]
  BY DEF SequenceGroup
<1>4. tensors % n = 0 /\ n <= tensors
  BY DEF IsDims
<1>5. \A i : Move(i) = [c EXCEPT !.tensor = k * n + i - 1]
  OBVIOUS
<1>6. \A d : SequenceGroup(p, d) =
          [i \in 1..n |-> GlobalRank(p, [d EXCEPT !.tensor = (d.tensor \div n) * n + i - 1])]
  BY DEF SequenceGroup
<1>7. SequenceRank(p, c) = x % n
  BY DEF SequenceRank
<1>. HIDE DEF c, n, x, tensors, g, Move
<1>8. k \in Nat /\ x % n \in 0..(n - 1) /\ x = k * n + (x % n)
  BY <1>2, DigitsOf
<1>9. k * n \in Nat /\ \A i \in 1..n : k * n + i - 1 \in 0..(tensors - 1)
  <2>. DEFINE m == tensors \div n
  <2>1. m \in Nat /\ tensors = m * n + (tensors % n)
    BY <1>2, DigitsOf
  <2>. HIDE DEF m
  <2>2. m * n \in Nat
    BY <1>2, <2>1
  <2>3. tensors = m * n /\ m # 0
    BY <1>2, <1>4, <2>1, <2>2
  <2>4. k \in 0..(m - 1)
    <3>1. m \in Nat \ {0} /\ x < m * n
      BY <1>2, <2>1, <2>3
    <3>. QED BY <1>2, <3>1, DigitLimit
  <2>. HIDE DEF k
  <2>5. (k + 1) * n <= m * n /\ (k + 1) * n = k * n + n /\ k * n \in Nat
    BY <1>2, <2>1, <2>4
  <2>. QED BY <1>2, <2>3, <2>5
<1>. HIDE DEF k
<1>10. \A i \in 1..n : /\ Move(i) \in Coords(p) /\ Move(i).tensor = k * n + (i - 1)
                       /\ \A a \in Axes \ {"tensor"} : Move(i)[a] = c[a]
  <2>. SUFFICES ASSUME NEW i \in 1..n
                PROVE  /\ Move(i) \in Coords(p) /\ Move(i).tensor = k * n + (i - 1)
                       /\ \A a \in Axes \ {"tensor"} : Move(i)[a] = c[a]
    OBVIOUS
  <2>. DEFINE v == k * n + i - 1
  <2>1. v \in 0..(p["tensor"] - 1) /\ "tensor" \in Axes
    BY <1>9 DEF Axes, tensors
  <2>2. v = k * n + (i - 1)
    BY <1>2, <1>9
  <2>3. Move(i) = [c EXCEPT !["tensor"] = v]
    BY <1>5
  <2>. HIDE DEF v
  <2>4. Move(i) \in Coords(p) /\ Move(i)["tensor"] = v
        /\ \A a \in Axes \ {"tensor"} : Move(i)[a] = c[a]
    BY <1>1, <2>1, <2>3 DEF Coords, Axes
  <2>. QED BY <2>2, <2>4
<1>11. \A i \in 1..n : /\ GlobalRank(p, Move(i)) \in Ranks(p)
                       /\ Coordinates(p, GlobalRank(p, Move(i))) = Move(i)
  BY <1>10, RankOfCoords
<1>12. Elements(g) \subseteq Elements(Group(p, c, "tensor"))
  <2>1. \A i \in 1..n : GlobalRank(p, Move(i)) \in
            {q \in Ranks(p) : \A a \in Axes \ {"tensor"} : Coordinates(p, q)[a] = c[a]}
    BY <1>10, <1>11
  <2>2. "tensor" \in Axes
    BY DEF Axes
  <2>3. Elements(Group(p, c, "tensor")) =
            {q \in Ranks(p) : \A a \in Axes \ {"tensor"} : Coordinates(p, q)[a] = c[a]}
    BY <2>2, GroupIsClass DEF c
  <2>. QED BY <1>3, <2>1, <2>3 DEF Elements
<1>13. Increasing(g)
  <2>. SUFFICES ASSUME NEW i \in 1..n, NEW j \in 1..n, i < j PROVE g[i] < g[j]
    BY <1>3 DEF Increasing
  <2>1. Move(i)["tensor"] < Move(j)["tensor"]
    BY <1>2, <1>9, <1>10
  <2>2. \A a \in Axes \ {"tensor"} : Move(i)[a] = Move(j)[a]
    BY <1>10
  <2>3. "tensor" \in Axes
    BY DEF Axes
  <2>4. GlobalRank(p, Move(i)) < GlobalRank(p, Move(j))
    BY <1>10, <2>1, <2>2, <2>3, AxisOrdered
  <2>. QED BY <1>3, <2>4
<1>14. g[SequenceRank(p, c) + 1] = r
  <2>. DEFINE b == x % n
  <2>1. b \in 0..(n - 1) /\ x = k * n + b
    BY <1>8
  <2>. HIDE DEF b
  <2>2. b + 1 \in 1..n /\ k * n + (b + 1) - 1 = x
    BY <1>2, <1>9, <2>1
  <2>3. [c EXCEPT !.tensor = x] = c
    BY <1>1 DEF Coords, x
  <2>4. Move(b + 1) = c
    BY <1>5, <2>2, <2>3
  <2>5. SequenceRank(p, c) = b
    BY <1>7 DEF b
  <2>. QED BY <1>1, <1>3, <2>2, <2>4, <2>5
<1>15. ASSUME NEW q \in Elements(g) PROVE SequenceGroup(p, Coordinates(p, q)) = g
  <2>1. PICK i \in 1..n : q = GlobalRank(p, Move(i))
    BY <1>3 DEF Elements
  <2>2. Coordinates(p, q) = Move(i)
    BY <1>11, <2>1
  <2>3. Move(i).tensor = k * n + (i - 1) /\ i - 1 \in 0..(n - 1)
    BY <1>2, <1>10
  <2>4. (k * n + (i - 1)) \div n = k
    BY <1>2, <1>8, <2>3, DigitIs
  <2>5. \A j : [Move(i) EXCEPT !.tensor = k * n + j - 1] = Move(j)
    BY <1>1, <1>5 DEF Coords
  <2>6. SequenceGroup(p, Move(i)) =
          [j \in 1..n |-> GlobalRank(p, [Move(i) EXCEPT !.tensor = k * n + j - 1])]
    BY <1>6, <2>3, <2>4
  <2>. QED BY <1>3, <2>2, <2>5, <2>6
<1>. QED BY <1>12, <1>13, <1>14, <1>15 DEF c, g

(* A rank number is the ranks of the earlier replicas and the place in its *)
(* own replica.                                                            *)
LEMMA ReplicaOffset ==
    ASSUME NEW p, IsDims(p), NEW c \in Coords(p)
    PROVE  /\ ModelSize(p) \in Nat \ {0}
           /\ ModelRank(p, c) \in 0..(ModelSize(p) - 1)
           /\ GlobalRank(p, c) = c.data * ModelSize(p) + ModelRank(p, c)
           /\ World(p) = p.data * ModelSize(p)
<1>. DEFINE one == [p EXCEPT !.data = 1]
            d == [c EXCEPT !.data = 0]
<1>1. IsDims(one) /\ d \in Coords(one)
  BY DEF IsDims, Coords
<1>2. World(one) = ModelSize(p)
  <2>1. World(one) = 1 * p.pipeline * p.context * p.tensor * p.expert
    BY DEF World, IsDims
  <2>. QED BY <2>1, DimsType DEF ModelSize
<1>3. GlobalRank(one, d) = ModelRank(p, c)
  <2>1. GlobalRank(one, d) =
            ((((0 * p.pipeline) + c.pipeline) * p.context + c.context) * p.tensor + c.tensor)
                * p.expert + c.expert
    BY DEF GlobalRank, IsDims, Coords
  <2>. QED BY <2>1, DimsType, CoordsType DEF ModelRank
<1>4. ModelRank(p, c) \in 0..(ModelSize(p) - 1) /\ ModelSize(p) \in Nat \ {0}
  BY <1>1, <1>2, <1>3, PartialRanks
<1>5. /\ GlobalRank(p, c) = c.data * ModelSize(p) + ModelRank(p, c)
      /\ World(p) = p.data * ModelSize(p)
  <2>1. \A a, m, b, n, x, k, y, e, z \in Nat :
            ((((a * m) + b) * n + x) * k + y) * e + z
                = a * (m * n * k * e) + (((b * n + x) * k + y) * e + z)
    OBVIOUS
  <2>2. \A a, m, n, k, e \in Nat : a * m * n * k * e = a * (m * n * k * e)
    OBVIOUS
  <2>3. /\ c.data \in Nat /\ p.pipeline \in Nat /\ c.pipeline \in Nat /\ p.context \in Nat
        /\ c.context \in Nat /\ p.tensor \in Nat /\ c.tensor \in Nat /\ p.expert \in Nat
        /\ c.expert \in Nat /\ p.data \in Nat
    BY DimsType, CoordsType
  <2>. QED BY ONLY <2>1, <2>2, <2>3 DEF GlobalRank, ModelRank, ModelSize, World
<1>. QED BY <1>4, <1>5

(* A model group: the ranks of one replica, in order.                      *)
LEMMA ReplicaIsBlock ==
    ASSUME NEW p, IsDims(p), NEW r \in Ranks(p)
    PROVE  LET c == Coordinates(p, r)
               g == ModelGroup(p, c)
           IN  /\ Elements(g) = {q \in Ranks(p) : Coordinates(p, q).data = c.data}
               /\ Increasing(g)
               /\ g[ModelRank(p, c) + 1] = r
<1>. DEFINE c == Coordinates(p, r)
            n == ModelSize(p)
            base == c.data * n
            one == [p EXCEPT !.data = 1]
            Digits1(k) == [Coordinates(one, k) EXCEPT !.data = c.data]
            g == ModelGroup(p, c)
            Replica == {q \in Ranks(p) : Coordinates(p, q).data = c.data}
<1>1. c \in Coords(p) /\ GlobalRank(p, c) = r
  BY CoordsOfRank
<1>2. /\ n \in Nat \ {0} /\ base \in Nat /\ c.data \in Nat
      /\ ModelRank(p, c) \in 0..(n - 1) /\ r = base + ModelRank(p, c)
  <2>1. c.data \in Nat
    BY <1>1, CoordsType, DimsType
  <2>2. /\ n \in Nat \ {0} /\ ModelRank(p, c) \in 0..(n - 1) /\ r = base + ModelRank(p, c)
    BY <1>1, ReplicaOffset
  <2>3. base \in Nat
    <3>. HIDE DEF n, c
    <3>. QED BY <2>1, <2>2
  <2>. QED BY <2>1, <2>2, <2>3
<1>3. g = [i \in 1..n |-> GlobalRank(p, Digits1(i - 1))]
  BY DEF ModelGroup
<1>4. IsDims(one) /\ Ranks(one) = 0..(n - 1)
  <2>1. IsDims(one) /\ one.data = 1
    BY DEF IsDims
  <2>2. ModelSize(one) = n
    BY DEF ModelSize, IsDims
  <2>3. World(one) = 1 * n
    <3>1. [c EXCEPT !.data = 0] \in Coords(one)
      BY <1>1 DEF Coords, IsDims
    <3>. QED BY <2>1, <2>2, <3>1, ReplicaOffset
  <2>4. World(one) = n
    BY <1>2, <2>3
  <2>. QED BY <2>1, <2>4 DEF Ranks
<1>5. ASSUME NEW k \in 0..(n - 1)
      PROVE  /\ Digits1(k) \in Coords(p) /\ Digits1(k).data = c.data
             /\ GlobalRank(p, Digits1(k)) = base + k
  <2>. DEFINE e == Coordinates(one, k)
  <2>1. e \in Coords(one) /\ GlobalRank(one, e) = k
    BY <1>4, CoordsOfRank
  <2>2. Digits1(k) \in Coords(p) /\ Digits1(k).data = c.data
    BY <1>1, <2>1 DEF Coords, IsDims
  <2>3. ModelRank(p, Digits1(k)) = ModelRank(one, e)
    BY <2>1 DEF ModelRank, Coords, IsDims
  <2>4. ModelRank(one, e) = k
    <3>1. e.data = 0
      BY <2>1 DEF Coords, IsDims
    <3>2. /\ GlobalRank(one, e) = 0 * ModelSize(one) + ModelRank(one, e)
          /\ ModelSize(one) \in Nat /\ ModelRank(one, e) \in Nat
      BY <1>4, <2>1, <3>1, ReplicaOffset
    <3>. QED BY <2>1, <3>2
  <2>. QED BY <2>2, <2>3, <2>4, ReplicaOffset
<1>6. \A q \in Replica : /\ ModelRank(p, Coordinates(p, q)) \in 0..(n - 1)
                         /\ q = base + ModelRank(p, Coordinates(p, q))
  BY CoordsOfRank, ReplicaOffset
<1>. HIDE DEF c, n, base, one, Digits1, g
<1>7. ASSUME NEW k \in 0..(n - 1) PROVE base + k \in Replica
  <2>1. /\ Digits1(k) \in Coords(p) /\ Digits1(k).data = c.data
        /\ GlobalRank(p, Digits1(k)) = base + k
    BY <1>5
  <2>2. /\ GlobalRank(p, Digits1(k)) \in Ranks(p)
        /\ Coordinates(p, GlobalRank(p, Digits1(k))) = Digits1(k)
    BY <2>1, RankOfCoords
  <2>. QED BY <2>1, <2>2
<1>. HIDE DEF Replica
<1>8. ASSUME NEW i \in 1..n PROVE g[i] = base + (i - 1)
  <2>1. i - 1 \in 0..(n - 1) /\ g[i] = GlobalRank(p, Digits1(i - 1))
    BY <1>2, <1>3
  <2>. QED BY <1>5, <2>1
<1>9. Elements(g) = Replica
  <2>1. ASSUME NEW q \in Replica PROVE q \in Elements(g)
    <3>. DEFINE k == ModelRank(p, Coordinates(p, q))
    <3>1. k \in 0..(n - 1) /\ q = base + k
      BY <1>6
    <3>. HIDE DEF k
    <3>2. k + 1 \in 1..n /\ (k + 1) - 1 = k
      BY <1>2, <3>1
    <3>. QED BY <1>3, <1>8, <3>1, <3>2 DEF Elements
  <2>2. ASSUME NEW q \in Elements(g) PROVE q \in Replica
    <3>1. PICK i \in 1..n : q = g[i]
      BY <1>3 DEF Elements
    <3>2. i - 1 \in 0..(n - 1)
      BY <1>2
    <3>. QED BY <1>7, <1>8, <3>1, <3>2
  <2>. QED BY <2>1, <2>2
<1>10. Increasing(g)
  BY <1>2, <1>3, <1>8 DEF Increasing
<1>11. g[ModelRank(p, c) + 1] = r
  <2>. DEFINE k == ModelRank(p, c)
  <2>1. k \in 0..(n - 1) /\ r = base + k
    BY <1>2
  <2>. HIDE DEF k
  <2>2. k + 1 \in 1..n /\ (k + 1) - 1 = k
    BY <1>2, <2>1
  <2>3. g[k + 1] = r
    BY <1>8, <2>1, <2>2
  <2>. QED BY <2>3 DEF k
<1>. QED BY <1>9, <1>10, <1>11 DEF c, g, Replica

(* The neighbours in the pipeline, and that they name each other.          *)
LEMMA PeersAreNeighbours ==
    ASSUME NEW p, IsDims(p), NEW r \in Ranks(p)
    PROVE  LET c == Coordinates(p, r)
               g == Group(p, c, "pipeline")
               peers == PipelinePeers(p, c)
           IN  /\ Len(g) = p.pipeline
               /\ peers.next = IF c.pipeline + 1 = Len(g) THEN NoRank ELSE g[c.pipeline + 2]
               /\ peers.previous = IF c.pipeline = 0 THEN NoRank ELSE g[c.pipeline]
               /\ peers.next # NoRank =>
                      PipelinePeers(p, Coordinates(p, peers.next)).previous = r
<1>. DEFINE c == Coordinates(p, r)
            n == p.pipeline
            x == c.pipeline
            g == Group(p, c, "pipeline")
            peers == PipelinePeers(p, c)
            Move(v) == [c EXCEPT !.pipeline = v]
<1>1. c \in Coords(p) /\ GlobalRank(p, c) = r
  BY CoordsOfRank
<1>2. n \in Nat \ {0} /\ x \in 0..(n - 1)
  BY <1>1, DimsType, CoordsType
<1>3. g = [i \in 1..n |-> GlobalRank(p, Move(i - 1))]
  BY DEF Group
<1>4. /\ peers.next = IF x + 1 = n THEN NoRank ELSE GlobalRank(p, Move(x + 1))
      /\ peers.previous = IF x = 0 THEN NoRank ELSE GlobalRank(p, Move(x - 1))
  BY DEF PipelinePeers
<1>5. \A d : PipelinePeers(p, d).previous =
                 IF d.pipeline = 0 THEN NoRank
                 ELSE GlobalRank(p, [d EXCEPT !.pipeline = d.pipeline - 1])
  BY DEF PipelinePeers
<1>6. Move(x) = c /\ \A v : Move(v).pipeline = v /\ [Move(v) EXCEPT !.pipeline = x] = c
  BY <1>1 DEF Coords
<1>7. \A v \in 0..(n - 1) : Move(v) \in Coords(p)
  BY <1>1 DEF Coords
<1>. HIDE DEF c, n, x, g, peers, Move
<1>8. Len(g) = n
  BY <1>2, <1>3
<1>9. peers.next = IF x + 1 = n THEN NoRank ELSE g[x + 2]
  <2>1. CASE x + 1 = n
    BY <1>4, <2>1
  <2>2. CASE x + 1 # n
    <3>1. x + 2 \in 1..n /\ (x + 2) - 1 = x + 1
      BY <1>2, <2>2
    <3>. QED BY <1>3, <1>4, <2>2, <3>1
  <2>. QED BY <2>1, <2>2
<1>10. peers.previous = IF x = 0 THEN NoRank ELSE g[x]
  <2>1. CASE x = 0
    BY <1>4, <2>1
  <2>2. CASE x # 0
    <3>1. x \in 1..n
      BY <1>2, <2>2
    <3>. QED BY <1>3, <1>4, <2>2, <3>1
  <2>. QED BY <2>1, <2>2
<1>11. peers.next # NoRank => PipelinePeers(p, Coordinates(p, peers.next)).previous = r
  <2>. SUFFICES ASSUME peers.next # NoRank
                PROVE  PipelinePeers(p, Coordinates(p, peers.next)).previous = r
    OBVIOUS
  <2>1. x + 1 \in 0..(n - 1) /\ x + 1 # 0 /\ (x + 1) - 1 = x
        /\ peers.next = GlobalRank(p, Move(x + 1))
    BY <1>2, <1>4
  <2>2. Coordinates(p, peers.next) = Move(x + 1)
    BY <1>7, <2>1, RankOfCoords
  <2>3. PipelinePeers(p, Move(x + 1)).previous =
            GlobalRank(p, [Move(x + 1) EXCEPT !.pipeline = x])
    BY <1>5, <1>6, <2>1
  <2>. QED BY <1>1, <1>6, <2>2, <2>3
<1>. QED BY <1>8, <1>9, <1>10, <1>11 DEF c, n, x, g, peers
=============================================================================
