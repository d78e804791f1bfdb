--------------------------- MODULE ContentProofs ---------------------------
(***************************************************************************)
(* What Kata makes of what it is given, for every input: passes that fit   *)
(* the model, bytes and dates that are read back as they were written, and *)
(* ids that spell what was said.                                           *)
(* What is proved is about folds over sequences: SequenceLemmas says how.  *)
(***************************************************************************)
EXTENDS Outside, SequenceLemmas

-----------------------------------------------------------------------------
(* Passes (Packing).                                                       *)

\* The partial sums.
LEMMA SumSteps ==
  ASSUME NEW lens \in Seq(Int)
  PROVE  \E h \in [0..Len(lens) -> Int] :
           /\ h[0] = 0 /\ Sum(lens) = h[Len(lens)]
           /\ \A n \in 1..Len(lens) : h[n] = h[n - 1] + lens[n]
<1> DEFINE N == Len(lens)
           G == [p \in (1..N) \X Int |-> p[2] + lens[p[1]]]
           Eq(f) == f = [s \in SUBSET (1..N) |-> IF s = {} THEN 0 ELSE f[s \ {Max(s)}] + lens[Max(s)]]
           it == CHOOSE f : Eq(f)
<1>1. N \in Nat /\ DOMAIN lens = 1..N /\ (\A n \in 1..N : lens[n] \in Int) /\ 0 \in Int
  OBVIOUS
<1>2. Sum(lens) = it[1..N]
  <2>1. Sum(lens) = (CHOOSE g : g = [s \in SUBSET DOMAIN lens |->
                                       IF s = {} THEN 0 ELSE g[s \ {Max(s)}] + lens[Max(s)]])[DOMAIN lens]
    BY DEF Sum, FoldLeft, MapThenFoldSet
  <2> QED
    BY <1>1, <2>1
<1> HIDE DEF N
<1>3. G \in [(1..N) \X Int -> Int] /\ \A n \in 1..N, x \in Int : G[<<n, x>>] = x + lens[n]
  BY <1>1
<1> HIDE DEF G
<1>4. PICK f : Folds(f, N, Int, 0, G)
  BY <1>1, <1>3, FoldExists
<1>5. Eq(f)
  BY <1>3, <1>4 DEF Folds
<1>6. Eq(it)
  <2> HIDE DEF Eq
  <2> QED
    BY <1>5
<1> HIDE DEF it
<1>7. it[{}] = 0 /\ \A s \in SUBSET (1..N) : s # {} => it[s] = it[s \ {Max(s)}] + lens[Max(s)]
  BY <1>6
<1>8. Unfolds(it, N, Int, 0, G)
  BY <1>3, <1>4, <1>7 DEF Folds, Unfolds
<1>9. PICK h : RunsTo(h, it[1..N], N, Int, 0, G)
  <2> HIDE DEF Eq
  <2> QED
    BY <1>1, <1>3, <1>8, FoldRuns
<1>10. ASSUME NEW n \in 1..N PROVE h[n] = h[n - 1] + lens[n]
  <2>1. h[n - 1] \in Int
    BY <1>1, <1>9 DEF RunsTo
  <2> QED
    BY <1>3, <1>9, <2>1 DEF RunsTo
<1> QED
  BY <1>2, <1>9, <1>10 DEF N, RunsTo


LEMMA PrefixSums ==
  ASSUME NEW lens \in Seq(Int)
  PROVE  \E h \in [0..Len(lens) -> Int] :
           /\ h[0] = 0
           /\ \A n \in 1..Len(lens) : h[n] = h[n - 1] + lens[n]
           /\ \A n \in 0..Len(lens) : Sum(SubSeq(lens, 1, n)) = h[n]
<1>1. PICK h \in [0..Len(lens) -> Int] :
        /\ h[0] = 0 /\ Sum(lens) = h[Len(lens)]
        /\ \A n \in 1..Len(lens) : h[n] = h[n - 1] + lens[n]
  BY SumSteps
<1>2. ASSUME NEW n \in 0..Len(lens) PROVE Sum(SubSeq(lens, 1, n)) = h[n]
  <2> DEFINE p == SubSeq(lens, 1, n)
  <2>1. p \in Seq(Int) /\ Len(p) = n /\ \A i \in 1..n : p[i] = lens[i]
    OBVIOUS
  <2> HIDE DEF p
  <2>2. PICK k \in [0..Len(p) -> Int] :
          /\ k[0] = 0 /\ Sum(p) = k[Len(p)]
          /\ \A i \in 1..Len(p) : k[i] = k[i - 1] + p[i]
    BY <2>1, SumSteps
  <2> DEFINE T == {i \in 0..n : k[i] = h[i]}
  <2>3. 0 \in T
    BY <1>1, <2>2
  <2>4. ASSUME NEW i \in 1..n, i - 1 \in T PROVE i \in T
    <3>1. i \in 1..Len(lens) /\ i \in 1..Len(p) /\ i \in 0..n
      BY <2>1
    <3>2. h[i] = h[i - 1] + lens[i] /\ k[i] = k[i - 1] + p[i] /\ p[i] = lens[i]
      BY <1>1, <2>1, <2>2, <3>1
    <3> QED
      BY <2>4, <3>1, <3>2
  <2>5. n \in Nat
    OBVIOUS
  <2> HIDE DEF T
  <2>6. 0..n \subseteq T
    BY <2>3, <2>4, <2>5, InductionTo
  <2> QED
    BY <2>1, <2>2, <2>5, <2>6 DEF p, T
<1> QED
  BY <1>1, <1>2

LEMMA SumEmpty == Sum(<<>>) = 0
<1>1. <<>> \in Seq(Int) /\ Len(<<>>) = 0
  OBVIOUS
<1> QED
  BY <1>1, SumSteps

LEMMA SumAppend ==
  ASSUME NEW lens \in Seq(Int), NEW x \in Int
  PROVE  Sum(lens) \in Int /\ Sum(Append(lens, x)) = Sum(lens) + x
<1> DEFINE s == Append(lens, x)
           N == Len(lens)
<1>1. s \in Seq(Int) /\ Len(s) = N + 1 /\ s[N + 1] = x /\ N \in Nat
  OBVIOUS
<1>2. SubSeq(s, 1, N) = lens /\ SubSeq(s, 1, N + 1) = s
  OBVIOUS
<1> HIDE DEF s, N
<1>3. PICK h \in [0..Len(s) -> Int] :
           /\ h[0] = 0
           /\ \A n \in 1..Len(s) : h[n] = h[n - 1] + s[n]
           /\ \A n \in 0..Len(s) : Sum(SubSeq(s, 1, n)) = h[n]
  BY <1>1, PrefixSums
<1>4. N \in 0..Len(s) /\ N + 1 \in 0..Len(s) /\ N + 1 \in 1..Len(s) /\ (N + 1) - 1 = N
  BY <1>1
<1>5. Sum(lens) = h[N] /\ Sum(s) = h[N + 1]
  BY <1>2, <1>3, <1>4
<1>6. h[N + 1] = h[N] + x /\ h[N] \in Int
  BY <1>1, <1>3, <1>4
<1> QED
  BY <1>5, <1>6 DEF s

\* Lengths add up to no less than any part of them from the first on.
LEMMA SumGrows ==
  ASSUME NEW lens \in Seq(Nat), NEW m \in 0..Len(lens)
  PROVE  Sum(lens) \in Nat /\ Sum(SubSeq(lens, 1, m)) \in Nat /\ Sum(SubSeq(lens, 1, m)) <= Sum(lens)
<1> DEFINE N == Len(lens)
<1>1. lens \in Seq(Int) /\ N \in Nat /\ (\A i \in 1..N : lens[i] \in Nat) /\ SubSeq(lens, 1, N) = lens
  OBVIOUS
<1> HIDE DEF N
<1>2. PICK h \in [0..N -> Int] :
           /\ h[0] = 0
           /\ \A n \in 1..N : h[n] = h[n - 1] + lens[n]
           /\ \A n \in 0..N : Sum(SubSeq(lens, 1, n)) = h[n]
  BY <1>1, PrefixSums DEF N
<1> DEFINE T == {n \in 0..N : h[n] \in Nat /\ (m <= n => h[m] <= h[n] /\ h[m] \in Nat)}
<1>3. 0 \in T
  BY <1>1, <1>2 DEF N
<1>4. ASSUME NEW n \in 1..N, n - 1 \in T PROVE n \in T
  <2>1. h[n] = h[n - 1] + lens[n] /\ lens[n] \in Nat /\ h[n - 1] \in Nat /\ n \in 0..N
    BY <1>1, <1>2, <1>4
  <2>2. CASE m <= n - 1
    BY <1>4, <2>1, <2>2
  <2>3. CASE m > n - 1
    BY <2>1, <2>3 DEF N
  <2> QED
    BY <1>1, <2>2, <2>3 DEF N
<1> HIDE DEF T
<1>5. 0..N \subseteq T
  BY <1>1, <1>3, <1>4, InductionTo
<1>6. N \in T /\ m \in 0..N /\ N \in 0..N
  BY <1>1, <1>5 DEF N
<1>7. Sum(lens) = h[N] /\ Sum(SubSeq(lens, 1, m)) = h[m]
  BY <1>1, <1>2, <1>6
<1>8. h[N] \in Nat /\ m <= N /\ h[m] <= h[N] /\ h[m] \in Nat
  BY <1>1, <1>6 DEF T
<1> QED
  BY <1>7, <1>8

-----------------------------------------------------------------------------
(* The plan.                                                               *)

Lens(len, picked) == [k \in DOMAIN picked |-> len[picked[k]]]
Step(len, cap, target, picked, i) ==
  IF i = 1 \/ Takes(len[i], Sum(Lens(len, picked)), cap, target) THEN Append(picked, i) ELSE picked

\* h[n] is what has been picked after n jobs.
Picked(h, len, cap, target) ==
  /\ h \in [0..Len(len) -> Seq(1..Len(len))]
  /\ h[0] = <<>> /\ batch_plan(len, cap, target) = h[Len(len)]
  /\ \A n \in 1..Len(len) : h[n] = Step(len, cap, target, h[n - 1], n)

LEMMA PlanSteps ==
  ASSUME NEW len \in Seq(Int), NEW cap, NEW target
  PROVE  \E h : Picked(h, len, cap, target)
<1> DEFINE N == Len(len)
           R == Seq(1..N)
           Does(picked, i) == Step(len, cap, target, picked, i)
           G == [p \in (1..N) \X R |-> Does(p[2], p[1])]
           Eq(f) == f = [s \in SUBSET (1..N) |-> IF s = {} THEN <<>> ELSE Does(f[s \ {Max(s)}], Max(s))]
           it == CHOOSE f : Eq(f)
<1>1. N \in Nat /\ DOMAIN len = 1..N /\ <<>> \in R
  OBVIOUS
<1>2. \A picked \in R, i \in 1..N : Does(picked, i) \in R
  <2>1. \A picked \in R, i \in 1..N : Append(picked, i) \in R
    OBVIOUS
  <2>2. \A picked, i : Does(picked, i) = Append(picked, i) \/ Does(picked, i) = picked
    BY Zenon DEF Step
  <2> HIDE DEF R, N, Does
  <2> QED
    BY <2>1, <2>2
<1>3. G \in [(1..N) \X R -> R] /\ \A i \in 1..N, picked \in R : G[<<i, picked>>] = Does(picked, i)
  <2> HIDE DEF N, R, Does
  <2> QED
    BY <1>2
<1> HIDE DEF G
<1>4. PICK f : Folds(f, N, R, <<>>, G)
  <2> HIDE DEF N, R
  <2> QED
    BY <1>1, <1>3, FoldExists
<1>5. Eq(f)
  <2> HIDE DEF N, R, Does
  <2> QED
    BY <1>3, <1>4 DEF Folds
<1>6. Eq(it)
  <2> HIDE DEF Eq
  <2> QED
    BY <1>5
<1>7. batch_plan(len, cap, target) = it[1..N]
  <2> DEFINE ns == [i \in DOMAIN len |-> i]
             E(g) == g = [s \in SUBSET (1..N) |-> IF s = {} THEN <<>> ELSE Does(g[s \ {Max(s)}], ns[Max(s)])]
  <2>1. batch_plan(len, cap, target)
          = (CHOOSE g : g = [s \in SUBSET DOMAIN ns |->
               IF s = {} THEN <<>> ELSE Does(g[s \ {Max(s)}], ns[Max(s)])])[DOMAIN ns]
    BY Zenon DEF batch_plan, FoldLeft, MapThenFoldSet, Step, Lens
  <2>2. DOMAIN ns = 1..N
    BY <1>1
  <2>3. \A s \in SUBSET (1..N) : s # {} => ns[Max(s)] = Max(s)
    <3>1. \A i \in 1..N : ns[i] = i
      BY <1>1
    <3> HIDE DEF N, ns
    <3> QED
      BY <1>4, <3>1 DEF Folds
  <2>4. \A g : E(g) <=> Eq(g)
    <3> HIDE DEF N, Does, ns
    <3> QED
      BY <2>3
  <2> HIDE DEF Does, N, ns
  <2>5. batch_plan(len, cap, target) = (CHOOSE g : E(g))[1..N]
    BY <2>1, <2>2
  <2>6. (CHOOSE g : E(g)) = it
    <3> HIDE DEF E, Eq
    <3> QED
      BY <2>4, Zenon
  <2> QED
    BY <2>5, <2>6
<1> HIDE DEF it, N, R, Does
<1>8. it[{}] = <<>> /\ \A s \in SUBSET (1..N) : s # {} => it[s] = Does(it[s \ {Max(s)}], Max(s))
  BY <1>6
<1>9. Unfolds(it, N, R, <<>>, G)
  BY <1>3, <1>4, <1>8 DEF Folds, Unfolds
<1>10. PICK h : RunsTo(h, it[1..N], N, R, <<>>, G)
  <2> HIDE DEF Eq
  <2> QED
    BY <1>1, <1>3, <1>9, FoldRuns
<1>11. ASSUME NEW n \in 1..N PROVE h[n] = Does(h[n - 1], n)
  <2>1. h[n - 1] \in R
    BY <1>1, <1>10 DEF RunsTo
  <2> QED
    BY <1>3, <1>10, <2>1 DEF RunsTo
<1> QED
  BY <1>7, <1>10, <1>11 DEF N, R, Does, Picked, RunsTo

\* What was picked of the first n jobs: the oldest among them; within the capacity; and no job left
\* out that would fit, unless there is enough already.
Picks(len, cap, target, n, p) ==
  LET total == Sum(Lens(len, p)) IN
  /\ p \in Seq(1..n) /\ Len(p) \in 1..n /\ p[1] = 1
  /\ total \in Nat /\ total <= cap
  /\ \A i \in 1..n : i \notin Range(p) => total >= target \/ total >= cap \/ len[i] > cap - total
  /\ \A k \in 2..Len(p) : len[p[k]] < cap

LEMMA PlanPicks ==
  ASSUME NEW len \in Seq(Nat \ {0}), NEW cap \in Nat, NEW target \in Int, Len(len) # 0, len[1] <= cap
  PROVE  Picks(len, cap, target, Len(len), batch_plan(len, cap, target))
<1> DEFINE N == Len(len)
<1>1. N \in Nat /\ N >= 1 /\ DOMAIN len = 1..N /\ (\A i \in 1..N : len[i] \in Nat /\ len[i] > 0) /\ len \in Seq(Int)
  OBVIOUS
<1> HIDE DEF N
<1>0. PICK h : Picked(h, len, cap, target)
  BY <1>1, PlanSteps
<1>2. /\ h \in [0..N -> Seq(1..N)]
      /\ h[0] = <<>> /\ batch_plan(len, cap, target) = h[N]
      /\ \A n \in 1..N : h[n] = Step(len, cap, target, h[n - 1], n)
  BY <1>0, Zenon DEF Picked, N
<1> DEFINE P(n) == Picks(len, cap, target, n, h[n])
<1>3. P(1)
  <2>1. h[1] = <<1>>
    <3>1. h[1] = Step(len, cap, target, h[0], 1)
      BY <1>1, <1>2
    <3>2. h[1] = Append(<<>>, 1)
      BY <1>2, <3>1, Zenon DEF Step
    <3> QED
      BY <3>2
  <2> DEFINE p == <<1>>
  <2>2. Lens(len, p) = Append(<<>>, len[1]) /\ len[1] \in Int
    <3>1. DOMAIN p = 1..1 /\ p[1] = 1
      OBVIOUS
    <3>2. Lens(len, p) = [k \in 1..1 |-> len[1]]
      BY <3>1 DEF Lens
    <3>3. [k \in 1..1 |-> len[1]] = Append(<<>>, len[1])
      OBVIOUS
    <3> QED
      BY <1>1, <3>2, <3>3
  <2>3. Sum(Lens(len, p)) = len[1]
    <3>1. <<>> \in Seq(Int)
      OBVIOUS
    <3>2. Sum(Append(<<>>, len[1])) = Sum(<<>>) + len[1]
      BY <2>2, <3>1, SumAppend
    <3> QED
      BY <2>2, <3>2, SumEmpty
  <2>4. p \in Seq(1..1) /\ Len(p) \in 1..1 /\ p[1] = 1
    OBVIOUS
  <2>5. 1 \in Range(p)
    BY DEF Range
  <2>6. len[1] \in Nat /\ len[1] <= cap
    BY <1>1
  <2> HIDE DEF p
  <2>7. Picks(len, cap, target, 1, p)
    <3>1. \A i \in 1..1 : i \in Range(p)
      BY <2>5
    <3>2. \A k \in 2..Len(p) : FALSE
      <4>1. Len(p) = 1
        BY <2>4
      <4>2. \A k \in 2..1 : FALSE
        OBVIOUS
      <4> QED
        BY <4>1, <4>2
    <3>3. Sum(Lens(len, p)) \in Nat /\ Sum(Lens(len, p)) <= cap
      BY <2>3, <2>6
    <3> QED
      BY <2>4, <3>1, <3>2, <3>3, Zenon DEF Picks
  <2> QED
    BY <2>1, <2>7 DEF p
<1>4. ASSUME NEW n \in 2..N, P(n - 1) PROVE P(n)
  <2> DEFINE p == h[n - 1]
             lens == Lens(len, p)
             total == Sum(lens)
  <2>1. /\ p \in Seq(1..(n - 1)) /\ Len(p) \in 1..(n - 1) /\ p[1] = 1
        /\ total \in Nat /\ total <= cap
        /\ \A i \in 1..(n - 1) : i \notin Range(p) => total >= target \/ total >= cap \/ len[i] > cap - total
        /\ \A k \in 2..Len(p) : len[p[k]] < cap
    BY <1>4 DEF Picks
  <2>2. n \in 1..N /\ n # 1 /\ n - 1 \in Nat /\ len[n] \in Nat /\ len[n] > 0
    BY <1>1
  <2>3. h[n] = IF Takes(len[n], total, cap, target) THEN Append(p, n) ELSE p
    <3>1. h[n] = Step(len, cap, target, p, n)
      BY <1>2, <2>2
    <3> QED
      BY <2>2, <3>1, Zenon DEF Step
  <2>4. lens \in Seq(Int) /\ lens = [k \in 1..Len(p) |-> len[p[k]]]
    <3>1. DOMAIN p = 1..Len(p) /\ \A k \in 1..Len(p) : p[k] \in 1..N
      <4> HIDE DEF p
      <4>1. DOMAIN p = 1..Len(p) /\ \A k \in 1..Len(p) : p[k] \in 1..(n - 1)
        BY <2>1
      <4> QED
        BY <1>1, <4>1
    <3>2. lens = [k \in 1..Len(p) |-> len[p[k]]]
      BY <3>1 DEF Lens
    <3> HIDE DEF p, lens
    <3>3. Len(p) \in Nat /\ \A k \in 1..Len(p) : len[p[k]] \in Int
      BY <1>1, <2>1, <3>1
    <3> QED
      BY <3>2, <3>3
  <2> HIDE DEF p, lens, total
  <2>5. CASE ~Takes(len[n], total, cap, target)
    <3>1. h[n] = p
      BY <2>3, <2>5
    <3>2. total >= target \/ total >= cap \/ len[n] > cap - total
      BY <2>1, <2>2, <2>5 DEF Takes
    <3>3. \A i \in 1..n : i \in 1..(n - 1) \/ i = n
      OBVIOUS
    <3>4. p \in Seq(1..n) /\ Len(p) \in 1..n
      BY <2>1, <2>2
    <3>5. Picks(len, cap, target, n, p)
      BY <2>1, <3>2, <3>3, <3>4 DEF Picks, total, lens
    <3> QED
      BY <3>1, <3>5
  <2>6. CASE Takes(len[n], total, cap, target)
    <3> DEFINE q == Append(p, n)
    <3>1. h[n] = q
      BY <2>3, <2>6
    <3>2. total < target /\ total < cap /\ len[n] <= cap - total
      BY <2>6 DEF Takes
    <3>3. /\ q \in Seq(1..n) /\ Len(q) = Len(p) + 1 /\ q[Len(q)] = n
          /\ \A k \in 1..Len(p) : q[k] = p[k]
          /\ DOMAIN q = 1..(Len(p) + 1)
      BY <2>1, <2>2
    <3> HIDE DEF q
    <3>4. Lens(len, q) = Append(lens, len[n])
      <4>1. Lens(len, q) = [k \in 1..(Len(p) + 1) |-> len[q[k]]]
        BY <3>3 DEF Lens
      <4>2. Len(p) \in Nat
        BY <2>1
      <4>3. Append(lens, len[n]) = [k \in 1..(Len(p) + 1) |-> IF k = Len(p) + 1 THEN len[n] ELSE len[p[k]]]
        BY <2>4, <4>2
      <4>4. \A k \in 1..(Len(p) + 1) : len[q[k]] = IF k = Len(p) + 1 THEN len[n] ELSE len[p[k]]
        <5> TAKE k \in 1..(Len(p) + 1)
        <5>1. CASE k = Len(p) + 1
          BY <3>3, <5>1
        <5>2. CASE k # Len(p) + 1
          <6>1. k \in 1..Len(p)
            BY <4>2, <5>2
          <6> QED
            BY <3>3, <5>2, <6>1
        <5> QED
          BY <5>1, <5>2
      <4> DEFINE I == 1..(Len(p) + 1)
                 F(k) == IF k = Len(p) + 1 THEN len[n] ELSE len[p[k]]
      <4> HIDE DEF I, F
      <4>5. [k \in I |-> len[q[k]]] = [k \in I |-> F(k)]
        BY <4>4 DEF I, F
      <4> QED
        BY <4>1, <4>3, <4>5 DEF I, F
    <3>5. Sum(Lens(len, q)) = total + len[n]
      <4>1. lens \in Seq(Int) /\ len[n] \in Int
        BY <2>2, <2>4
      <4>2. Sum(Append(lens, len[n])) = Sum(lens) + len[n]
        BY <4>1, SumAppend
      <4> QED
        BY <3>4, <4>2 DEF total
    <3>6. total + len[n] \in Nat /\ total + len[n] <= cap
      BY <2>1, <2>2, <3>2
    <3>7. Range(p) \subseteq Range(q) /\ n \in Range(q)
      <4>1. DOMAIN p = 1..Len(p) /\ Len(q) \in DOMAIN q
        BY <2>1, <3>3
      <4>2. n \in Range(q)
        BY <3>3, <4>1 DEF Range
      <4>3. ASSUME NEW x \in Range(p) PROVE x \in Range(q)
        <5>1. PICK k \in 1..Len(p) : x = p[k]
          BY <4>1 DEF Range
        <5>2. q[k] = x /\ k \in DOMAIN q
          BY <2>1, <3>3, <5>1
        <5> QED
          BY <5>2 DEF Range
      <4> QED
        BY <4>2, <4>3
    <3>8. \A i \in 1..n : i \notin Range(q) =>
             total + len[n] >= target \/ total + len[n] >= cap \/ len[i] > cap - (total + len[n])
      <4> SUFFICES ASSUME NEW i \in 1..n, i \notin Range(q)
                   PROVE  total + len[n] >= target \/ total + len[n] >= cap \/ len[i] > cap - (total + len[n])
        OBVIOUS
      <4>1. i \in 1..(n - 1) /\ i \notin Range(p)
        BY <3>7
      <4>2. len[i] > cap - total
        BY <2>1, <3>2, <4>1
      <4>3. len[i] \in Nat
        BY <1>1, <4>1
      <4>4. total \in Nat /\ len[n] \in Nat /\ len[n] > 0
        BY <2>1, <2>2
      <4> QED
        BY <4>2, <4>3, <4>4
    <3>9. \A k \in 2..Len(q) : len[q[k]] < cap
      <4> SUFFICES ASSUME NEW k \in 2..Len(q) PROVE len[q[k]] < cap
        OBVIOUS
      <4>1. CASE k = Len(q)
        <5>1. total >= 1
          <6>0. Len(p) \in Nat /\ Len(p) >= 1 /\ \A j \in 1..Len(p) : len[p[j]] \in Nat /\ len[p[j]] >= 1
            <7>1. Len(p) \in Nat /\ Len(p) >= 1 /\ \A j \in 1..Len(p) : p[j] \in 1..N
              <8>1. Len(p) \in Nat /\ Len(p) >= 1 /\ \A j \in 1..Len(p) : p[j] \in 1..(n - 1)
                BY <2>1
              <8> QED
                BY <1>1, <8>1
            <7> QED
              BY <1>1, <7>1
          <6>1. lens \in Seq(Nat) /\ 1 \in 0..Len(lens) /\ lens[1] >= 1 /\ lens[1] \in Int
            <7>1. lens \in Seq(Nat) /\ Len(lens) = Len(p)
              BY <2>4, <6>0
            <7>2. 1 \in 1..Len(p) /\ lens[1] = len[p[1]]
              BY <2>4, <6>0
            <7> QED
              BY <6>0, <7>1, <7>2
          <6>2. SubSeq(lens, 1, 1) = Append(<<>>, lens[1])
            <7>1. SubSeq(lens, 1, 1) = [i \in 1..1 |-> lens[1]]
              BY <6>1
            <7>2. Append(<<>>, lens[1]) = [i \in 1..1 |-> lens[1]]
              OBVIOUS
            <7> QED
              BY <7>1, <7>2
          <6>3. Sum(SubSeq(lens, 1, 1)) = lens[1]
            <7>1. <<>> \in Seq(Int)
              OBVIOUS
            <7>2. Sum(Append(<<>>, lens[1])) = Sum(<<>>) + lens[1]
              BY <6>1, <7>1, SumAppend
            <7>3. 0 + lens[1] = lens[1]
              BY <6>1
            <7> QED
              BY <6>2, <7>2, <7>3, SumEmpty, Zenon
          <6>4. Sum(SubSeq(lens, 1, 1)) <= Sum(lens)
            BY <6>1, SumGrows
          <6>5. total \in Nat
            BY <2>1
          <6> QED
            BY <6>1, <6>3, <6>4, <6>5 DEF total
        <5> QED
          BY <2>1, <2>2, <3>2, <3>3, <4>1, <5>1
      <4>2. CASE k # Len(q)
        <5>1. k \in 2..Len(p) /\ k \in 1..Len(p)
          BY <2>1, <3>3, <4>2
        <5>2. q[k] = p[k]
          BY <3>3, <5>1
        <5> QED
          BY <2>1, <5>1, <5>2
      <4> QED
        BY <4>1, <4>2
    <3>10. Len(q) \in 1..n /\ q[1] = 1
      BY <2>1, <2>2, <3>3
    <3>11. Picks(len, cap, target, n, q)
      BY <3>3, <3>5, <3>6, <3>8, <3>9, <3>10 DEF Picks
    <3> QED
      BY <3>1, <3>11
  <2> QED
    BY <2>5, <2>6
<1> HIDE DEF P
<1> DEFINE T == {n \in 0..(N - 1) : P(n + 1)}
<1>5. 0 \in T
  BY <1>1, <1>3
<1>6. ASSUME NEW n \in 1..(N - 1), n - 1 \in T PROVE n \in T
  <2>1. n + 1 \in 2..N /\ P((n + 1) - 1)
    BY <1>1, <1>6
  <2>2. P(n + 1)
    BY <1>4, <2>1
  <2> QED
    BY <2>2
<1>7. N - 1 \in T
  <2> HIDE DEF T
  <2>1. N - 1 \in Nat
    BY <1>1
  <2>2. 0..(N - 1) \subseteq T
    BY <1>5, <1>6, <2>1, InductionTo
  <2> QED
    BY <2>1, <2>2
<1>8. P(N)
  BY <1>1, <1>7
<1> QED
  BY <1>2, <1>8 DEF P, N

-----------------------------------------------------------------------------
(* The pass.                                                               *)

\* A pass of the worker's is one the model takes, whole, with the oldest job in it and no job left out
\* that would have fitted; for pools and messages of any length, as long as no message is longer than
\* the model's context (prep_tokens cuts them to it) and the model has a segment for each job that
\* pass() looks at (MAXSEG is 256, kernels.inc:42; pend holds 64, worker.c:520).
LEMMA PassIsFull ==
  ASSUME NEW pend, NEW target \in Int, MaxTok \in Nat \ {0}, MaxSeg \in Nat, PendMax \in 1..MaxSeg,
         pend \in Seq([n_ids : 1..MaxTok, solo : BOOLEAN])
  PROVE  FillsPass(pend, target)
<1> DEFINE n == IF Len(pend) < PendMax THEN Len(pend) ELSE PendMax
           pass == Pass(pend, target)
           lens == [k \in DOMAIN pass |-> pend[pass[k]].n_ids]
           plan == [k \in 1..n |-> PlanLen(pend[k])]
<1>1. SUFFICES ASSUME pend # <<>>
               PROVE  /\ pass[1] = 1 /\ set_segs(lens) # <<>>
                      /\ (\E k \in DOMAIN pass : pend[pass[k]].solo) => Len(pass) = 1
                      /\ Sum(lens) < target /\ ~pend[1].solo =>
                           \A i \in 1..Len(pend) :
                             i \notin Range(pass) /\ ~pend[i].solo /\ i <= PendMax => pend[i].n_ids + Sum(lens) > MaxTok
  BY Zenon DEF FillsPass
<1>2. /\ n \in 1..PendMax /\ n <= Len(pend) /\ n \in Nat
      /\ \A i \in 1..Len(pend) : /\ pend[i].n_ids \in 1..MaxTok /\ pend[i].solo \in BOOLEAN
                                 /\ i <= PendMax => i \in 1..n
  <2>1. Len(pend) \in Nat /\ Len(pend) # 0 /\ PendMax \in Nat /\ PendMax >= 1
    BY <1>1
  <2>2. n \in 1..PendMax /\ n <= Len(pend) /\ n \in Nat
    BY <2>1
  <2>3. \A i \in 1..Len(pend) : pend[i].n_ids \in 1..MaxTok /\ pend[i].solo \in BOOLEAN
    <3> TAKE i \in 1..Len(pend)
    <3> DEFINE J == [n_ids : 1..MaxTok, solo : BOOLEAN]
    <3>1. pend \in Seq(J)
      OBVIOUS
    <3>2. pend[i] \in J
      <4> HIDE DEF J
      <4> QED
        BY <3>1
    <3> QED
      BY <3>2
  <2>4. \A i \in 1..Len(pend) : i <= PendMax => i \in 1..n
    BY <2>1
  <2> HIDE DEF n
  <2> QED
    BY <2>2, <2>3, <2>4
<1>3. pass = IF pend[1].solo THEN <<1>> ELSE batch_plan(plan, MaxTok, target)
  <2>1. n # 0
    BY <1>2
  <2> QED
    BY <2>1, Zenon DEF Pass
<1> HIDE DEF n
<1>4. /\ plan \in Seq(Nat \ {0}) /\ Len(plan) = n
      /\ \A i \in 1..n : plan[i] = IF pend[i].solo THEN MaxTok + 1 ELSE pend[i].n_ids
  <2>1. \A i \in 1..n : PlanLen(pend[i]) \in Nat \ {0}
    BY <1>2 DEF PlanLen
  <2> QED
    BY <1>2, <2>1 DEF PlanLen
<1> HIDE DEF pass, plan
<1> DEFINE Ok(p) == /\ p \in Seq(1..n) /\ Len(p) \in 1..n /\ p[1] = 1
                    /\ Sum([k \in DOMAIN p |-> pend[p[k]].n_ids]) <= MaxTok
<1>5. ASSUME pend[1].solo
      PROVE  Ok(pass) /\ pass[1] = 1 /\ Len(pass) = 1
  <2>1. pass = <<1>> /\ Len(pass) = 1 /\ DOMAIN pass = 1..1 /\ pass[1] = 1 /\ pass \in Seq(1..n)
    BY <1>2, <1>3, <1>5
  <2>2. lens = <<pend[1].n_ids>>
    BY <2>1
  <2>3. Sum(lens) = pend[1].n_ids
    <3>1. <<>> \in Seq(Int) /\ pend[1].n_ids \in Int
      BY <1>2
    <3>2. Append(<<>>, pend[1].n_ids) = <<pend[1].n_ids>>
      OBVIOUS
    <3>3. Sum(<<pend[1].n_ids>>) = Sum(<<>>) + pend[1].n_ids
      BY <3>1, <3>2, SumAppend
    <3> HIDE DEF lens
    <3> QED
      BY <2>2, <3>1, <3>3, SumEmpty
  <2>4. Ok(pass)
    <3>1. Sum(lens) <= MaxTok
      BY <1>2, <2>3
    <3> QED
      BY <1>2, <2>1, <3>1
  <2> QED
    BY <1>5, <2>1, <2>4
<1>6. ASSUME ~pend[1].solo
      PROVE  /\ Ok(pass) /\ pass[1] = 1
             /\ (\E k \in DOMAIN pass : pend[pass[k]].solo) => Len(pass) = 1
             /\ Sum(lens) < target /\ ~pend[1].solo =>
                  \A i \in 1..Len(pend) :
                    i \notin Range(pass) /\ ~pend[i].solo /\ i <= PendMax => pend[i].n_ids + Sum(lens) > MaxTok
  <2>1. plan[1] <= MaxTok /\ Len(plan) # 0
    <3>1. 1 \in 1..n /\ 1 \in 1..Len(pend) /\ n # 0
      BY <1>2
    <3>2. plan[1] = pend[1].n_ids /\ pend[1].n_ids <= MaxTok
      BY <1>2, <1>4, <1>6, <3>1
    <3> QED
      BY <1>4, <3>1, <3>2
  <2>2. Picks(plan, MaxTok, target, n, pass)
    <3>1. Picks(plan, MaxTok, target, Len(plan), batch_plan(plan, MaxTok, target))
      <4>1. MaxTok \in Nat
        OBVIOUS
      <4> QED
        BY <1>4, <2>1, <4>1, PlanPicks
    <3> QED
      BY <1>3, <1>4, <1>6, <3>1, Zenon
  <2> DEFINE total == Sum(Lens(plan, pass))
  <2>3. /\ pass \in Seq(1..n) /\ Len(pass) \in 1..n /\ pass[1] = 1
        /\ total \in Nat /\ total <= MaxTok
        /\ \A i \in 1..n : i \notin Range(pass) => total >= target \/ total >= MaxTok \/ plan[i] > MaxTok - total
        /\ \A k \in 2..Len(pass) : plan[pass[k]] < MaxTok
    BY <2>2 DEF Picks
  <2>4. DOMAIN pass = 1..Len(pass) /\ \A k \in 1..Len(pass) : pass[k] \in 1..n
    <3>1. pass \in Seq(1..n) /\ n \in Nat
      BY <1>2, <2>3
    <3> HIDE DEF pass
    <3>2. DOMAIN pass = 1..Len(pass)
      BY <3>1
    <3>3. \A k \in 1..Len(pass) : pass[k] \in 1..n
      BY <3>1
    <3> QED
      BY <3>2, <3>3
  <2>5. ASSUME NEW k \in 1..Len(pass) PROVE ~pend[pass[k]].solo /\ plan[pass[k]] = pend[pass[k]].n_ids
    <3>1. CASE k = 1
      BY <1>2, <1>4, <1>6, <2>3, <3>1
    <3>2. CASE k # 1
      <4>1. plan[pass[k]] < MaxTok /\ pass[k] \in 1..n
        BY <2>3, <2>4, <3>2
      <4> QED
        BY <1>4, <4>1
    <3> QED
      BY <3>1, <3>2
  <2>6. lens = Lens(plan, pass)
    <3> DEFINE I == DOMAIN pass
    <3>1. lens = [k \in I |-> pend[pass[k]].n_ids] /\ Lens(plan, pass) = [k \in I |-> plan[pass[k]]]
      BY DEF Lens
    <3>2. \A k \in I : plan[pass[k]] = pend[pass[k]].n_ids
      BY <2>4, <2>5
    <3> HIDE DEF I, lens
    <3> QED
      BY <3>1, <3>2
  <2>7. Ok(pass)
    BY <2>3, <2>6
  <2>8. (\E k \in DOMAIN pass : pend[pass[k]].solo) => Len(pass) = 1
    BY <2>4, <2>5
  <2> HIDE DEF lens, total
  <2>9. ASSUME Sum(lens) < target, NEW i \in 1..Len(pend), i \notin Range(pass), ~pend[i].solo, i <= PendMax
        PROVE  pend[i].n_ids + Sum(lens) > MaxTok
    <3>1. i \in 1..n /\ pend[i].n_ids \in Nat /\ pend[i].n_ids > 0 /\ plan[i] = pend[i].n_ids
      <4>1. pend[i].n_ids \in 1..MaxTok /\ i \in 1..n
        BY <1>2, <2>9
      <4> QED
        BY <1>4, <2>9, <4>1
    <3>2. total < target /\ total \in Nat /\ Sum(lens) = total
      BY <2>3, <2>6, <2>9 DEF total
    <3>3. total >= MaxTok \/ plan[i] > MaxTok - total
      BY <2>3, <2>9, <3>1, <3>2
    <3> QED
      BY <3>1, <3>2, <3>3
  <2> QED
    BY <1>6, <2>3, <2>7, <2>8, <2>9
<1>7. ASSUME Ok(pass) PROVE set_segs(lens) # <<>>
  <2>1. pass \in Seq(1..n) /\ Len(pass) \in 1..n /\ Sum(lens) <= MaxTok
    BY <1>7
  <2>2. DOMAIN pass = 1..Len(pass) /\ Len(pass) \in Nat /\ Len(pass) >= 1 /\ \A k \in 1..Len(pass) : pass[k] \in 1..n
    <3> HIDE DEF n
    <3> QED
      BY <1>2, <2>1
  <2>3. lens = [k \in 1..Len(pass) |-> pend[pass[k]].n_ids]
    BY <2>2
  <2>4. \A k \in 1..Len(pass) : pend[pass[k]].n_ids \in 1..MaxTok
    BY <1>2, <2>2
  <2> HIDE DEF lens
  <2>5. lens \in Seq(Nat) /\ Len(lens) = Len(pass) /\ DOMAIN lens = 1..Len(lens) /\ \A k \in 1..Len(lens) : lens[k] >= 1
    <3>1. \A k \in 1..Len(pass) : pend[pass[k]].n_ids \in Nat /\ pend[pass[k]].n_ids >= 1
      BY <2>4
    <3> QED
      BY <2>2, <2>3, <3>1
  <2>6. Len(lens) \in 1..MaxSeg
    BY <1>2, <2>1, <2>5
  <2>7. ASSUME NEW s \in DOMAIN lens PROVE lens[s] >= 1 /\ Sum(SubSeq(lens, 1, s)) <= MaxTok
    <3>1. s \in 0..Len(lens)
      BY <2>5
    <3>2. Sum(lens) \in Nat /\ Sum(SubSeq(lens, 1, s)) \in Nat /\ Sum(SubSeq(lens, 1, s)) <= Sum(lens)
      BY <2>5, <3>1, SumGrows
    <3>3. Sum(SubSeq(lens, 1, s)) <= MaxTok
      BY <2>1, <3>2
    <3> QED
      BY <2>5, <3>3
  <2>8. ~(Len(lens) \notin 1..MaxSeg \/ \E s \in DOMAIN lens : lens[s] < 1 \/ Sum(SubSeq(lens, 1, s)) > MaxTok)
    <3>1. \A s \in DOMAIN lens : lens[s] \in Int /\ Sum(SubSeq(lens, 1, s)) \in Int
      <4> TAKE s \in DOMAIN lens
      <4>1. s \in 0..Len(lens)
        BY <2>5
      <4>2. Sum(SubSeq(lens, 1, s)) \in Nat
        BY <2>5, <4>1, SumGrows
      <4> QED
        BY <2>5, <4>2
    <3> QED
      BY <2>6, <2>7, <3>1
  <2>9. set_segs(lens) = [s \in 1..Len(lens) + 1 |-> Sum(SubSeq(lens, 1, s - 1))]
    BY <2>8, Zenon DEF set_segs
  <2> DEFINE seg == [s \in 1..Len(lens) + 1 |-> Sum(SubSeq(lens, 1, s - 1))]
  <2>10. 1 \in DOMAIN seg
    BY <2>6
  <2>11. DOMAIN <<>> = {}
    OBVIOUS
  <2> HIDE DEF seg
  <2>12. seg # <<>>
    BY <2>10, <2>11
  <2> QED
    BY <2>9, <2>12 DEF seg
<1>8. /\ Ok(pass) /\ pass[1] = 1
      /\ (\E k \in DOMAIN pass : pend[pass[k]].solo) => Len(pass) = 1
      /\ Sum(lens) < target /\ ~pend[1].solo =>
           \A i \in 1..Len(pend) :
             i \notin Range(pass) /\ ~pend[i].solo /\ i <= PendMax => pend[i].n_ids + Sum(lens) > MaxTok
  <2>1. pend[1].solo \in BOOLEAN
    BY <1>1, <1>2
  <2>2. CASE pend[1].solo
    <3>1. Ok(pass) /\ pass[1] = 1 /\ Len(pass) = 1
      BY <1>5, <2>2
    <3> HIDE DEF Ok, lens
    <3> QED
      BY <2>2, <3>1
  <2>3. CASE ~pend[1].solo
    <3> HIDE DEF Ok, lens
    <3> QED
      BY <1>6, <2>3
  <2> QED
    BY <2>2, <2>3
<1>9. set_segs(lens) # <<>>
  BY <1>7, <1>8
<1> HIDE DEF Ok, lens
<1> QED
  BY <1>8, <1>9

\* Whatever pool comes, its pass is planned so (pass).
THEOREM PassesFit ==
  ASSUME MaxTok \in Nat \ {0}, MaxSeg \in Nat, PendMax \in 1..MaxSeg,
         input.kind = "pool" => input.target \in Int /\ input.pend \in Seq([n_ids : 1..MaxTok, solo : BOOLEAN])
  PROVE  PassFits
<1>1. SUFFICES ASSUME input.kind = "pool" PROVE FillsPass(input.pend, input.target)
  BY Zenon DEF PassFits
<1> QED
  BY <1>1, PassIsFull

-----------------------------------------------------------------------------
(* Base64, a quad of characters and its three bytes at a time.             *)

Octet == 0..255
Quad(b1, b2, b3) == b1 * 65536 + b2 * 256 + b3
LEMMA SextetsOf ==
  ASSUME NEW b1 \in Octet, NEW b2 \in Octet, NEW b3 \in Octet
  PROVE  /\ (Quad(b1, b2, b3) \div 64^3) % 64 = b1 \div 4
         /\ (Quad(b1, b2, b3) \div 64^2) % 64 = (b1 % 4) * 16 + b2 \div 16
         /\ (Quad(b1, b2, b3) \div 64^1) % 64 = (b2 % 16) * 4 + b3 \div 64
         /\ (Quad(b1, b2, b3) \div 64^0) % 64 = b3 % 64
<1>0. b1 \in Int /\ 0 <= b1 /\ b1 < 256 /\ b2 \in Int /\ 0 <= b2 /\ b2 < 256 /\ b3 \in Int /\ 0 <= b3 /\ b3 < 256
  BY DEF Octet
<1>1. 64^3 = 262144 /\ 64^2 = 4096 /\ 64^1 = 64 /\ 64^0 = 1
  OBVIOUS
<1>2. (Quad(b1, b2, b3) \div 262144) % 64 = b1 \div 4
  BY <1>0 DEF Quad
<1>3. (Quad(b1, b2, b3) \div 4096) % 64 = (b1 % 4) * 16 + b2 \div 16
  BY <1>0 DEF Quad
<1>4. (Quad(b1, b2, b3) \div 64) % 64 = (b2 % 16) * 4 + b3 \div 64
  BY <1>0 DEF Quad
<1>5. (Quad(b1, b2, b3) \div 1) % 64 = b3 % 64
  BY <1>0 DEF Quad
<1> QED
  BY <1>1, <1>2, <1>3, <1>4, <1>5

\* The characters of a quad, and the bytes that characters make.
Sextet(b1, b2, b3, q) == CASE q = 0 -> b1 \div 4
                           [] q = 1 -> (b1 % 4) * 16 + b2 \div 16
                           [] q = 2 -> (b2 % 16) * 4 + b3 \div 64
                           [] q = 3 -> b3 % 64
Character(in, g, q) == IF g + q > Len(in) THEN Pad
                       ELSE (Quad(Byte(in, g + 1), Byte(in, g + 2), Byte(in, g + 3)) \div 64^(3 - q)) % 64
LEMMA EncodedAt ==
  ASSUME NEW in \in Seq(Octet), NEW t \in Nat, NEW q \in 0..3, 4 * t + q + 1 \in 1..b64_encoded_len(Len(in))
  PROVE  /\ 4 * t + q + 1 \in DOMAIN b64_encode(in)
         /\ b64_encode(in)[4 * t + q + 1]
              = IF 3 * t + q > Len(in) THEN Pad
                ELSE Sextet(Byte(in, 3 * t + 1), Byte(in, 3 * t + 2), Byte(in, 3 * t + 3), q)
<1> DEFINE k == 4 * t + q + 1
           v == Quad(Byte(in, 3 * t + 1), Byte(in, 3 * t + 2), Byte(in, 3 * t + 3))
<1>1. 3 * ((k - 1) \div 4) = 3 * t /\ (k - 1) % 4 = q
  OBVIOUS
<1>2. b64_encode(in) = [i \in 1..b64_encoded_len(Len(in)) |-> Character(in, 3 * ((i - 1) \div 4), (i - 1) % 4)]
  BY DEF b64_encode, Character, Quad
<1>3. k \in DOMAIN b64_encode(in) /\ b64_encode(in)[k] = Character(in, 3 * ((k - 1) \div 4), (k - 1) % 4)
  <2> HIDE DEF k
  <2> QED
    BY <1>2 DEF k
<1>4. b64_encode(in)[k] = IF 3 * t + q > Len(in) THEN Pad ELSE (v \div 64^(3 - q)) % 64
  BY <1>1, <1>3, Zenon DEF Character
<1>5. \A i \in Nat \ {0} : Byte(in, i) \in Octet
  <2>1. \A i \in 1..Len(in) : in[i] \in Octet
    OBVIOUS
  <2>2. Len(in) \in Nat /\ 0 \in Octet
    BY DEF Octet
  <2> QED
    BY <2>1, <2>2 DEF Byte
<1>6. (v \div 64^(3 - q)) % 64 = Sextet(Byte(in, 3 * t + 1), Byte(in, 3 * t + 2), Byte(in, 3 * t + 3), q)
  <2> DEFINE b1 == Byte(in, 3 * t + 1)
             b2 == Byte(in, 3 * t + 2)
             b3 == Byte(in, 3 * t + 3)
  <2>1. b1 \in Octet /\ b2 \in Octet /\ b3 \in Octet
    BY <1>5
  <2> HIDE DEF b1, b2, b3
  <2> DEFINE w == Quad(b1, b2, b3)
  <2>2. /\ (w \div 64^3) % 64 = b1 \div 4
        /\ (w \div 64^2) % 64 = (b1 % 4) * 16 + b2 \div 16
        /\ (w \div 64^1) % 64 = (b2 % 16) * 4 + b3 \div 64
        /\ (w \div 64^0) % 64 = b3 % 64
    BY <2>1, SextetsOf
  <2> HIDE DEF w
  <2>3. (w \div 64^(3 - q)) % 64 = Sextet(b1, b2, b3, q)
    <3>1. CASE q = 0
      BY <2>2, <3>1, 3 - 0 = 3 DEF Sextet
    <3>2. CASE q = 1
      BY <2>2, <3>2, 3 - 1 = 2 DEF Sextet
    <3>3. CASE q = 2
      BY <2>2, <3>3, 3 - 2 = 1 DEF Sextet
    <3>4. CASE q = 3
      BY <2>2, <3>4, 3 - 3 = 0 DEF Sextet
    <3> QED
      BY <3>1, <3>2, <3>3, <3>4
  <2> QED
    BY <2>3 DEF b1, b2, b3, w
<1> HIDE DEF k, v
<1> QED
  BY <1>3, <1>4, <1>6, Zenon DEF k

LEMMA SextetIn ==
  ASSUME NEW b1 \in Octet, NEW b2 \in Octet, NEW b3 \in Octet, NEW q \in 0..3
  PROVE  Sextet(b1, b2, b3, q) \in Alphabet
<1>1. b1 \div 4 \in 0..63 /\ (b1 % 4) * 16 + b2 \div 16 \in 0..63 /\ (b2 % 16) * 4 + b3 \div 64 \in 0..63 /\ b3 % 64 \in 0..63
  BY DEF Octet
<1> QED
  BY <1>1 DEF Sextet, Alphabet

LEMMA ByteIn ==
  ASSUME NEW in \in Seq(Octet), NEW i \in Nat \ {0}
  PROVE  Byte(in, i) \in Octet /\ (i <= Len(in) => Byte(in, i) = in[i]) /\ (i > Len(in) => Byte(in, i) = 0)
<1>1. \A j \in 1..Len(in) : in[j] \in Octet
  OBVIOUS
<1>2. Len(in) \in Nat /\ 0 \in Octet
  BY DEF Octet
<1> QED
  BY <1>1, <1>2 DEF Byte

\* How many characters there are before the padding.
Chars(n) == (8 * n + 5) \div 6

\* n bytes are whole quads and, of the last one, two characters or three.
LEMMA Quads ==
  ASSUME NEW n \in Nat
  PROVE  \E t \in Nat, r \in 0..2 : /\ n = 3 * t + r
                                    /\ Chars(n) = IF r = 0 THEN 4 * t ELSE 4 * t + r + 1
                                    /\ b64_encoded_len(n) = IF r = 0 THEN 4 * t ELSE 4 * t + 4
<1> DEFINE t == n \div 3
           r == n % 3
<1>1. t \in Nat /\ r \in 0..2 /\ n = 3 * t + r
  OBVIOUS
<1> HIDE DEF t, r
<1>2. r = 0 => (8 * n + 5) \div 6 = 4 * t /\ ((n + 2) \div 3) * 4 = 4 * t
  BY <1>1
<1>3. r = 1 => (8 * n + 5) \div 6 = 4 * t + 2 /\ ((n + 2) \div 3) * 4 = 4 * t + 4
  BY <1>1
<1>4. r = 2 => (8 * n + 5) \div 6 = 4 * t + 3 /\ ((n + 2) \div 3) * 4 = 4 * t + 4
  BY <1>1
<1>5. /\ Chars(n) = IF r = 0 THEN 4 * t ELSE 4 * t + r + 1
      /\ b64_encoded_len(n) = IF r = 0 THEN 4 * t ELSE 4 * t + 4
  BY <1>1, <1>2, <1>3, <1>4 DEF Chars, b64_encoded_len
<1> QED
  BY <1>1, <1>5

LEMMA InQuad ==
  ASSUME NEW k \in Nat \ {0}
  PROVE  \E t \in Nat, q \in 0..3 : k = 4 * t + q + 1
<1> DEFINE j == k - 1
<1>1. j \in Nat /\ k = j + 1
  OBVIOUS
<1> HIDE DEF j
<1>2. j \div 4 \in Nat /\ j % 4 \in 0..3 /\ j = 4 * (j \div 4) + (j % 4)
  BY <1>1
<1>3. k = 4 * (j \div 4) + (j % 4) + 1
  BY <1>1, <1>2
<1> QED
  BY <1>2, <1>3

LEMMA EncodedShape ==
  ASSUME NEW in \in Seq(Octet), NEW e, e = b64_encode(in), NEW n, n = Len(in)
  PROVE  /\ e \in Seq(Int) /\ Len(e) = b64_encoded_len(n) /\ DOMAIN e = 1..Len(e)
         /\ n \in Nat /\ Chars(n) \in 0..Len(e) /\ Len(e) - Chars(n) \in 0..2 /\ Len(e) % 4 = 0 /\ Chars(n) % 4 # 1
         /\ \A k \in 1..Chars(n) : e[k] \in Alphabet
         /\ \A k \in Chars(n) + 1..Len(e) : e[k] = Pad
<1>1. PICK t \in Nat, r \in 0..2 : /\ n = 3 * t + r
                                   /\ Chars(n) = IF r = 0 THEN 4 * t ELSE 4 * t + r + 1
                                   /\ b64_encoded_len(n) = IF r = 0 THEN 4 * t ELSE 4 * t + 4
  BY Quads
<1>2. n \in Nat /\ b64_encoded_len(n) \in Nat /\ Chars(n) \in 0..b64_encoded_len(n) /\ b64_encoded_len(n) - Chars(n) \in 0..2
  BY <1>1
<1>3. b64_encoded_len(n) % 4 = 0 /\ Chars(n) % 4 # 1
  BY <1>1
<1>4. ASSUME NEW k \in 1..b64_encoded_len(n)
      PROVE  e[k] \in Int /\ (k <= Chars(n) => e[k] \in Alphabet) /\ (k > Chars(n) => e[k] = Pad)
  <2>1. PICK u \in Nat, q \in 0..3 : k = 4 * u + q + 1
    <3>1. k \in Nat \ {0}
      BY <1>2
    <3> QED
      BY <3>1, InQuad
  <2>2. e[k] = IF 3 * u + q > n THEN Pad
                ELSE Sextet(Byte(in, 3 * u + 1), Byte(in, 3 * u + 2), Byte(in, 3 * u + 3), q)
    BY <2>1, EncodedAt
  <2>3. Sextet(Byte(in, 3 * u + 1), Byte(in, 3 * u + 2), Byte(in, 3 * u + 3), q) \in Alphabet
    <3>1. Byte(in, 3 * u + 1) \in Octet /\ Byte(in, 3 * u + 2) \in Octet /\ Byte(in, 3 * u + 3) \in Octet
      BY ByteIn
    <3> QED
      BY <3>1, SextetIn
  <2>4. k > Chars(n) <=> 3 * u + q > n
    <3>1. CASE r = 0
      BY <1>1, <2>1, <3>1
    <3>2. CASE r = 1
      BY <1>1, <2>1, <3>2
    <3>3. CASE r = 2
      BY <1>1, <2>1, <3>3
    <3> QED
      BY <3>1, <3>2, <3>3
  <2>5. Pad \in Int /\ Alphabet \subseteq Int
    BY DEF Pad, Alphabet
  <2>6. k \in Nat /\ Chars(n) \in Nat /\ (k <= Chars(n) <=> ~(k > Chars(n)))
    BY <1>2
  <2> DEFINE x == Sextet(Byte(in, 3 * u + 1), Byte(in, 3 * u + 2), Byte(in, 3 * u + 3), q)
  <2> HIDE DEF x
  <2>7. e[k] = IF k > Chars(n) THEN Pad ELSE x
    BY <2>2, <2>4, Zenon DEF x
  <2> QED
    BY <2>3, <2>5, <2>6, <2>7 DEF x
<1>5. DOMAIN e = 1..b64_encoded_len(n) /\ e = [k \in 1..b64_encoded_len(n) |-> e[k]]
  BY DEF b64_encode
<1>6. e \in Seq(Int) /\ Len(e) = b64_encoded_len(n)
  BY <1>2, <1>4, <1>5
<1> QED
  BY <1>2, <1>3, <1>4, <1>5, <1>6

LEMMA EncodedUnpadded ==
  ASSUME NEW in \in Seq(Octet), NEW e, e = b64_encode(in), NEW n, n = Len(in)
  PROVE  Unpadded(e, TRUE) = SubSeq(e, 1, Chars(n))
<1>1. /\ e \in Seq(Int) /\ Len(e) \in Nat
      /\ n \in Nat /\ Chars(n) \in 0..Len(e) /\ Len(e) - Chars(n) \in 0..2 /\ Len(e) % 4 = 0
      /\ \A k \in 1..Chars(n) : e[k] \in Alphabet
      /\ \A k \in Chars(n) + 1..Len(e) : e[k] = Pad
  BY EncodedShape
<1>2. Pad \notin Alphabet
  BY DEF Pad, Alphabet
<1> DEFINE L == Len(e)
           m == Chars(n)
<1>3. L \in Nat /\ m \in Nat /\ (L = m \/ L = m + 1 \/ L = m + 2) /\ (L # 0 => L > 1 /\ m # 0)
  <2>1. L \in Nat /\ m \in 0..L /\ L - m \in 0..2 /\ L % 4 = 0
    BY <1>1
  <2> HIDE DEF L, m
  <2> QED
    BY <2>1
<1> HIDE DEF L, m
<1>4. Padding(e) = L - m
  <2>1. CASE L = 0
    <3>1. m = 0
      BY <1>3, <2>1
    <3> QED
      BY <2>1, <3>1 DEF Padding, L
  <2>2. CASE L # 0 /\ L = m
    <3>1. e[L] \in Alphabet
      BY <1>1, <1>3, <2>2 DEF L, m
    <3> QED
      BY <1>2, <1>3, <2>2, <3>1 DEF Padding, L
  <2>3. CASE L = m + 1
    <3>1. L \in m + 1..L /\ L - 1 \in 1..m
      BY <1>3, <2>3
    <3>2. e[L] = Pad /\ e[L - 1] \in Alphabet
      BY <1>1, <3>1 DEF L, m
    <3> QED
      BY <1>2, <1>3, <2>3, <3>2 DEF Padding, L
  <2>4. CASE L = m + 2
    <3>1. L \in m + 1..L /\ L - 1 \in m + 1..L
      BY <1>3, <2>4
    <3>2. e[L] = Pad /\ e[L - 1] = Pad
      BY <1>1, <3>1 DEF L, m
    <3> QED
      BY <1>3, <2>4, <3>2 DEF Padding, L
  <2> QED
    BY <1>3, <2>1, <2>2, <2>3, <2>4
<1>5. L - (L - m) = m
  BY <1>3
<1> QED
  BY <1>4, <1>5 DEF Unpadded, L, m

\* What is decoded of characters that are.
DecodedByte(s, c, r) == ((s[c] * 64 + s[c + 1]) \div 2^(4 - r)) % 256
Decoded(s) == [k \in 1..(6 * Len(s)) \div 8 |-> DecodedByte(s, (8 * (k - 1)) \div 6 + 1, (8 * (k - 1)) % 6)]
LEMMA DecodeIs ==
  ASSUME NEW in, NEW padded, NEW s, s = Unpadded(in, padded)
  PROVE  b64_decode(in, padded) = IF \/ padded /\ Len(in) % 4 # 0
                                     \/ Len(s) % 4 = 1
                                     \/ \E i \in DOMAIN s : s[i] \notin Alphabet
                                     \/ ~NoBitsLeft(s)
                                    THEN NotRead ELSE Decoded(s)
  BY DEF b64_decode, Decoded, DecodedByte

\* The three bytes of a quad.
Triple(x1, x2, x3, x4, j) == CASE j = 0 -> x1 * 4 + x2 \div 16
                               [] j = 1 -> (x2 % 16) * 16 + x3 \div 4
                               [] j = 2 -> (x3 % 4) * 64 + x4
LEMMA TripleOf ==
  ASSUME NEW x \in Alphabet, NEW y \in Alphabet
  PROVE  /\ ((x * 64 + y) \div 2^4) % 256 = x * 4 + y \div 16
         /\ ((x * 64 + y) \div 2^2) % 256 = (x % 16) * 16 + y \div 4
         /\ ((x * 64 + y) \div 2^0) % 256 = (x % 4) * 64 + y
<1>0. x \in Int /\ 0 <= x /\ x < 64 /\ y \in Int /\ 0 <= y /\ y < 64
  BY DEF Alphabet
<1>1. 2^4 = 16 /\ 2^2 = 4 /\ 2^0 = 1
  OBVIOUS
<1>2. ((x * 64 + y) \div 16) % 256 = x * 4 + y \div 16
  BY <1>0
<1>3. ((x * 64 + y) \div 4) % 256 = (x % 16) * 16 + y \div 4
  BY <1>0
<1>4. ((x * 64 + y) \div 1) % 256 = (x % 4) * 64 + y
  BY <1>0
<1> QED
  BY <1>1, <1>2, <1>3, <1>4

\* Characters are whole quads and, of the last one, two or three.
LEMMA Groups ==
  ASSUME NEW m \in Nat, m % 4 # 1
  PROVE  \E t \in Nat, r \in 0..2 : /\ m = IF r = 0 THEN 4 * t ELSE 4 * t + r + 1
                                    /\ (6 * m) \div 8 = 3 * t + r
                                    /\ (6 * m) % 8 = IF r = 0 THEN 0 ELSE IF r = 1 THEN 4 ELSE 2
<1> DEFINE t == m \div 4
           p == m % 4
<1>1. t \in Nat /\ m = 4 * t + p /\ (p = 0 \/ p = 2 \/ p = 3)
  OBVIOUS
<1> HIDE DEF t, p
<1>2. CASE p = 0
  <2>1. m = 4 * t /\ (6 * m) \div 8 = 3 * t + 0 /\ (6 * m) % 8 = 0
    BY <1>1, <1>2
  <2> QED
    BY <1>1, <2>1
<1>3. CASE p = 2
  <2>1. m = 4 * t + 1 + 1 /\ (6 * m) \div 8 = 3 * t + 1 /\ (6 * m) % 8 = 4
    BY <1>1, <1>3
  <2> QED
    BY <1>1, <2>1
<1>4. CASE p = 3
  <2>1. m = 4 * t + 2 + 1 /\ (6 * m) \div 8 = 3 * t + 2 /\ (6 * m) % 8 = 2
    BY <1>1, <1>4
  <2> QED
    BY <1>1, <2>1
<1> QED
  BY <1>1, <1>2, <1>3, <1>4

LEMMA DecodedAt ==
  ASSUME NEW s \in Seq(Alphabet), Len(s) % 4 # 1, NEW t \in Nat, NEW j \in 0..2, 3 * t + j + 1 \in 1..(6 * Len(s)) \div 8
  PROVE  /\ 4 * t + j + 1 \in 1..Len(s) /\ 4 * t + j + 2 \in 1..Len(s)
         /\ Decoded(s)[3 * t + j + 1] = Triple(s[4 * t + 1], s[4 * t + 2], s[4 * t + 3], s[4 * t + 4], j)
<1> DEFINE k == 3 * t + j + 1
           m == Len(s)
<1>1. m \in Nat /\ \A i \in 1..m : s[i] \in Alphabet
  OBVIOUS
<1>2. PICK u \in Nat, r \in 0..2 : m = (IF r = 0 THEN 4 * u ELSE 4 * u + r + 1) /\ (6 * m) \div 8 = 3 * u + r
  <2> HIDE DEF m
  <2> QED
    BY <1>1, Groups DEF m
<1> HIDE DEF m
<1>3. 4 * t + j + 1 \in 1..m /\ 4 * t + j + 2 \in 1..m
  <2>1. 3 * t + j + 1 <= 3 * u + r
    BY <1>2 DEF m
  <2>2. CASE t < u
    BY <1>2, <2>2
  <2>3. CASE t >= u
    BY <1>2, <2>1, <2>3
  <2> QED
    BY <1>2, <2>2, <2>3
<1>4. Decoded(s)[k] = DecodedByte(s, (8 * (k - 1)) \div 6 + 1, (8 * (k - 1)) % 6)
  BY DEF Decoded
<1>5. (8 * (k - 1)) \div 6 + 1 = 4 * t + j + 1 /\ (8 * (k - 1)) % 6 = 2 * j
  <2>1. CASE j = 0
    BY <2>1
  <2>2. CASE j = 1
    BY <2>2
  <2>3. CASE j = 2
    BY <2>3
  <2> QED
    BY <2>1, <2>2, <2>3
<1> DEFINE x == s[4 * t + j + 1]
           y == s[4 * t + j + 2]
<1>6. Decoded(s)[k] = ((x * 64 + y) \div 2^(4 - 2 * j)) % 256
  <2>1. (4 * t + j + 1) + 1 = 4 * t + j + 2
    OBVIOUS
  <2> HIDE DEF k
  <2> QED
    BY <1>4, <1>5, <2>1 DEF DecodedByte
<1>7. x \in Alphabet /\ y \in Alphabet
  BY <1>1, <1>3
<1>8. /\ ((x * 64 + y) \div 2^4) % 256 = x * 4 + y \div 16
      /\ ((x * 64 + y) \div 2^2) % 256 = (x % 16) * 16 + y \div 4
      /\ ((x * 64 + y) \div 2^0) % 256 = (x % 4) * 64 + y
  <2> HIDE DEF x, y
  <2> QED
    BY <1>7, TripleOf
<1>9. Decoded(s)[k] = Triple(s[4 * t + 1], s[4 * t + 2], s[4 * t + 3], s[4 * t + 4], j)
  <2> HIDE DEF k
  <2>1. CASE j = 0
    <3>1. x = s[4 * t + 1] /\ y = s[4 * t + 2] /\ 4 - 2 * j = 4
      BY <2>1
    <3> HIDE DEF x, y
    <3> QED
      BY <1>6, <1>8, <2>1, <3>1 DEF Triple
  <2>2. CASE j = 1
    <3>1. x = s[4 * t + 2] /\ y = s[4 * t + 3] /\ 4 - 2 * j = 2
      BY <2>2
    <3> HIDE DEF x, y
    <3> QED
      BY <1>6, <1>8, <2>2, <3>1 DEF Triple
  <2>3. CASE j = 2
    <3>1. x = s[4 * t + 3] /\ y = s[4 * t + 4] /\ 4 - 2 * j = 0
      BY <2>3
    <3> HIDE DEF x, y
    <3> QED
      BY <1>6, <1>8, <2>3, <3>1 DEF Triple
  <2> QED
    BY <2>1, <2>2, <2>3
<1> QED
  BY <1>3, <1>9 DEF m, k

-----------------------------------------------------------------------------
(* Bytes are read back.                                                    *)

LEMMA TripleOfSextets ==
  ASSUME NEW b1 \in Octet, NEW b2 \in Octet, NEW b3 \in Octet
  PROVE  /\ (b1 \div 4) * 4 + ((b1 % 4) * 16 + b2 \div 16) \div 16 = b1
         /\ (((b1 % 4) * 16 + b2 \div 16) % 16) * 16 + ((b2 % 16) * 4 + b3 \div 64) \div 4 = b2
         /\ (((b2 % 16) * 4 + b3 \div 64) % 4) * 64 + (b3 % 64) = b3
         /\ ((b1 % 4) * 16 + 0 \div 16) % 16 = 0
         /\ ((b2 % 16) * 4 + 0 \div 64) % 4 = 0
<1>0. b1 \in Int /\ 0 <= b1 /\ b1 < 256 /\ b2 \in Int /\ 0 <= b2 /\ b2 < 256 /\ b3 \in Int /\ 0 <= b3 /\ b3 < 256
  BY DEF Octet
<1>1. (b1 \div 4) * 4 + ((b1 % 4) * 16 + b2 \div 16) \div 16 = b1
  BY <1>0
<1>2. (((b1 % 4) * 16 + b2 \div 16) % 16) * 16 + ((b2 % 16) * 4 + b3 \div 64) \div 4 = b2
  BY <1>0
<1>3. (((b2 % 16) * 4 + b3 \div 64) % 4) * 64 + (b3 % 64) = b3
  BY <1>0
<1>4. ((b1 % 4) * 16 + 0 \div 16) % 16 = 0 /\ ((b2 % 16) * 4 + 0 \div 64) % 4 = 0
  BY <1>0
<1> QED
  BY <1>1, <1>2, <1>3, <1>4

LEMMA InTriple ==
  ASSUME NEW k \in Nat \ {0}
  PROVE  \E t \in Nat, j \in 0..2 : k = 3 * t + j + 1
<1> DEFINE i == k - 1
<1>1. i \in Nat /\ k = i + 1
  OBVIOUS
<1> HIDE DEF i
<1>2. i \div 3 \in Nat /\ i % 3 \in 0..2 /\ i = 3 * (i \div 3) + (i % 3)
  BY <1>1
<1>3. k = 3 * (i \div 3) + (i % 3) + 1
  BY <1>1, <1>2
<1> QED
  BY <1>2, <1>3

LEMMA Reread ==
  ASSUME NEW in \in Seq(Octet), NEW s \in Seq(Alphabet), Len(s) = Chars(Len(in)),
         \A k \in 1..Len(s) : s[k] = b64_encode(in)[k]
  PROVE  Len(s) % 4 # 1 /\ NoBitsLeft(s) /\ Decoded(s) = in
<1> DEFINE n == Len(in)
           m == Len(s)
<1>1. n \in Nat /\ m \in Nat /\ m = Chars(n) /\ DOMAIN in = 1..n /\ DOMAIN s = 1..m /\ \A k \in 1..m : s[k] \in Alphabet
  OBVIOUS
<1>2. PICK t \in Nat, r \in 0..2 : /\ n = 3 * t + r
                                   /\ Chars(n) = IF r = 0 THEN 4 * t ELSE 4 * t + r + 1
                                   /\ b64_encoded_len(n) = IF r = 0 THEN 4 * t ELSE 4 * t + 4
  BY <1>1, Quads
<1>3. m % 4 # 1 /\ (6 * m) \div 8 = n /\ m <= b64_encoded_len(n)
      /\ (6 * m) % 8 = IF r = 0 THEN 0 ELSE IF r = 1 THEN 4 ELSE 2
  <2> HIDE DEF m, n
  <2>1. CASE r = 0
    BY <1>1, <1>2, <2>1
  <2>2. CASE r = 1
    <3>1. m = 4 * t + 2 /\ n = 3 * t + 1 /\ b64_encoded_len(n) = 4 * t + 4
      BY <1>1, <1>2, <2>2
    <3>2. m % 4 # 1 /\ (6 * m) \div 8 = n /\ m <= b64_encoded_len(n) /\ (6 * m) % 8 = 4
      BY <3>1
    <3> QED
      BY <2>2, <3>2
  <2>3. CASE r = 2
    <3>1. m = 4 * t + 3 /\ n = 3 * t + 2 /\ b64_encoded_len(n) = 4 * t + 4
      BY <1>1, <1>2, <2>3
    <3>2. m % 4 # 1 /\ (6 * m) \div 8 = n /\ m <= b64_encoded_len(n) /\ (6 * m) % 8 = 2
      BY <3>1
    <3> QED
      BY <2>3, <3>2
  <2> QED
    BY <2>1, <2>2, <2>3
<1>4. ASSUME NEW u \in Nat, NEW q \in 0..3, 4 * u + q + 1 \in 1..m, 3 * u + q <= n
      PROVE  s[4 * u + q + 1] = Sextet(Byte(in, 3 * u + 1), Byte(in, 3 * u + 2), Byte(in, 3 * u + 3), q)
  <2>1. 4 * u + q + 1 \in 1..b64_encoded_len(n)
    BY <1>1, <1>2, <1>3, <1>4
  <2>2. b64_encode(in)[4 * u + q + 1]
          = IF 3 * u + q > n THEN Pad
            ELSE Sextet(Byte(in, 3 * u + 1), Byte(in, 3 * u + 2), Byte(in, 3 * u + 3), q)
    BY <2>1, EncodedAt
  <2>3. ~(3 * u + q > n)
    BY <1>1, <1>4
  <2> QED
    BY <1>4, <2>2, <2>3
<1> HIDE DEF n, m
<1>5. Decoded(s) = in
  <2>1. DOMAIN Decoded(s) = 1..n /\ Decoded(s) = [k \in 1..n |-> Decoded(s)[k]]
    BY <1>3 DEF Decoded, m
  <2>2. ASSUME NEW k \in 1..n PROVE Decoded(s)[k] = in[k]
    <3>1. PICK u \in Nat, j \in 0..2 : k = 3 * u + j + 1
      <4>1. k \in Nat \ {0}
        BY <1>1
      <4> QED
        BY <4>1, InTriple
    <3>2. /\ 4 * u + j + 1 \in 1..m /\ 4 * u + j + 2 \in 1..m
          /\ Decoded(s)[3 * u + j + 1] = Triple(s[4 * u + 1], s[4 * u + 2], s[4 * u + 3], s[4 * u + 4], j)
      BY <1>3, <3>1, DecodedAt DEF m
    <3> DEFINE b1 == Byte(in, 3 * u + 1)
               b2 == Byte(in, 3 * u + 2)
               b3 == Byte(in, 3 * u + 3)
    <3>3. b1 \in Octet /\ b2 \in Octet /\ b3 \in Octet
      BY ByteIn
    <3>4. in[k] = Byte(in, 3 * u + j + 1)
      <4>1. 3 * u + j + 1 \in Nat \ {0} /\ 3 * u + j + 1 <= Len(in)
        BY <1>1, <3>1 DEF n
      <4> QED
        BY <3>1, <4>1, ByteIn
    <3>5. s[4 * u + j + 1] = Sextet(b1, b2, b3, j) /\ s[4 * u + (j + 1) + 1] = Sextet(b1, b2, b3, j + 1)
      <4>1. 4 * u + (j + 1) + 1 \in 1..m /\ 3 * u + (j + 1) <= n /\ 3 * u + j <= n /\ j + 1 \in 0..3 /\ j \in 0..3
        <5>1. m \in Nat /\ n \in Nat /\ u \in Nat /\ j \in 0..2
          BY <1>1, <3>1
        <5>2. j \in 0..3 /\ j + 1 \in 0..3
          BY <5>1
        <5>3. 4 * u + (j + 1) + 1 \in 1..m
          BY <3>2, <5>1
        <5>4. 3 * u + (j + 1) <= n /\ 3 * u + j <= n
          BY <3>1, <5>1 DEF n
        <5> QED
          BY <5>2, <5>3, <5>4
      <4> QED
        BY <1>4, <3>2, <4>1
    <3> HIDE DEF b1, b2, b3
    <3>6. /\ (b1 \div 4) * 4 + ((b1 % 4) * 16 + b2 \div 16) \div 16 = b1
          /\ (((b1 % 4) * 16 + b2 \div 16) % 16) * 16 + ((b2 % 16) * 4 + b3 \div 64) \div 4 = b2
          /\ (((b2 % 16) * 4 + b3 \div 64) % 4) * 64 + (b3 % 64) = b3
      BY <3>3, TripleOfSextets
    <3>7. CASE j = 0
      <4>1. s[4 * u + 1] = Sextet(b1, b2, b3, 0) /\ s[4 * u + 2] = Sextet(b1, b2, b3, 1)
        BY <3>5, <3>7
      <4>2. s[4 * u + 1] = b1 \div 4 /\ s[4 * u + 2] = (b1 % 4) * 16 + b2 \div 16
        BY <4>1 DEF Sextet
      <4>3. Decoded(s)[k] = s[4 * u + 1] * 4 + s[4 * u + 2] \div 16
        BY <3>1, <3>2, <3>7 DEF Triple
      <4>4. in[k] = b1
        BY <3>4, <3>7 DEF b1
      <4> QED
        BY <3>6, <4>2, <4>3, <4>4
    <3>8. CASE j = 1
      <4>1. s[4 * u + 2] = Sextet(b1, b2, b3, 1) /\ s[4 * u + 3] = Sextet(b1, b2, b3, 2)
        BY <3>5, <3>8
      <4>2. s[4 * u + 2] = (b1 % 4) * 16 + b2 \div 16 /\ s[4 * u + 3] = (b2 % 16) * 4 + b3 \div 64
        BY <4>1 DEF Sextet
      <4>3. Decoded(s)[k] = (s[4 * u + 2] % 16) * 16 + s[4 * u + 3] \div 4
        BY <3>1, <3>2, <3>8 DEF Triple
      <4>4. in[k] = b2
        BY <3>4, <3>8 DEF b2
      <4> QED
        BY <3>6, <4>2, <4>3, <4>4
    <3>9. CASE j = 2
      <4>1. s[4 * u + 3] = Sextet(b1, b2, b3, 2) /\ s[4 * u + 4] = Sextet(b1, b2, b3, 3)
        BY <3>5, <3>9
      <4>2. s[4 * u + 3] = (b2 % 16) * 4 + b3 \div 64 /\ s[4 * u + 4] = b3 % 64
        BY <4>1 DEF Sextet
      <4>3. Decoded(s)[k] = (s[4 * u + 3] % 4) * 64 + s[4 * u + 4]
        BY <3>1, <3>2, <3>9 DEF Triple
      <4>4. in[k] = b3
        BY <3>4, <3>9 DEF b3
      <4> QED
        BY <3>6, <4>2, <4>3, <4>4
    <3> QED
      BY <3>7, <3>8, <3>9
  <2>3. in = [k \in 1..n |-> in[k]]
    BY <1>1
  <2> HIDE DEF n
  <2>4. [k \in 1..n |-> Decoded(s)[k]] = [k \in 1..n |-> in[k]]
    BY <2>2
  <2> QED
    BY <2>1, <2>3, <2>4
<1>6. NoBitsLeft(s)
  <2>1. CASE m = 0
    <3>1. s = <<>>
      BY <2>1 DEF m
    <3> QED
      BY <3>1 DEF NoBitsLeft
  <2>2. CASE m # 0 /\ r = 0
    <3>1. s[m] \in Int /\ s[m] % 1 = 0
      <4>1. m \in 1..m
        BY <1>1, <2>2
      <4>2. s[m] \in 0..63
        BY <1>1, <4>1 DEF Alphabet
      <4>3. \A x \in Int : x % 1 = 0
        OBVIOUS
      <4> DEFINE x == s[m]
      <4>4. x \in Int
        <5>1. 0..63 \subseteq Int
          OBVIOUS
        <5> QED
          BY <4>2, <5>1, Zenon
      <4> HIDE DEF x
      <4>5. x % 1 = 0
        BY <4>3, <4>4
      <4> QED
        BY <4>4, <4>5 DEF x
    <3>2. (6 * m) % 8 = 0 /\ 2^0 = 1
      BY <1>3, <2>2
    <3> QED
      BY <3>1, <3>2 DEF NoBitsLeft, m
  <2>3. CASE r = 1
    <3>1. m = 4 * t + 2 /\ (6 * m) % 8 = 4 /\ 2^4 = 16 /\ 3 * t + 1 <= n /\ 3 * t + 2 > n /\ 4 * t + 1 + 1 \in 1..m
      BY <1>1, <1>2, <1>3, <2>3
    <3> DEFINE b1 == Byte(in, 3 * t + 1)
    <3>2. s[m] = Sextet(b1, 0, Byte(in, 3 * t + 3), 1)
      <4>1. 3 * t + 2 \in Nat \ {0} /\ Byte(in, 3 * t + 2) = 0
        <5>1. 3 * t + 2 \in Nat \ {0} /\ 3 * t + 2 > Len(in)
          BY <1>1, <3>1 DEF n
        <5> QED
          BY <5>1, ByteIn
      <4>2. s[4 * t + 1 + 1] = Sextet(b1, Byte(in, 3 * t + 2), Byte(in, 3 * t + 3), 1)
        <5>1. PICK q \in 0..3 : q = 1
          OBVIOUS
        <5>2. s[4 * t + q + 1] = Sextet(Byte(in, 3 * t + 1), Byte(in, 3 * t + 2), Byte(in, 3 * t + 3), q)
          BY <1>4, <3>1, <5>1
        <5> QED
          BY <5>1, <5>2
      <4>3. 4 * t + 1 + 1 = m
        BY <3>1
      <4> QED
        BY <4>1, <4>2, <4>3
    <3>3. b1 \in Octet /\ 0 \in Octet
      <4>1. 3 * t + 1 \in Nat \ {0}
        OBVIOUS
      <4>2. 0 \in Octet
        BY DEF Octet
      <4> QED
        BY <4>1, <4>2, ByteIn
    <3> HIDE DEF b1
    <3>4. s[m] = (b1 % 4) * 16 + 0 \div 16
      BY <3>2 DEF Sextet
    <3>5. s[m] % 16 = 0
      BY <3>3, <3>4, TripleOfSextets
    <3> QED
      BY <3>1, <3>5 DEF NoBitsLeft, m
  <2>4. CASE r = 2
    <3>1. m = 4 * t + 3 /\ (6 * m) % 8 = 2 /\ 2^2 = 4 /\ 3 * t + 2 <= n /\ 3 * t + 3 > n /\ 4 * t + 2 + 1 \in 1..m
      BY <1>1, <1>2, <1>3, <2>4
    <3> DEFINE b2 == Byte(in, 3 * t + 2)
    <3>2. s[m] = Sextet(Byte(in, 3 * t + 1), b2, 0, 2)
      <4>1. 3 * t + 3 \in Nat \ {0} /\ Byte(in, 3 * t + 3) = 0
        <5>1. 3 * t + 3 \in Nat \ {0} /\ 3 * t + 3 > Len(in)
          BY <1>1, <3>1 DEF n
        <5> QED
          BY <5>1, ByteIn
      <4>2. s[4 * t + 2 + 1] = Sextet(Byte(in, 3 * t + 1), b2, Byte(in, 3 * t + 3), 2)
        <5>1. PICK q \in 0..3 : q = 2
          OBVIOUS
        <5>2. s[4 * t + q + 1] = Sextet(Byte(in, 3 * t + 1), Byte(in, 3 * t + 2), Byte(in, 3 * t + 3), q)
          BY <1>4, <3>1, <5>1
        <5> QED
          BY <5>1, <5>2
      <4>3. 4 * t + 2 + 1 = m
        BY <3>1
      <4> QED
        BY <4>1, <4>2, <4>3
    <3>3. b2 \in Octet /\ 0 \in Octet
      <4>1. 3 * t + 2 \in Nat \ {0}
        OBVIOUS
      <4>2. 0 \in Octet
        BY DEF Octet
      <4> QED
        BY <4>1, <4>2, ByteIn
    <3> HIDE DEF b2
    <3>4. s[m] = (b2 % 16) * 4 + 0 \div 64
      BY <3>2 DEF Sextet
    <3>5. s[m] % 4 = 0
      BY <3>3, <3>4, TripleOfSextets
    <3> QED
      BY <3>1, <3>5 DEF NoBitsLeft, m
  <2> QED
    BY <2>1, <2>2, <2>3, <2>4
<1> QED
  BY <1>3, <1>5, <1>6 DEF m

\* Whatever bytes b64_encode is given, b64_decode gives them back, with their padding and without.
THEOREM BytesAreReadBack ==
  ASSUME NEW bytes \in Seq(0..255)
  PROVE  BytesReadBack(bytes)
<1> DEFINE e == b64_encode(bytes)
           m == Chars(Len(bytes))
           s == SubSeq(e, 1, m)
<1>0. bytes \in Seq(Octet)
  BY DEF Octet
<1>1. /\ e \in Seq(Int) /\ Len(e) \in Nat /\ m \in 0..Len(e) /\ Len(e) % 4 = 0
      /\ \A k \in 1..m : e[k] \in Alphabet
  <2> DEFINE n == Len(bytes)
  <2>1. e = b64_encode(bytes) /\ n = Len(bytes) /\ m = Chars(n)
    OBVIOUS
  <2> HIDE DEF e, m, n
  <2>2. e \in Seq(Int) /\ Chars(n) \in 0..Len(e) /\ Len(e) % 4 = 0 /\ \A k \in 1..Chars(n) : e[k] \in Alphabet
    BY <1>0, <2>1, EncodedShape
  <2> QED
    BY <2>1, <2>2
<1>2. Unpadded(e, TRUE) = s
  BY <1>0, EncodedUnpadded
<1> HIDE DEF e, m
<1>3. Len(s) = m /\ s \in Seq(Alphabet) /\ \A k \in 1..m : s[k] = e[k]
  BY <1>1
<1>4. Len(s) % 4 # 1 /\ NoBitsLeft(s) /\ Decoded(s) = bytes
  BY <1>0, <1>3, Reread DEF e, m
<1>5. \A i \in DOMAIN s : s[i] \in Alphabet
  BY <1>3
<1> HIDE DEF s
<1>6. b64_decode(e, TRUE) = bytes
  BY <1>1, <1>2, <1>4, <1>5, DecodeIs
<1>7. b64_decode(s, FALSE) = bytes
  <2>1. s = Unpadded(s, FALSE)
    BY DEF Unpadded
  <2> QED
    BY <1>4, <1>5, <2>1, DecodeIs
<1> QED
  BY <1>6, <1>7 DEF BytesReadBack, e, s, m, Chars

-----------------------------------------------------------------------------
(* Characters are written back.                                            *)

LEMMA SextetOfTriples ==
  ASSUME NEW x1 \in Alphabet, NEW x2 \in Alphabet, NEW x3 \in Alphabet, NEW x4 \in Alphabet
  PROVE  /\ (x1 * 4 + x2 \div 16) \div 4 = x1
         /\ (x1 * 4 + x2 \div 16) % 4 = x2 \div 16
         /\ (x2 \div 16) * 16 + (x2 % 16) = x2
         /\ ((x2 % 16) * 16 + x3 \div 4) \div 16 = x2 % 16
         /\ ((x2 % 16) * 16 + x3 \div 4) % 16 = x3 \div 4
         /\ (x3 \div 4) * 4 + (x3 % 4) = x3
         /\ ((x3 % 4) * 64 + x4) \div 64 = x3 % 4
         /\ ((x3 % 4) * 64 + x4) % 64 = x4
<1>0. x1 \in Int /\ 0 <= x1 /\ x1 < 64 /\ x2 \in Int /\ 0 <= x2 /\ x2 < 64 /\ x3 \in Int /\ 0 <= x3 /\ x3 < 64 /\ x4 \in Int /\ 0 <= x4 /\ x4 < 64
  BY DEF Alphabet
<1>1. (x1 * 4 + x2 \div 16) \div 4 = x1 /\ (x1 * 4 + x2 \div 16) % 4 = x2 \div 16
  BY <1>0
<1>2. (x2 \div 16) * 16 + (x2 % 16) = x2 /\ (x3 \div 4) * 4 + (x3 % 4) = x3
  BY <1>0
<1>3. ((x2 % 16) * 16 + x3 \div 4) \div 16 = x2 % 16 /\ ((x2 % 16) * 16 + x3 \div 4) % 16 = x3 \div 4
  BY <1>0
<1>4. ((x3 % 4) * 64 + x4) \div 64 = x3 % 4 /\ ((x3 % 4) * 64 + x4) % 64 = x4
  BY <1>0
<1> QED
  BY <1>1, <1>2, <1>3, <1>4

LEMMA TripleIn ==
  ASSUME NEW x \in Alphabet, NEW y \in Alphabet
  PROVE  /\ x * 4 + y \div 16 \in Octet
         /\ (x % 16) * 16 + y \div 4 \in Octet
         /\ (x % 4) * 64 + y \in Octet
<1>1. x \in Int /\ 0 <= x /\ x < 64 /\ y \in Int /\ 0 <= y /\ y < 64
  BY DEF Alphabet
<1>2. \A v \in Int : 0 <= v /\ v < 256 => v \in Octet
  BY DEF Octet
<1>3. x * 4 + y \div 16 \in Int /\ 0 <= x * 4 + y \div 16 /\ x * 4 + y \div 16 < 256
  BY <1>1
<1>4. (x % 16) * 16 + y \div 4 \in Int /\ 0 <= (x % 16) * 16 + y \div 4 /\ (x % 16) * 16 + y \div 4 < 256
  BY <1>1
<1>5. (x % 4) * 64 + y \in Int /\ 0 <= (x % 4) * 64 + y /\ (x % 4) * 64 + y < 256
  BY <1>1
<1> QED
  BY <1>2, <1>3, <1>4, <1>5

\* Bytes b of whole characters s.
LEMMA BytesOf ==
  ASSUME NEW s \in Seq(Alphabet), Len(s) % 4 # 1, NEW b, b = Decoded(s)
  PROVE  /\ b \in Seq(Octet) /\ Len(b) = (6 * Len(s)) \div 8
         /\ Chars(Len(b)) = Len(s)
<1> DEFINE m == Len(s)
           n == (6 * m) \div 8
<1>1. m \in Nat /\ \A i \in 1..m : s[i] \in Alphabet
  OBVIOUS
<1>2. PICK t \in Nat, r \in 0..2 : m = (IF r = 0 THEN 4 * t ELSE 4 * t + r + 1) /\ (6 * m) \div 8 = 3 * t + r
  <2> HIDE DEF m
  <2> QED
    BY <1>1, Groups DEF m
<1>3. n \in Nat /\ Chars(n) = m
  <2> HIDE DEF m
  <2>1. CASE r = 0
    <3>1. m = 4 * t /\ n = 3 * t /\ (8 * (3 * t) + 5) \div 6 = 4 * t
      BY <1>2, <2>1
    <3> QED
      BY <3>1 DEF Chars
  <2>2. CASE r = 1
    <3>1. m = 4 * t + 2 /\ n = 3 * t + 1 /\ (8 * (3 * t + 1) + 5) \div 6 = 4 * t + 2
      BY <1>2, <2>2
    <3> QED
      BY <3>1 DEF Chars
  <2>3. CASE r = 2
    <3>1. m = 4 * t + 3 /\ n = 3 * t + 2 /\ (8 * (3 * t + 2) + 5) \div 6 = 4 * t + 3
      BY <1>2, <2>3
    <3> QED
      BY <3>1 DEF Chars
  <2> QED
    BY <2>1, <2>2, <2>3
<1>4. ASSUME NEW k \in 1..n PROVE Decoded(s)[k] \in Octet
  <2>1. PICK u \in Nat, j \in 0..2 : k = 3 * u + j + 1
    <3>1. k \in Nat \ {0}
      OBVIOUS
    <3> QED
      BY <3>1, InTriple
  <2>2. /\ 4 * u + j + 1 \in 1..m /\ 4 * u + j + 2 \in 1..m
        /\ Decoded(s)[3 * u + j + 1] = Triple(s[4 * u + 1], s[4 * u + 2], s[4 * u + 3], s[4 * u + 4], j)
    BY <2>1, DecodedAt
  <2>3. CASE j = 0
    <3>1. s[4 * u + 1] \in Alphabet /\ s[4 * u + 2] \in Alphabet
      BY <1>1, <2>2, <2>3
    <3>2. s[4 * u + 1] * 4 + s[4 * u + 2] \div 16 \in Octet
      BY <3>1, TripleIn
    <3> QED
      BY <2>1, <2>2, <2>3, <3>2 DEF Triple
  <2>4. CASE j = 1
    <3>1. s[4 * u + 2] \in Alphabet /\ s[4 * u + 3] \in Alphabet
      BY <1>1, <2>2, <2>4
    <3>2. (s[4 * u + 2] % 16) * 16 + s[4 * u + 3] \div 4 \in Octet
      BY <3>1, TripleIn
    <3> QED
      BY <2>1, <2>2, <2>4, <3>2 DEF Triple
  <2>5. CASE j = 2
    <3>1. s[4 * u + 3] \in Alphabet /\ s[4 * u + 4] \in Alphabet
      BY <1>1, <2>2, <2>5
    <3>2. (s[4 * u + 3] % 4) * 64 + s[4 * u + 4] \in Octet
      BY <3>1, TripleIn
    <3> QED
      BY <2>1, <2>2, <2>5, <3>2 DEF Triple
  <2> QED
    BY <2>3, <2>4, <2>5
<1>5. DOMAIN Decoded(s) = 1..n /\ Decoded(s) = [k \in 1..n |-> Decoded(s)[k]]
  BY DEF Decoded
<1> HIDE DEF m, n
<1>6. Decoded(s) \in Seq(Octet) /\ Len(Decoded(s)) = n
  BY <1>3, <1>4, <1>5
<1> QED
  BY <1>3, <1>6 DEF m, n

LEMMA Rewritten ==
  ASSUME NEW s \in Seq(Alphabet), Len(s) % 4 # 1, NoBitsLeft(s), NEW b, b = Decoded(s), NEW k \in 1..Len(s)
  PROVE  b64_encode(b)[k] = s[k]
<1> DEFINE m == Len(s)
           n == Len(b)
<1>1. m \in Nat /\ (\A i \in 1..m : s[i] \in Alphabet) /\ k \in 1..m
  OBVIOUS
<1>2. b \in Seq(Octet) /\ n \in Nat /\ Chars(n) = m /\ n = (6 * m) \div 8
  <2>1. b \in Seq(Octet) /\ Len(b) = (6 * Len(s)) \div 8 /\ Chars(Len(b)) = Len(s)
    BY BytesOf
  <2> QED
    BY <2>1
<1>3. NoBitsLeft(s) /\ m % 4 # 1
  OBVIOUS
<1> HIDE DEF m, n
<1>4. PICK t \in Nat, r \in 0..2 : /\ m = IF r = 0 THEN 4 * t ELSE 4 * t + r + 1
                                   /\ (6 * m) \div 8 = 3 * t + r
                                   /\ (6 * m) % 8 = IF r = 0 THEN 0 ELSE IF r = 1 THEN 4 ELSE 2
  BY <1>1, <1>3, Groups
<1>5. PICK u \in Nat, q \in 0..3 : k = 4 * u + q + 1
  <2>1. k \in Nat \ {0}
    BY <1>1
  <2> QED
    BY <2>1, InQuad
<1> DEFINE b1 == Byte(b, 3 * u + 1)
           b2 == Byte(b, 3 * u + 2)
           b3 == Byte(b, 3 * u + 3)
           x1 == s[4 * u + 1]
           x2 == s[4 * u + 2]
           x3 == s[4 * u + 3]
           x4 == s[4 * u + 4]
<1>6. 3 * u + q <= n /\ k <= b64_encoded_len(n) /\ 3 * u + 1 <= n /\ (k = 4 * u + 1 => 4 * u + 2 \in 1..m)
  <2>1. 4 * u + q + 1 <= m
    BY <1>1, <1>5
  <2>2. CASE r = 0
    <3>1. m = 4 * t /\ n = 3 * t
      BY <1>2, <1>4, <2>2
    <3> QED
      BY <1>5, <2>1, <3>1 DEF b64_encoded_len
  <2>3. CASE r = 1
    <3>1. m = 4 * t + 2 /\ n = 3 * t + 1
      BY <1>2, <1>4, <2>3
    <3> QED
      BY <1>5, <2>1, <3>1 DEF b64_encoded_len
  <2>4. CASE r = 2
    <3>1. m = 4 * t + 3 /\ n = 3 * t + 2
      BY <1>2, <1>4, <2>4
    <3> QED
      BY <1>5, <2>1, <3>1 DEF b64_encoded_len
  <2> QED
    BY <2>2, <2>3, <2>4
<1>7. b64_encode(b)[k] = Sextet(b1, b2, b3, q)
  <2>1. 4 * u + q + 1 \in 1..b64_encoded_len(Len(b))
    BY <1>1, <1>5, <1>6 DEF n
  <2>2. b64_encode(b)[4 * u + q + 1] = IF 3 * u + q > Len(b) THEN Pad ELSE Sextet(b1, b2, b3, q)
    BY <1>2, <2>1, EncodedAt
  <2>3. ~(3 * u + q > Len(b))
    BY <1>2, <1>6 DEF n
  <2> HIDE DEF b1, b2, b3
  <2> QED
    BY <1>5, <2>2, <2>3
<1>8. \A j \in 0..2 : 3 * u + j + 1 <= n =>
         /\ 4 * u + j + 1 \in 1..m /\ 4 * u + j + 2 \in 1..m
         /\ Byte(b, 3 * u + j + 1) = Triple(x1, x2, x3, x4, j)
  <2> SUFFICES ASSUME NEW j \in 0..2, 3 * u + j + 1 <= n
               PROVE  /\ 4 * u + j + 1 \in 1..m /\ 4 * u + j + 2 \in 1..m
                      /\ Byte(b, 3 * u + j + 1) = Triple(x1, x2, x3, x4, j)
    BY Zenon
  <2>1. 3 * u + j + 1 \in 1..(6 * Len(s)) \div 8 /\ 3 * u + j + 1 \in Nat \ {0} /\ 3 * u + j + 1 <= Len(b)
    BY <1>2 DEF m, n
  <2>2. 4 * u + j + 1 \in 1..m /\ 4 * u + j + 2 \in 1..m /\ Decoded(s)[3 * u + j + 1] = Triple(x1, x2, x3, x4, j)
    BY <1>3, <2>1, DecodedAt DEF m
  <2>3. Byte(b, 3 * u + j + 1) = b[3 * u + j + 1]
    BY <1>2, <2>1, ByteIn
  <2> QED
    BY <2>2, <2>3
<1>9. /\ b1 = x1 * 4 + x2 \div 16 /\ x1 \in Alphabet /\ x2 \in Alphabet
      /\ 3 * u + 2 <= n => b2 = (x2 % 16) * 16 + x3 \div 4 /\ x3 \in Alphabet
      /\ 3 * u + 3 <= n => b3 = (x3 % 4) * 64 + x4 /\ x4 \in Alphabet
  <2>1. b1 = x1 * 4 + x2 \div 16 /\ x1 \in Alphabet /\ x2 \in Alphabet
    <3>1. PICK j \in 0..2 : j = 0
      OBVIOUS
    <3>2. 3 * u + j + 1 <= n /\ 3 * u + j + 1 = 3 * u + 1 /\ 4 * u + j + 1 = 4 * u + 1 /\ 4 * u + j + 2 = 4 * u + 2
      BY <1>6, <3>1
    <3>3. 4 * u + j + 1 \in 1..m /\ 4 * u + j + 2 \in 1..m /\ Byte(b, 3 * u + j + 1) = Triple(x1, x2, x3, x4, j)
      BY <1>8, <3>2
    <3>4. x1 \in Alphabet /\ x2 \in Alphabet
      BY <1>1, <3>2, <3>3
    <3> HIDE DEF x1, x2, x3, x4
    <3> QED
      BY <3>1, <3>2, <3>3, <3>4 DEF Triple
  <2>2. ASSUME 3 * u + 2 <= n PROVE b2 = (x2 % 16) * 16 + x3 \div 4 /\ x3 \in Alphabet
    <3>1. PICK j \in 0..2 : j = 1
      OBVIOUS
    <3>2. 3 * u + j + 1 <= n /\ 3 * u + j + 1 = 3 * u + 2 /\ 4 * u + j + 2 = 4 * u + 3
      BY <2>2, <3>1
    <3>3. 4 * u + j + 2 \in 1..m /\ Byte(b, 3 * u + j + 1) = Triple(x1, x2, x3, x4, j)
      BY <1>8, <3>2
    <3>4. x3 \in Alphabet
      BY <1>1, <3>2, <3>3
    <3> HIDE DEF x1, x2, x3, x4
    <3> QED
      BY <3>1, <3>2, <3>3, <3>4 DEF Triple
  <2>3. ASSUME 3 * u + 3 <= n PROVE b3 = (x3 % 4) * 64 + x4 /\ x4 \in Alphabet
    <3>1. PICK j \in 0..2 : j = 2
      OBVIOUS
    <3>2. 3 * u + j + 1 <= n /\ 3 * u + j + 1 = 3 * u + 3 /\ 4 * u + j + 2 = 4 * u + 4
      BY <2>3, <3>1
    <3>3. 4 * u + j + 2 \in 1..m /\ Byte(b, 3 * u + j + 1) = Triple(x1, x2, x3, x4, j)
      BY <1>8, <3>2
    <3>4. x4 \in Alphabet
      BY <1>1, <3>2, <3>3
    <3> HIDE DEF x1, x2, x3, x4
    <3> QED
      BY <3>1, <3>2, <3>3, <3>4 DEF Triple
  <2> QED
    BY <2>1, <2>2, <2>3
\* What the bytes that are not there leave of the last character.
<1>10. /\ q = 1 /\ ~(3 * u + 2 <= n) => b2 = 0 /\ x2 % 16 = 0
       /\ q = 2 /\ ~(3 * u + 3 <= n) => b3 = 0 /\ x3 % 4 = 0
  <2>1. s # <<>> => s[m] % 2^((6 * m) % 8) = 0
    BY <1>3 DEF NoBitsLeft, m
  <2>2. s # <<>>
    BY <1>1 DEF m
  <2>3. ASSUME q = 1, ~(3 * u + 2 <= n) PROVE b2 = 0 /\ x2 % 16 = 0
    <3>1. m = 4 * u + 2 /\ (6 * m) % 8 = 4 /\ 2^4 = 16
      BY <1>1, <1>2, <1>4, <1>5, <1>6, <2>3
    <3>2. 3 * u + 2 \in Nat \ {0} /\ 3 * u + 2 > Len(b)
      BY <1>2, <2>3 DEF n
    <3>3. b2 = 0
      BY <1>2, <3>2, ByteIn
    <3> QED
      BY <2>1, <2>2, <3>1, <3>3
  <2>4. ASSUME q = 2, ~(3 * u + 3 <= n) PROVE b3 = 0 /\ x3 % 4 = 0
    <3>1. m = 4 * u + 3 /\ (6 * m) % 8 = 2 /\ 2^2 = 4
      BY <1>1, <1>2, <1>4, <1>5, <1>6, <2>4
    <3>2. 3 * u + 3 \in Nat \ {0} /\ 3 * u + 3 > Len(b)
      BY <1>2, <2>4 DEF n
    <3>3. b3 = 0
      BY <1>2, <3>2, ByteIn
    <3> QED
      BY <2>1, <2>2, <3>1, <3>3
  <2> QED
    BY <2>3, <2>4
<1>11. s[k] = IF q = 0 THEN x1 ELSE IF q = 1 THEN x2 ELSE IF q = 2 THEN x3 ELSE x4
  BY <1>5
<1>12. \A x, y \in Alphabet : (x * 4 + y \div 16) \div 4 = x /\ (x * 4 + y \div 16) % 4 = y \div 16
                              /\ (y \div 16) * 16 + (y % 16) = y /\ (y \div 4) * 4 + (y % 4) = y
                              /\ ((x % 16) * 16 + y \div 4) \div 16 = x % 16 /\ ((x % 16) * 16 + y \div 4) % 16 = y \div 4
                              /\ ((x % 4) * 64 + y) \div 64 = x % 4 /\ ((x % 4) * 64 + y) % 64 = y
                              /\ y \div 16 \in Int /\ y \div 4 \in Int /\ x % 16 \in Int /\ x % 4 \in Int
  <2> SUFFICES ASSUME NEW x \in Alphabet, NEW y \in Alphabet
               PROVE  /\ (x * 4 + y \div 16) \div 4 = x /\ (x * 4 + y \div 16) % 4 = y \div 16
                      /\ (y \div 16) * 16 + (y % 16) = y /\ (y \div 4) * 4 + (y % 4) = y
                      /\ ((x % 16) * 16 + y \div 4) \div 16 = x % 16 /\ ((x % 16) * 16 + y \div 4) % 16 = y \div 4
                      /\ ((x % 4) * 64 + y) \div 64 = x % 4 /\ ((x % 4) * 64 + y) % 64 = y
                      /\ y \div 16 \in Int /\ y \div 4 \in Int /\ x % 16 \in Int /\ x % 4 \in Int
    OBVIOUS
  <2>1. y \div 16 \in Int /\ y \div 4 \in Int /\ x % 16 \in Int /\ x % 4 \in Int
    BY DEF Alphabet
  <2> QED
    BY <2>1, SextetOfTriples
<1>13. 0 \div 16 = 0 /\ 0 \div 64 = 0
  OBVIOUS
<1>14. 3 * u + q <= n
  BY <1>6
<1> HIDE DEF b1, b2, b3, x1, x2, x3, x4
<1>15. CASE q = 0
  <2>1. b64_encode(b)[k] = b1 \div 4 /\ s[k] = x1
    BY <1>7, <1>11, <1>15 DEF Sextet
  <2> QED
    BY <1>9, <1>12, <2>1
<1>16. CASE q = 1
  <2>1. b64_encode(b)[k] = (b1 % 4) * 16 + b2 \div 16 /\ s[k] = x2
    BY <1>7, <1>11, <1>16 DEF Sextet
  <2>2. b1 % 4 = x2 \div 16 /\ (x2 \div 16) * 16 + (x2 % 16) = x2
    BY <1>9, <1>12
  <2>3. b2 \div 16 = x2 % 16
    <3>1. CASE 3 * u + 2 <= n
      BY <1>9, <1>12, <3>1
    <3>2. CASE ~(3 * u + 2 <= n)
      BY <1>10, <1>13, <1>16, <3>2
    <3> QED
      BY <3>1, <3>2
  <2> QED
    BY <2>1, <2>2, <2>3
<1>17. CASE q = 2
  <2>1. b64_encode(b)[k] = (b2 % 16) * 4 + b3 \div 64 /\ s[k] = x3
    BY <1>7, <1>11, <1>17 DEF Sextet
  <2>2. 3 * u + 2 <= n
    BY <1>14, <1>17
  <2>3. b2 % 16 = x3 \div 4 /\ (x3 \div 4) * 4 + (x3 % 4) = x3
    BY <1>9, <1>12, <2>2
  <2>4. b3 \div 64 = x3 % 4
    <3>1. CASE 3 * u + 3 <= n
      BY <1>9, <1>12, <2>2, <3>1
    <3>2. CASE ~(3 * u + 3 <= n)
      BY <1>10, <1>13, <1>17, <3>2
    <3> QED
      BY <3>1, <3>2
  <2> QED
    BY <2>1, <2>3, <2>4
<1>18. CASE q = 3
  <2>1. b64_encode(b)[k] = b3 % 64 /\ s[k] = x4
    BY <1>7, <1>11, <1>18 DEF Sextet
  <2>2. 3 * u + 3 <= n /\ 3 * u + 2 <= n
    BY <1>2, <1>14, <1>18
  <2> QED
    BY <1>9, <1>12, <2>1, <2>2
<1> QED
  BY <1>15, <1>16, <1>17, <1>18

\* b64_decode accepts only what b64_encode writes: no two encodings are read as the same bytes, so a
\* signature or an age header can be compared as it is.
THEOREM OnlyCanonical ==
  ASSUME NEW in \in Seq(Int)
  PROVE  CanonicalOnly(in)
<1> DEFINE s == Unpadded(in, TRUE)
           b == b64_decode(in, TRUE)
<1>1. SUFFICES ASSUME b # NotRead PROVE b64_encode(b) = in
  BY Zenon DEF CanonicalOnly
<1>2. /\ Len(in) % 4 = 0 /\ Len(s) % 4 # 1 /\ (\A i \in DOMAIN s : s[i] \in Alphabet) /\ NoBitsLeft(s)
      /\ b = Decoded(s)
  <2>1. s = Unpadded(in, TRUE) /\ b = b64_decode(in, TRUE)
    OBVIOUS
  <2> HIDE DEF s, b
  <2> QED
    BY <1>1, <2>1, DecodeIs
<1> DEFINE L == Len(in)
           pad == Padding(in)
<1>3. L \in Nat /\ DOMAIN in = 1..L /\ \A k \in 1..L : in[k] \in Int
  OBVIOUS
<1> HIDE DEF L
<1>4. pad \in 0..2 /\ pad <= L /\ \A k \in 1..L : k > L - pad => in[k] = Pad
  <2>1. CASE L = 0 \/ in[L] # Pad
    <3>1. pad = 0
      BY <2>1 DEF Padding, L
    <3> HIDE DEF pad
    <3> QED
      BY <1>3, <3>1
  <2>2. CASE L # 0 /\ in[L] = Pad /\ L > 1 /\ in[L - 1] = Pad
    <3>1. pad = 2
      BY <2>2 DEF Padding, L
    <3>2. \A k \in 1..L : k > L - 2 => k = L \/ k = L - 1
      BY <1>3
    <3> HIDE DEF pad
    <3> QED
      BY <1>3, <2>2, <3>1, <3>2
  <2>3. CASE L # 0 /\ in[L] = Pad /\ ~(L > 1 /\ in[L - 1] = Pad)
    <3>1. pad = 1
      BY <2>3 DEF Padding, L
    <3>2. \A k \in 1..L : k > L - 1 => k = L
      BY <1>3
    <3> HIDE DEF pad
    <3> QED
      BY <1>3, <2>3, <3>1, <3>2
  <2> QED
    BY <2>1, <2>2, <2>3
<1> HIDE DEF pad
<1>5. Len(s) = L - pad /\ Len(s) \in Nat /\ s \in Seq(Int) /\ \A k \in 1..Len(s) : s[k] = in[k]
  <2> DEFINE m == L - pad
  <2>1. s = SubSeq(in, 1, m)
    BY DEF Unpadded, L, pad
  <2>2. m \in 0..L
    BY <1>3, <1>4
  <2> HIDE DEF m, s
  <2>3. Len(s) = m /\ s \in Seq(Int) /\ \A k \in 1..m : s[k] = in[k]
    BY <2>1, <2>2 DEF L
  <2> QED
    BY <1>3, <2>2, <2>3 DEF m
<1> HIDE DEF s, b
<1>6. s \in Seq(Alphabet)
  BY <1>2, <1>5
<1> DEFINE n == Len(b)
           e == b64_encode(b)
<1>7. b \in Seq(Octet) /\ Chars(n) = Len(s)
  BY <1>2, <1>6, BytesOf
<1>8. /\ Len(e) = b64_encoded_len(n) /\ DOMAIN e = 1..Len(e)
      /\ n \in Nat /\ Chars(n) \in 0..Len(e) /\ Len(e) - Chars(n) \in 0..2 /\ Len(e) % 4 = 0
      /\ \A k \in Chars(n) + 1..Len(e) : e[k] = Pad
  <2>1. e = b64_encode(b) /\ n = Len(b)
    OBVIOUS
  <2> HIDE DEF e, n
  <2> QED
    BY <1>7, <2>1, EncodedShape
<1>9. e \in Seq(Int)
  <2>1. e = b64_encode(b) /\ n = Len(b)
    OBVIOUS
  <2> HIDE DEF e, n
  <2> QED
    BY <1>7, <2>1, EncodedShape
<1> HIDE DEF n
<1>10. Len(e) = L
  <2> DEFINE E == Len(e)
             m == Len(s)
  <2>1. E \in Nat /\ E - m \in 0..2 /\ E % 4 = 0
    BY <1>7, <1>8
  <2>2. L - m = pad /\ L % 4 = 0 /\ m \in Nat
    BY <1>2, <1>3, <1>4, <1>5 DEF L
  <2> HIDE DEF E, m
  <2>3. E = L
    BY <1>3, <1>4, <2>1, <2>2
  <2> QED
    BY <2>3 DEF E
<1>11. ASSUME NEW k \in 1..L PROVE e[k] = in[k]
  <2>1. CASE k \in 1..Len(s)
    BY <1>2, <1>5, <1>6, <2>1, Rewritten
  <2>2. CASE k \notin 1..Len(s)
    <3>1. k \in Chars(n) + 1..Len(e) /\ k > L - pad
      BY <1>3, <1>4, <1>5, <1>7, <1>10, <2>2
    <3> QED
      BY <1>4, <1>8, <3>1
  <2> QED
    BY <2>1, <2>2
<1> HIDE DEF e
<1>12. DOMAIN e = DOMAIN in /\ e \in Seq(Int) /\ in \in Seq(Int) /\ Len(e) = Len(in)
  BY <1>3, <1>8, <1>9, <1>10 DEF L
<1>13. e = in
  BY <1>3, <1>11, <1>12
<1> QED
  BY <1>13 DEF e

-----------------------------------------------------------------------------
(* Dates.  Years begin in March here, so that a leap day is the last of    *)
(* its year; y is such a year, of the era-th 400 years the c-th century's  *)
(* q-th four years' r-th.                                                  *)

YearStart(y) == 365 * y + y \div 4 - (y \div 100) + y \div 400
LongYear(y) == Leap(y + 1)

InYear(y, era, c, q, r) == c \in 0..3 /\ q \in 0..24 /\ r \in 0..3 /\ y = 400 * era + 100 * c + 4 * q + r
LEMMA YearOf ==
  ASSUME NEW y \in Int
  PROVE  \E era, c, q, r \in Int : InYear(y, era, c, q, r)
<1> DEFINE era == y \div 400
           yoe == y - 400 * era
           c == yoe \div 100
           q == (yoe - 100 * c) \div 4
           r == yoe - 100 * c - 4 * q
<1>1. era \in Int /\ yoe \in 0..399 /\ y = 400 * era + yoe
  OBVIOUS
<1> HIDE DEF era, yoe
<1>2. c \in 0..3 /\ yoe - 100 * c \in 0..99
  BY <1>1
<1> HIDE DEF c
<1>3. q \in 0..24 /\ r \in 0..3 /\ yoe = 100 * c + 4 * q + r
  BY <1>1, <1>2
<1> HIDE DEF q, r
<1>4. InYear(y, era, c, q, r)
  BY <1>1, <1>2, <1>3, SMT DEF InYear
<1>5. c \in Int /\ q \in Int /\ r \in Int
  BY <1>2, <1>3
<1> QED
  BY <1>1, <1>4, <1>5, Zenon

LEMMA YearLength ==
  ASSUME NEW y \in Int
  PROVE  YearStart(y + 1) = YearStart(y) + (IF LongYear(y) THEN 366 ELSE 365)
<1>1. (y + 1) \div 4 = y \div 4 + (IF (y + 1) % 4 = 0 THEN 1 ELSE 0)
  OBVIOUS
<1>2. (y + 1) \div 100 = y \div 100 + (IF (y + 1) % 100 = 0 THEN 1 ELSE 0)
  OBVIOUS
<1>3. (y + 1) \div 400 = y \div 400 + (IF (y + 1) % 400 = 0 THEN 1 ELSE 0)
  OBVIOUS
<1>4. ((y + 1) % 400 = 0 => (y + 1) % 100 = 0) /\ ((y + 1) % 100 = 0 => (y + 1) % 4 = 0)
  OBVIOUS
<1>5. 365 * (y + 1) = 365 * y + 365
  OBVIOUS
<1> DEFINE a == y \div 4
           b == y \div 100
           g == y \div 400
           x == 365 * y
<1>6. a \in Int /\ b \in Int /\ g \in Int /\ x \in Int
  OBVIOUS
<1>7. YearStart(y) = x + a - b + g
  BY DEF YearStart
<1>8. YearStart(y + 1) = x + 365 + (y + 1) \div 4 - ((y + 1) \div 100) + (y + 1) \div 400
  BY <1>5 DEF YearStart
<1> HIDE DEF a, b, g, x
<1>9. YearStart(y + 1) = x + 365 + (a + (IF (y + 1) % 4 = 0 THEN 1 ELSE 0))
                           - (b + (IF (y + 1) % 100 = 0 THEN 1 ELSE 0)) + (g + (IF (y + 1) % 400 = 0 THEN 1 ELSE 0))
  BY <1>1, <1>2, <1>3, <1>8 DEF a, b, g
<1>10. LongYear(y) <=> (y + 1) % 4 = 0 /\ ((y + 1) % 100 = 0 => (y + 1) % 400 = 0)
  BY DEF LongYear, Leap
<1> QED
  BY <1>4, <1>6, <1>7, <1>9, <1>10

\* A month's place in a year from March on, the days before it, and how many it has.
Place(m) == IF m > 2 THEN m - 3 ELSE m + 9
Before(m) == (153 * Place(m) + 2) \div 5
MarchYear(y, m) == IF m <= 2 THEN y - 1 ELSE y
LEMMA MonthParts ==
  ASSUME NEW y \in Int, NEW m \in 1..12
  PROVE  /\ Place(m) \in 0..11 /\ (IF Place(m) < 10 THEN Place(m) + 3 ELSE Place(m) - 9) = m
         /\ Before(m) \in Nat /\ DaysIn(y, m) \in 28..31
         /\ DaysIn(y, m) = 29 => m = 2 /\ LongYear(y - 1)
         /\ m = 2 /\ DaysIn(y, m) # 29 => DaysIn(y, m) = 28 /\ ~LongYear(y - 1)
         /\ m # 2 => /\ Place(m) < 11 /\ Before(m) + DaysIn(y, m) = (153 * (Place(m) + 1) + 2) \div 5
                     /\ Before(m) + DaysIn(y, m) <= 337
         /\ m = 2 => Before(m) = 337
         /\ m = 3 => Before(m) = 0
<1>1. LongYear(y - 1) <=> Leap(y)
  <2>1. (y - 1) + 1 = y
    OBVIOUS
  <2> QED
    BY <2>1 DEF LongYear
<1>2. CASE m = 1
  BY <1>2 DEF Place, Before, DaysIn
<1>3. CASE m = 2
  <2>1. Place(m) = 11 /\ Before(m) = 337
    BY <1>3 DEF Place, Before
  <2>2. DaysIn(y, m) = IF Leap(y) THEN 29 ELSE 28
    BY <1>3 DEF DaysIn
  <2> QED
    BY <1>1, <1>3, <2>1, <2>2
<1>4. CASE m = 3
  BY <1>4 DEF Place, Before, DaysIn
<1>5. CASE m = 4
  BY <1>5 DEF Place, Before, DaysIn
<1>6. CASE m = 5
  BY <1>6 DEF Place, Before, DaysIn
<1>7. CASE m = 6
  BY <1>7 DEF Place, Before, DaysIn
<1>8. CASE m = 7
  BY <1>8 DEF Place, Before, DaysIn
<1>9. CASE m = 8
  BY <1>9 DEF Place, Before, DaysIn
<1>10. CASE m = 9
  BY <1>10 DEF Place, Before, DaysIn
<1>11. CASE m = 10
  BY <1>11 DEF Place, Before, DaysIn
<1>12. CASE m = 11
  BY <1>12 DEF Place, Before, DaysIn
<1>13. CASE m = 12
  BY <1>13 DEF Place, Before, DaysIn
<1> QED
  BY <1>2, <1>3, <1>4, <1>5, <1>6, <1>7, <1>8, <1>9, <1>10, <1>11, <1>12, <1>13

\* The month that a day of the year is in.
LEMMA MonthOfDay ==
  ASSUME NEW y \in Int, NEW m \in 1..12, NEW d \in Nat \ {0}, d <= DaysIn(y, m), NEW doy, doy = Before(m) + d - 1
  PROVE  /\ doy \in Int /\ 0 <= doy /\ doy <= 365 /\ (doy = 365 => LongYear(MarchYear(y, m)))
         /\ (5 * doy + 2) \div 153 = Place(m)
<1>1. /\ Place(m) \in 0..11 /\ Before(m) \in Nat /\ DaysIn(y, m) \in 28..31
      /\ DaysIn(y, m) = 29 => m = 2 /\ LongYear(y - 1)
      /\ m = 2 /\ DaysIn(y, m) # 29 => DaysIn(y, m) = 28
      /\ m # 2 => /\ Place(m) < 11 /\ Before(m) + DaysIn(y, m) = (153 * (Place(m) + 1) + 2) \div 5
                  /\ Before(m) + DaysIn(y, m) <= 337
      /\ m = 2 => Before(m) = 337
  BY MonthParts
<1>2. doy \in Int /\ 0 <= doy
  BY <1>1
<1>3. CASE m = 2
  <2>1. doy = 336 + d /\ d <= 29 /\ (d = 29 => LongYear(y - 1)) /\ Place(m) = 11 /\ MarchYear(y, m) = y - 1
    BY <1>1, <1>3 DEF Place, MarchYear
  <2>2. (5 * (336 + d) + 2) \div 153 = 11
    BY <2>1
  <2> QED
    BY <1>2, <2>1, <2>2
<1>4. CASE m # 2
  <2> DEFINE p == Place(m)
             l == DaysIn(y, m)
             b == Before(m)
  <2>1. p \in Int /\ 0 <= p /\ p < 11 /\ b = (153 * p + 2) \div 5 /\ b + l = (153 * (p + 1) + 2) \div 5 /\ l \in Int
        /\ b + l <= 337 /\ d <= l /\ b \in Int /\ doy = b + d - 1
    BY <1>1, <1>4 DEF Before
  <2> HIDE DEF p, l, b
  <2>2. b <= doy /\ doy < b + l
    BY <2>1
  <2>3. (5 * doy + 2) \div 153 = p
    <3>1. 153 * p <= 5 * doy + 2
      BY <1>2, <2>1, <2>2
    <3>2. 5 * doy + 2 < 153 * p + 153
      BY <1>2, <2>1, <2>2
    <3> DEFINE rest == 5 * doy + 2 - 153 * p
    <3>3. rest \in Int /\ 0 <= rest /\ rest < 153 /\ 5 * doy + 2 = 153 * p + rest
      BY <1>2, <2>1, <3>1, <3>2
    <3> HIDE DEF rest
    <3>4. (153 * p + rest) \div 153 = p
      BY <2>1, <3>3
    <3> QED
      BY <3>3, <3>4
  <2> QED
    BY <1>2, <2>1, <2>2, <2>3 DEF p
<1> QED
  BY <1>3, <1>4

\* What kw_days_from_civil counts.
EraDay(yoe, doy) == yoe * 365 + yoe \div 4 - (yoe \div 100) + doy
CivilDays(y, doy) == (y \div 400) * EraDays + EraDay(y - (y \div 400) * 400, doy) - EpochDay
\* A year that begins in March, by its parts: w is its place in the era, start the days before it.
IsYear(y, e, c, q, r, w, start) ==
    /\ 0 <= c /\ c <= 3 /\ 0 <= q /\ q <= 24 /\ 0 <= r /\ r <= 3
    /\ w = 100 * c + 4 * q + r /\ w \div 4 = 25 * c + q /\ w \div 100 = c
    /\ y = 400 * e + w /\ y \div 400 = e /\ y - e * 400 = w
    /\ start = 146097 * e + 36524 * c + 1461 * q + 365 * r
    /\ LongYear(y) <=> r = 3 /\ (q = 24 => c = 3)

LEMMA YearIs ==
  ASSUME NEW y \in Int
  PROVE  \E e, c, q, r, w \in Int : IsYear(y, e, c, q, r, w, YearStart(y))
<1>0. PICK e, c, q, r \in Int : InYear(y, e, c, q, r)
  BY YearOf, Zenon
<1>1. c \in 0..3 /\ q \in 0..24 /\ r \in 0..3 /\ y = 400 * e + 100 * c + 4 * q + r
  BY <1>0, Zenon DEF InYear
<1> USE <1>1
<1>2. PICK w \in Int : w = 100 * c + 4 * q + r
  OBVIOUS
<1>3. IsYear(y, e, c, q, r, w, YearStart(y))
  <2>1. y = 400 * e + w /\ y \div 400 = e /\ y - e * 400 = w
    BY <1>1, <1>2, SMT
  <2>2. w \div 4 = 25 * c + q /\ w \div 100 = c
    BY <1>2, SMT
  <2>3. y \div 4 = 100 * e + 25 * c + q /\ y \div 100 = 4 * e + c
    BY <1>1, SMT
  <2>4. YearStart(y) = 146097 * e + 36524 * c + 1461 * q + 365 * r
    BY <1>1, <2>1, <2>3, SMT DEF YearStart
  <2>5. /\ (y + 1) % 4 = 0 <=> r = 3
        /\ (y + 1) % 100 = 0 <=> r = 3 /\ q = 24
        /\ (y + 1) % 400 = 0 <=> r = 3 /\ q = 24 /\ c = 3
    BY <1>1, SMT
  <2>6. LongYear(y) <=> r = 3 /\ (q = 24 => c = 3)
    BY <2>5, SMT DEF LongYear, Leap
  <2>7. 0 <= c /\ c <= 3 /\ 0 <= q /\ q <= 24 /\ 0 <= r /\ r <= 3
    OBVIOUS
  <2> QED
    BY <1>2, <2>1, <2>2, <2>4, <2>6, <2>7, SMT DEF IsYear
<1> QED
  BY <1>2, <1>3, Zenon

\* The year of a day of an era.
DayIn(c, q, r, doy) == 36524 * c + 1461 * q + 365 * r + doy
LEMMA YearOfDay ==
  ASSUME NEW y \in Int, NEW e0 \in Int, NEW c \in Int, NEW q \in Int, NEW r \in Int, NEW w \in Int, NEW start,
         IsYear(y, e0, c, q, r, w, start), NEW doy \in Int, 0 <= doy, doy <= 365, doy = 365 => LongYear(y),
         NEW doe \in Int, doe = DayIn(c, q, r, doy)
  PROVE  0 <= doe /\ doe < EraDays /\ EraYear(doe) = w
<1>0. c \in 0..3 /\ q \in 0..24 /\ r \in 0..3 /\ (doy = 365 => r = 3 /\ (q = 24 => c = 3))
      /\ doe = 36524 * c + 1461 * q + 365 * r + doy
  BY SMT DEF IsYear, DayIn
<1> USE <1>0
<1>1. 0 <= doe /\ doe <= 146096
  <2>1. doe >= 0
    OBVIOUS
  <2>2. CASE doy = 365
    <3>1. q <= 23 \/ (q = 24 /\ c = 3)
      BY <2>2
    <3> QED
      BY <2>1, <2>2, <3>1
  <2>3. CASE doy <= 364
    BY <2>1, <2>3
  <2> QED
    BY <2>2, <2>3
<1>2. doe \div 36524 - (doe \div 146096) = c
  <2>1. CASE doe = 146096
    <3>1. c = 3 /\ 146096 \div 36524 = 4 /\ 146096 \div 146096 = 1
      BY <2>1
    <3> QED
      BY <2>1, <3>1
  <2>2. CASE doe # 146096
    <3>1. doe \div 146096 = 0
      BY <1>1, <2>2
    <3>2. 36524 * c <= doe /\ doe < 36524 * c + 36524
      <4>1. CASE doy = 365
        <5>1. q <= 23 \/ (q = 24 /\ c = 3)
          BY <4>1
        <5> QED
          BY <2>2, <4>1, <5>1
      <4>2. CASE doy <= 364
        BY <2>2, <4>2
      <4> QED
        BY <4>1, <4>2
    <3>3. doe \div 36524 = c
      <4> DEFINE rest == doe - 36524 * c
      <4>1. rest \in Int /\ 0 <= rest /\ rest < 36524 /\ doe = 36524 * c + rest
        BY <3>2
      <4> HIDE DEF rest
      <4>2. (36524 * c + rest) \div 36524 = c
        BY <4>1
      <4> QED
        BY <4>1, <4>2
    <3> QED
      BY <3>1, <3>3
  <2> QED
    BY <2>1, <2>2
<1> DEFINE e == 24 * c + q + 365 * r + doy
<1>3. e \in Int /\ 0 <= e /\ e < 2920 /\ doe = 1460 * (25 * c + q) + e
  OBVIOUS
<1>4. doe \div 1460 = 25 * c + q + (IF e >= 1460 THEN 1 ELSE 0)
  <2> DEFINE g == 25 * c + q
  <2>1. g \in Int
    OBVIOUS
  <2> HIDE DEF e, g
  <2>2. doe = 1460 * g + e
    BY <1>3 DEF g
  <2>3. doe \div 1460 = g + (IF e >= 1460 THEN 1 ELSE 0)
    BY <1>3, <2>1, <2>2
  <2> QED
    BY <2>3 DEF g
<1> DEFINE left == doy - (IF e >= 1460 THEN 1 ELSE 0)
           yoe == 100 * c + 4 * q + r
<1>5. left \in Int /\ 0 <= left /\ left < 365
  OBVIOUS
<1>6. yoe \in Int
  OBVIOUS
<1>7. doe - doe \div 1460 + doe \div 36524 - (doe \div 146096) = 365 * yoe + left
  <2>1. doe - (25 * c + q + (IF e >= 1460 THEN 1 ELSE 0)) + c = 365 * yoe + left
    OBVIOUS
  <2> DEFINE a == doe \div 36524
             b == doe \div 146096
             x == doe \div 1460
  <2>2. a \in Int /\ b \in Int /\ x \in Int /\ doe \in Int
    BY <1>1
  <2>3. a - b = c /\ x = 25 * c + q + (IF e >= 1460 THEN 1 ELSE 0)
    BY <1>2, <1>4
  <2> HIDE DEF a, b, x, e, left, yoe
  <2>4. doe - x + a - b = doe - x + c
    BY <2>2, <2>3
  <2>5. doe - x + c = 365 * yoe + left
    BY <2>1, <2>3
  <2> QED
    BY <2>4, <2>5 DEF a, b, x
<1> HIDE DEF left, yoe
<1>8. (365 * yoe + left) \div 365 = yoe
  BY <1>5, <1>6
<1>9. (doe - doe \div 1460 + doe \div 36524 - (doe \div 146096)) \div 365 = yoe
  BY <1>7, <1>8
<1>10. EraYear(doe) = yoe
  BY <1>9, SMT DEF EraYear, EraDays
<1> QED
  BY <1>1, <1>10, SMT DEF yoe, IsYear, EraDays


\* The day of an era that a day is, and the era.
LEMMA EraOfDay ==
  ASSUME NEW y \in Int, NEW e \in Int, NEW c \in Int, NEW q \in Int, NEW r \in Int, NEW w \in Int, NEW start,
         IsYear(y, e, c, q, r, w, start), NEW doy \in Int, NEW at \in Int, at = start + doy - EpochDay,
         NEW doe \in Int, doe = DayIn(c, q, r, doy), 0 <= doe, doe < EraDays
  PROVE  (at + EpochDay) \div EraDays = e /\ (at + EpochDay) - e * EraDays = doe
<1>1. at + EpochDay = 146097 * e + doe
  BY SMT DEF IsYear, EpochDay, DayIn
<1>2. (146097 * e + doe) \div 146097 = e
  BY SMT DEF EraDays
<1>3. (146097 * e + doe) - e * 146097 = doe
  BY SMT
<1> QED
  BY <1>1, <1>2, <1>3, SMT DEF EraDays

LEMMA CivilDaysIn ==
  ASSUME NEW y \in Int, NEW doy \in Int, NEW e \in Int, NEW c \in Int, NEW q \in Int, NEW r \in Int, NEW w \in Int, NEW start,
         IsYear(y, e, c, q, r, w, start)
  PROVE  CivilDays(y, doy) = start + doy - EpochDay /\ CivilDays(y, doy) \in Int
<1>1. EraDay(w, doy) = w * 365 + (25 * c + q) - c + doy
  BY SMT DEF EraDay, IsYear
<1>2. CivilDays(y, doy) = e * EraDays + EraDay(w, doy) - EpochDay
  BY SMT DEF CivilDays, IsYear
<1>3. CivilDays(y, doy) = e * 146097 + (w * 365 + (25 * c + q) - c + doy) - 719468
  BY <1>1, <1>2, SMT DEF EraDays, EpochDay
<1> QED
  BY <1>3, SMT DEF EpochDay, IsYear

LEMMA CivilDaysAre ==
  ASSUME NEW y \in Int, NEW doy \in Int
  PROVE  CivilDays(y, doy) = YearStart(y) + doy - EpochDay /\ CivilDays(y, doy) \in Int
BY YearIs, CivilDaysIn, Zenon

LEMMA DaysAre ==
  ASSUME NEW y \in Int, NEW m \in 1..12, NEW d \in Int
  PROVE  /\ MarchYear(y, m) \in Int
         /\ kw_days_from_civil(y, m, d) = YearStart(MarchYear(y, m)) + (Before(m) + d - 1) - EpochDay
         /\ kw_days_from_civil(y, m, d) \in Int
<1>1. MarchYear(y, m) \in Int
  BY DEF MarchYear
<1>2. kw_days_from_civil(y, m, d) = CivilDays(MarchYear(y, m), Before(m) + d - 1)
  BY Zenon DEF kw_days_from_civil, CivilDays, EraDay, MarchYear, Before, Place
<1>3. Before(m) + d - 1 \in Int
  <2>1. Before(m) \in Nat
    BY MonthParts
  <2> QED
    BY <2>1
<1> QED
  BY <1>1, <1>2, <1>3, CivilDaysAre

\* civil_from_days by the year of the day's era and the day of that year.
DaysBefore(yoe) == 365 * yoe + yoe \div 4 - (yoe \div 100)
MonthAt(mp) == IF mp < 10 THEN mp + 3 ELSE mp - 9
DateOn(year, doy, mp) == [y |-> year + (IF MonthAt(mp) <= 2 THEN 1 ELSE 0), m |-> MonthAt(mp), d |-> doy - ((153 * mp + 2) \div 5) + 1]
DateIn(year, doy) == DateOn(year, doy, (5 * doy + 2) \div 153)
EraDate(era, doe) == DateIn(EraYear(doe) + era * 400, doe - DaysBefore(EraYear(doe)))
LEMMA DateUnfold ==
  ASSUME NEW at
  PROVE  civil_from_days(at) = EraDate((at + EpochDay) \div EraDays, (at + EpochDay) - ((at + EpochDay) \div EraDays) * EraDays)
BY Zenon DEF civil_from_days, EraDate, DateIn, DateOn, MonthAt, DaysBefore

LEMMA DateBack ==
  ASSUME NEW y \in Int, NEW m \in 1..12, NEW d \in Nat \ {0}, d <= DaysIn(y, m)
  PROVE  civil_from_days(kw_days_from_civil(y, m, d)) = [y |-> y, m |-> m, d |-> d]
<1> DEFINE at == kw_days_from_civil(y, m, d)
           year == MarchYear(y, m)
           doy == Before(m) + d - 1
<1>1. at \in Int /\ year \in Int /\ doy \in Int /\ at = YearStart(year) + doy - EpochDay
  <2>1. doy \in Int
    BY MonthOfDay
  <2>2. d \in Int
    OBVIOUS
  <2> QED
    BY <2>1, <2>2, DaysAre
<1>2. 0 <= doy /\ doy <= 365 /\ (doy = 365 => LongYear(year)) /\ (5 * doy + 2) \div 153 = Place(m)
  BY MonthOfDay
<1> HIDE DEF at, year, doy
<1>3. PICK e, c, q, r, w \in Int : IsYear(year, e, c, q, r, w, YearStart(year))
  BY <1>1, YearIs, Zenon
<1>4. PICK doe \in Int : doe = DayIn(c, q, r, doy)
  BY <1>1 DEF DayIn
<1>5. 0 <= doe /\ doe < EraDays /\ EraYear(doe) = w
  BY <1>1, <1>2, <1>3, <1>4, YearOfDay, SMTT(20)
<1>6. (at + EpochDay) \div EraDays = e /\ (at + EpochDay) - e * EraDays = doe
  BY <1>1, <1>3, <1>4, <1>5, EraOfDay, SMTT(20)
<1>7. civil_from_days(at) = EraDate(e, doe)
  BY <1>6, DateUnfold
<1>8. w + e * 400 = year /\ doe - DaysBefore(w) = doy
  BY <1>1, <1>3, <1>4, SMT DEF IsYear, DaysBefore, DayIn
<1>9. EraDate(e, doe) = DateOn(year, doy, Place(m))
  BY <1>2, <1>5, <1>8, Zenon DEF EraDate, DateIn
<1>10. MonthAt(Place(m)) = m
  BY MonthParts DEF MonthAt
<1>11. year + (IF m <= 2 THEN 1 ELSE 0) = y
  BY DEF year, MarchYear
<1>12. doy - Before(m) + 1 = d
  <2>1. Before(m) \in Int
    BY MonthParts
  <2> QED
    BY <2>1 DEF doy
<1>13. DateOn(year, doy, Place(m)) = [y |-> y, m |-> m, d |-> d]
  BY <1>10, <1>11, <1>12, Zenon DEF DateOn, Before
<1> QED
  BY <1>7, <1>9, <1>13 DEF at

LEMMA NextMonth ==
  ASSUME NEW y \in Int, NEW m \in 1..12, m # 2, NEW n, n = IF m < 12 THEN m + 1 ELSE 1, NEW z, z = IF m < 12 THEN y ELSE y + 1
  PROVE  n \in 1..12 /\ z \in Int /\ MarchYear(z, n) = MarchYear(y, m) /\ Before(n) = Before(m) + DaysIn(y, m)
<1>1. n \in 1..12 /\ z \in Int
  OBVIOUS
<1>2. MarchYear(z, n) = MarchYear(y, m)
  BY DEF MarchYear
<1>3. Place(n) = Place(m) + 1
  BY DEF Place
<1>4. Before(m) + DaysIn(y, m) = (153 * (Place(m) + 1) + 2) \div 5
  BY MonthParts
<1>5. Before(n) = Before(m) + DaysIn(y, m)
  BY <1>3, <1>4, Zenon DEF Before
<1> QED
  BY <1>1, <1>2, <1>5

\* The day after is counted one more.
LEMMA DayAfter ==
  ASSUME NEW y \in Int, NEW m \in 1..12, NEW d \in Nat \ {0}, d <= DaysIn(y, m), NEW next, next = NextDay([y |-> y, m |-> m, d |-> d])
  PROVE  kw_days_from_civil(next.y, next.m, next.d) = kw_days_from_civil(y, m, d) + 1
<1> DEFINE year == MarchYear(y, m)
           day == kw_days_from_civil(y, m, d)
           b == Before(m)
           start == YearStart(year)
           l == DaysIn(y, m)
<1>1. d \in Int /\ d >= 1 /\ 1 \in Int /\ d + 1 \in Int
  OBVIOUS
<1>2. year \in Int /\ day \in Int /\ day = start + (b + d - 1) - EpochDay
  BY <1>1, DaysAre
<1>3. b \in Int /\ l \in Int /\ d <= l
  BY MonthParts
<1>4. start \in Int
  BY <1>2 DEF YearStart
<1>5. EpochDay \in Int
  BY DEF EpochDay
<1>6. CASE d < l
  <2>1. next = [y |-> y, m |-> m, d |-> d + 1]
    BY <1>6, Zenon DEF NextDay
  <2>2. next.y = y /\ next.m = m /\ next.d = d + 1
    BY <2>1
  <2>3. kw_days_from_civil(y, m, d + 1) = start + (b + (d + 1) - 1) - EpochDay
    BY <1>1, DaysAre
  <2>4. start + (b + (d + 1) - 1) - EpochDay = day + 1
    <3> HIDE DEF start, b, day, year, l
    <3> QED
      BY <1>1, <1>2, <1>3, <1>4, <1>5
  <2> QED
    BY <2>2, <2>3, <2>4, Zenon
<1>7. CASE ~(d < l)
  <2> DEFINE n == IF m < 12 THEN m + 1 ELSE 1
             z == IF m < 12 THEN y ELSE y + 1
             first == YearStart(MarchYear(z, n)) + (Before(n) + 1 - 1)
  <2>1. next.y = z /\ next.m = n /\ next.d = 1
    <3>1. next = IF m < 12 THEN [y |-> y, m |-> m + 1, d |-> 1] ELSE [y |-> y + 1, m |-> 1, d |-> 1]
      <4> DEFINE c == [y |-> y, m |-> m, d |-> d]
      <4>1. c.y = y /\ c.m = m /\ c.d = d
        OBVIOUS
      <4> HIDE DEF c
      <4> QED
        BY <1>7, <4>1, Zenon DEF NextDay, c
    <3>2. CASE m < 12
      BY <3>1, <3>2
    <3>3. CASE ~(m < 12)
      BY <3>1, <3>3
    <3> QED
      BY <3>2, <3>3
  <2>2. n \in 1..12 /\ z \in Int
    OBVIOUS
  <2>3. d = l
    BY <1>1, <1>3, <1>7
  <2>4. kw_days_from_civil(z, n, 1) = first - EpochDay
    <3> HIDE DEF n, z, first
    <3>1. kw_days_from_civil(z, n, 1) = YearStart(MarchYear(z, n)) + (Before(n) + 1 - 1) - EpochDay
      BY <1>1, <2>2, DaysAre
    <3>2. MarchYear(z, n) \in Int
      BY <1>1, <2>2, DaysAre
    <3>3. YearStart(MarchYear(z, n)) \in Int
      BY <3>2 DEF YearStart
    <3>4. Before(n) \in Int
      BY <2>2, MonthParts
    <3> QED
      BY <1>5, <3>1, <3>3, <3>4 DEF first
  <2>5. first = start + b + l
    <3>1. CASE m = 2
      <4>1. n = 3 /\ z = y /\ year = y - 1 /\ MarchYear(z, n) = y
        BY <3>1 DEF MarchYear
      <4>2. Before(3) = 0
        BY DEF Before, Place
      <4>3. b = 337 /\ l = IF LongYear(y - 1) THEN 29 ELSE 28
        BY <3>1, MonthParts
      <4>4. YearStart((y - 1) + 1) = YearStart(y - 1) + (IF LongYear(y - 1) THEN 366 ELSE 365)
        <5>1. y - 1 \in Int
          OBVIOUS
        <5> QED
          BY <5>1, YearLength
      <4>5. (y - 1) + 1 = y
        OBVIOUS
      <4>6. YearStart(y) = start + (IF LongYear(y - 1) THEN 366 ELSE 365)
        BY <4>1, <4>4, <4>5, Zenon
      <4> HIDE DEF start, b, l, n, z, year
      <4>7. YearStart(MarchYear(z, n)) + (Before(n) + 1 - 1) = YearStart(y)
        <5>1. YearStart(y) \in Int
          BY <1>4, <4>6
        <5> QED
          BY <4>1, <4>2, <5>1
      <4> QED
        BY <1>4, <4>3, <4>6, <4>7
    <3>2. CASE m # 2
      <4>1. MarchYear(z, n) = year /\ Before(n) = b + l
        BY <3>2, NextMonth
      <4> HIDE DEF start, b, l, n, z
      <4> QED
        BY <1>3, <1>4, <4>1 DEF start
    <3> QED
      BY <3>1, <3>2
  <2> HIDE DEF first, start, b, l, n, z, day, year
  <2>6. kw_days_from_civil(z, n, 1) = (start + b + l) - EpochDay
    BY <2>4, <2>5
  <2>7. (start + b + l) - EpochDay = day + 1
    BY <1>1, <1>2, <1>3, <1>4, <1>5, <2>3
  <2> QED
    BY <2>1, <2>6, <2>7, Zenon DEF day
<1> QED
  BY <1>6, <1>7

\* The seconds of a day: its hour, minute and second come back.
LEMMA TimeBack ==
  ASSUME NEW h \in Nat, NEW mi \in Nat, NEW s \in Nat, h <= 23, mi <= 59, s < 60, NEW at, at = h * HourSeconds + mi * 60 + s
  PROVE  at \div DaySeconds = 0 /\ at % DaySeconds = at /\ at \div HourSeconds = h /\ (at \div 60) % 60 = mi /\ at % 60 = s
<1>0. at = h * 3600 + mi * 60 + s
  BY SMT DEF HourSeconds
<1> USE <1>0
<1>1. at \in Int /\ 0 <= at /\ at < 86400
  BY SMT
<1>2. at \div 86400 = 0 /\ at % 86400 = at
  BY <1>1, SMT
<1>3. at \div 3600 = h
  <2> DEFINE rest == mi * 60 + s
  <2>1. rest \in Int /\ 0 <= rest /\ rest < 3600 /\ at = h * 3600 + rest
    BY SMT
  <2> HIDE DEF rest
  <2> QED
    BY <2>1, SMT
<1>4. at \div 60 = h * 60 + mi /\ at % 60 = s
  BY SMT
<1>5. (h * 60 + mi) % 60 = mi
  BY SMT
<1> QED
  BY <1>2, <1>3, <1>4, <1>5, SMT DEF DaySeconds, HourSeconds

\* Dates are read back: for any year, any month and any day of it, and any time of the day, DatesReadBack
\* holds.  civil_from_days undoes kw_days_from_civil, the day after is counted one more, and what
\* kw_parse_iso8601 makes of a time kw_amz_date gives back to the second.
THEOREM DatesAreReadBack ==
  ASSUME NEW Zones, NEW t \in [y : Int, m : 1..12, d : Nat \ {0}, h : Nat, mi : Nat, s : Nat, zone : Zones]
  PROVE  DatesReadBack(t)
<1> DEFINE c == [y |-> t.y, m |-> t.m, d |-> t.d]
           day == kw_days_from_civil(t.y, t.m, t.d)
           next == NextDay(c)
           secs == t.h * HourSeconds + t.mi * 60 + t.s
<1>1. t.y \in Int /\ t.m \in 1..12 /\ t.d \in Nat \ {0} /\ t.h \in Nat /\ t.mi \in Nat /\ t.s \in Nat
  OBVIOUS
<1>2. SUFFICES ASSUME t.d <= DaysIn(t.y, t.m)
               PROVE  /\ civil_from_days(day) = c
                      /\ kw_days_from_civil(next.y, next.m, next.d) = day + 1
                      /\ kw_parse_iso8601(t) # NotRead /\ t.s < 60 => kw_amz_date(kw_parse_iso8601(t)) = [t EXCEPT !.zone = "Z"]
  BY Zenon DEF DatesReadBack
<1>3. civil_from_days(day) = c
  BY <1>1, <1>2, DateBack
<1>4. kw_days_from_civil(next.y, next.m, next.d) = day + 1
  BY <1>1, <1>2, DayAfter
<1>5. ASSUME kw_parse_iso8601(t) # NotRead, t.s < 60
      PROVE  kw_amz_date(kw_parse_iso8601(t)) = [t EXCEPT !.zone = "Z"]
  <2> HIDE DEF c, day, next
  <2>1. t.h <= 23 /\ t.mi <= 59 /\ kw_parse_iso8601(t) = <<day + secs \div DaySeconds, secs % DaySeconds>>
    BY <1>5, Zenon DEF kw_parse_iso8601, day
  <2>2. secs \div DaySeconds = 0 /\ secs % DaySeconds = secs /\ secs \div HourSeconds = t.h /\ (secs \div 60) % 60 = t.mi /\ secs % 60 = t.s
    <3>1. secs = t.h * HourSeconds + t.mi * 60 + t.s
      OBVIOUS
    <3>2. t.h <= 23 /\ t.mi <= 59 /\ t.s < 60
      BY <1>5, <2>1
    <3> HIDE DEF secs
    <3> QED
      BY <1>1, <3>1, <3>2, TimeBack
  <2>3. day \in Int
    <3>1. t.d \in Int
      BY <1>1
    <3> QED
      BY <1>1, <3>1, DaysAre DEF day
  <2> HIDE DEF secs
  <2>4. kw_parse_iso8601(t) = <<day, secs>>
    BY <2>1, <2>2, <2>3
  <2>5. <<day, secs>>[1] = day /\ <<day, secs>>[2] = secs
    OBVIOUS
  <2>6. c.y = t.y /\ c.m = t.m /\ c.d = t.d
    BY DEF c
  <2>7. kw_amz_date(<<day, secs>>) = [y |-> t.y, m |-> t.m, d |-> t.d, h |-> t.h, mi |-> t.mi, s |-> t.s, zone |-> "Z"]
    BY <1>3, <2>2, <2>5, <2>6, Zenon DEF kw_amz_date
  <2>8. [t EXCEPT !.zone = "Z"] = [y |-> t.y, m |-> t.m, d |-> t.d, h |-> t.h, mi |-> t.mi, s |-> t.s, zone |-> "Z"]
    OBVIOUS
  <2> QED
    BY <2>4, <2>7, <2>8
<1> QED
  BY <1>3, <1>4, <1>5, Zenon

\* Whatever comes is read back as it was written: bytes through base64 (b64_encode, b64_decode),
\* base64 that decodes (nothing else decodes to the same bytes), and times through days and fields
\* (kw_parse_iso8601, kw_amz_date), in any year.
THEOREM EncodingsReadBack ==
  ASSUME NEW Zones,
         input.kind = "bytes" => input.bytes \in Seq(0..255),
         input.kind = "base64" => input.in \in Seq(Int),
         input.kind = "time" => [f \in DOMAIN input \ {"kind"} |-> input[f]]
                                  \in [y : Int, m : 1..12, d : Nat \ {0}, h : Nat, mi : Nat, s : Nat, zone : Zones]
  PROVE  ReadsBack
<1>1. ASSUME input.kind = "bytes" PROVE BytesReadBack(input.bytes)
  BY <1>1, BytesAreReadBack
<1>2. ASSUME input.kind = "base64" PROVE CanonicalOnly(input.in)
  BY <1>2, OnlyCanonical
<1>3. ASSUME input.kind = "time" PROVE DatesReadBack([f \in DOMAIN input \ {"kind"} |-> input[f]])
  <2> DEFINE t == [f \in DOMAIN input \ {"kind"} |-> input[f]]
  <2>1. t \in [y : Int, m : 1..12, d : Nat \ {0}, h : Nat, mi : Nat, s : Nat, zone : Zones]
    BY <1>3
  <2> HIDE DEF t
  <2>2. DatesReadBack(t)
    BY <2>1, DatesAreReadBack, Zenon
  <2> QED
    BY <2>2 DEF t
<1> QED
  BY <1>1, <1>2, <1>3 DEF ReadsBack

-----------------------------------------------------------------------------
(* Tokens (Tokenizer).                                                     *)

\* A sequence that is computed place after place.
Computes(h, N, R, b, G) == h \in [0..N -> R] /\ h[0] = b /\ \A n \in 1..N : h[n] = G[<<n, h[n - 1]>>]
LEMMA RunExists ==
  ASSUME NEW N \in Nat, NEW R, NEW b \in R, NEW G \in [(1..N) \X R -> R]
  PROVE  \E h : Computes(h, N, R, b, G)
<1>1. PICK f : Folds(f, N, R, b, G)
  BY FoldExists
<1> DEFINE h == [n \in 0..N |-> f[1..n]]
<1>2. \A n \in 0..N : 1..n \in SUBSET (1..N)
  OBVIOUS
<1>3. h \in [0..N -> R]
  BY <1>1, <1>2 DEF Folds
<1>4. h[0] = b
  <2>1. 1..0 = {} /\ 0 \in 0..N
    OBVIOUS
  <2> QED
    BY <1>1, <2>1 DEF Folds
<1>5. ASSUME NEW n \in 1..N PROVE h[n] = G[<<n, h[n - 1]>>]
  <2>1. 1..n # {} /\ Max(1..n) = n /\ (1..n) \ {n} = 1..(n - 1) /\ 1..n \in SUBSET (1..N)
    BY FoldSteps
  <2>2. f[1..n] = G[<<n, f[1..(n - 1)]>>]
    <3> DEFINE s == 1..n
    <3>1. s \in SUBSET (1..N) /\ s # {} /\ Max(s) = n /\ s \ {Max(s)} = 1..(n - 1)
      BY <2>1
    <3> HIDE DEF s
    <3>2. f[s] = G[<<Max(s), f[s \ {Max(s)}]>>]
      BY <1>1, <3>1 DEF Folds
    <3> QED
      BY <3>1, <3>2 DEF s
  <2>3. n \in 0..N /\ n - 1 \in 0..N
    OBVIOUS
  <2> QED
    BY <2>2, <2>3
<1> HIDE DEF h
<1> QED
  BY <1>3, <1>4, <1>5 DEF Computes

\* What is computed from the end back, each place from a later one.
Backward(f, N, R, b, next, G) ==
    f \in [1..N + 1 -> R] /\ f[N + 1] = b /\ \A i \in 1..N : f[i] = G[<<i, f[next[i]]>>]
LEMMA BackExists ==
  ASSUME NEW N \in Nat, NEW R, NEW b \in R, NEW next \in [1..N -> 1..N + 1], \A i \in 1..N : i < next[i],
         NEW G \in [(1..N) \X R -> R]
  PROVE  \E f : Backward(f, N, R, b, next, G)
<1> DEFINE Ok(n, f) == f[N + 1] = b /\ \A i \in N + 1 - n..N : f[i] = G[<<i, f[next[i]]>>]
           Has(n) == \E f \in [N + 1 - n..N + 1 -> R] : Ok(n, f)
           T == {n \in 0..N : Has(n)}
<1>1. 0 \in T
  <2> DEFINE f == [i \in N + 1 - 0..N + 1 |-> b]
  <2>1. f \in [N + 1 - 0..N + 1 -> R] /\ Ok(0, f)
    OBVIOUS
  <2> HIDE DEF f, Ok
  <2>2. Has(0)
    BY <2>1
  <2> HIDE DEF Has
  <2> QED
    BY <2>2
<1>2. ASSUME NEW n \in 1..N, n - 1 \in T PROVE n \in T
  <2> DEFINE k == N + 1 - n
  <2>1. PICK f \in [N + 1 - (n - 1)..N + 1 -> R] : Ok(n - 1, f)
    BY <1>2
  <2>2. N + 1 - (n - 1) = k + 1 /\ k \in 1..N
    OBVIOUS
  <2>3. f \in [k + 1..N + 1 -> R] /\ f[N + 1] = b /\ \A i \in k + 1..N : f[i] = G[<<i, f[next[i]]>>]
    BY <2>1, <2>2
  <2> HIDE DEF k, Ok
  <2>4. next[k] \in k + 1..N + 1 /\ f[next[k]] \in R
    BY <2>2, <2>3
  <2> DEFINE g == [i \in k..N + 1 |-> IF i = k THEN G[<<k, f[next[k]]>>] ELSE f[i]]
  <2>5. G[<<k, f[next[k]]>>] \in R
    BY <2>2, <2>4
  <2>6. g \in [k..N + 1 -> R]
    BY <2>2, <2>3, <2>5
  <2>7. g[N + 1] = b
    BY <2>2, <2>3
  <2>8. ASSUME NEW i \in k..N PROVE g[i] = G[<<i, g[next[i]]>>]
    <3>1. i \in 1..N /\ next[i] \in k + 1..N + 1
      BY <2>2
    <3>2. g[next[i]] = f[next[i]]
      BY <2>2, <3>1
    <3>3. CASE i = k
      <4>1. g[k] = G[<<k, f[next[k]]>>]
        BY <2>2
      <4> HIDE DEF g
      <4> QED
        BY <3>2, <3>3, <4>1
    <3>4. CASE i # k
      <4>1. i \in k + 1..N /\ g[i] = f[i]
        BY <2>2, <3>4
      <4> HIDE DEF g
      <4> QED
        BY <2>3, <3>2, <4>1
    <3> QED
      BY <3>3, <3>4
  <2> HIDE DEF g
  <2>9. Ok(n, g)
    BY <2>7, <2>8 DEF Ok, k
  <2>10. Has(n)
    BY <2>6, <2>9 DEF k
  <2> HIDE DEF Has
  <2> QED
    BY <2>10
<1>3. N \in T
  <2> HIDE DEF T
  <2>1. 0..N \subseteq T
    BY <1>1, <1>2, InductionTo
  <2> QED
    BY <2>1
<1>4. N + 1 - N = 1
  OBVIOUS
<1> QED
  BY <1>3, <1>4 DEF Backward
-----------------------------------------------------------------------------
(* FlattenSeq.                                                             *)

\* What has been put together after each place.
Run(h, ss, S) ==
    /\ h \in [0..Len(ss) -> Seq(S)] /\ h[0] = <<>>
    /\ \A n \in 1..Len(ss) : h[n] = h[n - 1] \o ss[n]

Alike(ss, tt, lo, hi) == \A n \in lo..hi : ss[n] = tt[n]
LEMMA RunAgrees ==
  ASSUME NEW S, NEW ss \in Seq(Seq(S)), NEW tt \in Seq(Seq(S)), NEW h, NEW k, Run(h, ss, S), Run(k, tt, S),
         NEW M \in Nat, M <= Len(ss), M <= Len(tt), Alike(ss, tt, 1, M)
  PROVE  Alike(h, k, 0, M)
<1> DEFINE T == {n \in 0..M : h[n] = k[n]}
<1>1. 0 \in T
  BY DEF Run
<1>2. ASSUME NEW n \in 1..M, n - 1 \in T PROVE n \in T
  <2>1. n \in 1..Len(ss) /\ n \in 1..Len(tt)
    OBVIOUS
  <2>2. h[n] = h[n - 1] \o ss[n] /\ k[n] = k[n - 1] \o tt[n]
    BY <2>1, Zenon DEF Run
  <2>3. h[n - 1] = k[n - 1] /\ n \in 0..M
    BY <1>2
  <2>4. h[n] = k[n]
    BY <2>2, <2>3, Zenon DEF Alike
  <2> QED
    BY <2>3, <2>4
<1> HIDE DEF T
<1>3. 0..M \subseteq T
  BY <1>1, <1>2, InductionTo
<1> QED
  BY <1>3 DEF T, Alike

LEMMA FlatRuns ==
  ASSUME NEW S, NEW ss \in Seq(Seq(S))
  PROVE  \E h : Run(h, ss, S) /\ FlattenSeq(ss) = h[Len(ss)]
<1> DEFINE F(g, N) == [i \in 1..N |-> IF i = 1 THEN ss[i] ELSE g[i - 1] \o ss[i]]
           fix(N) == CHOOSE g : g = F(g, N)
<1>1. PICK N \in Nat : N = Len(ss)
  OBVIOUS
<1>2. PICK R : R = Seq(S)
  OBVIOUS
<1>3. PICK b \in R : b = <<>>
  BY <1>2, EmptySeq, Zenon
<1>4. \A n \in 1..N : ss[n] \in R
  BY <1>1, <1>2
<1>5. \A x \in R : b \o x = x /\ \A y \in R : x \o y \in R
  BY <1>2, <1>3
<1> DEFINE G == [p \in (1..N) \X R |-> p[2] \o ss[p[1]]]
<1>6. G \in [(1..N) \X R -> R]
  BY <1>4, <1>5
<1>7. \A n \in 1..N : \A x \in R : G[<<n, x>>] = x \o ss[n]
  OBVIOUS
<1> HIDE DEF G
<1>8. PICK h \in [0..N -> R] : h[0] = b /\ \A n \in 1..N : h[n] = G[<<n, h[n - 1]>>]
  <2>1. \E h : Computes(h, N, R, b, G)
    BY <1>1, <1>3, <1>6, RunExists
  <2> QED
    BY <2>1, Zenon DEF Computes
<1>9. ASSUME NEW n \in 1..N PROVE h[n - 1] \in R /\ h[n] = h[n - 1] \o ss[n]
  <2>1. h[n - 1] \in R
    OBVIOUS
  <2> QED
    BY <1>7, <1>8, <2>1, Zenon
<1>10. Run(h, ss, S)
  BY <1>1, <1>2, <1>3, <1>8, <1>9 DEF Run
<1>11. fix(N) = F(fix(N), N)
  <2> DEFINE k == [i \in 1..N |-> h[i]]
  <2>1. ASSUME NEW i \in 1..N PROVE h[i] = IF i = 1 THEN ss[i] ELSE k[i - 1] \o ss[i]
    <3>1. h[i] = h[i - 1] \o ss[i]
      BY <1>9
    <3>2. CASE i = 1
      <4>1. h[i - 1] = b /\ ss[i] \in R
        BY <1>4, <1>8, <3>2
      <4> QED
        BY <1>5, <3>1, <3>2, <4>1, Zenon
    <3>3. CASE i # 1
      <4>1. k[i - 1] = h[i - 1]
        BY <3>3
      <4> QED
        BY <3>1, <3>3, <4>1, Zenon
    <3> QED
      BY <3>2, <3>3
  <2>2. k = F(k, N)
    BY <2>1, Zenon
  <2> HIDE DEF k, F
  <2> QED
    BY <2>2
<1>12. FlattenSeq(ss) = IF N = 0 THEN ss ELSE fix(N)[N]
  BY <1>1 DEF FlattenSeq
<1>13. \A g : g = F(g, N) => \A n \in 1..N : g[n] = IF n = 1 THEN ss[n] ELSE g[n - 1] \o ss[n]
  <2> SUFFICES ASSUME NEW g, g = F(g, N), NEW n \in 1..N PROVE g[n] = IF n = 1 THEN ss[n] ELSE g[n - 1] \o ss[n]
    BY Zenon
  <2>1. F(g, N)[n] = IF n = 1 THEN ss[n] ELSE g[n - 1] \o ss[n]
    BY Zenon
  <2> HIDE DEF F
  <2> QED
    BY <2>1, Zenon
<1> HIDE DEF fix, F
<1>14. PICK g : g = fix(N) /\ \A n \in 1..N : g[n] = IF n = 1 THEN ss[n] ELSE g[n - 1] \o ss[n]
  BY <1>11, <1>13, Zenon
<1> DEFINE T == {n \in 0..N : n = 0 \/ g[n] = h[n]}
<1>15. 0 \in T
  OBVIOUS
<1>16. ASSUME NEW n \in 1..N, n - 1 \in T PROVE n \in T
  <2>1. h[n] = h[n - 1] \o ss[n] /\ g[n] = IF n = 1 THEN ss[n] ELSE g[n - 1] \o ss[n]
    BY <1>9, <1>14, Zenon
  <2>2. CASE n = 1
    <3>1. h[n - 1] = b /\ ss[n] \in R
      BY <1>4, <1>8, <2>2
    <3>2. g[n] = h[n]
      BY <1>5, <2>1, <2>2, <3>1, Zenon
    <3> QED
      BY <3>2
  <2>3. CASE n # 1
    <3>1. g[n - 1] = h[n - 1]
      BY <1>16, <2>3
    <3>2. g[n] = h[n]
      BY <2>1, <2>3, <3>1, Zenon
    <3> QED
      BY <3>2
  <2> QED
    BY <2>2, <2>3
<1>17. 0..N \subseteq T
  <2> HIDE DEF T
  <2> QED
    BY <1>15, <1>16, InductionTo
<1>18. FlattenSeq(ss) = h[N]
  <2>1. CASE N = 0
    <3>1. ss = <<>>
      <4>1. ~(Len(ss) \in Nat \ {0})
        BY <1>1, <2>1
      <4> QED
        BY <4>1, EmptySeq, Zenon
    <3> QED
      BY <1>3, <1>8, <1>12, <2>1, <3>1, Zenon
  <2>2. CASE N # 0
    <3>1. N \in T
      BY <1>17
    <3>2. g[N] = h[N]
      BY <2>2, <3>1
    <3> QED
      BY <1>12, <1>14, <2>2, <3>2, Zenon
  <2> QED
    BY <2>1, <2>2
<1> QED
  BY <1>1, <1>10, <1>18, Zenon

LEMMA FlatEmpty == FlattenSeq(<<>>) = <<>>
  BY DEF FlattenSeq

LEMMA FlatIn ==
  ASSUME NEW S, NEW ss \in Seq(Seq(S))
  PROVE  FlattenSeq(ss) \in Seq(S)
<1>1. PICK h : Run(h, ss, S) /\ FlattenSeq(ss) = h[Len(ss)]
  BY FlatRuns
<1>2. Len(ss) \in 0..Len(ss)
  OBVIOUS
<1> QED
  BY <1>1, <1>2 DEF Run

LEMMA FlatConcat ==
  ASSUME NEW S, NEW a \in Seq(Seq(S)), NEW b \in Seq(Seq(S))
  PROVE  FlattenSeq(a \o b) = FlattenSeq(a) \o FlattenSeq(b)
<1>1. PICK M \in Nat, N \in Nat : M = Len(a) /\ N = Len(b)
  OBVIOUS
<1>2. PICK c \in Seq(Seq(S)) : c = a \o b
  BY ConcatProperties, Zenon
<1>3. /\ Len(c) = M + N
      /\ \A n \in 1..M : c[n] = a[n]
      /\ \A n \in 1..N : c[M + n] = b[n] /\ b[n] \in Seq(S)
  BY <1>1, <1>2
<1>4. PICK h : Run(h, c, S) /\ FlattenSeq(c) = h[Len(c)]
  BY FlatRuns
<1>5. PICK f : Run(f, a, S) /\ FlattenSeq(a) = f[M]
  BY <1>1, FlatRuns
<1>6. PICK g : Run(g, b, S) /\ FlattenSeq(b) = g[N]
  BY <1>1, FlatRuns
<1>7. h[M] = f[M] /\ f[M] \in Seq(S)
  <2>1. M <= Len(c) /\ M <= Len(a)
    BY <1>1, <1>3
  <2>2. Alike(h, f, 0, M)
    <3>1. M \in Nat /\ c \in Seq(Seq(S)) /\ Run(h, c, S) /\ Run(f, a, S) /\ Alike(c, a, 1, M)
      BY <1>1, <1>2, <1>3, <1>4, <1>5, Zenon DEF Alike
    <3> QED
      BY <2>1, <3>1, RunAgrees
  <2>3. M \in 0..M /\ M \in 0..Len(a)
    BY <1>1
  <2> QED
    BY <1>5, <2>2, <2>3, Zenon DEF Run, Alike
<1>8. g[0] = <<>> /\ \A n \in 1..N : g[n] = g[n - 1] \o b[n] /\ g[n - 1] \in Seq(S)
  <2> SUFFICES ASSUME NEW n \in 1..N PROVE g[n] = g[n - 1] \o b[n] /\ g[n - 1] \in Seq(S)
    BY <1>6, Zenon DEF Run
  <2>1. n \in 1..Len(b) /\ n - 1 \in 0..Len(b)
    BY <1>1
  <2> QED
    BY <1>6, <2>1, Zenon DEF Run
<1>9. \A n \in 1..N : h[M + n] = h[M + (n - 1)] \o b[n]
  <2> SUFFICES ASSUME NEW n \in 1..N PROVE h[M + n] = h[M + (n - 1)] \o b[n]
    OBVIOUS
  <2>1. M + n \in 1..Len(c) /\ (M + n) - 1 = M + (n - 1)
    BY <1>3
  <2>2. h[M + n] = h[(M + n) - 1] \o c[M + n]
    BY <1>4, <2>1, Zenon DEF Run
  <2> QED
    BY <1>3, <2>1, <2>2, Zenon
<1> DEFINE T == {n \in 0..N : h[M + n] = f[M] \o g[n]}
<1>10. 0 \in T
  <2>1. M + 0 = M /\ f[M] \o <<>> = f[M]
    BY <1>7
  <2>2. h[M + 0] = f[M] \o g[0]
    BY <1>7, <1>8, <2>1, Zenon
  <2>3. 0 \in 0..N
    BY <1>1
  <2> QED
    BY <2>2, <2>3, Zenon
<1>11. ASSUME NEW n \in 1..N, n - 1 \in T PROVE n \in T
  <2>1. h[M + (n - 1)] = f[M] \o g[n - 1]
    BY <1>11
  <2>2. (f[M] \o g[n - 1]) \o b[n] = f[M] \o (g[n - 1] \o b[n])
    <3>1. f[M] \in Seq(S) /\ g[n - 1] \in Seq(S) /\ b[n] \in Seq(S)
      BY <1>3, <1>7, <1>8, Zenon
    <3>2. \A x, y, z \in Seq(S) : (x \o y) \o z = x \o (y \o z)
      BY ConcatAssociative
    <3> QED
      BY <3>1, <3>2, Zenon
  <2>3. h[M + n] = f[M] \o g[n]
    BY <1>8, <1>9, <2>1, <2>2, Zenon
  <2>4. n \in 0..N
    OBVIOUS
  <2> QED
    BY <2>3, <2>4, Zenon
<1>12. 0..N \subseteq T
  <2> HIDE DEF T
  <2> QED
    BY <1>10, <1>11, InductionTo
<1>13. h[M + N] = f[M] \o g[N]
  <2>1. N \in T
    <3> HIDE DEF T
    <3> QED
      BY <1>1, <1>12
  <2> QED
    BY <2>1, Zenon
<1> QED
  BY <1>2, <1>3, <1>4, <1>5, <1>6, <1>13, Zenon

LEMMA FlatOne ==
  ASSUME NEW S, NEW t \in Seq(S)
  PROVE  FlattenSeq(<<t>>) = t
<1>1. PICK ss \in Seq(Seq(S)) : ss = <<t>>
  <2>1. \A Q : \A x \in Q : <<x>> \in Seq(Q)
    OBVIOUS
  <2> QED
    BY <2>1, Zenon
<1>2. Len(ss) = 1 /\ ss[1] = t
  BY <1>1
<1>3. PICK h : Run(h, ss, S) /\ FlattenSeq(ss) = h[Len(ss)]
  BY FlatRuns
<1>4. h[1] = h[1 - 1] \o ss[1] /\ h[0] = <<>>
  BY <1>2, <1>3 DEF Run
<1>5. h[1] = t
  BY <1>2, <1>4
<1> QED
  BY <1>1, <1>2, <1>3, <1>5

-----------------------------------------------------------------------------
(* Beginnings and ends of sequences.                                       *)

Rest(v, n) == SubSeq(v, n + 1, Len(v))

LEMMA RestIs ==
  ASSUME NEW S, NEW v \in Seq(S), NEW n \in 0..Len(v)
  PROVE  /\ Rest(v, n) \in Seq(S) /\ Len(Rest(v, n)) = Len(v) - n
         /\ \A i \in 1..Len(v) - n : Rest(v, n)[i] = v[n + i]
<1>1. PICK L \in Nat : L = Len(v)
  OBVIOUS
<1>2. n \in 0..L /\ n \in Int /\ n + 1 \in Int /\ L \in Int /\ L - (n + 1) + 1 = L - n
  BY <1>1
<1>3. \A i \in n + 1..L : v[i] \in S
  BY <1>1
<1>4. /\ SubSeq(v, n + 1, L) \in Seq(S)
      /\ Len(SubSeq(v, n + 1, L)) = IF n + 1 <= L THEN L - (n + 1) + 1 ELSE 0
      /\ \A i \in 1..L - (n + 1) + 1 : SubSeq(v, n + 1, L)[i] = v[(n + 1) + i - 1]
  BY <1>2, <1>3, SubSeqProperties
<1>5. \A i \in 1..L - n : (n + 1) + i - 1 = n + i
  BY <1>2
<1>6. (IF n + 1 <= L THEN L - (n + 1) + 1 ELSE 0) = L - n
  BY <1>2
<1> QED
  BY <1>1, <1>2, <1>4, <1>5, <1>6, Zenon DEF Rest

LEMMA RestOfAll ==
  ASSUME NEW S, NEW v \in Seq(S)
  PROVE  Rest(v, 0) = v
<1>1. 0 + 1 = 1
  OBVIOUS
<1> QED
  BY <1>1, SubSeqFull, Zenon DEF Rest

LEMMA RestOfRest ==
  ASSUME NEW S, NEW v \in Seq(S), NEW m \in 0..Len(v), NEW n \in 0..Len(v) - m
  PROVE  Rest(Rest(v, m), n) = Rest(v, m + n)
<1>1. PICK L \in Nat : L = Len(v)
  OBVIOUS
<1>2. PICK r : r = Rest(v, m)
  OBVIOUS
<1>3. r \in Seq(S) /\ Len(r) = L - m /\ \A i \in 1..L - m : r[i] = v[m + i]
  BY <1>1, <1>2, RestIs, Zenon
<1>4. n \in 0..Len(r) /\ m + n \in 0..Len(v) /\ (L - m) - n = L - (m + n) /\ m \in 0..L /\ n \in 0..L - m
  BY <1>1, <1>3
<1>5. PICK x : x = Rest(r, n)
  OBVIOUS
<1>6. x \in Seq(S) /\ Len(x) = L - (m + n) /\ \A i \in 1..L - (m + n) : x[i] = r[n + i]
  <2>1. Len(r) - n = L - (m + n)
    BY <1>3, <1>4
  <2>2. r \in Seq(S) /\ n \in 0..Len(r)
    BY <1>3, <1>4, Zenon
  <2>3. x \in Seq(S) /\ Len(x) = Len(r) - n /\ \A i \in 1..Len(r) - n : x[i] = r[n + i]
    BY <1>5, <2>2, RestIs, Zenon
  <2> QED
    BY <2>1, <2>3, Zenon
<1>7. PICK y : y = Rest(v, m + n)
  OBVIOUS
<1>8. y \in Seq(S) /\ Len(y) = L - (m + n) /\ \A i \in 1..L - (m + n) : y[i] = v[(m + n) + i]
  BY <1>1, <1>4, <1>7, RestIs, Zenon
<1>9. \A i \in 1..Len(x) : x[i] = y[i]
  <2> SUFFICES ASSUME NEW i \in 1..L - (m + n) PROVE x[i] = y[i]
    BY <1>6, Zenon
  <2>1. n + i \in 1..L - m /\ m + (n + i) = (m + n) + i
    BY <1>4
  <2> QED
    BY <1>3, <1>6, <1>8, <2>1, Zenon
<1>10. x = y
  BY <1>6, <1>8, <1>9, SeqEqual, Zenon
<1> QED
  BY <1>2, <1>5, <1>7, <1>10, Zenon

LEMMA RestOfConcat ==
  ASSUME NEW S, NEW a \in Seq(S), NEW b \in Seq(S)
  PROVE  Rest(a \o b, Len(a)) = b
<1>1. PICK M \in Nat, N \in Nat : M = Len(a) /\ N = Len(b)
  OBVIOUS
<1>2. PICK c : c = a \o b
  OBVIOUS
<1>3. c \in Seq(S) /\ Len(c) = M + N /\ \A i \in 1..M + N : c[i] = IF i <= M THEN a[i] ELSE b[i - M]
  BY <1>1, <1>2, ConcatProperties
<1>4. M \in 0..Len(c) /\ (M + N) - M = N
  BY <1>3
<1>5. PICK r : r = Rest(c, M)
  OBVIOUS
<1>6. r \in Seq(S) /\ Len(r) = N /\ \A i \in 1..N : r[i] = c[M + i]
  <2>1. Len(c) - M = N
    BY <1>3, <1>4
  <2>2. c \in Seq(S) /\ M \in 0..Len(c)
    BY <1>3, <1>4, Zenon
  <2>3. r \in Seq(S) /\ Len(r) = Len(c) - M /\ \A i \in 1..Len(c) - M : r[i] = c[M + i]
    BY <1>5, <2>2, RestIs, Zenon
  <2> QED
    BY <2>1, <2>3, Zenon
<1>7. \A i \in 1..N : c[M + i] = b[i]
  <2> SUFFICES ASSUME NEW i \in 1..N PROVE c[M + i] = b[i]
    OBVIOUS
  <2>1. M + i \in 1..M + N /\ ~(M + i <= M) /\ (M + i) - M = i
    BY <1>1
  <2> QED
    BY <1>3, <2>1, Zenon
<1>8. \A i \in 1..Len(r) : r[i] = b[i]
  BY <1>6, <1>7, Zenon
<1>9. r = b
  BY <1>1, <1>6, <1>8, SeqEqual, Zenon
<1> QED
  BY <1>1, <1>2, <1>5, <1>9, Zenon

\* A prefix, and what is left.
LEMMA PrefixIs ==
  ASSUME NEW S, NEW a \in Seq(S), NEW v \in Seq(S)
  PROVE  /\ IsPrefix(a, v) => Len(a) \in 0..Len(v) /\ v = a \o Rest(v, Len(a)) /\ a = SubSeq(v, 1, Len(a))
         /\ \A b \in Seq(S) : v = a \o b => IsPrefix(a, v) /\ b = Rest(v, Len(a))
<1>1. PICK M \in Nat, L \in Nat : M = Len(a) /\ L = Len(v)
  OBVIOUS
<1>2. SubSeq(a, 1, M) = a
  BY <1>1, SubSeqFull, Zenon
<1>3. ASSUME IsPrefix(a, v) PROVE Len(a) \in 0..Len(v) /\ v = a \o Rest(v, Len(a)) /\ a = SubSeq(v, 1, Len(a))
  <2>1. M <= L /\ a = SubSeq(v, 1, M)
    BY <1>1, <1>2, <1>3, Zenon DEF IsPrefix
  <2>2. 1 \in 1..Len(v) + 1 /\ M \in 1 - 1..Len(v) /\ L \in M..Len(v) /\ M \in 0..L
    BY <1>1, <2>1
  <2>3. SubSeq(v, 1, M) \o SubSeq(v, M + 1, L) = SubSeq(v, 1, L)
    BY <2>2, ConcatAdjacentSubSeq
  <2>4. SubSeq(v, 1, L) = v
    BY <1>1, SubSeqFull, Zenon
  <2>5. SubSeq(v, M + 1, L) = Rest(v, M)
    BY <1>1, Zenon DEF Rest
  <2> QED
    BY <1>1, <2>1, <2>2, <2>3, <2>4, <2>5, Zenon
<1>4. ASSUME NEW b \in Seq(S), v = a \o b PROVE IsPrefix(a, v) /\ b = Rest(v, Len(a))
  <2>1. b = Rest(v, Len(a))
    BY <1>4, RestOfConcat, Zenon
  <2>2. L = M + Len(b) /\ Len(b) \in Nat /\ \A i \in 1..M : v[i] = a[i]
    BY <1>1, <1>4
  <2>3. PICK p : p = SubSeq(v, 1, M)
    OBVIOUS
  <2>4. p \in Seq(S) /\ Len(p) = M /\ \A i \in 1..M : p[i] = v[i]
    <3>1. 1 \in Int /\ M \in Int /\ \A i \in 1..M : v[i] \in S
      BY <1>1, <2>2
    <3>2. /\ SubSeq(v, 1, M) \in Seq(S) /\ Len(SubSeq(v, 1, M)) = (IF 1 <= M THEN M - 1 + 1 ELSE 0)
          /\ \A i \in 1..M - 1 + 1 : SubSeq(v, 1, M)[i] = v[1 + i - 1]
      BY <3>1, SubSeqProperties
    <3>3. (IF 1 <= M THEN M - 1 + 1 ELSE 0) = M /\ M - 1 + 1 = M /\ \A i \in 1..M : 1 + i - 1 = i
      OBVIOUS
    <3> QED
      BY <2>3, <3>2, <3>3, Zenon
  <2>5. \A i \in 1..Len(p) : p[i] = a[i]
    BY <2>2, <2>4, Zenon
  <2>6. p = a
    BY <1>1, <2>4, <2>5, SeqEqual, Zenon
  <2>7. M <= L
    BY <2>2
  <2> QED
    BY <1>1, <1>2, <2>1, <2>3, <2>6, <2>7, Zenon DEF IsPrefix
<1> QED
  BY <1>3, <1>4

-----------------------------------------------------------------------------
(* The vocab.                                                              *)

\* A vocab as mxbai.bin has it: no token without a text.
VocabGood(Symbols) ==
    /\ Hf \in Seq([form : {"word", "piece", "special"}, str : Seq(Symbols)]) /\ Start \in Symbols
    /\ \A id \in DOMAIN Hf : Hf[id].form = "word" \/ Hf[id].str # <<>>
Ids == DOMAIN Gguf

LEMMA VocabIs ==
  ASSUME NEW Symbols, VocabGood(Symbols)
  PROVE  /\ Len(Hf) \in Nat /\ Ids = 1..Len(Hf) /\ 0 \notin Ids /\ Ids \subseteq Nat
         /\ \A id \in Ids : Gguf[id] \in Seq(Symbols) /\ Len(Gguf[id]) \in Nat \ {0}
<1>1. Len(Hf) \in Nat /\ DOMAIN Hf = 1..Len(Hf)
  BY DEF VocabGood
<1>2. Ids = 1..Len(Hf)
  BY <1>1, Zenon DEF Ids, Gguf
<1>3. ASSUME NEW id \in Ids PROVE Gguf[id] \in Seq(Symbols) /\ Len(Gguf[id]) \in Nat \ {0}
  <2>1. Gguf[id] = IF Hf[id].form = "word" THEN <<Start>> \o Hf[id].str ELSE Hf[id].str
    BY Zenon DEF Ids, Gguf
  <2>2. Hf[id].str \in Seq(Symbols) /\ Start \in Symbols /\ (Hf[id].form = "word" \/ Hf[id].str # <<>>)
    <3>1. id \in DOMAIN Hf
      BY <1>1, <1>2
    <3>2. Hf[id] \in [form : {"word", "piece", "special"}, str : Seq(Symbols)]
      <4>1. PICK R : R = [form : {"word", "piece", "special"}, str : Seq(Symbols)]
        OBVIOUS
      <4>2. Hf \in Seq(R) /\ id \in 1..Len(Hf)
        BY <1>1, <3>1, <4>1, Zenon DEF VocabGood
      <4> QED
        BY <4>1, <4>2, ElementOfSeq, Zenon
    <3>3. Hf[id].str \in Seq(Symbols)
      BY <3>2
    <3> QED
      BY <3>1, <3>3, Zenon DEF VocabGood
  <2>3. PICK s \in Seq(Symbols) : s = Hf[id].str
    BY <2>2
  <2>4. CASE Hf[id].form = "word"
    <3>1. Gguf[id] = <<Start>> \o s
      BY <2>1, <2>3, <2>4
    <3> QED
      BY <2>2, <3>1
  <2>5. CASE Hf[id].form # "word"
    <3>1. Gguf[id] = s /\ s # <<>>
      BY <2>1, <2>2, <2>3, <2>5
    <3> QED
      BY <3>1
  <2> QED
    BY <2>4, <2>5
<1> QED
  BY <1>1, <1>2, <1>3

LEMMA LookupIs ==
  ASSUME NEW Symbols, VocabGood(Symbols), NEW s
  PROVE  /\ \/ tok_lookup(s) = NoId /\ \A id \in Ids : Gguf[id] # s
            \/ tok_lookup(s) \in Ids /\ Gguf[tok_lookup(s)] = s
         /\ NoId \notin Ids
<1> DEFINE T == {id \in Ids : Gguf[id] = s}
<1>1. PICK N \in Nat : Ids = 1..N /\ 0 \notin Ids
  BY VocabIs
<1>2. tok_lookup(s) = IF T = {} THEN NoId ELSE Max(T)
  BY Zenon DEF tok_lookup, Ids
<1>3. T # {} => Max(T) \in T
  <2> SUFFICES ASSUME T # {} PROVE Max(T) \in T
    OBVIOUS
  <2>1. T \in SUBSET (0..N)
    BY <1>1
  <2> HIDE DEF T
  <2> QED
    BY <1>1, <2>1, MostOf
<1>4. T = {} => \A id \in Ids : Gguf[id] # s
  OBVIOUS
<1>5. \A id \in T : id \in Ids /\ Gguf[id] = s
  OBVIOUS
<1> HIDE DEF T
<1>6. CASE T = {}
  <2>1. tok_lookup(s) = NoId
    BY <1>2, <1>6, Zenon
  <2>2. \A id \in Ids : Gguf[id] # s
    BY <1>4, <1>6, Zenon
  <2>3. NoId \notin Ids
    BY <1>1, Zenon DEF NoId
  <2> QED
    BY <2>1, <2>2, <2>3, Zenon
<1>7. CASE T # {}
  <2>1. tok_lookup(s) = Max(T) /\ Max(T) \in T
    BY <1>2, <1>3, <1>7, Zenon
  <2>2. tok_lookup(s) \in Ids /\ Gguf[tok_lookup(s)] = s
    BY <1>5, <2>1, Zenon
  <2>3. NoId \notin Ids
    BY <1>1, Zenon DEF NoId
  <2> QED
    BY <2>2, <2>3, Zenon
<1> QED
  BY <1>6, <1>7, Zenon

\* No token is longer than max_len.
LEMMA MaxLen ==
  ASSUME NEW Symbols, VocabGood(Symbols), NEW id \in Ids
  PROVE  max_len \in Nat /\ Len(Gguf[id]) <= max_len
<1>1. PICK N \in Nat : N = Len(Hf) /\ Ids = 1..N
  BY VocabIs
<1>2. \A i \in 1..N : Len(Gguf[i]) \in Nat
  BY <1>1, VocabIs, Zenon
<1> DEFINE len == [i \in 1..N |-> Len(Gguf[i])]
           T == {n \in 0..N : \E B \in Nat : \A i \in 1..n : len[i] <= B}
<1>3. \A i \in 1..N : len[i] \in Nat
  BY <1>2
<1> HIDE DEF len
<1>4. 0 \in T
  <2>1. \A i \in 1..0 : len[i] <= 0
    OBVIOUS
  <2> QED
    BY <2>1
<1>5. ASSUME NEW n \in 1..N, n - 1 \in T PROVE n \in T
  <2>1. PICK B \in Nat : \A i \in 1..n - 1 : len[i] <= B
    BY <1>5
  <2>2. PICK C \in Nat : C = IF len[n] <= B THEN B ELSE len[n]
    BY <1>3
  <2>3. \A i \in 1..n : len[i] <= C
    <3> SUFFICES ASSUME NEW i \in 1..n PROVE len[i] <= C
      OBVIOUS
    <3>1. len[i] \in Nat /\ len[n] \in Nat
      BY <1>3
    <3>2. CASE i = n
      BY <2>2, <3>1, <3>2
    <3>3. CASE i # n
      <4>1. len[i] <= B
        BY <2>1, <3>3
      <4> QED
        BY <2>2, <3>1, <4>1
    <3> QED
      BY <3>2, <3>3
  <2> QED
    BY <2>3
<1>6. 0..N \subseteq T
  <2> HIDE DEF T
  <2> QED
    BY <1>4, <1>5, InductionTo
<1>7. PICK B \in Nat : \A i \in 1..N : len[i] <= B
  <2>1. N \in T
    <3> HIDE DEF T
    <3> QED
      BY <1>6
  <2> QED
    BY <2>1
<1> DEFINE L == {Len(Gguf[i]) : i \in DOMAIN Gguf}
<1>8. L \in SUBSET (0..B) /\ Len(Gguf[id]) \in L
  <2>1. \A i \in 1..N : Len(Gguf[i]) \in 0..B
    BY <1>2, <1>3, <1>7 DEF len
  <2> QED
    BY <1>1, <2>1, Zenon DEF Ids
<1>9. max_len = Max(L)
  BY Zenon DEF max_len
<1>10. Max(L) \in L /\ \A n \in L : n <= Max(L)
  <2> HIDE DEF L
  <2>1. L # {}
    BY <1>8
  <2> QED
    BY <1>8, <2>1, MostOf
<1> QED
  <2> HIDE DEF L
  <2>1. max_len \in L /\ Len(Gguf[id]) <= max_len
    BY <1>8, <1>9, <1>10, Zenon
  <2> QED
    BY <1>8, <2>1

-----------------------------------------------------------------------------
(* Longest matches.                                                        *)

\* A piece of a suffix.
LEMMA PieceOfRest ==
  ASSUME NEW S, NEW w \in Seq(S), NEW k \in 0..Len(w), NEW l \in 1..Len(w) - k
  PROVE  SubSeq(Rest(w, k), 1, l) = SubSeq(w, k + 1, k + l)
<1>1. PICK N \in Nat : N = Len(w)
  OBVIOUS
<1>2. k \in 0..N /\ l \in 1..N - k
  BY <1>1
<1>3. /\ k + 1 \in 1..Len(w) /\ N \in 1..Len(w) /\ 1 \in 1..N - (k + 1) + 1 /\ l \in 1..N - (k + 1) + 1
      /\ (k + 1) + 1 - 1 = k + 1 /\ (k + 1) + l - 1 = k + l
  BY <1>1, <1>2
<1>4. SubSeq(SubSeq(w, k + 1, N), 1, l) = SubSeq(w, (k + 1) + 1 - 1, (k + 1) + l - 1)
  BY <1>3, SubSeqOfSubSeq
<1> QED
  BY <1>1, <1>3, <1>4, Zenon DEF Rest

LEMMA LongestUnique ==
  ASSUME NEW Symbols, VocabGood(Symbols), NEW v \in Seq(Symbols), NEW g \in Ids, NEW h \in Ids, Longest(v, g), Longest(v, h)
  PROVE  g = h
<1>1. /\ Len(Gguf[g]) \in Nat /\ Len(Gguf[h]) \in Nat /\ Gguf[g] \in Seq(Symbols) /\ Gguf[h] \in Seq(Symbols)
  BY VocabIs, Zenon
<1>2. /\ Len(Gguf[h]) <= Len(Gguf[g]) /\ Len(Gguf[g]) <= Len(Gguf[h])
      /\ g = tok_lookup(Gguf[g]) /\ h = tok_lookup(Gguf[h]) /\ IsPrefix(Gguf[g], v) /\ IsPrefix(Gguf[h], v)
  BY Zenon DEF Longest, Ids
<1>3. Len(Gguf[g]) = Len(Gguf[h])
  BY <1>1, <1>2
<1>4. Gguf[g] = SubSeq(v, 1, Len(Gguf[g])) /\ Gguf[h] = SubSeq(v, 1, Len(Gguf[h]))
  BY <1>1, <1>2, PrefixIs, Zenon
<1> QED
  BY <1>2, <1>3, <1>4, Zenon

\* What the scan takes at a place is the longest token that begins there, and it takes none only where
\* none begins.
LEMMA MatchedIs ==
  ASSUME NEW Symbols, VocabGood(Symbols), NEW w \in Seq(Symbols), NEW i \in 1..Len(w)
  PROVE  /\ Matched(w, i) \in i - 1..Len(w)
         /\ Matched(w, i) < i => \A id \in Ids : ~IsPrefix(Gguf[id], Rest(w, i - 1))
         /\ ~(Matched(w, i) < i) =>
              LET id == tok_lookup(SubSeq(w, i, Matched(w, i))) IN
              id \in Ids /\ Longest(Rest(w, i - 1), id) /\ Len(Gguf[id]) = Matched(w, i) - (i - 1)
<1>1. PICK N \in Nat : N = Len(w)
  OBVIOUS
<1> DEFINE k == i - 1
           v == Rest(w, k)
           Ends == {j \in i..N : j <= i + max_len /\ tok_lookup(SubSeq(w, i, j)) # NoId}
           m == Matched(w, i)
<1>2. k \in 0..N /\ i \in 1..N /\ k + 1 = i
  BY <1>1
<1>3. m = Max({k} \cup Ends)
  BY <1>1, Zenon DEF Matched
<1>4. m \in {k} \cup Ends /\ \A j \in Ends : j <= m
  <2> DEFINE T == {k} \cup Ends
  <2>1. T \in SUBSET (0..N) /\ T # {}
    BY <1>2
  <2>2. Max(T) \in T /\ \A j \in T : j <= Max(T)
    <3> HIDE DEF T
    <3> QED
      BY <1>1, <2>1, MostOf
  <2> QED
    BY <1>3, <2>2, Zenon
<1>5. v \in Seq(Symbols) /\ Len(v) = N - k
  BY <1>1, <1>2, RestIs
<1>6. \A l \in 1..N - k : SubSeq(v, 1, l) = SubSeq(w, i, k + l)
  <2> SUFFICES ASSUME NEW l \in 1..N - k PROVE SubSeq(v, 1, l) = SubSeq(w, i, k + l)
    OBVIOUS
  <2>1. SubSeq(Rest(w, k), 1, l) = SubSeq(w, k + 1, k + l)
    BY <1>1, <1>2, PieceOfRest
  <2> QED
    BY <1>2, <2>1, Zenon
<1> HIDE DEF k, v, m
<1>7. ASSUME NEW id \in Ids, IsPrefix(Gguf[id], v)
      PROVE  k + Len(Gguf[id]) \in Ends
  <2>1. PICK l \in Nat \ {0} : l = Len(Gguf[id])
    BY VocabIs, Zenon
  <2>2. l \in 0..Len(v) /\ Gguf[id] = SubSeq(v, 1, l)
    BY <1>5, <1>7, <2>1, PrefixIs, VocabIs, Zenon
  <2>3. l \in 1..N - k /\ k + l \in i..N
    BY <1>2, <1>5, <2>1, <2>2
  <2>4. tok_lookup(SubSeq(w, i, k + l)) # NoId
    <3>1. Gguf[id] = SubSeq(w, i, k + l)
      BY <1>6, <2>2, <2>3, Zenon
    <3> QED
      BY <3>1, LookupIs, Zenon
  <2>5. k + l <= i + max_len
    <3>1. l <= max_len /\ max_len \in Nat
      BY <2>1, MaxLen
    <3> QED
      BY <1>2, <3>1
  <2> QED
    BY <2>1, <2>3, <2>4, <2>5, Zenon
<1>8. m \in k..N
  BY <1>2, <1>4
<1>9. m < i => \A id \in Ids : ~IsPrefix(Gguf[id], v)
  <2> SUFFICES ASSUME m < i, NEW id \in Ids, IsPrefix(Gguf[id], v) PROVE FALSE
    OBVIOUS
  <2>1. k + Len(Gguf[id]) \in Ends
    BY <1>7
  <2>2. k + Len(Gguf[id]) <= m
    BY <1>4, <2>1, Zenon
  <2>3. k + Len(Gguf[id]) \in i..N
    BY <2>1
  <2> HIDE DEF Ends
  <2> QED
    BY <1>2, <1>8, <2>2, <2>3
<1>10. ASSUME ~(m < i), NEW id, id = tok_lookup(SubSeq(w, i, m))
       PROVE  id \in Ids /\ Longest(v, id) /\ Len(Gguf[id]) = m - k
  <2>1. m \in Ends /\ m - k \in 1..N - k /\ k + (m - k) = m
    BY <1>2, <1>4, <1>8, <1>10
  <2>2. id \in Ids /\ Gguf[id] = SubSeq(w, i, m)
    <3>1. tok_lookup(SubSeq(w, i, m)) # NoId
      BY <2>1, Zenon
    <3> QED
      BY <1>10, <3>1, LookupIs, Zenon
  <2>3. Gguf[id] = SubSeq(v, 1, m - k)
    BY <1>6, <2>1, <2>2, Zenon
  <2>4. Len(Gguf[id]) = m - k
    <3>1. PICK l \in 1..Len(v) : l = m - k
      BY <1>5, <2>1
    <3>2. Len(SubSeq(v, 1, l)) = l
      BY <1>5, <3>1
    <3> QED
      BY <2>3, <3>1, <3>2, Zenon
  <2>5. IsPrefix(Gguf[id], v)
    <3>1. SubSeq(Gguf[id], 1, Len(Gguf[id])) = Gguf[id]
      BY <2>2, VocabIs, SubSeqFull, Zenon
    <3>2. Len(Gguf[id]) <= Len(v)
      BY <1>5, <2>1, <2>4
    <3> QED
      BY <2>3, <2>4, <3>1, <3>2, Zenon DEF IsPrefix
  <2>6. ASSUME NEW other \in Ids, IsPrefix(Gguf[other], v) PROVE Len(Gguf[other]) <= Len(Gguf[id])
    <3>1. k + Len(Gguf[other]) \in Ends
      BY <1>7, <2>6
    <3>2. k + Len(Gguf[other]) <= m
      BY <1>4, <3>1, Zenon
    <3>3. Len(Gguf[other]) \in Nat
      BY VocabIs, Zenon
    <3> HIDE DEF Ends
    <3> QED
      BY <1>2, <1>8, <2>4, <3>2, <3>3
  <2>7. id = tok_lookup(Gguf[id])
    BY <1>10, <2>2, Zenon
  <2> QED
    BY <2>2, <2>4, <2>5, <2>6, <2>7, Zenon DEF Longest, Ids
<1> DEFINE it == tok_lookup(SubSeq(w, i, m))
<1>11. ~(m < i) => it \in Ids /\ Longest(v, it) /\ Len(Gguf[it]) = m - k
  <2> SUFFICES ASSUME ~(m < i) PROVE it \in Ids /\ Longest(v, it) /\ Len(Gguf[it]) = m - k
    OBVIOUS
  <2>1. PICK id : id = it
    OBVIOUS
  <2>2. id \in Ids /\ Longest(v, id) /\ Len(Gguf[id]) = m - k
    BY <1>10, <2>1
  <2> QED
    BY <2>1, <2>2, Zenon
<1> QED
  BY <1>1, <1>8, <1>9, <1>11, Zenon DEF k, v, m

-----------------------------------------------------------------------------
(* Spellings.                                                              *)

LEMMA SpeltEmpty == Spelt(<<>>) = <<>>
<1>1. [k \in DOMAIN <<>> |-> Gguf[<<>>[k]]] = <<>>
  OBVIOUS
<1> QED
  BY <1>1, FlatEmpty, Zenon DEF Spelt

LEMMA SpeltIn ==
  ASSUME NEW Symbols, VocabGood(Symbols), NEW ids \in Seq(Ids)
  PROVE  Spelt(ids) \in Seq(Symbols) /\ Len(Spelt(ids)) \in Nat
<1> DEFINE ss == [k \in DOMAIN ids |-> Gguf[ids[k]]]
<1>1. PICK N \in Nat : N = Len(ids) /\ DOMAIN ids = 1..N
  OBVIOUS
<1>2. \A k \in 1..N : Gguf[ids[k]] \in Seq(Symbols)
  BY <1>1, ElementOfSeq, VocabIs
<1>3. PICK Q : Q = Seq(Symbols)
  OBVIOUS
<1>4. ss \in Seq(Q)
  <2>1. \A k \in 1..N : Gguf[ids[k]] \in Q
    BY <1>2, <1>3, Zenon
  <2> QED
    BY <1>1, <2>1
<1>5. FlattenSeq(ss) \in Seq(Symbols)
  BY <1>3, <1>4, FlatIn, Zenon
<1> QED
  BY <1>5, LenProperties, Zenon DEF Spelt

LEMMA SpeltCons ==
  ASSUME NEW Symbols, VocabGood(Symbols), NEW id \in Ids, NEW t \in Seq(Ids)
  PROVE  Spelt(<<id>> \o t) = Gguf[id] \o Spelt(t)
<1> DEFINE ss == [k \in DOMAIN t |-> Gguf[t[k]]]
           c == <<id>> \o t
           cc == [k \in DOMAIN c |-> Gguf[c[k]]]
<1>1. PICK N \in Nat : N = Len(t) /\ DOMAIN t = 1..N
  OBVIOUS
<1>2. PICK Q : Q = Seq(Symbols)
  OBVIOUS
<1>3. (\A k \in 1..N : Gguf[t[k]] \in Q) /\ Gguf[id] \in Q
  BY <1>1, <1>2, ElementOfSeq, VocabIs
<1>4. ss \in Seq(Q) /\ Len(ss) = N /\ \A k \in 1..N : ss[k] = Gguf[t[k]]
  BY <1>1, <1>3
<1>5. DOMAIN c = 1..N + 1 /\ c[1] = id /\ \A k \in 1..N : c[k + 1] = t[k]
  BY <1>1
<1> HIDE DEF ss, c
<1>6. DOMAIN cc = 1..N + 1 /\ cc[1] = Gguf[id] /\ (\A k \in 1..N : cc[k + 1] = ss[k]) /\ \A k \in 1..N + 1 : cc[k] \in Q
  <2>1. DOMAIN cc = 1..N + 1 /\ \A k \in 1..N + 1 : cc[k] = Gguf[c[k]]
    BY <1>5
  <2> HIDE DEF cc
  <2>2. cc[1] = Gguf[id] /\ \A k \in 1..N : cc[k + 1] = ss[k]
    BY <1>4, <1>5, <2>1
  <2>3. ASSUME NEW k \in 1..N + 1 PROVE cc[k] \in Q
    <3>1. CASE k = 1
      BY <1>3, <2>2, <3>1
    <3>2. CASE k # 1
      <4>1. k - 1 \in 1..N /\ (k - 1) + 1 = k
        BY <3>2
      <4>2. cc[(k - 1) + 1] = ss[k - 1] /\ ss[k - 1] \in Q
        BY <1>3, <1>4, <2>2, <4>1, Zenon
      <4> QED
        BY <4>1, <4>2, Zenon
    <3> QED
      BY <3>1, <3>2
  <2> QED
    BY <2>1, <2>2, <2>3
<1>7. cc = <<Gguf[id]>> \o ss
  <2>1. PICK g \in Q : g = Gguf[id]
    BY <1>3
  <2>2. PICK d : d = <<g>> \o ss
    OBVIOUS
  <2>3. d \in Seq(Q) /\ Len(d) = N + 1 /\ d[1] = g /\ \A k \in 1..N : d[k + 1] = ss[k]
    BY <1>4, <2>2
  <2>4. cc \in Seq(Q) /\ Len(cc) = N + 1
    <3>1. cc = [k \in 1..N + 1 |-> cc[k]]
      BY <1>5, Zenon
    <3> HIDE DEF cc
    <3> QED
      BY <1>6, <3>1
  <2>5. ASSUME NEW k \in 1..N + 1 PROVE cc[k] = d[k]
    <3> HIDE DEF cc
    <3>1. CASE k = 1
      BY <1>6, <2>1, <2>3, <3>1, Zenon
    <3>2. CASE k # 1
      <4>1. k - 1 \in 1..N /\ (k - 1) + 1 = k
        BY <3>2
      <4>2. cc[(k - 1) + 1] = d[(k - 1) + 1]
        BY <1>6, <2>3, <4>1, Zenon
      <4> QED
        BY <4>1, <4>2, Zenon
    <3> QED
      BY <3>1, <3>2
  <2>6. cc = d
    <3> HIDE DEF cc
    <3>1. Len(cc) = Len(d) /\ \A k \in 1..Len(cc) : cc[k] = d[k]
      BY <2>3, <2>4, <2>5, Zenon
    <3> QED
      BY <2>3, <2>4, <3>1, SeqEqual, Zenon
  <2> QED
    BY <2>1, <2>2, <2>6, Zenon
<1>8. FlattenSeq(cc) = FlattenSeq(<<Gguf[id]>>) \o FlattenSeq(ss)
  <2>1. \A x \in Q : <<x>> \in Seq(Q)
    OBVIOUS
  <2>2. <<Gguf[id]>> \in Seq(Q)
    BY <1>3, <2>1, Zenon
  <2> HIDE DEF cc
  <2>3. PICK a \in Seq(Seq(Symbols)), b \in Seq(Seq(Symbols)) : a = <<Gguf[id]>> /\ b = ss
    BY <1>2, <1>4, <2>2, Zenon
  <2>4. FlattenSeq(a \o b) = FlattenSeq(a) \o FlattenSeq(b)
    BY <2>3, FlatConcat, Zenon
  <2> QED
    BY <1>7, <2>3, <2>4, Zenon
<1>9. FlattenSeq(<<Gguf[id]>>) = Gguf[id]
  <2>1. PICK g \in Seq(Symbols) : g = Gguf[id]
    BY <1>2, <1>3, Zenon
  <2> QED
    BY <2>1, FlatOne, Zenon
<1> QED
  BY <1>8, <1>9, Zenon DEF Spelt, ss, c

\* Beyond the end nothing is left.
LEMMA RestTwice ==
  ASSUME NEW S, NEW v \in Seq(S), NEW m \in 0..Len(v), NEW n \in Nat
  PROVE  Rest(Rest(v, m), n) = Rest(v, m + n)
<1>1. PICK L \in Nat : L = Len(v)
  OBVIOUS
<1>2. CASE n <= L - m
  <2>1. n \in 0..Len(v) - m
    BY <1>1, <1>2
  <2> QED
    BY <2>1, RestOfRest, Zenon
<1>3. CASE ~(n <= L - m)
  <2>1. PICK r : r = Rest(v, m)
    OBVIOUS
  <2>2. Len(r) = L - m
    BY <1>1, <2>1, RestIs, Zenon
  <2>3. n + 1 \in Int /\ Len(r) \in Int /\ Len(r) < n + 1 /\ m + n + 1 \in Int /\ L \in Int /\ L < m + n + 1
    BY <1>1, <1>3, <2>2
  <2>4. SubSeq(r, n + 1, Len(r)) = <<>>
    BY <2>3, SubSeqEmpty
  <2>5. SubSeq(v, m + n + 1, L) = <<>>
    BY <2>3, SubSeqEmpty
  <2> QED
    BY <1>1, <2>1, <2>4, <2>5, Zenon DEF Rest
<1> QED
  BY <1>2, <1>3

\* The beginnings of a sequence that begins with x.
LEMMA BeginningOf ==
  ASSUME NEW S, NEW x \in S, NEW t \in Seq(S), NEW k \in 1..Len(t)
  PROVE  SubSeq(<<x>> \o t, 1, k) = <<x>> \o SubSeq(t, 1, k - 1)
<1>1. PICK c : c = <<x>> \o t
  OBVIOUS
<1>2. PICK N \in Nat : N = Len(t) /\ \A i \in 1..N : t[i] \in S
  OBVIOUS
<1>3. c \in Seq(S) /\ c[1] = x /\ \A i \in 1..N : c[i + 1] = t[i]
  BY <1>1, <1>2
<1>4. Len(c) = N + 1
  BY <1>1, <1>2
<1>5. PICK a : a = SubSeq(c, 1, k)
  OBVIOUS
<1>6. a \in Seq(S) /\ Len(a) = k /\ \A i \in 1..k : a[i] = c[i]
  <2>1. \A i \in 1..k : c[i] \in S
    BY <1>2, <1>3, <1>4, ElementOfSeq
  <2>2. 1 \in Int /\ k \in Int /\ (IF 1 <= k THEN k - 1 + 1 ELSE 0) = k /\ k - 1 + 1 = k /\ \A i \in 1..k : 1 + i - 1 = i
    OBVIOUS
  <2>3. /\ SubSeq(c, 1, k) \in Seq(S) /\ Len(SubSeq(c, 1, k)) = (IF 1 <= k THEN k - 1 + 1 ELSE 0)
        /\ \A i \in 1..k - 1 + 1 : SubSeq(c, 1, k)[i] = c[1 + i - 1]
    BY <2>1, <2>2, SubSeqProperties
  <2> QED
    BY <1>5, <2>2, <2>3, Zenon
<1>7. PICK p : p = SubSeq(t, 1, k - 1)
  OBVIOUS
<1>8. p \in Seq(S) /\ Len(p) = k - 1 /\ \A i \in 1..k - 1 : p[i] = t[i]
  <2>1. \A i \in 1..k - 1 : t[i] \in S
    BY <1>2
  <2>2. /\ 1 \in Int /\ k - 1 \in Int /\ (IF 1 <= k - 1 THEN (k - 1) - 1 + 1 ELSE 0) = k - 1 /\ (k - 1) - 1 + 1 = k - 1
        /\ \A i \in 1..k - 1 : 1 + i - 1 = i
    OBVIOUS
  <2>3. /\ SubSeq(t, 1, k - 1) \in Seq(S) /\ Len(SubSeq(t, 1, k - 1)) = (IF 1 <= k - 1 THEN (k - 1) - 1 + 1 ELSE 0)
        /\ \A i \in 1..(k - 1) - 1 + 1 : SubSeq(t, 1, k - 1)[i] = t[1 + i - 1]
    BY <2>1, <2>2, SubSeqProperties
  <2> QED
    BY <1>7, <2>2, <2>3, Zenon
<1>9. PICK b : b = <<x>> \o p
  OBVIOUS
<1>10. b \in Seq(S) /\ Len(b) = k /\ b[1] = x /\ \A i \in 1..k - 1 : b[i + 1] = p[i]
  <2>1. <<x>> \in Seq(S) /\ Len(<<x>>) = 1
    OBVIOUS
  <2>2. b \in Seq(S) /\ Len(b) = 1 + Len(p) /\ \A i \in 1..1 + Len(p) : b[i] = IF i <= 1 THEN <<x>>[i] ELSE p[i - 1]
    BY <1>8, <1>9, <2>1, ConcatProperties
  <2> HIDE <1>9
  <2> QED
    BY <1>8, <2>2
<1>11. \A i \in 1..Len(a) : a[i] = b[i]
  <2> SUFFICES ASSUME NEW i \in 1..k PROVE a[i] = b[i]
    BY <1>6, Zenon
  <2>1. CASE i = 1
    BY <1>3, <1>6, <1>10, <2>1, Zenon
  <2>2. CASE i # 1
    <3>1. i - 1 \in 1..k - 1 /\ i - 1 \in 1..N /\ (i - 1) + 1 = i
      BY <1>2, <2>2
    <3>2. a[i] = c[(i - 1) + 1] /\ c[(i - 1) + 1] = t[i - 1] /\ b[(i - 1) + 1] = p[i - 1] /\ p[i - 1] = t[i - 1]
      BY <1>3, <1>6, <1>8, <1>10, <3>1, Zenon
    <3> QED
      BY <3>1, <3>2, Zenon
  <2> QED
    BY <2>1, <2>2
<1>12. a = b
  BY <1>6, <1>10, <1>11, SeqEqual, Zenon
<1> QED
  BY <1>1, <1>5, <1>7, <1>9, <1>12, Zenon

\* What is to be spelt from the k-th on.
LeftAt(v, ids, k) == Rest(v, Len(Spelt(SubSeq(ids, 1, k - 1))))

LEMMA SpellsIs ==
  \A v, ids : Spells(v, ids) <=> Spelt(ids) = v /\ \A k \in DOMAIN ids : Longest(LeftAt(v, ids, k), ids[k])
  BY Zenon DEF Spells, LeftAt, Rest

LEMMA LeftAtFirst ==
  ASSUME NEW Symbols, NEW v \in Seq(Symbols), NEW ids
  PROVE  LeftAt(v, ids, 1) = v
<1>1. SubSeq(ids, 1, 1 - 1) = <<>>
  BY SubSeqEmpty
<1>2. Len(<<>>) = 0
  OBVIOUS
<1> QED
  BY <1>1, <1>2, SpeltEmpty, RestOfAll, Zenon DEF LeftAt

LEMMA SpellsFirst ==
  ASSUME NEW Symbols, NEW v \in Seq(Symbols), NEW ids \in Seq(Ids), ids # <<>>, Spells(v, ids)
  PROVE  Longest(v, ids[1])
<1>1. 1 \in DOMAIN ids
  OBVIOUS
<1>2. Longest(LeftAt(v, ids, 1), ids[1])
  BY <1>1, SpellsIs, Zenon
<1> QED
  BY <1>2, LeftAtFirst, Zenon

LEMMA SpellsCons ==
  ASSUME NEW Symbols, VocabGood(Symbols), NEW v \in Seq(Symbols), NEW id \in Ids, NEW t \in Seq(Ids), Longest(v, id)
  PROVE  Spells(v, <<id>> \o t) <=> Spells(Rest(v, Len(Gguf[id])), t)
<1>1. PICK c : c = <<id>> \o t
  OBVIOUS
<1>2. PICK N \in Nat : N = Len(t) /\ DOMAIN t = 1..N
  OBVIOUS
<1>3. c \in Seq(Ids) /\ DOMAIN c = 1..N + 1 /\ c[1] = id /\ \A k \in 1..N : c[k + 1] = t[k]
  BY <1>1, <1>2
<1>4. PICK g \in Seq(Symbols), L \in Nat : g = Gguf[id] /\ L = Len(g)
  BY VocabIs, LenProperties, Zenon
<1>5. PICK r : r = Rest(v, L)
  OBVIOUS
<1>6. L \in 0..Len(v) /\ v = g \o r /\ r \in Seq(Symbols)
  <2>1. IsPrefix(g, v)
    BY <1>4, Zenon DEF Longest
  <2>2. L \in 0..Len(v) /\ v = g \o r
    BY <1>4, <1>5, <2>1, PrefixIs, Zenon
  <2>3. r \in Seq(Symbols)
    BY <1>5, <2>2, RestIs, Zenon
  <2> QED
    BY <2>2, <2>3, Zenon
<1>7. Spelt(c) = g \o Spelt(t) /\ Spelt(t) \in Seq(Symbols)
  BY <1>1, <1>4, SpeltCons, SpeltIn, Zenon
<1>8. Spelt(c) = v <=> Spelt(t) = r
  <2>1. ASSUME Spelt(c) = v PROVE Spelt(t) = r
    BY <1>4, <1>5, <1>7, <2>1, RestOfConcat, Zenon
  <2> QED
    BY <1>6, <1>7, <2>1, Zenon
<1>9. ASSUME NEW k \in 1..N PROVE LeftAt(v, c, k + 1) = LeftAt(r, t, k)
  <2>1. (k + 1) - 1 = k
    OBVIOUS
  <2>2. SubSeq(c, 1, k) = <<id>> \o SubSeq(t, 1, k - 1)
    BY <1>1, <1>2, BeginningOf
  <2>3. PICK p \in Seq(Ids) : p = SubSeq(t, 1, k - 1)
    <3>1. \A i \in 1..k - 1 : t[i] \in Ids
      BY <1>2, ElementOfSeq
    <3>2. 1 \in Int /\ k - 1 \in Int
      OBVIOUS
    <3>3. SubSeq(t, 1, k - 1) \in Seq(Ids)
      BY <3>1, <3>2, SubSeqProperties
    <3> QED
      BY <3>3, Zenon
  <2>4. Spelt(<<id>> \o p) = g \o Spelt(p)
    BY <1>4, <2>3, SpeltCons, Zenon
  <2>5. PICK s \in Seq(Symbols), n \in Nat : s = Spelt(p) /\ n = Len(s)
    BY <2>3, SpeltIn, Zenon
  <2>6. Len(g \o s) = L + n
    BY <1>4, <2>5, ConcatProperties, Zenon
  <2>7. Rest(r, n) = Rest(v, L + n)
    BY <1>5, <1>6, <2>5, RestTwice, Zenon
  <2>8. LeftAt(v, c, k + 1) = Rest(v, Len(g \o s))
    BY <2>1, <2>2, <2>3, <2>4, <2>5, Zenon DEF LeftAt
  <2>9. LeftAt(r, t, k) = Rest(r, n)
    BY <2>3, <2>5, Zenon DEF LeftAt
  <2> QED
    BY <2>6, <2>7, <2>8, <2>9, Zenon
<1>10. Longest(LeftAt(v, c, 1), c[1])
  BY <1>3, LeftAtFirst, Zenon
<1>11. ASSUME Spells(v, c) PROVE Spells(r, t)
  <2>1. Spelt(t) = r
    BY <1>8, <1>11, SpellsIs, Zenon
  <2>2. ASSUME NEW k \in 1..N PROVE Longest(LeftAt(r, t, k), t[k])
    <3>1. k + 1 \in DOMAIN c
      BY <1>3
    <3>2. Longest(LeftAt(v, c, k + 1), c[k + 1])
      BY <1>11, <3>1, SpellsIs, Zenon
    <3> QED
      BY <1>3, <1>9, <3>2, Zenon
  <2> QED
    BY <1>2, <2>1, <2>2, SpellsIs, Zenon
<1>12. ASSUME Spells(r, t) PROVE Spells(v, c)
  <2>1. Spelt(c) = v
    BY <1>8, <1>12, SpellsIs, Zenon
  <2>2. ASSUME NEW k \in DOMAIN c PROVE Longest(LeftAt(v, c, k), c[k])
    <3>1. CASE k = 1
      BY <1>10, <3>1, Zenon
    <3>2. CASE k # 1
      <4>1. k - 1 \in 1..N /\ (k - 1) + 1 = k
        BY <1>3, <3>2
      <4>2. Longest(LeftAt(r, t, k - 1), t[k - 1])
        BY <1>2, <1>12, <4>1, SpellsIs, Zenon
      <4>3. LeftAt(v, c, (k - 1) + 1) = LeftAt(r, t, k - 1) /\ c[(k - 1) + 1] = t[k - 1]
        BY <1>3, <1>9, <4>1, Zenon
      <4> QED
        BY <4>1, <4>2, <4>3, Zenon
    <3> QED
      BY <3>1, <3>2
  <2> QED
    BY <2>1, <2>2, SpellsIs, Zenon
<1> QED
  BY <1>1, <1>4, <1>5, <1>11, <1>12, Zenon

\* Nothing is spelt by nothing.
LEMMA SpellsEmpty ==
  ASSUME NEW Symbols, VocabGood(Symbols), NEW ids \in Seq(Ids)
  PROVE  /\ Spells(<<>>, ids) <=> ids = <<>>
         /\ \A v : Spells(v, <<>>) <=> v = <<>>
<1>1. \A v : Spells(v, <<>>) <=> v = <<>>
  <2>1. DOMAIN <<>> = {}
    OBVIOUS
  <2> QED
    BY <2>1, SpeltEmpty, SpellsIs, Zenon
<1>2. ASSUME Spells(<<>>, ids), ids # <<>> PROVE FALSE
  <2>1. <<>> \in Seq(Symbols) /\ ids[1] \in Ids
    BY <1>2
  <2>2. Longest(<<>>, ids[1])
    BY <1>2, <2>1, SpellsFirst, Zenon
  <2>3. IsPrefix(Gguf[ids[1]], <<>>)
    BY <2>2, Zenon DEF Longest
  <2>4. Gguf[ids[1]] \in Seq(Symbols) /\ Len(Gguf[ids[1]]) \in Nat \ {0}
    BY <2>1, VocabIs, Zenon
  <2>5. Len(Gguf[ids[1]]) \in 0..Len(<<>>)
    BY <2>1, <2>3, <2>4, PrefixIs, Zenon
  <2>6. Len(<<>>) = 0
    OBVIOUS
  <2> QED
    BY <2>4, <2>5, <2>6
<1> QED
  BY <1>1, <1>2, Zenon


-----------------------------------------------------------------------------
(* The greedy ids of a word.                                               *)

\* The ids from each place on.
GreedyFrom(from, w) ==
    /\ from[Len(w) + 1] = <<>>
    /\ \A i \in 1..Len(w) :
         from[i] = IF Matched(w, i) < i THEN <<NoId>>
                   ELSE <<tok_lookup(SubSeq(w, i, Matched(w, i)))>> \o from[Matched(w, i) + 1]

LEMMA GreedyRuns ==
  ASSUME NEW Symbols, VocabGood(Symbols), NEW w \in Seq(Symbols)
  PROVE  \E from : GreedyFrom(from, w) /\ Greedy(w) = from[1]
<1> DEFINE F(g) == [i \in 1..Len(w) + 1 |->
                      IF i > Len(w) THEN <<>>
                      ELSE IF Matched(w, i) < i THEN <<NoId>>
                      ELSE <<tok_lookup(SubSeq(w, i, Matched(w, i)))>> \o g[Matched(w, i) + 1]]
           fix == CHOOSE g : g = F(g)
<1>1. PICK N \in Nat : N = Len(w)
  OBVIOUS
<1>2. PICK R : R = Seq(Ids \cup {NoId})
  OBVIOUS
<1>3. \A i \in 1..N : /\ Matched(w, i) \in i - 1..N
                      /\ ~(Matched(w, i) < i) => tok_lookup(SubSeq(w, i, Matched(w, i))) \in Ids
  BY <1>1, MatchedIs
<1>4. PICK b \in R : b = <<>>
  BY <1>2, EmptySeq, Zenon
<1>5. <<NoId>> \in R /\ \A x \in R : \A id \in Ids : <<id>> \o x \in R
  BY <1>2
<1> DEFINE next == [i \in 1..N |-> IF Matched(w, i) < i THEN i + 1 ELSE Matched(w, i) + 1]
           G == [p \in (1..N) \X R |-> IF Matched(w, p[1]) < p[1] THEN <<NoId>>
                                       ELSE <<tok_lookup(SubSeq(w, p[1], Matched(w, p[1])))>> \o p[2]]
<1>6. next \in [1..N -> 1..N + 1] /\ \A i \in 1..N : i < next[i]
  BY <1>3
<1>7. G \in [(1..N) \X R -> R]
  BY <1>3, <1>5
<1>8. \A i \in 1..N : \A x \in R :
        G[<<i, x>>] = IF Matched(w, i) < i THEN <<NoId>>
                      ELSE <<tok_lookup(SubSeq(w, i, Matched(w, i)))>> \o x
  OBVIOUS
<1>9. \A i \in 1..N : ~(Matched(w, i) < i) => next[i] = Matched(w, i) + 1
  OBVIOUS
<1> HIDE DEF next, G
<1>10. PICK f \in [1..N + 1 -> R] : f[N + 1] = b /\ \A i \in 1..N : f[i] = G[<<i, f[next[i]]>>]
  <2>1. N \in Nat /\ b \in R /\ next \in [1..N -> 1..N + 1] /\ (\A i \in 1..N : i < next[i]) /\ G \in [(1..N) \X R -> R]
    BY <1>1, <1>4, <1>6, <1>7
  <2>2. \E f : Backward(f, N, R, b, next, G)
    BY <2>1, BackExists
  <2> QED
    BY <2>2, Zenon DEF Backward
<1>11. \A i \in 1..N : f[i] = IF Matched(w, i) < i THEN <<NoId>>
                      ELSE <<tok_lookup(SubSeq(w, i, Matched(w, i)))>> \o f[Matched(w, i) + 1]
  <2> SUFFICES ASSUME NEW i \in 1..N
      PROVE f[i] = IF Matched(w, i) < i THEN <<NoId>>
                      ELSE <<tok_lookup(SubSeq(w, i, Matched(w, i)))>> \o f[Matched(w, i) + 1]
    OBVIOUS
  <2>1. next[i] \in 1..N + 1 /\ f[next[i]] \in R
    BY <1>6
  <2> QED
    BY <1>8, <1>9, <1>10, <2>1, Zenon
<1>12. f = F(f)
  <2>1. DOMAIN F(f) = 1..N + 1 /\ DOMAIN f = 1..N + 1
    BY <1>1
  <2>2. ASSUME NEW i \in 1..N + 1 PROVE f[i] = F(f)[i]
    <3>1. CASE i = N + 1
      BY <1>1, <1>4, <1>10, <3>1
    <3>2. CASE i # N + 1
      <4>1. i \in 1..N /\ ~(i > Len(w)) /\ i \in 1..Len(w) + 1
        BY <1>1, <3>2
      <4>2. F(f)[i] = IF Matched(w, i) < i THEN <<NoId>>
                      ELSE <<tok_lookup(SubSeq(w, i, Matched(w, i)))>> \o f[Matched(w, i) + 1]
        BY <4>1, Zenon
      <4> QED
        BY <1>11, <4>1, <4>2, Zenon
    <3> QED
      BY <3>1, <3>2
  <2>3. F(f) \in [1..N + 1 -> {F(f)[i] : i \in 1..N + 1}] /\ f \in [1..N + 1 -> R]
    BY <2>1, <1>1
  <2> HIDE DEF F
  <2> QED
    BY <2>1, <2>2, <2>3
<1>13. fix = F(fix)
  <2> HIDE DEF F
  <2> QED
    BY <1>12
<1>14. Greedy(w) = fix[1]
  BY Zenon DEF Greedy
<1>15. \A g : g = F(g) => GreedyFrom(g, w)
  <2> SUFFICES ASSUME NEW g, g = F(g) PROVE GreedyFrom(g, w)
    BY Zenon
  <2>1. Len(w) + 1 \in 1..Len(w) + 1 /\ Len(w) + 1 > Len(w)
    BY <1>1
  <2>2. F(g)[Len(w) + 1] = <<>>
    BY <2>1, Zenon
  <2>3. ASSUME NEW i \in 1..Len(w)
        PROVE F(g)[i] = IF Matched(w, i) < i THEN <<NoId>>
                      ELSE <<tok_lookup(SubSeq(w, i, Matched(w, i)))>> \o g[Matched(w, i) + 1]
    <3>1. i \in 1..Len(w) + 1 /\ ~(i > Len(w))
      BY <1>1
    <3> QED
      BY <3>1, Zenon
  <2> HIDE DEF F
  <2>4. g[Len(w) + 1] = <<>>
    BY <2>2, Zenon
  <2>5. ASSUME NEW i \in 1..Len(w)
        PROVE g[i] = IF Matched(w, i) < i THEN <<NoId>>
                      ELSE <<tok_lookup(SubSeq(w, i, Matched(w, i)))>> \o g[Matched(w, i) + 1]
    BY <2>3, Zenon
  <2> QED
    BY <2>4, <2>5, Zenon DEF GreedyFrom
<1> HIDE DEF F, fix
<1> QED
  BY <1>13, <1>14, <1>15, Zenon

\* From a place of a word on: the ids, if each place reached has a match, are the one spelling; if not,
\* there is none.
FromIs(from, w, i) ==
    LET v == Rest(w, i - 1) IN
    /\ from[i] \in Seq(Ids \cup {NoId})
    /\ NoId \notin Range(from[i]) => from[i] \in Seq(Ids) /\ Spells(v, from[i])
    /\ \A ids \in Seq(Ids) : Spells(v, ids) => NoId \notin Range(from[i]) /\ ids = from[i]

LEMMA NoMatchNoSpelling ==
  ASSUME NEW Symbols, VocabGood(Symbols), NEW v \in Seq(Symbols), v # <<>>, \A id \in Ids : ~IsPrefix(Gguf[id], v),
         NEW ids \in Seq(Ids), Spells(v, ids)
  PROVE  FALSE
<1>1. ids # <<>>
  BY SpellsEmpty
<1>2. Longest(v, ids[1]) /\ ids[1] \in Ids
  <2>1. ids[1] \in Ids
    BY <1>1
  <2> QED
    BY <1>1, <2>1, SpellsFirst
<1> QED
  BY <1>2, Zenon DEF Longest

\* The longest token, and what spells what it leaves.
LEMMA SpellingSplits ==
  ASSUME NEW Symbols, VocabGood(Symbols), NEW v \in Seq(Symbols), v # <<>>, NEW id \in Ids, Longest(v, id),
         NEW ids \in Seq(Ids), Spells(v, ids)
  PROVE  \E t \in Seq(Ids) : ids = <<id>> \o t /\ Spells(Rest(v, Len(Gguf[id])), t)
<1>1. ids # <<>>
  BY SpellsEmpty
<1>2. Longest(v, ids[1]) /\ ids[1] \in Ids
  <2>1. ids[1] \in Ids
    BY <1>1
  <2> QED
    BY <1>1, <2>1, SpellsFirst
<1>3. ids[1] = id
  BY <1>2, LongestUnique
<1>4. \A Q : \A s \in Seq(Q) : s # <<>> => Tail(s) \in Seq(Q) /\ s = <<s[1]>> \o Tail(s)
  OBVIOUS
<1>5. PICK t \in Seq(Ids) : ids = <<id>> \o t
  BY <1>1, <1>3, <1>4, Zenon
<1>6. Spells(Rest(v, Len(Gguf[id])), t)
  BY <1>5, SpellsCons
<1> QED
  BY <1>5, <1>6

LEMMA FromStep ==
  ASSUME NEW Symbols, VocabGood(Symbols), NEW w \in Seq(Symbols), NEW from, GreedyFrom(from, w), NEW i \in 1..Len(w),
         ~(Matched(w, i) < i) => FromIs(from, w, Matched(w, i) + 1)
  PROVE  FromIs(from, w, i)
<1> DEFINE m == Matched(w, i)
           id == tok_lookup(SubSeq(w, i, m))
<1>1. PICK N \in Nat : N = Len(w)
  OBVIOUS
<1>2. PICK v : v = Rest(w, i - 1)
  OBVIOUS
<1>3. v \in Seq(Symbols) /\ v # <<>> /\ Len(v) = N - (i - 1) /\ i - 1 \in 0..Len(w)
  <2>1. i - 1 \in 0..Len(w) /\ N - (i - 1) # 0
    BY <1>1
  <2>2. v \in Seq(Symbols) /\ Len(v) = N - (i - 1)
    BY <1>1, <1>2, <2>1, RestIs
  <2> QED
    BY <2>1, <2>2
<1>4. /\ m \in i - 1..N
      /\ m < i => \A d \in Ids : ~IsPrefix(Gguf[d], v)
      /\ ~(m < i) => id \in Ids /\ Longest(v, id) /\ Len(Gguf[id]) = m - (i - 1)
  BY <1>1, <1>2, MatchedIs
<1>5. from[i] = IF m < i THEN <<NoId>> ELSE <<id>> \o from[m + 1]
  BY Zenon DEF GreedyFrom
<1> HIDE DEF m, id
<1>6. CASE m < i
  <2>1. from[i] = <<NoId>> /\ Range(from[i]) = {NoId}
    BY <1>5, <1>6 DEF Range
  <2>2. ASSUME NEW ids \in Seq(Ids), Spells(v, ids) PROVE FALSE
    <3>1. \A d \in Ids : ~IsPrefix(Gguf[d], v)
      BY <1>4, <1>6
    <3> QED
      BY <1>3, <2>2, <3>1, NoMatchNoSpelling
  <2>3. from[i] \in Seq(Ids \cup {NoId}) /\ NoId \in Range(from[i])
    BY <2>1
  <2> QED
    BY <1>2, <2>2, <2>3 DEF FromIs
<1>7. CASE ~(m < i)
  <2>1. FromIs(from, w, m + 1)
    BY <1>7 DEF m
  <2>2. PICK t : t = from[m + 1]
    OBVIOUS
  <2>3. PICK r : r = Rest(v, Len(Gguf[id]))
    OBVIOUS
  <2>4. r = Rest(w, (m + 1) - 1)
    <3>1. m - (i - 1) \in Nat /\ (i - 1) + (m - (i - 1)) = (m + 1) - 1
      BY <1>4, <1>1
    <3>2. Rest(Rest(w, i - 1), m - (i - 1)) = Rest(w, (i - 1) + (m - (i - 1)))
      BY <1>3, <3>1, RestTwice
    <3> QED
      BY <1>2, <1>4, <1>7, <2>3, <3>1, <3>2, Zenon
  <2>5. /\ t \in Seq(Ids \cup {NoId})
        /\ NoId \notin Range(t) => t \in Seq(Ids) /\ Spells(r, t)
        /\ \A ids \in Seq(Ids) : Spells(r, ids) => NoId \notin Range(t) /\ ids = t
    BY <2>1, <2>2, <2>4, Zenon DEF FromIs
  <2>6. id \in Ids /\ Longest(v, id) /\ from[i] = <<id>> \o t /\ NoId \notin Ids
    <3>1. NoId \notin Ids
      BY LookupIs
    <3> QED
      BY <1>4, <1>5, <1>7, <2>2, <3>1, Zenon
  <2>7. from[i] \in Seq(Ids \cup {NoId}) /\ (NoId \in Range(from[i]) <=> NoId \in Range(t))
    <3> SUFFICES ASSUME NEW Q, Q = Ids \cup {NoId} PROVE from[i] \in Seq(Q) /\ (NoId \in Range(from[i]) <=> NoId \in Range(t))
      BY Zenon
    <3>1. t \in Seq(Q) /\ id \in Q /\ id # NoId
      BY <2>5, <2>6, Zenon
    <3>2. PICK c : c = <<id>> \o t
      OBVIOUS
    <3>3. PICK M \in Nat : M = Len(t) /\ DOMAIN t = 1..M
      BY <3>1
    <3>4. c \in Seq(Q) /\ DOMAIN c = 1..M + 1 /\ c[1] = id /\ \A k \in 1..M : c[k + 1] = t[k]
      BY <3>1, <3>2, <3>3
    <3>5. \A k \in 1..M + 1 : k # 1 => k - 1 \in 1..M /\ c[k] = t[k - 1]
      <4> SUFFICES ASSUME NEW k \in 1..M + 1, k # 1 PROVE k - 1 \in 1..M /\ c[k] = t[k - 1]
        OBVIOUS
      <4>1. k - 1 \in 1..M /\ (k - 1) + 1 = k
        BY <3>3
      <4> QED
        BY <3>4, <4>1
    <3>6. \A k \in 1..M : k + 1 \in 1..M + 1
      OBVIOUS
    <3>7. NoId \in Range(c) <=> NoId \in Range(t)
      <4>1. ASSUME NEW k \in 1..M + 1, c[k] = NoId PROVE \E j \in 1..M : t[j] = NoId
        BY <3>1, <3>4, <3>5, <4>1, Zenon
      <4>2. ASSUME NEW j \in 1..M, t[j] = NoId PROVE \E k \in 1..M + 1 : c[k] = NoId
        BY <3>4, <3>6, <4>2, Zenon
      <4>3. /\ Range(c) = {c[k] : k \in 1..M + 1} /\ Range(t) = {t[k] : k \in 1..M}
        BY <3>3, <3>4, Zenon DEF Range
      <4> QED
        BY <4>1, <4>2, <4>3, Zenon
    <3> QED
      BY <2>6, <3>2, <3>4, <3>7, Zenon
  <2>8. ASSUME NoId \notin Range(from[i]) PROVE from[i] \in Seq(Ids) /\ Spells(v, from[i])
    <3>1. t \in Seq(Ids) /\ Spells(r, t)
      BY <2>5, <2>7, <2>8
    <3>2. <<id>> \o t \in Seq(Ids)
      BY <2>6, <3>1
    <3>3. Spells(v, <<id>> \o t)
      BY <1>3, <2>3, <2>6, <3>1, SpellsCons
    <3> QED
      BY <2>6, <3>2, <3>3, Zenon
  <2>9. ASSUME NEW ids \in Seq(Ids), Spells(v, ids) PROVE NoId \notin Range(from[i]) /\ ids = from[i]
    <3>1. PICK u \in Seq(Ids) : ids = <<id>> \o u /\ Spells(r, u)
      BY <1>3, <2>3, <2>6, <2>9, SpellingSplits
    <3> QED
      BY <2>5, <2>6, <2>7, <3>1, Zenon
  <2> QED
    BY <1>2, <2>7, <2>8, <2>9, Zenon DEF FromIs
<1> QED
  BY <1>6, <1>7

\* The greedy ids of a word spell it, each the longest there is where it begins, unless nothing does;
\* and nothing else does.
LEMMA GreedySpells ==
  ASSUME NEW Symbols, VocabGood(Symbols), NEW w \in Seq(Symbols)
  PROVE  /\ Greedy(w) \in Seq(Ids \cup {NoId})
         /\ NoId \notin Range(Greedy(w)) => Greedy(w) \in Seq(Ids) /\ Spells(w, Greedy(w))
         /\ \A ids \in Seq(Ids) : Spells(w, ids) => NoId \notin Range(Greedy(w)) /\ ids = Greedy(w)
<1>1. PICK from : GreedyFrom(from, w) /\ Greedy(w) = from[1]
  BY GreedyRuns
<1>2. PICK N \in Nat : N = Len(w)
  OBVIOUS
<1> DEFINE T == {n \in 0..N : \A i \in N + 1 - n..N + 1 : FromIs(from, w, i)}
<1>3. FromIs(from, w, N + 1)
  <2>1. from[N + 1] = <<>>
    BY <1>1, <1>2 DEF GreedyFrom
  <2>2. Rest(w, (N + 1) - 1) = <<>>
    <3>1. (N + 1) - 1 = N /\ N \in 0..Len(w) /\ Len(w) - N = 0
      BY <1>2
    <3>2. Rest(w, N) \in Seq(Symbols) /\ Len(Rest(w, N)) = 0
      BY <3>1, RestIs
    <3> QED
      BY <3>1, <3>2
  <2>3. NoId \notin Range(<<>>) /\ <<>> \in Seq(Ids \cup {NoId}) /\ <<>> \in Seq(Ids)
    BY DEF Range
  <2>4. \A ids \in Seq(Ids) : Spells(<<>>, ids) <=> ids = <<>>
    BY SpellsEmpty
  <2> QED
    BY <2>1, <2>2, <2>3, <2>4, Zenon DEF FromIs
<1>4. 0 \in T
  <2>1. \A i \in N + 1 - 0..N + 1 : i = N + 1
    OBVIOUS
  <2>2. 0 \in 0..N
    OBVIOUS
  <2> QED
    BY <1>3, <2>1, <2>2, Zenon
<1>5. ASSUME NEW n \in 1..N, n - 1 \in T PROVE n \in T
  <2>1. PICK k \in 1..N : k = N + 1 - n
    OBVIOUS
  <2>2. N + 1 - (n - 1) = k + 1
    BY <2>1
  <2>3. \A i \in k + 1..N + 1 : FromIs(from, w, i)
    BY <1>5, <2>2, Zenon
  <2>4. FromIs(from, w, k)
    <3>1. Matched(w, k) \in k - 1..N
      BY <1>2, MatchedIs
    <3>2. ASSUME ~(Matched(w, k) < k) PROVE FromIs(from, w, Matched(w, k) + 1)
      <4>1. Matched(w, k) + 1 \in k + 1..N + 1
        BY <3>1, <3>2
      <4> QED
        BY <2>3, <4>1, Zenon
    <3> QED
      BY <1>1, <1>2, <3>2, FromStep
  <2>5. \A i \in N + 1 - n..N + 1 : i = k \/ i \in k + 1..N + 1
    BY <2>1
  <2> QED
    <3>1. n \in 0..N
      OBVIOUS
    <3> QED
      BY <2>3, <2>4, <2>5, <3>1, Zenon
<1>6. FromIs(from, w, 1)
  <2> HIDE DEF T
  <2>1. N \in T
    <3>1. 0..N \subseteq T
      BY <1>4, <1>5, InductionTo
    <3> QED
      BY <3>1
  <2>2. 1 \in N + 1 - N..N + 1
    OBVIOUS
  <2> QED
    BY <2>1, <2>2, Zenon DEF T
<1>7. Rest(w, 1 - 1) = w
  BY RestOfAll
<1> QED
  BY <1>1, <1>6, <1>7, Zenon DEF FromIs

-----------------------------------------------------------------------------
(* A word.                                                                 *)

\* A spelling is not longer than what it spells.
LEMMA SpeltLong ==
  ASSUME NEW Symbols, VocabGood(Symbols), NEW all \in Seq(Ids)
  PROVE  Len(all) <= Len(Spelt(all))
<1>0. PICK N \in Nat : N = Len(all)
  OBVIOUS
<1> DEFINE T == {n \in 0..N : \A ids \in Seq(Ids) : Len(ids) = n => n <= Len(Spelt(ids))}
<1>1. 0 \in T
  BY SpeltIn
<1>2. ASSUME NEW n \in 1..N, n - 1 \in T PROVE n \in T
  <2> SUFFICES ASSUME NEW ids \in Seq(Ids), Len(ids) = n PROVE n <= Len(Spelt(ids))
    OBVIOUS
  <2>1. \A Q : \A s \in Seq(Q) : s # <<>> =>
           Tail(s) \in Seq(Q) /\ Len(Tail(s)) = Len(s) - 1 /\ s[1] \in Q /\ s = <<s[1]>> \o Tail(s)
    OBVIOUS
  <2>2. ids # <<>>
    OBVIOUS
  <2>3. PICK t \in Seq(Ids), id \in Ids : ids = <<id>> \o t /\ Len(t) = Len(ids) - 1
    BY <2>1, <2>2, Zenon
  <2>4. n - 1 <= Len(Spelt(t))
    BY <1>2, <2>3
  <2>5. Spelt(ids) = Gguf[id] \o Spelt(t)
    BY <2>3, SpeltCons, Zenon
  <2>6. PICK g \in Seq(Symbols) : g = Gguf[id] /\ Len(g) \in Nat \ {0}
    BY VocabIs, Zenon
  <2>7. PICK r \in Seq(Symbols) : r = Spelt(t)
    BY SpeltIn
  <2>8. Len(g \o r) = Len(g) + Len(r)
    OBVIOUS
  <2>9. n - 1 <= Len(r) /\ Spelt(ids) = g \o r
    BY <2>4, <2>5, <2>6, <2>7, Zenon
  <2> QED
    BY <2>6, <2>8, <2>9
<1>3. 0..N \subseteq T
  <2> HIDE DEF T
  <2> QED
    BY <1>1, <1>2, InductionTo
<1>4. N \in T
  <2> HIDE DEF T
  <2> QED
    BY <1>3
<1> QED
  BY <1>0, <1>4

LEMMA SpellingInside ==
  ASSUME NEW Symbols, VocabGood(Symbols), NEW w \in Seq(Symbols), NEW ids \in Seq(Ids), Spells(w, ids)
  PROVE  ids \in BoundedSeq(Inside(w), Len(w))
<1>1. Spelt(ids) = w /\ \A k \in DOMAIN ids : Longest(LeftAt(w, ids, k), ids[k])
  BY SpellsIs, Zenon
<1>2. PICK N \in Nat : N = Len(w)
  OBVIOUS
<1>3. ASSUME NEW k \in 1..Len(ids) PROVE ids[k] \in Inside(w)
  <2>1. PICK id \in Ids : id = ids[k] /\ Longest(LeftAt(w, ids, k), id)
    <3>1. ids[k] \in Ids /\ k \in DOMAIN ids
      OBVIOUS
    <3> QED
      BY <1>1, <3>1, Zenon
  <2>2. PICK p \in Seq(Ids) : p = SubSeq(ids, 1, k - 1)
    <3>1. \A Q : \A s \in Seq(Q) : \A n \in 0..Len(s) : SubSeq(s, 1, n) \in Seq(Q)
      OBVIOUS
    <3>2. k - 1 \in 0..Len(ids)
      OBVIOUS
    <3> QED
      BY <3>1, <3>2, Zenon
  <2>3. PICK n \in Nat : n = Len(Spelt(p))
    BY SpeltIn
  <2>4. PICK l \in Nat \ {0} : l = Len(Gguf[id])
    BY VocabIs, Zenon
  <2>5. PICK v : v = Rest(w, n)
    OBVIOUS
  <2>6. IsPrefix(Gguf[id], v)
    BY <2>1, <2>2, <2>3, <2>5, Zenon DEF LeftAt, Longest
  <2>7. n \in 0..N - 1
    <3> SUFFICES ASSUME ~(n < N) PROVE FALSE
      BY <1>2, <2>3
    <3>1. \A s \in Seq(Symbols) : \A a \in Nat : ~(a < Len(s)) => SubSeq(s, a + 1, Len(s)) = <<>>
      OBVIOUS
    <3>2. v = <<>>
      BY <1>2, <2>5, <3>1, Zenon DEF Rest
    <3>3. Len(Gguf[id]) <= Len(v)
      BY <2>6, Zenon DEF IsPrefix
    <3> QED
      BY <2>4, <3>2, <3>3
  <2>8. v \in Seq(Symbols) /\ Len(v) = N - n
    <3>1. n \in 0..Len(w)
      BY <1>2, <2>7
    <3> QED
      BY <1>2, <2>5, <3>1, RestIs
  <2>9. l \in 0..Len(v) /\ Gguf[id] = SubSeq(v, 1, l)
    BY <2>4, <2>6, <2>8, PrefixIs, VocabIs, Zenon
  <2>10. Gguf[id] = SubSeq(w, n + 1, n + l) /\ n + 1 \in 1..Len(w) /\ n + l \in 1..Len(w)
    <3>1. n \in 0..Len(w) /\ l \in 1..Len(w) - n
      BY <1>2, <2>4, <2>7, <2>8, <2>9
    <3>2. SubSeq(Rest(w, n), 1, l) = SubSeq(w, n + 1, n + l)
      BY <3>1, PieceOfRest
    <3> QED
      BY <1>2, <2>5, <2>7, <2>9, <3>1, <3>2
  <2> QED
    BY <2>1, <2>10, Zenon DEF Inside, Ids
<1>4. Len(ids) \in 0..Len(w)
  BY <1>1, SpeltLong
<1>5. ids \in [1..Len(ids) -> Inside(w)]
  BY <1>3
<1> QED
  BY <1>4, <1>5, Zenon DEF BoundedSeq, SeqOf

\* The word a run of characters is read as.
Lowered(q) == [i \in DOMAIN q |-> Lower[q[i]]]
Word(q) == <<Start>> \o Lowered(q)
\* What flush_word makes of a word is its one spelling, or [UNK].
LEMMA WordIsSpelt ==
  ASSUME NEW Symbols, VocabGood(Symbols), NEW q, q # <<>>, Head(q) \notin Specials, Lowered(q) \in Seq(Symbols),
         Lowered(q) # <<>>
  PROVE  flush_word(Word(q)) = WordIds(q)
<1> DEFINE w == Word(q)
<1>1. w \in Seq(Symbols) /\ w # <<Start>>
  <2>1. \A Q : \A x \in Q : \A s \in Seq(Q) : <<x>> \o s \in Seq(Q) /\ (s # <<>> => <<x>> \o s # <<x>>)
    OBVIOUS
  <2>2. Start \in Symbols
    BY DEF VocabGood
  <2> QED
    BY <2>1, <2>2, Zenon DEF Word
<1> DEFINE spellings == {ids \in BoundedSeq(Inside(w), Len(w)) : Spells(w, ids)}
<1>3. WordIds(q) = IF spellings = {} THEN <<Unk>> ELSE CHOOSE ids \in spellings : TRUE
  BY Zenon DEF WordIds, Word, Lowered
<1>4. flush_word(w) = IF NoId \in Range(Greedy(w)) THEN <<Unk>> ELSE Greedy(w)
  BY <1>1, Zenon DEF flush_word
<1> HIDE DEF w
<1>5. \A ids \in BoundedSeq(Inside(w), Len(w)) : ids \in Seq(Ids)
  <2>1. Inside(w) \subseteq Ids
    BY DEF Inside, Ids
  <2>2. \A m \in 0..Len(w) : \A ids \in [1..m -> Inside(w)] : ids \in Seq(Ids)
    BY <2>1
  <2> QED
    BY <2>2, Zenon DEF BoundedSeq, SeqOf
<1>6. CASE NoId \in Range(Greedy(w))
  <2>1. spellings = {}
    BY <1>1, <1>5, <1>6, GreedySpells, Zenon
  <2> QED
    BY <1>3, <1>4, <1>6, <2>1, Zenon DEF w
<1>7. CASE NoId \notin Range(Greedy(w))
  <2>1. Greedy(w) \in Seq(Ids) /\ Spells(w, Greedy(w))
    BY <1>1, <1>7, GreedySpells
  <2>2. Greedy(w) \in spellings
    BY <1>1, <2>1, SpellingInside, Zenon
  <2>3. \A ids \in spellings : ids = Greedy(w)
    BY <1>1, <1>5, GreedySpells, Zenon
  <2> HIDE DEF spellings
  <2>4. (CHOOSE ids \in spellings : TRUE) \in spellings
    BY <2>2, Zenon
  <2> QED
    BY <1>3, <1>4, <1>7, <2>2, <2>3, <2>4, Zenon DEF w
<1> QED
  BY <1>6, <1>7

-----------------------------------------------------------------------------
(* The words of a text.                                                    *)

\* Where the word that begins at i ends.
WordEnd(s, i, e) ==
    /\ e \in i..Len(s)
    /\ ~IsKeep(s[i]) => e = i
    /\ IsKeep(s[i]) => (\A k \in i..e : IsKeep(s[k])) /\ (e < Len(s) => ~IsKeep(s[e + 1]))

LEMMA WordEnds ==
  ASSUME NEW C, NEW s \in Seq(C), NEW i \in 1..Len(s)
  PROVE  \E e : WordEnd(s, i, e) /\ WordAt(s, i) = SubSeq(s, i, e)
<1>1. PICK N \in Nat : N = Len(s)
  OBVIOUS
<1>2. CASE ~IsKeep(s[i])
  <2>1. WordAt(s, i) = SubSeq(s, i, i)
    BY <1>2, Zenon DEF WordAt
  <2>2. i \in i..Len(s)
    BY <1>1
  <2> QED
    BY <1>2, <2>1, <2>2, Zenon DEF WordEnd
<1>3. CASE IsKeep(s[i])
  <2> DEFINE T == {j \in i..Len(s) : \A k \in i..j : IsKeep(s[k])}
  <2>1. WordAt(s, i) = SubSeq(s, i, Max(T))
    BY <1>3, Zenon DEF WordAt
  <2>2. i \in T /\ T \in SUBSET (0..N)
    <3>1. i \in i..Len(s) /\ \A k \in i..i : k = i
      BY <1>1
    <3>2. \A j \in i..Len(s) : j \in 0..N
      BY <1>1
    <3> QED
      BY <1>3, <3>1, <3>2, Zenon
  <2>3. PICK e : e = Max(T)
    OBVIOUS
  <2>4. e \in T /\ \A n \in T : n <= e
    <3> HIDE DEF T
    <3> QED
      BY <1>1, <2>2, <2>3, MostOf
  <2>5. ASSUME e < Len(s), IsKeep(s[e + 1]) PROVE FALSE
    <3>1. e \in i..Len(s) /\ \A k \in i..e : IsKeep(s[k])
      BY <2>4
    <3>2. e + 1 \in i..Len(s) /\ \A k \in i..e + 1 : k \in i..e \/ k = e + 1
      BY <1>1, <2>5, <3>1
    <3>3. e + 1 \in T
      BY <2>5, <3>1, <3>2, Zenon
    <3>4. e + 1 <= e
      BY <2>4, <3>3, Zenon
    <3> QED
      BY <1>1, <3>1, <3>4
  <2> QED
    BY <1>3, <2>1, <2>3, <2>4, <2>5, Zenon DEF WordEnd
<1> QED
  BY <1>2, <1>3

LEMMA WordEndUnique ==
  ASSUME NEW C, NEW s \in Seq(C), NEW i \in 1..Len(s), NEW d, NEW e, WordEnd(s, i, d), WordEnd(s, i, e)
  PROVE  d = e
<1>1. CASE ~IsKeep(s[i])
  BY <1>1, Zenon DEF WordEnd
<1>2. CASE IsKeep(s[i])
  <2>1. PICK N \in Nat : N = Len(s)
    OBVIOUS
  <2>2. /\ d \in i..N /\ e \in i..N
        /\ (\A k \in i..d : IsKeep(s[k])) /\ (d < N => ~IsKeep(s[d + 1]))
        /\ (\A k \in i..e : IsKeep(s[k])) /\ (e < N => ~IsKeep(s[e + 1]))
    BY <1>2, <2>1, Zenon DEF WordEnd
  <2>3. ~(d < e)
    <3> SUFFICES ASSUME d < e PROVE FALSE
      OBVIOUS
    <3>1. d + 1 \in i..e /\ d < N
      BY <2>1, <2>2
    <3> QED
      BY <2>2, <3>1, Zenon
  <2>4. ~(e < d)
    <3> SUFFICES ASSUME e < d PROVE FALSE
      OBVIOUS
    <3>1. e + 1 \in i..d /\ e < N
      BY <2>1, <2>2
    <3> QED
      BY <2>2, <3>1, Zenon
  <2> QED
    BY <2>1, <2>2, <2>3, <2>4
<1> QED
  BY <1>1, <1>2

LEMMA WordAtIs ==
  ASSUME NEW C, NEW s \in Seq(C), NEW i \in 1..Len(s), NEW e, WordEnd(s, i, e)
  PROVE  WordAt(s, i) = SubSeq(s, i, e)
<1>1. PICK d : WordEnd(s, i, d) /\ WordAt(s, i) = SubSeq(s, i, d)
  BY WordEnds
<1>2. d = e
  BY <1>1, WordEndUnique
<1> QED
  BY <1>1, <1>2

\* No word goes on from one sequence into the next.
Parted(p, q) == p = <<>> \/ q = <<>> \/ ~IsKeep(p[Len(p)]) \/ ~IsKeep(q[1])

LEMMA PiecesOfConcat ==
  ASSUME NEW C, NEW p \in Seq(C), NEW q \in Seq(C)
  PROVE  /\ \A i, j \in 1..Len(p) : SubSeq(p \o q, i, j) = SubSeq(p, i, j)
         /\ \A i, j \in 1..Len(q) : SubSeq(p \o q, Len(p) + i, Len(p) + j) = SubSeq(q, i, j)
<1>1. PICK M \in Nat, N \in Nat : M = Len(p) /\ N = Len(q)
  OBVIOUS
<1>2. PICK s \in Seq(C) : s = p \o q
  BY ConcatProperties, Zenon
<1>3. Len(s) = M + N /\ (\A k \in 1..M : s[k] = p[k]) /\ \A k \in 1..N : s[M + k] = q[k]
  BY <1>1, <1>2
<1>4. ASSUME NEW i \in 1..M, NEW j \in 1..M PROVE SubSeq(s, i, j) = SubSeq(p, i, j)
  BY <1>1, <1>3
<1>5. ASSUME NEW i \in 1..N, NEW j \in 1..N PROVE SubSeq(s, M + i, M + j) = SubSeq(q, i, j)
  <2>1. \A k \in i..j : k \in 1..N
    OBVIOUS
  <2>2. PICK a : a = SubSeq(s, M + i, M + j)
    OBVIOUS
  <2>3. PICK b : b = SubSeq(q, i, j)
    OBVIOUS
  <2>4. a \in Seq(C) /\ b \in Seq(C) /\ Len(a) = Len(b)
    BY <1>1, <1>3, <2>2, <2>3
  <2>5. ASSUME NEW k \in 1..Len(a) PROVE a[k] = b[k]
    <3>1. k \in 1..j - i + 1 /\ i + k - 1 \in 1..N
      BY <1>1, <1>3, <2>2
    <3>2. b[k] = q[i + k - 1]
      BY <1>1, <2>3, <3>1
    <3>3. a[k] = s[M + (i + k - 1)]
      <4> DEFINE f == M + i
                 t == M + j
      <4>1. f \in Nat /\ t \in Nat /\ k \in 1..t - f + 1 /\ f + k - 1 = M + (i + k - 1)
        BY <1>1, <3>1
      <4> HIDE DEF f, t
      <4>2. SubSeq(s, f, t)[k] = s[f + k - 1]
        BY <4>1
      <4> QED
        BY <2>2, <4>1, <4>2 DEF f, t
    <3> QED
      BY <1>3, <3>1, <3>2, <3>3
  <2>6. a = b
    BY <2>4, <2>5
  <2> QED
    BY <2>2, <2>3, <2>6
<1> QED
  BY <1>1, <1>2, <1>4, <1>5

\* The characters of a text and what they are turned into.
TextGood(Points, Symbols) ==
    /\ Class \in [Points -> {"ws", "drop", "keep", "split"}]
    /\ Nfd \in [Points -> Points] /\ Lower \in [Points -> Symbols]
    /\ Replacement \in Points /\ NulText \in Seq(Points) /\ Specials \cap Points = {}
\* What may stand among the ids of a text.
TokenIds == Ids \cup {Unk, NoId}

LEMMA WordIdsIn ==
  ASSUME NEW Symbols, VocabGood(Symbols), NEW c, Head(c) \in Specials \/ Lowered(c) \in Seq(Symbols)
  PROVE  WordIds(c) \in Seq(TokenIds)
<1> DEFINE w == Word(c)
           spellings == {ids \in BoundedSeq(Inside(w), Len(w)) : Spells(w, ids)}
<1>1. WordIds(c) = IF Head(c) \in Specials THEN <<tok_lookup(c)>>
                   ELSE IF spellings = {} THEN <<Unk>> ELSE CHOOSE ids \in spellings : TRUE
  BY Zenon DEF WordIds, Word, Lowered
<1>2. \A x \in TokenIds : <<x>> \in Seq(TokenIds)
  OBVIOUS
<1>3. tok_lookup(c) \in TokenIds /\ Unk \in TokenIds
  BY LookupIs, Zenon DEF TokenIds
<1>4. CASE Head(c) \in Specials
  BY <1>1, <1>2, <1>3, <1>4, Zenon
<1>5. CASE Lowered(c) \in Seq(Symbols) /\ Head(c) \notin Specials
  <2>1. w \in Seq(Symbols)
    <3>1. \A Q : \A x \in Q : \A s \in Seq(Q) : <<x>> \o s \in Seq(Q)
      OBVIOUS
    <3> QED
      BY <1>5, <3>1, Zenon DEF Word, VocabGood
  <2> HIDE DEF w
  <2>2. \A ids \in spellings : ids \in Seq(TokenIds)
    <3>1. Inside(w) \subseteq TokenIds
      BY DEF Inside, Ids, TokenIds
    <3>2. \A m \in 0..Len(w) : \A ids \in [1..m -> Inside(w)] : ids \in Seq(TokenIds)
      BY <2>1, <3>1
    <3> QED
      BY <3>2, Zenon DEF BoundedSeq, SeqOf
  <2> HIDE DEF spellings
  <2>3. spellings # {} => (CHOOSE ids \in spellings : TRUE) \in spellings
    BY Zenon
  <2> QED
    BY <1>1, <1>2, <1>3, <1>5, <2>2, <2>3, Zenon
<1> QED
  BY <1>4, <1>5

\* The ids that begin at a place of a text.
Piece(s, i) == IF Begins(s, i) THEN WordIds(WordAt(s, i)) ELSE <<>>
PiecesAt(s) == [i \in DOMAIN s |-> Piece(s, i)]

LEMMA TextIdsIs ==
  \A s : TextIds(s) = FlattenSeq(PiecesAt(s))
  BY Zenon DEF TextIds, PiecesAt, Piece

LEMMA LoweredIn ==
  ASSUME NEW Points, NEW Symbols, TextGood(Points, Symbols), NEW c \in Seq(Points)
  PROVE  Lowered(c) \in Seq(Symbols) /\ Len(Lowered(c)) = Len(c)
<1>1. PICK N \in Nat : N = Len(c) /\ DOMAIN c = 1..N
  OBVIOUS
<1>2. \A i \in 1..N : Lower[c[i]] \in Symbols
  BY <1>1 DEF TextGood
<1>3. Lowered(c) \in [1..N -> Symbols]
  BY <1>1, <1>2 DEF Lowered
<1> QED
  BY <1>1, <1>3

LEMMA PieceIn ==
  ASSUME NEW Points, NEW Symbols, VocabGood(Symbols), TextGood(Points, Symbols), NEW s \in Seq(Points \cup Specials),
         NEW i \in 1..Len(s)
  PROVE  Piece(s, i) \in Seq(TokenIds)
<1>1. PICK Q : Q = Points \cup Specials
  OBVIOUS
<1>2. s \in Seq(Q)
  BY <1>1
<1>3. PICK e : WordEnd(s, i, e) /\ WordAt(s, i) = SubSeq(s, i, e)
  BY <1>2, WordEnds
<1>4. <<>> \in Seq(TokenIds)
  OBVIOUS
<1>5. PICK c : c = SubSeq(s, i, e)
  OBVIOUS
<1>6. e \in i..Len(s) /\ e \in 1..Len(s)
  BY <1>3 DEF WordEnd
<1>7. c \in Seq(Q) /\ Len(c) = e - i + 1 /\ (\A k \in 1..e - i + 1 : c[k] = s[i + k - 1]) /\ Head(c) = s[i]
  <2>1. c \in Seq(Q) /\ Len(c) = e - i + 1 /\ \A k \in 1..e - i + 1 : c[k] = s[i + k - 1]
    BY <1>2, <1>5, <1>6
  <2>2. 1 \in 1..e - i + 1 /\ i + 1 - 1 = i
    BY <1>6
  <2>3. c[1] = s[i + 1 - 1]
    BY <2>1, <2>2, Zenon
  <2>4. Head(c) = c[1]
    <3>1. \A u \in Seq(Q) : Len(u) # 0 => Head(u) = u[1]
      OBVIOUS
    <3>2. Len(c) # 0
      BY <1>6, <2>1
    <3> QED
      BY <2>1, <3>1, <3>2, Zenon
  <2> QED
    BY <2>1, <2>2, <2>3, <2>4
<1>8. CASE s[i] \in Specials
  <2>1. Head(c) \in Specials
    BY <1>7, <1>8
  <2>2. WordIds(c) \in Seq(TokenIds)
    BY <2>1, WordIdsIn
  <2> QED
    BY <1>3, <1>4, <1>5, <2>2, Zenon DEF Piece
<1>9. CASE s[i] \notin Specials
  <2>1. \A k \in i..e : s[k] \in Points
    <3>1. CASE IsKeep(s[i])
      <4>1. \A k \in i..e : IsKeep(s[k])
        BY <1>3, <3>1, Zenon DEF WordEnd
      <4>2. \A k \in i..e : s[k] \in Q /\ s[k] \notin Specials
        BY <1>2, <1>6, <4>1 DEF IsKeep
      <4> QED
        BY <1>1, <4>2
    <3>2. CASE ~IsKeep(s[i])
      <4>1. e = i /\ s[i] \in Q
        <5>1. s[i] \in Q
          BY <1>2
        <5> QED
          BY <1>3, <3>2, <5>1, Zenon DEF WordEnd
      <4>2. \A k \in i..i : k = i
        OBVIOUS
      <4> QED
        BY <1>1, <1>9, <4>1, <4>2
    <3> QED
      BY <3>1, <3>2
  <2>2. \A k \in 1..Len(c) : c[k] \in Points
    <3> SUFFICES ASSUME NEW k \in 1..Len(c) PROVE c[k] \in Points
      OBVIOUS
    <3>1. k \in 1..e - i + 1 /\ i + k - 1 \in i..e
      BY <1>6, <1>7
    <3> QED
      BY <1>7, <2>1, <3>1, Zenon
  <2>3. c \in Seq(Points)
    BY <1>7, <2>2
  <2>4. Lowered(c) \in Seq(Symbols)
    BY <2>3, LoweredIn
  <2>5. WordIds(c) \in Seq(TokenIds)
    BY <2>4, WordIdsIn
  <2> QED
    BY <1>3, <1>4, <1>5, <2>5, Zenon DEF Piece
<1> QED
  BY <1>8, <1>9

LEMMA PiecesIn ==
  ASSUME NEW Points, NEW Symbols, VocabGood(Symbols), TextGood(Points, Symbols), NEW s \in Seq(Points \cup Specials)
  PROVE  PiecesAt(s) \in Seq(Seq(TokenIds)) /\ DOMAIN PiecesAt(s) = 1..Len(s) /\ Len(PiecesAt(s)) = Len(s)
<1>1. PICK N \in Nat : N = Len(s) /\ DOMAIN s = 1..N
  OBVIOUS
<1>2. \A i \in 1..N : Piece(s, i) \in Seq(TokenIds)
  BY <1>1, PieceIn
<1>3. PICK Q : Q = Seq(TokenIds)
  OBVIOUS
<1>4. PiecesAt(s) \in [1..N -> Q]
  BY <1>1, <1>2, <1>3 DEF PiecesAt
<1> QED
  BY <1>1, <1>3, <1>4

\* Where no word goes on from one into the other, two texts are read one after the other.
LEMMA TextSplit ==
  ASSUME NEW Points, NEW Symbols, VocabGood(Symbols), TextGood(Points, Symbols), NEW p \in Seq(Points \cup Specials),
         NEW q \in Seq(Points \cup Specials), Parted(p, q)
  PROVE  TextIds(p \o q) = TextIds(p) \o TextIds(q)
<1>1. PICK C : C = Points \cup Specials
  OBVIOUS
<1>2. PICK s \in Seq(C) : s = p \o q
  BY <1>1, ConcatProperties, Zenon
<1>3. PICK M \in Nat, N \in Nat : M = Len(p) /\ N = Len(q)
  OBVIOUS
<1>4. p \in Seq(C) /\ q \in Seq(C) /\ DOMAIN p = 1..M /\ DOMAIN q = 1..N
  BY <1>1, <1>3
<1>5. Len(s) = M + N /\ DOMAIN s = 1..M + N /\ (\A k \in 1..M : s[k] = p[k]) /\ \A k \in 1..N : s[M + k] = q[k]
  BY <1>2, <1>3, <1>4
<1>6. M # 0 /\ N # 0 => ~IsKeep(s[M]) \/ ~IsKeep(s[M + 1])
  <2> SUFFICES ASSUME M # 0, N # 0 PROVE ~IsKeep(s[M]) \/ ~IsKeep(s[M + 1])
    OBVIOUS
  <2>1. p # <<>> /\ q # <<>> /\ M \in 1..M /\ 1 \in 1..N
    BY <1>3, <1>4
  <2> QED
    BY <1>3, <1>5, <2>1, Zenon DEF Parted
<1>7. ASSUME NEW i \in 1..M PROVE Piece(s, i) = Piece(p, i)
  <2>1. Begins(s, i) = Begins(p, i)
    <3>1. s[i] = p[i] /\ (i # 1 => s[i - 1] = p[i - 1])
      <4>1. i # 1 => i - 1 \in 1..M
        OBVIOUS
      <4> QED
        BY <1>5, <4>1, Zenon
    <3> QED
      BY <3>1, Zenon DEF Begins
  <2>2. PICK e : WordEnd(p, i, e) /\ WordAt(p, i) = SubSeq(p, i, e)
    BY <1>3, <1>4, WordEnds
  <2>3. e \in i..M
    BY <1>3, <2>2 DEF WordEnd
  <2>4. WordEnd(s, i, e)
    <3>1. e \in i..Len(s) /\ e \in 1..M
      BY <1>5, <2>3
    <3>2. s[i] = p[i]
      BY <1>5
    <3>3. ~IsKeep(s[i]) => e = i
      BY <2>2, <3>2, Zenon DEF WordEnd
    <3>4. ASSUME IsKeep(s[i]) PROVE (\A k \in i..e : IsKeep(s[k])) /\ (e < Len(s) => ~IsKeep(s[e + 1]))
      <4>1. (\A k \in i..e : IsKeep(p[k])) /\ (e < M => ~IsKeep(p[e + 1]))
        BY <1>3, <2>2, <3>2, <3>4, Zenon DEF WordEnd
      <4>2. \A k \in i..e : k \in 1..M
        BY <2>3
      <4>3. \A k \in i..e : IsKeep(s[k])
        BY <1>5, <4>1, <4>2, Zenon
      <4>4. CASE e < M
        <5>1. e + 1 \in 1..M
          BY <3>1, <4>4
        <5> QED
          BY <1>5, <4>1, <4>3, <4>4, <5>1, Zenon
      <4>5. CASE e = M
        <5>1. e < Len(s) => N # 0
          BY <1>5, <4>5
        <5>2. M \in i..e /\ M # 0
          BY <2>3, <4>5
        <5> QED
          BY <1>6, <4>3, <4>5, <5>1, <5>2, Zenon
      <4>6. e < M \/ e = M
        BY <2>3
      <4> QED
        BY <4>4, <4>5, <4>6
    <3> QED
      BY <3>1, <3>3, <3>4, Zenon DEF WordEnd
  <2>5. SubSeq(s, i, e) = SubSeq(p, i, e)
    <3>1. i \in 1..Len(p) /\ e \in 1..Len(p)
      BY <1>3, <2>3
    <3> QED
      BY <1>2, <1>4, <3>1, PiecesOfConcat
  <2>6. WordAt(s, i) = SubSeq(s, i, e)
    <3>1. i \in 1..Len(s)
      BY <1>5
    <3> QED
      BY <1>2, <2>4, <3>1, WordAtIs
  <2> QED
    BY <2>1, <2>2, <2>5, <2>6, Zenon DEF Piece
<1>8. ASSUME NEW i \in 1..N PROVE Piece(s, M + i) = Piece(q, i)
  <2>1. Begins(s, M + i) = Begins(q, i)
    <3>1. CASE i = 1
      <4>1. s[M + 1] = q[1]
        BY <1>5, <3>1
      <4>2. M + 1 = 1 \/ ~IsKeep(s[M + 1]) \/ ~IsKeep(s[(M + 1) - 1])
        <5>1. M # 0 => ~IsKeep(s[M]) \/ ~IsKeep(s[M + 1])
          BY <1>6
        <5>2. (M + 1) - 1 = M /\ (M = 0 => M + 1 = 1)
          OBVIOUS
        <5> QED
          BY <5>1, <5>2, Zenon
      <4> QED
        BY <3>1, <4>1, <4>2, Zenon DEF Begins
    <3>2. CASE i # 1
      <4>1. i - 1 \in 1..N /\ (M + i) - 1 = M + (i - 1) /\ M + i # 1
        BY <3>2
      <4>2. s[M + i] = q[i] /\ s[(M + i) - 1] = q[i - 1]
        BY <1>5, <4>1, Zenon
      <4> QED
        BY <3>2, <4>1, <4>2, Zenon DEF Begins
    <3> QED
      BY <3>1, <3>2
  <2>2. PICK e : WordEnd(q, i, e) /\ WordAt(q, i) = SubSeq(q, i, e)
    BY <1>3, <1>4, WordEnds
  <2>3. e \in i..N
    BY <1>3, <2>2 DEF WordEnd
  <2>4. WordEnd(s, M + i, M + e)
    <3>1. M + e \in M + i..Len(s) /\ e \in 1..N
      BY <1>5, <2>3
    <3>2. s[M + i] = q[i]
      BY <1>5
    <3>3. ~IsKeep(s[M + i]) => M + e = M + i
      BY <2>2, <3>2, Zenon DEF WordEnd
    <3>4. ASSUME IsKeep(s[M + i])
          PROVE  (\A k \in M + i..M + e : IsKeep(s[k])) /\ (M + e < Len(s) => ~IsKeep(s[M + e + 1]))
      <4>1. (\A k \in i..e : IsKeep(q[k])) /\ (e < N => ~IsKeep(q[e + 1]))
        BY <1>3, <2>2, <3>2, <3>4, Zenon DEF WordEnd
      <4>2. ASSUME NEW k \in M + i..M + e PROVE IsKeep(s[k])
        <5>1. k - M \in i..e /\ k - M \in 1..N /\ M + (k - M) = k
          BY <2>3
        <5>2. s[k] = q[k - M]
          BY <1>5, <5>1, Zenon
        <5> QED
          BY <4>1, <5>1, <5>2, Zenon
      <4>3. ASSUME M + e < Len(s) PROVE ~IsKeep(s[M + e + 1])
        <5>1. e < N /\ e + 1 \in 1..N /\ M + e + 1 = M + (e + 1)
          BY <1>5, <2>3, <4>3
        <5> QED
          BY <1>5, <4>1, <5>1, Zenon
      <4> QED
        BY <4>2, <4>3
    <3> QED
      BY <3>1, <3>3, <3>4, Zenon DEF WordEnd
  <2>5. SubSeq(s, M + i, M + e) = SubSeq(q, i, e)
    <3>1. i \in 1..Len(q) /\ e \in 1..Len(q)
      BY <1>3, <2>3
    <3> QED
      BY <1>2, <1>3, <1>4, <3>1, PiecesOfConcat
  <2>6. WordAt(s, M + i) = SubSeq(s, M + i, M + e)
    <3>1. M + i \in 1..Len(s)
      BY <1>5
    <3> QED
      BY <1>2, <2>4, <3>1, WordAtIs
  <2> QED
    BY <2>1, <2>2, <2>5, <2>6, Zenon DEF Piece
<1>9. PICK Q : Q = Seq(TokenIds)
  OBVIOUS
<1>10. PICK a \in Seq(Q) : a = PiecesAt(p) /\ Len(a) = M
  BY <1>3, <1>9, PiecesIn
<1>11. PICK b \in Seq(Q) : b = PiecesAt(q) /\ Len(b) = N
  BY <1>3, <1>9, PiecesIn
<1>12. PICK c \in Seq(Q) : c = PiecesAt(s) /\ Len(c) = M + N
  <2>1. s \in Seq(Points \cup Specials)
    BY <1>1, <1>2, Zenon
  <2> QED
    BY <1>5, <1>9, <2>1, PiecesIn
<1>13. c = a \o b
  <2>1. ASSUME NEW i \in 1..M PROVE c[i] = a[i]
    <3>1. i \in DOMAIN s /\ i \in DOMAIN p
      BY <1>3, <1>4, <1>5
    <3>2. c[i] = Piece(s, i) /\ a[i] = Piece(p, i)
      BY <1>10, <1>12, <3>1, Zenon DEF PiecesAt
    <3> QED
      BY <1>7, <3>2
  <2>2. ASSUME NEW i \in 1..N PROVE c[M + i] = b[i]
    <3>1. M + i \in DOMAIN s /\ i \in DOMAIN q
      BY <1>3, <1>4, <1>5
    <3>2. c[M + i] = Piece(s, M + i) /\ b[i] = Piece(q, i)
      BY <1>11, <1>12, <3>1, Zenon DEF PiecesAt
    <3> QED
      BY <1>8, <3>2
  <2> DEFINE d == a \o b
  <2>3. d \in Seq(Q)
    BY ConcatProperties, Zenon
  <2>4. Len(d) = M + N /\ (\A i \in 1..M : d[i] = a[i]) /\ \A i \in 1..N : d[M + i] = b[i]
    <3>1. \A X : \A u, v \in Seq(X) :
            /\ Len(u \o v) = Len(u) + Len(v) /\ (\A i \in 1..Len(u) : (u \o v)[i] = u[i])
            /\ \A i \in 1..Len(v) : (u \o v)[Len(u) + i] = v[i]
      OBVIOUS
    <3>2. /\ Len(d) = Len(a) + Len(b) /\ (\A i \in 1..Len(a) : d[i] = a[i])
          /\ \A i \in 1..Len(b) : d[Len(a) + i] = b[i]
      <4>1. a \in Seq(Q) /\ b \in Seq(Q)
        BY <1>10, <1>11
      <4> HIDE DEF Piece
      <4> QED
        BY ONLY <3>1, <4>1
    <3> HIDE DEF d
    <3>3. Len(a) = M /\ Len(b) = N
      BY <1>10, <1>11
    <3> QED
      BY ONLY <3>2, <3>3
  <2> HIDE DEF d
  <2>5. ASSUME NEW i \in 1..M + N PROVE c[i] = d[i]
    <3>1. CASE i \in 1..M
      BY <2>1, <2>4, <3>1, Zenon
    <3>2. CASE i \notin 1..M
      <4>1. i - M \in 1..N /\ M + (i - M) = i
        BY <3>2
      <4> QED
        BY <2>2, <2>4, <4>1, Zenon
    <3> QED
      BY <3>1, <3>2
  <2>6. c = d
    BY <1>12, <2>3, <2>4, <2>5
  <2> QED
    BY <2>6 DEF d
<1>14. FlattenSeq(a \o b) = FlattenSeq(a) \o FlattenSeq(b)
  <2>1. a \in Seq(Seq(TokenIds)) /\ b \in Seq(Seq(TokenIds))
    BY <1>9, <1>10, <1>11, Zenon
  <2> QED
    BY <2>1, FlatConcat
<1> QED
  BY <1>2, <1>10, <1>11, <1>12, <1>13, <1>14, TextIdsIs, Zenon

AllKeep(q) == \A k \in DOMAIN q : IsKeep(q[k])

\* A run of characters that words are made of is one word.
LEMMA OneWord ==
  ASSUME NEW Points, NEW Symbols, VocabGood(Symbols), TextGood(Points, Symbols), NEW q \in Seq(Points \cup Specials),
         q # <<>>, AllKeep(q)
  PROVE  TextIds(q) = flush_word(Word(q)) /\ flush_word(Word(q)) \in Seq(TokenIds)
<1>1. PICK C : C = Points \cup Specials
  OBVIOUS
<1>2. PICK N \in Nat : N = Len(q) /\ DOMAIN q = 1..N /\ N # 0 /\ q \in Seq(C)
  BY <1>1
<1>3. \A k \in 1..N : IsKeep(q[k])
  BY <1>2 DEF AllKeep
<1>4. q \in Seq(Points) /\ Head(q) \notin Specials
  <2>1. \A k \in 1..N : q[k] \in Points /\ q[k] \notin Specials
    BY <1>1, <1>2, <1>3 DEF IsKeep
  <2>2. \A u \in Seq(C) : Len(u) # 0 => Head(u) = u[1]
    OBVIOUS
  <2>3. Head(q) = q[1] /\ 1 \in 1..N
    BY <1>2, <2>2
  <2> QED
    BY <1>2, <2>1, <2>3
<1>5. flush_word(Word(q)) = WordIds(q) /\ WordIds(q) \in Seq(TokenIds)
  <2>1. Lowered(q) \in Seq(Symbols) /\ Len(Lowered(q)) = N
    BY <1>2, <1>4, LoweredIn
  <2>2. Lowered(q) # <<>>
    BY <1>2, <2>1
  <2>3. flush_word(Word(q)) = WordIds(q)
    BY <1>4, <2>1, <2>2, WordIsSpelt
  <2>4. WordIds(q) \in Seq(TokenIds)
    BY <2>1, WordIdsIn
  <2> QED
    BY <2>3, <2>4
<1>6. Piece(q, 1) = WordIds(q)
  <2>1. Begins(q, 1)
    <3>1. IsKeep(q[1])
      BY <1>2, <1>3
    <3>2. q[1] \in Specials \/ Class[q[1]] # "ws"
      BY <3>1 DEF IsKeep
    <3> QED
      BY <3>2, Zenon DEF Begins
  <2>2. WordEnd(q, 1, N)
    <3>1. N \in 1..Len(q) /\ ~(N < Len(q)) /\ 1 \in 1..N
      BY <1>2
    <3> QED
      BY <1>3, <3>1, Zenon DEF WordEnd
  <2>3. WordAt(q, 1) = SubSeq(q, 1, N)
    <3>1. 1 \in 1..Len(q)
      BY <1>2
    <3> QED
      BY <1>2, <2>2, <3>1, WordAtIs
  <2>4. SubSeq(q, 1, N) = q
    BY <1>2, SubSeqFull, Zenon
  <2> QED
    BY <2>1, <2>3, <2>4, Zenon DEF Piece
<1>7. ASSUME NEW i \in 2..N PROVE Piece(q, i) = <<>>
  <2>1. IsKeep(q[i]) /\ IsKeep(q[i - 1]) /\ i # 1
    <3>1. i \in 1..N /\ i - 1 \in 1..N /\ i # 1
      BY <1>2
    <3> QED
      BY <1>3, <3>1, Zenon
  <2> QED
    BY <2>1, Zenon DEF Piece, Begins
<1>8. PICK ss \in Seq(Seq(TokenIds)) : ss = PiecesAt(q) /\ Len(ss) = N
  BY <1>2, PiecesIn
<1>9. PICK h : Run(h, ss, TokenIds) /\ FlattenSeq(ss) = h[N]
  BY <1>8, FlatRuns
<1> DEFINE T == {n \in 0..N : n = 0 \/ h[n] = WordIds(q)}
<1>10. ASSUME NEW n \in 1..N, n - 1 \in T PROVE n \in T
  <2>1. h[n] = h[n - 1] \o Piece(q, n)
    <3>1. n \in 1..Len(ss) /\ n \in DOMAIN q
      BY <1>2, <1>8
    <3>2. ss[n] = Piece(q, n)
      BY <1>8, <3>1, Zenon DEF PiecesAt
    <3> QED
      BY <1>9, <3>1, <3>2, Zenon DEF Run
  <2>2. PICK x \in Seq(TokenIds) : x = WordIds(q)
    BY <1>5
  <2>3. <<>> \o x = x /\ x \o <<>> = x
    OBVIOUS
  <2>4. h[n] = WordIds(q)
    <3>1. CASE n = 1
      <4>1. h[n - 1] = <<>>
        BY <1>9, <3>1 DEF Run
      <4> QED
        BY <1>6, <2>1, <2>2, <2>3, <3>1, <4>1, Zenon
    <3>2. CASE n # 1
      <4>1. h[n - 1] = WordIds(q) /\ n \in 2..N
        BY <1>10, <3>2
      <4> QED
        BY <1>7, <2>1, <2>2, <2>3, <4>1, Zenon
    <3> QED
      BY <3>1, <3>2
  <2>5. n \in 0..N
    OBVIOUS
  <2> QED
    BY <2>4, <2>5, Zenon
<1>11. N \in T
  <2>1. 0 \in T
    OBVIOUS
  <2> HIDE DEF T
  <2>2. 0..N \subseteq T
    BY <1>10, <2>1, InductionTo
  <2> QED
    BY <2>2
<1>12. h[N] = WordIds(q)
  BY <1>2, <1>11
<1> QED
  BY <1>5, <1>8, <1>9, <1>12, TextIdsIs, Zenon

\* What stands by itself: white space is nothing, a mark or the text of a special token a word.
LEMMA OneMark ==
  ASSUME NEW Points, NEW Symbols, VocabGood(Symbols), TextGood(Points, Symbols), NEW x \in Points \cup Specials,
         ~IsKeep(x)
  PROVE  /\ TextIds(<<x>>) = IF x \in Specials THEN <<tok_lookup(<<x>>)>>
                             ELSE IF Class[x] = "ws" THEN <<>> ELSE flush_word(Word(<<x>>))
         /\ TextIds(<<x>>) \in Seq(TokenIds)
<1>1. PICK C : C = Points \cup Specials
  OBVIOUS
<1>2. PICK q \in Seq(C) : q = <<x>> /\ Len(q) = 1 /\ DOMAIN q = 1..1 /\ q[1] = x /\ Head(q) = x
  <2>1. \A Q : \A y \in Q : <<y>> \in Seq(Q)
    OBVIOUS
  <2>2. Len(<<x>>) = 1 /\ DOMAIN <<x>> = 1..1 /\ <<x>>[1] = x /\ Head(<<x>>) = x
    OBVIOUS
  <2> QED
    BY <1>1, <2>1, <2>2, Zenon
<1>3. Piece(q, 1) \in Seq(TokenIds)
  <2>1. q \in Seq(Points \cup Specials) /\ 1 \in 1..Len(q)
    BY <1>1, <1>2
  <2> QED
    BY <2>1, PieceIn
<1>4. TextIds(q) = Piece(q, 1)
  <2>1. PiecesAt(q) = <<Piece(q, 1)>>
    BY <1>2 DEF PiecesAt
  <2> QED
    BY <1>3, <2>1, FlatOne, TextIdsIs, Zenon
<1>5. WordAt(q, 1) = q
  <2>1. WordEnd(q, 1, 1)
    <3>1. 1 \in 1..Len(q)
      BY <1>2
    <3> QED
      BY <1>2, <3>1, Zenon DEF WordEnd
  <2>2. WordAt(q, 1) = SubSeq(q, 1, 1)
    <3>1. 1 \in 1..Len(q)
      BY <1>2
    <3> QED
      BY <1>2, <2>1, <3>1, WordAtIs
  <2>3. SubSeq(q, 1, 1) = q
    BY <1>2, SubSeqFull, Zenon
  <2> QED
    BY <2>2, <2>3, Zenon
<1>6. Piece(q, 1) = IF x \in Specials \/ Class[x] # "ws" THEN WordIds(q) ELSE <<>>
  BY <1>2, <1>5, Zenon DEF Piece, Begins
<1>7. CASE x \in Specials
  <2>1. WordIds(q) = <<tok_lookup(q)>>
    BY <1>2, <1>7, Zenon DEF WordIds
  <2> QED
    BY <1>2, <1>3, <1>4, <1>6, <1>7, <2>1, Zenon
<1>8. CASE x \notin Specials
  <2>1. q \in Seq(Points)
    BY <1>1, <1>2, <1>8
  <2>2. Lowered(q) \in Seq(Symbols) /\ Lowered(q) # <<>>
    <3>1. Lowered(q) \in Seq(Symbols) /\ Len(Lowered(q)) = Len(q)
      BY <2>1, LoweredIn
    <3>2. Len(<<>>) = 0
      OBVIOUS
    <3> QED
      BY <1>2, <3>1, <3>2
  <2>3. flush_word(Word(q)) = WordIds(q)
    <3>1. q # <<>> /\ Head(q) \notin Specials
      BY <1>2, <1>8
    <3> QED
      BY <2>2, <3>1, WordIsSpelt
  <2> QED
    BY <1>2, <1>3, <1>4, <1>6, <1>8, <2>3, Zenon
<1> QED
  BY <1>7, <1>8

LEMMA TextIdsIn ==
  ASSUME NEW Points, NEW Symbols, VocabGood(Symbols), TextGood(Points, Symbols), NEW s \in Seq(Points \cup Specials)
  PROVE  TextIds(s) \in Seq(TokenIds)
<1>1. PiecesAt(s) \in Seq(Seq(TokenIds))
  BY PiecesIn
<1>2. FlattenSeq(PiecesAt(s)) \in Seq(TokenIds)
  BY <1>1, FlatIn
<1> QED
  BY <1>2, TextIdsIs, Zenon

LEMMA TextIdsEmpty == TextIds(<<>>) = <<>>
<1>1. PiecesAt(<<>>) = <<>>
  BY DEF PiecesAt
<1> QED
  BY <1>1, FlatEmpty, TextIdsIs, Zenon

LEMMA LoweredConcat ==
  ASSUME NEW Points, NEW Symbols, TextGood(Points, Symbols), NEW q \in Seq(Points), NEW x \in Points
  PROVE  /\ Lowered(q \o <<x>>) = Lowered(q) \o <<Lower[x]>>
         /\ Word(q \o <<x>>) = Word(q) \o <<Lower[x]>>
         /\ Word(<<x>>) = <<Start>> \o <<Lower[x]>>
         /\ Word(<<>>) = <<Start>>
<1>1. PICK N \in Nat : N = Len(q) /\ DOMAIN q = 1..N
  OBVIOUS
<1>2. PICK c \in Seq(Points) : c = q \o <<x>> /\ Len(c) = N + 1 /\ (\A k \in 1..N : c[k] = q[k]) /\ c[N + 1] = x
  <2>1. \A Q : \A u \in Seq(Q) : \A y \in Q : u \o <<y>> \in Seq(Q) /\ Len(u \o <<y>>) = Len(u) + 1
          /\ (\A k \in 1..Len(u) : (u \o <<y>>)[k] = u[k]) /\ (u \o <<y>>)[Len(u) + 1] = y
    OBVIOUS
  <2> QED
    BY <1>1, <2>1, Zenon
<1>3. Lowered(q) \in Seq(Symbols) /\ Len(Lowered(q)) = N /\ Lowered(c) \in Seq(Symbols) /\ Len(Lowered(c)) = N + 1
  BY <1>1, <1>2, LoweredIn
<1>4. (\A k \in 1..N : Lowered(q)[k] = Lower[q[k]]) /\ (\A k \in 1..N + 1 : Lowered(c)[k] = Lower[c[k]])
  <2>1. DOMAIN c = 1..N + 1
    BY <1>2
  <2> QED
    BY <1>1, <2>1, Zenon DEF Lowered
<1>5. Lower[x] \in Symbols
  BY DEF TextGood
<1>6. Lowered(c) = Lowered(q) \o <<Lower[x]>>
  <2>1. PICK l \in Seq(Symbols) : l = Lowered(q)
    BY <1>3
  <2>2. PICK r \in Seq(Symbols) : r = Lowered(c)
    BY <1>3
  <2>3. PICK y \in Symbols : y = Lower[x]
    BY <1>5
  <2>4. Len(l) = N /\ Len(r) = N + 1 /\ (\A k \in 1..N : r[k] = l[k]) /\ r[N + 1] = y
    <3>1. \A k \in 1..N : k \in 1..N + 1
      OBVIOUS
    <3>2. N + 1 \in 1..N + 1
      OBVIOUS
    <3>3. ASSUME NEW k \in 1..N PROVE r[k] = l[k]
      <4>1. Lowered(c)[k] = Lower[c[k]] /\ Lowered(q)[k] = Lower[q[k]] /\ c[k] = q[k]
        BY <1>2, <1>4, <3>1, Zenon
      <4> QED
        BY <2>1, <2>2, <4>1, Zenon
    <3>4. r[N + 1] = y
      <4>1. Lowered(c)[N + 1] = Lower[c[N + 1]]
        BY <1>4, <3>2, Zenon
      <4> QED
        BY <1>2, <2>2, <2>3, <4>1, Zenon
    <3> QED
      BY <1>3, <2>1, <2>2, <3>3, <3>4, Zenon
  <2>5. r = l \o <<y>>
    BY ONLY <1>1, <2>1, <2>2, <2>3, <2>4
  <2> QED
    BY <2>1, <2>2, <2>3, <2>5, Zenon
<1>7. Word(c) = Word(q) \o <<Lower[x]>>
  <2>1. \A Q : \A u \in Seq(Q) : \A y, z : <<z>> \o (u \o <<y>>) = (<<z>> \o u) \o <<y>>
    OBVIOUS
  <2> QED
    BY <1>3, <1>6, <2>1, Zenon DEF Word
<1>8. Lowered(<<x>>) = <<Lower[x]>>
  BY DEF Lowered
<1>9. Lowered(<<>>) = <<>>
  BY DEF Lowered
<1>10. \A y : <<y>> \o <<>> = <<y>>
  OBVIOUS
<1> QED
  BY <1>2, <1>6, <1>7, <1>8, <1>9, <1>10, Zenon DEF Word

-----------------------------------------------------------------------------
(* Reading a text.                                                         *)

\* What a text is made of once its NULs are spelt out, and what each item of it is in the plain text.
Items(Points) == Points \cup Specials \cup {"bad byte"}
PlainOf(item) == IF item \in Specials THEN <<item>>
                 ELSE IF Class[CodePoint(item)] = "drop" THEN <<>> ELSE <<CodePoint(item)>>

\* The ids of s, and of what s goes on with as the word being read.
Ended(s) == [ids |-> TextIds(s), word |-> <<Start>>, failed |-> FALSE]
Within(p, q) == [ids |-> TextIds(p), word |-> Word(q), failed |-> FALSE]
Closed(p) == p = <<>> \/ ~IsKeep(p[Len(p)])
Reading(e, s, C) ==
    \E p, q \in Seq(C) : s = p \o q /\ Closed(p) /\ AllKeep(q) /\ e = Within(p, q)

LEMMA Changed ==
  ASSUME NEW a, NEW b, NEW c, NEW x, NEW y, NEW r, r = [ids |-> a, word |-> b, failed |-> c]
  PROVE  [r EXCEPT !.ids = x, !.word = y] = [ids |-> x, word |-> y, failed |-> c]
<1>1. r \in [ids : {a, x}, word : {b, y}, failed : {c}]
  OBVIOUS
<1>2. PICK t : t = [r EXCEPT !.ids = x, !.word = y]
  OBVIOUS
<1>3. t \in [ids : {a, x}, word : {b, y}, failed : {c}] /\ t.ids = x /\ t.word = y /\ t.failed = c
  BY <1>1, <1>2
<1>4. t = [ids |-> x, word |-> y, failed |-> c]
  BY <1>3
<1> QED
  BY <1>2, <1>4

MoreIds(r, x) == [r EXCEPT !.ids = @ \o x]
MoreWord(r, x) == [r EXCEPT !.word = @ \o x]

LEMMA IdsChanged ==
  ASSUME NEW a, NEW b, NEW x, NEW r, r = [ids |-> a, word |-> b, failed |-> FALSE]
  PROVE  MoreIds(r, x) = [ids |-> a \o x, word |-> b, failed |-> FALSE]
<1>1. PICK l : l = a \o x
  OBVIOUS
<1>2. r \in [ids : {a, l}, word : {b}, failed : {FALSE}] /\ r.ids = a
  OBVIOUS
<1>3. PICK t : t = [r EXCEPT !.ids = l]
  OBVIOUS
<1>4. t \in [ids : {a, l}, word : {b}, failed : {FALSE}] /\ t.ids = l /\ t.word = b /\ t.failed = FALSE
  BY <1>2, <1>3
<1>5. t = [ids |-> l, word |-> b, failed |-> FALSE]
  BY <1>4
<1>6. MoreIds(r, x) = [r EXCEPT !.ids = l]
  BY <1>1, <1>2 DEF MoreIds
<1> QED
  BY <1>1, <1>3, <1>5, <1>6

LEMMA WordChanged ==
  ASSUME NEW a, NEW b, NEW x, NEW r, r = [ids |-> a, word |-> b, failed |-> FALSE]
  PROVE  MoreWord(r, x) = [ids |-> a, word |-> b \o x, failed |-> FALSE]
<1>1. PICK l : l = b \o x
  OBVIOUS
<1>2. r \in [ids : {a}, word : {b, l}, failed : {FALSE}] /\ r.word = b
  OBVIOUS
<1>3. PICK t : t = [r EXCEPT !.word = l]
  OBVIOUS
<1>4. t \in [ids : {a}, word : {b, l}, failed : {FALSE}] /\ t.ids = a /\ t.word = l /\ t.failed = FALSE
  BY <1>2, <1>3
<1>5. t = [ids |-> a, word |-> l, failed |-> FALSE]
  BY <1>4
<1>6. MoreWord(r, x) = [r EXCEPT !.word = l]
  BY <1>1, <1>2 DEF MoreWord
<1> QED
  BY <1>1, <1>3, <1>5, <1>6

LEMMA FlushedIs ==
  ASSUME NEW i, NEW w, NEW e, e = [ids |-> i, word |-> w, failed |-> FALSE]
  PROVE  Flushed(e) = [ids |-> i \o flush_word(w), word |-> <<Start>>, failed |-> FALSE]
<1>1. e.ids = i /\ e.word = w
  OBVIOUS
<1>2. Flushed(e) = [e EXCEPT !.ids = i \o flush_word(w), !.word = <<Start>>]
  BY <1>1 DEF Flushed
<1> QED
  BY <1>2, Changed

LEMMA Flushes ==
  ASSUME NEW Points, NEW Symbols, VocabGood(Symbols), TextGood(Points, Symbols), NEW s, NEW e,
         Reading(e, s, Points \cup Specials)
  PROVE  s \in Seq(Points \cup Specials) /\ Flushed(e) = Ended(s)
<1>1. PICK C : C = Points \cup Specials
  OBVIOUS
<1>2. PICK p \in Seq(C), q \in Seq(C) : s = p \o q /\ Closed(p) /\ AllKeep(q) /\ e = Within(p, q)
  BY <1>1, Zenon DEF Reading
<1>3. s \in Seq(C) /\ TextIds(p) \in Seq(TokenIds)
  <2>1. p \o q \in Seq(C)
    BY <1>2, ConcatProperties, Zenon
  <2>2. p \in Seq(Points \cup Specials)
    BY <1>1, <1>2, Zenon
  <2>3. TextIds(p) \in Seq(TokenIds)
    BY <2>2, TextIdsIn
  <2> QED
    BY <1>2, <2>1, <2>3, Zenon
<1>4. Flushed(e) = [ids |-> TextIds(p) \o flush_word(Word(q)), word |-> <<Start>>, failed |-> FALSE]
  <2>1. e = [ids |-> TextIds(p), word |-> Word(q), failed |-> FALSE]
    BY <1>2, Zenon DEF Within
  <2> QED
    BY <2>1, FlushedIs
<1>5. TextIds(s) = TextIds(p) \o flush_word(Word(q))
  <2>1. CASE q = <<>>
    <3>1. s = p
      <4>1. \A X : \A u \in Seq(X) : u \o <<>> = u
        OBVIOUS
      <4> QED
        BY <1>2, <2>1, <4>1, Zenon
    <3>2. flush_word(Word(q)) = <<>>
      <4>1. Lowered(<<>>) = <<>>
        BY DEF Lowered
      <4>2. \A y : <<y>> \o <<>> = <<y>>
        OBVIOUS
      <4> QED
        BY <2>1, <4>1, <4>2, Zenon DEF Word, flush_word
    <3>3. \A X : \A u \in Seq(X) : u \o <<>> = u
      OBVIOUS
    <3> QED
      BY <1>3, <3>1, <3>2, <3>3, Zenon
  <2>2. CASE q # <<>>
    <3>1. Parted(p, q)
      <4>1. q[1] = q[1]
        OBVIOUS
      <4> QED
        BY <1>2, Zenon DEF Parted, Closed
    <3>2. TextIds(p \o q) = TextIds(p) \o TextIds(q)
      BY <1>1, <1>2, <3>1, TextSplit
    <3>3. TextIds(q) = flush_word(Word(q))
      BY <1>1, <1>2, <2>2, OneWord
    <3> QED
      BY <1>2, <3>2, <3>3, Zenon
  <2> QED
    BY <2>1, <2>2
<1> QED
  BY <1>1, <1>3, <1>4, <1>5, Zenon DEF Ended

LEMMA Closes ==
  ASSUME NEW Points, NEW Symbols, VocabGood(Symbols), TextGood(Points, Symbols), NEW s \in Seq(Points \cup Specials),
         NEW x \in Points \cup Specials, ~IsKeep(x),
         NEW e, e = [ids |-> TextIds(s) \o TextIds(<<x>>), word |-> <<Start>>, failed |-> FALSE]
  PROVE  Reading(e, s \o <<x>>, Points \cup Specials)
<1>1. PICK C : C = Points \cup Specials
  OBVIOUS
<1>2. PICK o \in Seq(C) : o = <<x>> /\ o[1] = x
  <2>1. \A Q : \A y \in Q : <<y>> \in Seq(Q) /\ <<y>>[1] = y
    OBVIOUS
  <2> QED
    BY <1>1, <2>1, Zenon
<1>3. s \in Seq(C)
  BY <1>1, Zenon
<1>4. PICK p \in Seq(C) : p = s \o <<x>> /\ p[Len(p)] = x
  <2>1. \A Q : \A u \in Seq(Q) : \A y \in Q : u \o <<y>> \in Seq(Q) /\ (u \o <<y>>)[Len(u \o <<y>>)] = y
    OBVIOUS
  <2> QED
    BY <1>1, <1>3, <2>1, Zenon
<1>5. Closed(p)
  BY <1>4, Zenon DEF Closed
<1>6. TextIds(p) = TextIds(s) \o TextIds(<<x>>)
  <2>1. Parted(s, o)
    BY <1>2, Zenon DEF Parted
  <2>2. o \in Seq(Points \cup Specials)
    BY <1>1, <1>2, Zenon
  <2>3. TextIds(s \o o) = TextIds(s) \o TextIds(o)
    BY <2>1, <2>2, TextSplit
  <2> QED
    BY <1>2, <1>4, <2>3, Zenon
<1>7. <<>> \in Seq(C) /\ p = p \o <<>> /\ AllKeep(<<>>)
  <2>1. \A X : \A u \in Seq(X) : u = u \o <<>> /\ <<>> \in Seq(X)
    OBVIOUS
  <2>2. AllKeep(<<>>)
    BY DEF AllKeep
  <2> QED
    BY <1>4, <2>1, <2>2, Zenon
<1>8. e = Within(p, <<>>)
  <2>1. Lowered(<<>>) = <<>>
    BY DEF Lowered
  <2>2. \A y : <<y>> \o <<>> = <<y>>
    OBVIOUS
  <2> QED
    BY <1>6, <2>1, <2>2, Zenon DEF Within, Word
<1> QED
  BY <1>1, <1>4, <1>5, <1>7, <1>8, Zenon DEF Reading

\* One more item of a text that can be tokenised.
LEMMA ReadStep ==
  ASSUME NEW Points, NEW Symbols, VocabGood(Symbols), TextGood(Points, Symbols), NEW s, NEW e,
         Reading(e, s, Points \cup Specials), NEW item \in Items(Points),
         item \in Specials \/ CodePoint(item) \notin TooHigh
  PROVE  Reading(Reads(e, item), s \o PlainOf(item), Points \cup Specials)
<1>1. PICK C : C = Points \cup Specials
  OBVIOUS
<1>2. s \in Seq(Points \cup Specials) /\ Flushed(e) = Ended(s)
  BY Flushes
<1>3. PICK i \in Seq(TokenIds) : i = TextIds(s)
  BY <1>2, TextIdsIn
<1>4. PICK p \in Seq(C), q \in Seq(C) : s = p \o q /\ Closed(p) /\ AllKeep(q) /\ e = Within(p, q)
  BY <1>1, Zenon DEF Reading
<1>5. ~e.failed
  BY <1>4 DEF Within
<1>6. Flushed(e) = [ids |-> i, word |-> <<Start>>, failed |-> FALSE]
  BY <1>2, <1>3, Zenon DEF Ended
<1>7. CASE item \in Specials
  <2>1. Reads(e, item) = MoreIds(Flushed(e), <<tok_lookup(<<item>>)>>)
    BY <1>5, <1>7, Zenon DEF Reads, MoreIds
  <2>2. Reads(e, item) = [ids |-> i \o <<tok_lookup(<<item>>)>>, word |-> <<Start>>, failed |-> FALSE]
    <3> SUFFICES ASSUME NEW f, NEW j, NEW x, f = [ids |-> j, word |-> <<Start>>, failed |-> FALSE]
                 PROVE  MoreIds(f, x) = [ids |-> j \o x, word |-> <<Start>>, failed |-> FALSE]
      BY <1>6, <2>1, Zenon
    <3> QED
      BY IdsChanged
  <2>3. ~IsKeep(item) /\ PlainOf(item) = <<item>> /\ item \in Points \cup Specials
    BY <1>7 DEF IsKeep, PlainOf
  <2>4. TextIds(<<item>>) = <<tok_lookup(<<item>>)>>
    BY <1>7, <2>3, OneMark
  <2>5. Reads(e, item) = [ids |-> TextIds(s) \o TextIds(<<item>>), word |-> <<Start>>, failed |-> FALSE]
    BY <1>3, <2>2, <2>4, Zenon
  <2>6. Reading(Reads(e, item), s \o <<item>>, Points \cup Specials)
    BY <1>2, <2>3, <2>5, Closes
  <2> QED
    BY <2>3, <2>6
<1>8. CASE item \notin Specials
  <2>1. PICK cp \in Points : cp = CodePoint(item)
    BY <1>8 DEF CodePoint, Items, TextGood
  <2>2. cp \notin Specials /\ Class[cp] \in {"ws", "drop", "keep", "split"} /\ cp \notin TooHigh /\ Lower[cp] \in Symbols
    BY <1>8, <2>1 DEF TextGood
  <2>3. cp \in Points \cup Specials
    OBVIOUS
  <2>4. PlainOf(item) = IF Class[cp] = "drop" THEN <<>> ELSE <<cp>>
    BY <1>8, <2>1, Zenon DEF PlainOf
  <2>5. Reads(e, item) =
           CASE Class[cp] = "ws" -> Flushed(e)
             [] Class[cp] = "drop" -> e
             [] Class[cp] = "keep" /\ cp \in TooHigh -> [e EXCEPT !.failed = TRUE]
             [] Class[cp] = "split" -> Flushed(MoreWord(Flushed(e), <<Lower[cp]>>))
             [] OTHER -> MoreWord(e, <<Lower[cp]>>)
    BY <1>5, <1>8, <2>1, Zenon DEF Reads, MoreWord
  <2>6. CASE Class[cp] = "ws"
    <3>1. Reads(e, item) = Flushed(e)
      BY <2>5, <2>6
    <3>2. ~IsKeep(cp) /\ PlainOf(item) = <<cp>>
      BY <2>4, <2>6 DEF IsKeep
    <3>3. TextIds(<<cp>>) = <<>>
      BY <2>2, <2>3, <2>6, <3>2, OneMark
    <3>4. i \o <<>> = i
      BY <1>3
    <3>5. Reads(e, item) = [ids |-> TextIds(s) \o TextIds(<<cp>>), word |-> <<Start>>, failed |-> FALSE]
      BY <1>3, <1>6, <3>1, <3>3, <3>4, Zenon
    <3>6. Reading(Reads(e, item), s \o <<cp>>, Points \cup Specials)
      BY <1>2, <2>3, <3>2, <3>5, Closes
    <3> QED
      BY <3>2, <3>6
  <2>7. CASE Class[cp] = "drop"
    <3>1. Reads(e, item) = e
      BY <2>5, <2>7
    <3>2. PlainOf(item) = <<>>
      BY <2>4, <2>7
    <3>3. s \o <<>> = s
      BY <1>2
    <3> QED
      BY <3>1, <3>2, <3>3
  <2>8. CASE Class[cp] = "split"
    <3>1. Reads(e, item) = Flushed(MoreWord(Flushed(e), <<Lower[cp]>>))
      BY <2>5, <2>8
    <3>2. ~IsKeep(cp) /\ PlainOf(item) = <<cp>>
      BY <2>4, <2>8 DEF IsKeep
    <3>3. TextIds(<<cp>>) = flush_word(Word(<<cp>>)) /\ Word(<<cp>>) = <<Start>> \o <<Lower[cp]>>
      <4>1. TextIds(<<cp>>) = flush_word(Word(<<cp>>))
        BY <2>2, <2>3, <2>8, <3>2, OneMark
      <4>2. <<>> \in Seq(Points)
        OBVIOUS
      <4> QED
        BY <4>1, <4>2, LoweredConcat
    <3>4. PICK f : f = MoreWord(Flushed(e), <<Lower[cp]>>)
      OBVIOUS
    <3>5. f = [ids |-> i, word |-> <<Start>> \o <<Lower[cp]>>, failed |-> FALSE]
      <4>1. PICK g : g = Flushed(e)
        OBVIOUS
      <4>2. g = [ids |-> i, word |-> <<Start>>, failed |-> FALSE]
        BY <1>6, <4>1, Zenon
      <4>3. MoreWord(g, <<Lower[cp]>>) = [ids |-> i, word |-> <<Start>> \o <<Lower[cp]>>, failed |-> FALSE]
        BY <4>2, WordChanged
      <4> QED
        BY <3>4, <4>1, <4>3, Zenon
    <3>6. Reads(e, item) = [ids |-> TextIds(s) \o TextIds(<<cp>>), word |-> <<Start>>, failed |-> FALSE]
      <4>1. f = [ids |-> i, word |-> Word(<<cp>>), failed |-> FALSE]
        BY <3>3, <3>5, Zenon
      <4>2. Flushed(f) = [ids |-> i \o flush_word(Word(<<cp>>)), word |-> <<Start>>, failed |-> FALSE]
        BY <4>1, FlushedIs
      <4> QED
        BY <1>3, <3>1, <3>3, <3>4, <4>2, Zenon
    <3>7. Reading(Reads(e, item), s \o <<cp>>, Points \cup Specials)
      BY <1>2, <2>3, <3>2, <3>6, Closes
    <3> QED
      BY <3>2, <3>7
  <2>9. CASE Class[cp] = "keep"
    <3>1. Reads(e, item) = MoreWord(e, <<Lower[cp]>>)
      BY <2>2, <2>5, <2>9
    <3>2. IsKeep(cp) /\ PlainOf(item) = <<cp>>
      BY <2>2, <2>4, <2>9 DEF IsKeep
    <3>3. PICK r \in Seq(C) : r = q \o <<cp>> /\ Len(r) = Len(q) + 1 /\ (\A k \in 1..Len(q) : r[k] = q[k])
                              /\ r[Len(q) + 1] = cp
      <4>1. \A Q : \A u \in Seq(Q) : \A y \in Q : u \o <<y>> \in Seq(Q) /\ Len(u \o <<y>>) = Len(u) + 1
              /\ (\A k \in 1..Len(u) : (u \o <<y>>)[k] = u[k]) /\ (u \o <<y>>)[Len(u) + 1] = y
        OBVIOUS
      <4> QED
        BY <1>1, <1>4, <2>3, <4>1, Zenon
    <3>4. AllKeep(r)
      <4>1. PICK N \in Nat : N = Len(q) /\ DOMAIN q = 1..N
        BY <1>4
      <4>2. DOMAIN r = 1..N + 1 /\ \A k \in 1..N + 1 : k \in 1..N \/ k = N + 1
        BY <3>3, <4>1
      <4>3. \A k \in 1..N : IsKeep(q[k])
        BY <1>4, <4>1, Zenon DEF AllKeep
      <4>4. ASSUME NEW k \in DOMAIN r PROVE IsKeep(r[k])
        <5>1. CASE k \in 1..N
          BY <3>3, <4>1, <4>3, <5>1, Zenon
        <5>2. CASE k = N + 1
          BY <3>2, <3>3, <4>1, <5>2, Zenon
        <5> QED
          BY <4>2, <5>1, <5>2, Zenon
      <4> QED
        BY <4>4, Zenon DEF AllKeep
    <3>5. q \in Seq(Points)
      <4>1. PICK N \in Nat : N = Len(q) /\ DOMAIN q = 1..N
        BY <1>4
      <4>2. \A k \in 1..N : IsKeep(q[k])
        BY <1>4, <4>1, Zenon DEF AllKeep
      <4>3. \A k \in 1..N : q[k] \in Points
        BY <1>1, <1>4, <4>1, <4>2 DEF IsKeep
      <4> QED
        BY <1>4, <4>1, <4>3
    <3>6. Word(r) = Word(q) \o <<Lower[cp]>>
      BY <3>3, <3>5, LoweredConcat
    <3>7. Reads(e, item) = Within(p, r)
      <4>1. e = [ids |-> TextIds(p), word |-> Word(q), failed |-> FALSE]
        BY <1>4, Zenon DEF Within
      <4>2. MoreWord(e, <<Lower[cp]>>)
              = [ids |-> TextIds(p), word |-> Word(q) \o <<Lower[cp]>>, failed |-> FALSE]
        BY <4>1, WordChanged
      <4> QED
        BY <3>1, <3>6, <4>2, Zenon DEF Within
    <3>8. s \o <<cp>> = p \o r
      <4>1. PICK o \in Seq(C) : o = <<cp>>
        <5>1. \A X : \A y \in X : <<y>> \in Seq(X)
          OBVIOUS
        <5> QED
          BY <1>1, <2>3, <5>1, Zenon
      <4>2. (p \o q) \o o = p \o (q \o o)
        BY <1>4, <4>1, ConcatAssociative
      <4> QED
        BY <1>4, <3>3, <4>1, <4>2, Zenon
    <3> QED
      BY <1>1, <1>4, <3>2, <3>3, <3>4, <3>7, <3>8, Zenon DEF Reading
  <2> QED
    BY <2>2, <2>6, <2>7, <2>8, <2>9
<1> QED
  BY <1>7, <1>8

-----------------------------------------------------------------------------
(* A whole text.                                                           *)

\* The states a text is read in.
ReadStates(C) == {Within(x[1], x[2]) : x \in {y \in Seq(C) \X Seq(C) : Closed(y[1]) /\ AllKeep(y[2])}}

LEMMA ReadStatesAre ==
  ASSUME NEW C, NEW e
  PROVE  e \in ReadStates(C) <=> \E s : Reading(e, s, C)
<1>1. ASSUME e \in ReadStates(C) PROVE \E s : Reading(e, s, C)
  <2>1. PICK x \in Seq(C) \X Seq(C) : Closed(x[1]) /\ AllKeep(x[2]) /\ e = Within(x[1], x[2])
    BY <1>1, Zenon DEF ReadStates
  <2>2. PICK p \in Seq(C), q \in Seq(C) : p = x[1] /\ q = x[2]
    BY <2>1
  <2>3. Reading(e, p \o q, C)
    BY <2>1, <2>2, Zenon DEF Reading
  <2> QED
    BY <2>3
<1>2. ASSUME NEW s, Reading(e, s, C) PROVE e \in ReadStates(C)
  <2>1. PICK p \in Seq(C), q \in Seq(C) : Closed(p) /\ AllKeep(q) /\ e = Within(p, q)
    BY <1>2, Zenon DEF Reading
  <2>2. PICK x \in Seq(C) \X Seq(C) : x[1] = p /\ x[2] = q
    <3>1. <<p, q>> \in Seq(C) \X Seq(C) /\ <<p, q>>[1] = p /\ <<p, q>>[2] = q
      BY <2>1
    <3> QED
      BY <3>1, Zenon
  <2> QED
    BY <2>1, <2>2, Zenon DEF ReadStates
<1> QED
  BY <1>1, <1>2

Empty == [ids |-> <<>>, word |-> <<Start>>, failed |-> FALSE]
ReadAll(text) == FoldLeft(Reads, Empty, text)
\* A text whose characters all exist.
Tokenisable(text) == \A i \in DOMAIN text : text[i] \in Specials \/ CodePoint(text[i]) \notin TooHigh

LEMMA EmptyReads ==
  ASSUME NEW C
  PROVE  Reading(Empty, <<>>, C)
<1>1. <<>> \in Seq(C) /\ <<>> = <<>> \o <<>> /\ AllKeep(<<>>)
  <2>1. \A X : \A u \in Seq(X) : u = u \o <<>> /\ <<>> \in Seq(X)
    OBVIOUS
  <2>2. AllKeep(<<>>)
    BY DEF AllKeep
  <2>3. <<>> \in Seq(C)
    OBVIOUS
  <2> QED
    BY <2>1, <2>2, <2>3, Zenon
<1>2. Closed(<<>>)
  BY Zenon DEF Closed
<1>3. Empty = Within(<<>>, <<>>)
  <2>1. Lowered(<<>>) = <<>>
    BY DEF Lowered
  <2>2. \A y : <<y>> \o <<>> = <<y>>
    OBVIOUS
  <2> QED
    BY <2>1, <2>2, TextIdsEmpty, Zenon DEF Empty, Within, Word
<1> QED
  BY <1>1, <1>2, <1>3, Zenon DEF Reading

\* What has been read after each item.
ReadRuns(h, text, C) ==
    /\ h \in [0..Len(text) -> ReadStates(C)] /\ h[0] = Empty /\ ReadAll(text) = h[Len(text)]
    /\ \A n \in 1..Len(text) : h[n] = Reads(h[n - 1], text[n])

LEMMA ReadSteps ==
  ASSUME NEW Points, NEW Symbols, VocabGood(Symbols), TextGood(Points, Symbols), NEW text \in Seq(Items(Points)),
         Tokenisable(text)
  PROVE  \E h : ReadRuns(h, text, Points \cup Specials)
<1> DEFINE N == Len(text)
           C == Points \cup Specials
           R == ReadStates(C)
           G == [x \in (1..N) \X R |-> Reads(x[2], text[x[1]])]
           Eq(f) == f = [s \in SUBSET (1..N) |-> IF s = {} THEN Empty ELSE Reads(f[s \ {Max(s)}], text[Max(s)])]
           it == CHOOSE f : Eq(f)
<1>1. N \in Nat /\ DOMAIN text = 1..N /\ \A n \in 1..N : text[n] \in Items(Points)
  OBVIOUS
<1>2. ASSUME NEW e \in R, NEW n \in 1..N PROVE Reads(e, text[n]) \in R
  <2>1. PICK s : Reading(e, s, C)
    BY ReadStatesAre
  <2>2. text[n] \in Items(Points) /\ (text[n] \in Specials \/ CodePoint(text[n]) \notin TooHigh)
    BY <1>1, Zenon DEF Tokenisable
  <2>3. Reading(Reads(e, text[n]), s \o PlainOf(text[n]), C)
    BY <2>1, <2>2, ReadStep
  <2> HIDE DEF C
  <2> QED
    BY <2>3, ReadStatesAre
<1>3. ReadAll(text) = it[1..N]
  <2>1. ReadAll(text)
          = (CHOOSE g : g = [s \in SUBSET DOMAIN text |->
               IF s = {} THEN Empty ELSE Reads(g[s \ {Max(s)}], text[Max(s)])])[DOMAIN text]
    BY Zenon DEF ReadAll, FoldLeft, MapThenFoldSet
  <2> QED
    BY <1>1, <2>1
<1>4. Empty \in R
  BY EmptyReads, ReadStatesAre
<1> HIDE DEF N, R
<1>5. G \in [(1..N) \X R -> R] /\ \A n \in 1..N, e \in R : G[<<n, e>>] = Reads(e, text[n])
  BY <1>2
<1> HIDE DEF G
<1>6. PICK f : Folds(f, N, R, Empty, G)
  BY <1>1, <1>4, <1>5, FoldExists
<1>7. Eq(f)
  BY <1>5, <1>6 DEF Folds
<1>8. Eq(it)
  <2> HIDE DEF Eq
  <2> QED
    BY <1>7
<1> HIDE DEF it
<1>9. it[{}] = Empty /\ \A s \in SUBSET (1..N) : s # {} => it[s] = Reads(it[s \ {Max(s)}], text[Max(s)])
  BY <1>8
<1>10. Unfolds(it, N, R, Empty, G)
  BY <1>5, <1>6, <1>9 DEF Folds, Unfolds
<1>11. PICK h : RunsTo(h, it[1..N], N, R, Empty, G)
  <2> HIDE DEF Eq
  <2> QED
    BY <1>1, <1>4, <1>5, <1>10, FoldRuns
<1>12. ASSUME NEW n \in 1..N PROVE h[n] = Reads(h[n - 1], text[n])
  <2>1. h[n - 1] \in R
    BY <1>1, <1>11 DEF RunsTo
  <2> QED
    BY <1>5, <1>11, <2>1 DEF RunsTo
<1>13. ReadRuns(h, text, C)
  BY <1>3, <1>11, <1>12 DEF N, R, ReadRuns, RunsTo
<1> QED
  BY <1>13

LEMMA PlainIs ==
  \A text : Plain(text) = FlattenSeq([i \in DOMAIN text |-> PlainOf(text[i])])
  BY Zenon DEF Plain, PlainOf

\* Read from left to right, a text has the ids of its words.
LEMMA TextIsRead ==
  ASSUME NEW Points, NEW Symbols, VocabGood(Symbols), TextGood(Points, Symbols), NEW text \in Seq(Items(Points)),
         Tokenisable(text)
  PROVE  /\ ~ReadAll(text).failed
         /\ Flushed(ReadAll(text)).ids = TextIds(Plain(text))
         /\ TextIds(Plain(text)) \in Seq(TokenIds)
<1>1. PICK C : C = Points \cup Specials
  OBVIOUS
<1>2. PICK N \in Nat : N = Len(text) /\ DOMAIN text = 1..N
  OBVIOUS
<1> DEFINE ss == [i \in DOMAIN text |-> PlainOf(text[i])]
<1>3. ASSUME NEW n \in 1..N PROVE PlainOf(text[n]) \in Seq(C)
  <2>1. text[n] \in Items(Points)
    BY <1>2
  <2>2. PlainOf(text[n]) = <<>> \/ \E x \in C : PlainOf(text[n]) = <<x>>
    <3>1. text[n] \in Specials \/ CodePoint(text[n]) \in Points
      BY <2>1 DEF CodePoint, Items, TextGood
    <3> QED
      BY <1>1, <3>1 DEF PlainOf
  <2>3. <<>> \in Seq(C) /\ \A x \in C : <<x>> \in Seq(C)
    OBVIOUS
  <2> QED
    BY <2>2, <2>3, Zenon
<1>4. PICK Q : Q = Seq(C)
  OBVIOUS
<1>5. ss \in Seq(Q) /\ Len(ss) = N /\ \A n \in 1..N : ss[n] = PlainOf(text[n])
  BY <1>2, <1>3, <1>4
<1>6. PICK t : Run(t, ss, C) /\ FlattenSeq(ss) = t[Len(ss)]
  <2> HIDE DEF ss
  <2>1. ss \in Seq(Seq(C))
    BY <1>4, <1>5, Zenon
  <2> QED
    BY <2>1, FlatRuns
<1> HIDE DEF ss
<1>7. t[0] = <<>> /\ \A n \in 1..N : t[n] = t[n - 1] \o PlainOf(text[n])
  <2>1. t[0] = <<>>
    BY <1>6 DEF Run
  <2>2. ASSUME NEW n \in 1..N PROVE t[n] = t[n - 1] \o PlainOf(text[n])
    <3>1. n \in 1..Len(ss)
      BY <1>5
    <3> QED
      BY <1>5, <1>6, <3>1, Zenon DEF Run
  <2> QED
    BY <2>1, <2>2
<1>8. PICK h : ReadRuns(h, text, C)
  BY <1>1, ReadSteps
<1> DEFINE T == {n \in 0..N : Reading(h[n], t[n], C)}
<1>9. 0 \in T
  <2>1. h[0] = Empty /\ 0 \in 0..N
    BY <1>2, <1>8 DEF ReadRuns
  <2> QED
    BY <1>7, <2>1, EmptyReads, Zenon
<1>10. ASSUME NEW n \in 1..N, n - 1 \in T PROVE n \in T
  <2>1. Reading(h[n - 1], t[n - 1], C)
    BY <1>10
  <2>2. text[n] \in Items(Points) /\ (text[n] \in Specials \/ CodePoint(text[n]) \notin TooHigh)
    <3>1. n \in DOMAIN text /\ text[n] \in Items(Points)
      BY <1>2
    <3> QED
      BY <3>1, Zenon DEF Tokenisable
  <2>3. Reading(Reads(h[n - 1], text[n]), t[n - 1] \o PlainOf(text[n]), C)
    BY <1>1, <2>1, <2>2, ReadStep
  <2>4. h[n] = Reads(h[n - 1], text[n])
    BY <1>2, <1>8, Zenon DEF ReadRuns
  <2>5. n \in 0..N
    OBVIOUS
  <2> QED
    BY <1>7, <2>3, <2>4, <2>5, Zenon
<1>11. Reading(h[N], t[N], C)
  <2> HIDE DEF T
  <2>1. 0..N \subseteq T
    BY <1>9, <1>10, InductionTo
  <2>2. N \in T
    BY <2>1
  <2> QED
    BY <2>2, Zenon DEF T
<1>12. ReadAll(text) = h[N] /\ Plain(text) = t[N]
  <2>1. ReadAll(text) = h[N]
    BY <1>2, <1>8, Zenon DEF ReadRuns
  <2>2. Plain(text) = FlattenSeq(ss)
    BY PlainIs, Zenon DEF ss
  <2> QED
    BY <1>5, <1>6, <2>1, <2>2, Zenon
<1>13. Reading(ReadAll(text), Plain(text), C)
  BY <1>11, <1>12, Zenon
<1>14. Plain(text) \in Seq(C) /\ Flushed(ReadAll(text)) = Ended(Plain(text))
  BY <1>1, <1>13, Flushes
<1>15. Ended(Plain(text)).ids = TextIds(Plain(text))
  BY DEF Ended
<1>16. ~ReadAll(text).failed
  <2>1. PICK p, q : ReadAll(text) = Within(p, q)
    BY <1>13, Zenon DEF Reading
  <2> QED
    BY <2>1 DEF Within
<1>17. TextIds(Plain(text)) \in Seq(TokenIds)
  BY <1>1, <1>14, TextIdsIn
<1> QED
  BY <1>14, <1>15, <1>16, <1>17, Zenon

\* What a message's content is made of.
ContentItems(Points) == Points \cup Specials \cup {"NUL", "bad byte"}

\* What is tokenised of a message: its items, NULs spelt out, and no more than MaxChars of them.
LEMMA TextIsCut ==
  ASSUME NEW Points, NEW Symbols, TextGood(Points, Symbols), MaxChars \in Nat,
         NEW content \in Seq(ContentItems(Points))
  PROVE  /\ prep_truncate(Nuls(content)) \in Seq(Items(Points))
         /\ Len(prep_truncate(Nuls(content))) <= MaxChars
<1> DEFINE ss == [i \in DOMAIN content |-> IF content[i] = "NUL" THEN NulText ELSE <<content[i]>>]
<1>1. PICK I : I = Items(Points)
  OBVIOUS
<1>2. PICK Q : Q = Seq(I)
  OBVIOUS
<1>3. PICK N \in Nat : N = Len(content) /\ DOMAIN content = 1..N
  OBVIOUS
<1>4. ASSUME NEW i \in 1..N PROVE ss[i] \in Q
  <2>1. content[i] \in ContentItems(Points)
    BY <1>3
  <2>2. content[i] = "NUL" \/ content[i] \in I
    BY <1>1, <2>1, Zenon DEF Items, ContentItems
  <2>3. NulText \in Seq(I)
    <3>1. \A X, Y : X \subseteq Y => \A u \in Seq(X) : u \in Seq(Y)
      OBVIOUS
    <3>2. Points \subseteq I
      BY <1>1, Zenon DEF Items
    <3> QED
      BY <3>1, <3>2, Zenon DEF TextGood
  <2>4. \A x \in I : <<x>> \in Seq(I)
    OBVIOUS
  <2>5. ss[i] = IF content[i] = "NUL" THEN NulText ELSE <<content[i]>>
    BY <1>3
  <2>6. CASE content[i] = "NUL"
    <3>1. ss[i] = NulText
      BY <2>5, <2>6, Zenon
    <3> HIDE DEF ss
    <3> QED
      BY <1>2, <2>3, <3>1
  <2>7. CASE content[i] # "NUL"
    <3>1. ss[i] = <<content[i]>> /\ content[i] \in I
      BY <2>2, <2>5, <2>7, Zenon
    <3> HIDE DEF ss
    <3> QED
      BY <1>2, <2>4, <3>1
  <2> QED
    BY <2>6, <2>7
<1>5. ss \in Seq(Q)
  BY <1>3, <1>4
<1>6. PICK t \in Seq(I) : t = Nuls(content)
  <2>1. Nuls(content) = FlattenSeq(ss)
    BY Zenon DEF Nuls
  <2> HIDE DEF ss
  <2>2. ss \in Seq(Seq(I))
    BY <1>2, <1>5, Zenon
  <2> QED
    BY <2>1, <2>2, FlatIn, Zenon
<1>7. PICK m \in Nat : m = (IF Len(t) > MaxChars THEN MaxChars ELSE Len(t))
  BY <1>6
<1>8. prep_truncate(Nuls(content)) = SubSeq(t, 1, m)
  BY <1>6, <1>7, Zenon DEF prep_truncate
<1>9. m \in 0..Len(t) /\ m <= MaxChars
  BY <1>6, <1>7
<1>10. SubSeq(t, 1, m) \in Seq(I) /\ Len(SubSeq(t, 1, m)) = m
  BY <1>6, <1>9
<1> QED
  BY <1>1, <1>8, <1>9, <1>10

\* As many ids as fit, between the two marks.
Cuts(full, all, c, d, max) ==
    /\ Len(full) = Len(all) + 2
    /\ <<c>> \o SubSeq(all, 1, Min({Len(all), max - 2})) \o <<d>>
         = IF Len(full) <= max THEN full ELSE SubSeq(full, 1, max - 1) \o <<d>>
LEMMA IdsCut ==
  ASSUME NEW S, NEW all \in Seq(S), NEW c \in S, NEW d \in S, NEW max \in Nat, max >= 2,
         NEW full, full = <<c>> \o all \o <<d>>
  PROVE  Cuts(full, all, c, d, max)
<1>1. PICK L \in Nat : L = Len(all)
  OBVIOUS
<1>2. Len(full) = L + 2
  BY <1>1
<1>3. CASE L <= max - 2
  <2>1. Min({L, max - 2}) = L
    BY <1>3 DEF Min
  <2>2. SubSeq(all, 1, L) = all
    BY <1>1, SubSeqFull, Zenon
  <2>3. L + 2 <= max
    BY <1>3
  <2>4. <<c>> \o SubSeq(all, 1, Min({Len(all), max - 2})) \o <<d>> = full
    BY <1>1, <2>1, <2>2, Zenon
  <2> QED
    BY <1>1, <1>2, <2>3, <2>4 DEF Cuts
<1>4. CASE ~(L <= max - 2)
  <2>1. Min({L, max - 2}) = max - 2
    BY <1>4 DEF Min
  <2>2. PICK t \in Seq(S) : t = all \o <<d>> /\ Len(t) = L + 1
    <3>1. all \o <<d>> \in Seq(S) /\ Len(all \o <<d>>) = L + 1
      BY <1>1
    <3> QED
      BY <3>1, Zenon
  <2>3. full = <<c>> \o t
    <3>1. \A X : \A u \in Seq(X) : \A x, y \in X : <<x>> \o u \o <<y>> = <<x>> \o (u \o <<y>>)
      OBVIOUS
    <3> QED
      BY <2>2, <3>1, Zenon
  <2>4. SubSeq(<<c>> \o t, 1, max - 1) = <<c>> \o SubSeq(t, 1, (max - 1) - 1)
    <3>1. max - 1 \in 1..Len(t)
      BY <1>4, <2>2
    <3> QED
      BY <2>2, <3>1, BeginningOf
  <2>5. SubSeq(t, 1, max - 2) = SubSeq(all, 1, max - 2)
    <3>1. max - 2 \in 0..L
      BY <1>4
    <3>2. \A X : \A u \in Seq(X) : \A y \in X : \A k \in 0..Len(u) : SubSeq(u \o <<y>>, 1, k) = SubSeq(u, 1, k)
      OBVIOUS
    <3> QED
      BY <1>1, <2>2, <3>1, <3>2, Zenon
  <2>6. (max - 1) - 1 = max - 2 /\ ~(L + 2 <= max)
    BY <1>4
  <2>7. SubSeq(full, 1, max - 1) = <<c>> \o SubSeq(all, 1, max - 2)
    BY <2>3, <2>4, <2>5, <2>6, Zenon
  <2>8. <<c>> \o SubSeq(all, 1, Min({Len(all), max - 2})) \o <<d>> = SubSeq(full, 1, max - 1) \o <<d>>
    BY <1>1, <2>1, <2>7, Zenon
  <2> QED
    BY <1>1, <1>2, <2>6, <2>8 DEF Cuts
<1> QED
  BY <1>3, <1>4

\* Whatever the vocab, the Unicode tables and the text: the ids are those of its words, each spelt in
\* the longest tokens of the vocab or [UNK], and are cut only after the first max_ids - 2.
LEMMA ContentIsSpelt ==
  ASSUME NEW Points, NEW Symbols, VocabGood(Symbols), TextGood(Points, Symbols), MaxChars \in Nat,
         NEW content \in Seq(ContentItems(Points)), NEW max_ids \in Nat, max_ids >= 2
  PROVE  SpellsTokens(content, max_ids)
<1> DEFINE text == prep_truncate(Nuls(content))
           all == TextIds(Plain(text))
           full == <<Cls>> \o all \o <<Sep>>
           r == Tokens(content, max_ids)
<1>1. text \in Seq(Items(Points)) /\ Len(text) <= MaxChars
  BY TextIsCut
<1> HIDE DEF text
<1>2. ASSUME Tokenisable(text)
      PROVE  /\ Len(text) <= MaxChars /\ r.total = Len(full)
             /\ r.ids = IF Len(full) <= max_ids THEN full ELSE SubSeq(full, 1, max_ids - 1) \o <<Sep>>
  <2>1. ~ReadAll(text).failed /\ Flushed(ReadAll(text)).ids = all /\ all \in Seq(TokenIds)
    BY <1>1, <1>2, TextIsRead
  <2>2. r = [ids |-> <<Cls>> \o SubSeq(all, 1, Min({Len(all), max_ids - 2})) \o <<Sep>>, total |-> Len(all) + 2]
    <3>1. ~(max_ids < 2)
      OBVIOUS
    <3>2. r = tok_encode(text, max_ids)
      BY Zenon DEF Tokens, text
    <3>3. tok_encode(text, max_ids) =
            IF ReadAll(text).failed \/ max_ids < 2 THEN [ids |-> <<>>, total |-> 0]
            ELSE [ids |-> <<Cls>> \o SubSeq(Flushed(ReadAll(text)).ids, 1, Min({Len(Flushed(ReadAll(text)).ids), max_ids - 2})) \o <<Sep>>,
                  total |-> Len(Flushed(ReadAll(text)).ids) + 2]
      BY Zenon DEF tok_encode, ReadAll, Empty
    <3> HIDE DEF r, all
    <3> QED
      BY <2>1, <3>1, <3>2, <3>3, Zenon
  <2>3. PICK S : S = TokenIds \cup {Cls, Sep}
    OBVIOUS
  <2>4. PICK a \in Seq(S) : a = all
    BY <2>1, <2>3
  <2>5. Cls \in S /\ Sep \in S
    BY <2>3
  <2>6. PICK f : f = <<Cls>> \o a \o <<Sep>>
    OBVIOUS
  <2>7. /\ Len(f) = Len(a) + 2
        /\ <<Cls>> \o SubSeq(a, 1, Min({Len(a), max_ids - 2})) \o <<Sep>>
             = IF Len(f) <= max_ids THEN f ELSE SubSeq(f, 1, max_ids - 1) \o <<Sep>>
    <3>1. Cuts(f, a, Cls, Sep, max_ids)
      BY <2>4, <2>5, <2>6, IdsCut
    <3> QED
      BY <3>1, Zenon DEF Cuts
  <2>8. f = full
    BY <2>4, <2>6, Zenon
  <2> HIDE DEF r, full, all
  <2>9. r.total = Len(a) + 2 /\ r.ids = <<Cls>> \o SubSeq(a, 1, Min({Len(a), max_ids - 2})) \o <<Sep>>
    BY <2>2, <2>4
  <2> QED
    BY <1>1, <2>7, <2>8, <2>9, Zenon
<1> QED
  BY <1>2, Zenon DEF SpellsTokens, Tokenisable, text

\* Whatever text comes is tokenised so (tok_encode, after prep_json_nuls and prep_truncate); two of the
\* ids at least are there for [CLS] and [SEP].
THEOREM TokensSpelt ==
  ASSUME NEW Points, NEW Symbols, VocabGood(Symbols), TextGood(Points, Symbols), MaxChars \in Nat,
         Limits \subseteq Nat \ {0, 1}, input.kind = "text" => input.content \in Seq(ContentItems(Points))
  PROVE  TokensSpell
<1>1. SUFFICES ASSUME input.kind = "text", NEW max_ids \in Limits PROVE SpellsTokens(input.content, max_ids)
  BY Zenon DEF TokensSpell
<1>2. max_ids \in Nat /\ max_ids >= 2
  OBVIOUS
<1> QED
  BY <1>1, <1>2, ContentIsSpelt, Zenon
=============================================================================
