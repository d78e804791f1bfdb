-------------------------- MODULE SequenceLemmas --------------------------
(***************************************************************************)
(* Induction over naturals and sequences for the proofs about what is      *)
(* computed from data.  The induction theorems of the library take the     *)
(* predicate as a parameter; these take a set, which every prover can      *)
(* instantiate.  They rest on the well-foundedness of strict inclusion     *)
(* among finite sets, which the library states without a parameter.        *)
(*                                                                         *)
(* A fold is taken apart the same way: a step of it is a function on       *)
(* pairs, not an operator.                                                 *)
(***************************************************************************)
EXTENDS SequencesExt, FiniteSetTheorems, SequenceTheorems, WellFoundedInduction, TLAPS

-----------------------------------------------------------------------------
(* Induction.                                                              *)

\* A set of naturals has a least member: of the intervals up to its members, the one that contains no
\* other.
LEMMA LeastOf ==
  ASSUME NEW T \in SUBSET Nat, T # {}
  PROVE  \E m \in T : \A n \in T : m <= n
<1> DEFINE R == StrictSubsetOrdering(Nat)
           I(n) == 0..n
           F == {I(n) : n \in T}
<1>1. F \subseteq FiniteSubsetsOf(Nat)
  <2> SUFFICES ASSUME NEW n \in T PROVE I(n) \in FiniteSubsetsOf(Nat)
    OBVIOUS
  <2> QED
    BY FS_Interval DEF FiniteSubsetsOf
<1>2. F # {}
  OBVIOUS
<1>3. PICK x \in F : \A y \in F : ~(<<y, x>> \in R)
  <2> HIDE DEF F, R
  <2> QED
    BY <1>1, <1>2, FS_StrictSubsetOrderingWellFounded, WFMin DEF R
<1>4. PICK m \in T : x = I(m)
  OBVIOUS
<1>5. ASSUME NEW n \in T, n < m PROVE FALSE
  <2>1. I(n) \subseteq I(m) /\ m \in I(m) /\ m \notin I(n)
    BY <1>5
  <2>2. I(n) \in SUBSET Nat /\ I(m) \in SUBSET Nat
    OBVIOUS
  <2> HIDE DEF I
  <2>3. <<I(n), I(m)>> \in R
    BY <2>1, <2>2 DEF StrictSubsetOrdering
  <2> QED
    BY <1>3, <1>4, <2>3
<1> QED
  BY <1>5

\* A set that has 0, and with every number before N the next, has the numbers up to N.
LEMMA InductionTo ==
  ASSUME NEW N \in Nat, NEW T, 0 \in T, \A n \in 1..N : n - 1 \in T => n \in T
  PROVE  0..N \subseteq T
<1> DEFINE U == {n \in 0..N : n \notin T}
<1>1. SUFFICES ASSUME U # {} PROVE FALSE
  OBVIOUS
<1>2. PICK m \in U : \A n \in U : m <= n
  <2> HIDE DEF U
  <2>1. U \in SUBSET Nat
    BY DEF U
  <2> QED
    BY <1>1, <2>1, LeastOf
<1>3. m # 0 /\ m - 1 \in 0..N
  OBVIOUS
<1>4. m - 1 \in T
  BY <1>2, <1>3
<1> QED
  BY <1>3, <1>4

LEMMA InductionOver ==
  ASSUME NEW T, 0 \in T, \A n \in Nat : n \in T => n + 1 \in T
  PROVE  Nat \subseteq T
<1> SUFFICES ASSUME NEW N \in Nat PROVE N \in T
  OBVIOUS
<1>1. \A n \in 1..N : n - 1 \in T => n \in T
  OBVIOUS
<1> QED
  BY <1>1, InductionTo

LEMMA MostOf ==
  ASSUME NEW N \in Nat, NEW T \in SUBSET (0..N), T # {}
  PROVE  /\ Max(T) \in T
         /\ \A n \in T : n <= Max(T)
<1> DEFINE U == {k \in Nat : N - k \in T}
<1>1. PICK u \in U : \A v \in U : u <= v
  <2>1. U \in SUBSET Nat
    OBVIOUS
  <2>2. U # {}
    <3>1. PICK n \in T : TRUE
      OBVIOUS
    <3>2. N - n \in Nat /\ N - (N - n) = n
      OBVIOUS
    <3>3. N - n \in U
      BY <3>2
    <3> QED
      BY <3>3
  <2> HIDE DEF U
  <2> QED
    BY <2>1, <2>2, LeastOf
<1>2. PICK m \in T : u = N - m
  <2>1. N - u \in T /\ u = N - (N - u)
    OBVIOUS
  <2> QED
    BY <2>1
<1>3. \A n \in T : n <= m
  <2> TAKE n \in T
  <2>1. N - n \in U
    <3>1. N - n \in Nat /\ N - (N - n) = n
      OBVIOUS
    <3> QED
      BY <3>1
  <2>2. u <= N - n
    BY <1>1, <2>1
  <2>3. u \in Nat /\ n \in 0..N /\ m \in 0..N
    OBVIOUS
  <2> QED
    BY <1>2, <2>2, <2>3
<1>4. \E x \in T : \A y \in T : x >= y
  BY <1>3
<1> HIDE DEF U
<1> QED
  BY <1>4 DEF Max

LEMMA MaxIs ==
  ASSUME NEW T \in SUBSET Int, NEW m \in T, \A n \in T : n <= m
  PROVE  Max(T) = m
<1>1. \E x \in T : \A y \in T : x >= y
  OBVIOUS
<1>2. Max(T) \in T /\ \A y \in T : Max(T) >= y
  BY <1>1 DEF Max
<1>3. Max(T) \in Int /\ Max(T) >= m /\ Max(T) <= m
  BY <1>2
<1> QED
  BY <1>3

-----------------------------------------------------------------------------
(* Folds of a sequence.                                                    *)

\* FoldLeft is a fold over the places of a sequence, the last one taken first: a function of the sets of
\* places, here with its step as a function of the place and what has been folded.
Folds(f, N, R, b, G) ==
  /\ f \in [SUBSET (1..N) -> R]
  /\ f[{}] = b
  /\ \A s \in SUBSET (1..N) : s # {} =>
       Max(s) \in 1..N /\ s \ {Max(s)} \in SUBSET (1..N) /\ f[s] = G[<<Max(s), f[s \ {Max(s)}]>>]

\* What FoldLeft's recursion asks of a function on the subsets of 1..N, there is one that does.
LEMMA FoldExists ==
  ASSUME NEW N \in Nat, NEW R, NEW b \in R, NEW G \in [(1..N) \X R -> R]
  PROVE  \E f : Folds(f, N, R, b, G)
<1> DEFINE Ok(n, f) == \A s \in SUBSET (1..n) : f[s] = IF s = {} THEN b ELSE G[<<Max(s), f[s \ {Max(s)}]>>]
           Has(n) == \E f \in [SUBSET (1..n) -> R] : Ok(n, f)
           T == {n \in 0..N : Has(n)}
<1>1. 0 \in T
  <2> DEFINE f == [s \in SUBSET (1..0) |-> b]
  <2>1. f \in [SUBSET (1..0) -> R]
    OBVIOUS
  <2>2. Ok(0, f)
    OBVIOUS
  <2> HIDE DEF f, Ok
  <2>3. Has(0)
    BY <2>1, <2>2
  <2> HIDE DEF Has
  <2> QED
    BY <2>3
<1>2. ASSUME NEW n \in 1..N, n - 1 \in T PROVE n \in T
  <2>1. PICK f \in [SUBSET (1..n - 1) -> R] : Ok(n - 1, f)
    BY <1>2
  <2> DEFINE g == [s \in SUBSET (1..n) |-> IF n \in s THEN G[<<n, f[s \ {n}]>>] ELSE f[s]]
  <2>2. \A s \in SUBSET (1..n) : /\ s \ {n} \in SUBSET (1..n - 1)
                                 /\ n \notin s => s \in SUBSET (1..n - 1)
                                 /\ n \in s => Max(s) = n
    <3> TAKE s \in SUBSET (1..n)
    <3>1. s \ {n} \in SUBSET (1..n - 1) /\ (n \notin s => s \in SUBSET (1..n - 1))
      OBVIOUS
    <3>2. n \in s => Max(s) = n
      BY MaxIs
    <3> QED
      BY <3>1, <3>2
  <2>3. g \in [SUBSET (1..n) -> R]
    BY <2>2
  <2>4. ASSUME NEW s \in SUBSET (1..n), n \in s
        PROVE  g[s] = IF s = {} THEN b ELSE G[<<Max(s), g[s \ {Max(s)}]>>]
    <3>1. Max(s) = n /\ n \notin s \ {n} /\ s \ {n} \in SUBSET (1..n - 1) /\ s \ {n} \in SUBSET (1..n)
      BY <2>2, <2>4
    <3>2. g[s \ {n}] = f[s \ {n}] /\ g[s] = G[<<n, f[s \ {n}]>>]
      BY <2>4, <3>1
    <3> QED
      BY <2>4, <3>1, <3>2
  <2>5. ASSUME NEW s \in SUBSET (1..n), n \notin s
        PROVE  g[s] = IF s = {} THEN b ELSE G[<<Max(s), g[s \ {Max(s)}]>>]
    <3>1. s \in SUBSET (1..n - 1) /\ g[s] = f[s]
      BY <2>2, <2>5
    <3>2. g[s \ {Max(s)}] = f[s \ {Max(s)}]
      BY <2>2, <2>5
    <3> HIDE DEF g
    <3> QED
      BY <2>1, <3>1, <3>2
  <2>6. Ok(n, g)
    BY <2>4, <2>5
  <2> HIDE DEF g, Ok
  <2>7. Has(n)
    BY <2>3, <2>6
  <2> HIDE DEF Has
  <2> QED
    BY <2>7
<1>3. N \in T
  <2> HIDE DEF T
  <2> QED
    BY <1>1, <1>2, InductionTo
<1>4. PICK f \in [SUBSET (1..N) -> R] : Ok(N, f)
  BY <1>3
<1>5. \A s \in SUBSET (1..N) : s # {} => Max(s) \in 1..N /\ s \ {Max(s)} \in SUBSET (1..N)
  <2> SUFFICES ASSUME NEW s \in SUBSET (1..N), s # {} PROVE Max(s) \in 1..N /\ s \ {Max(s)} \in SUBSET (1..N)
    OBVIOUS
  <2>1. s \in SUBSET (0..N)
    OBVIOUS
  <2>2. Max(s) \in s
    BY <2>1, MostOf
  <2> QED
    BY <2>2
<1>6. Folds(f, N, R, b, G)
  <2> HIDE DEF T
  <2>1. {} \in SUBSET (1..N)
    OBVIOUS
  <2> QED
    BY <1>4, <1>5, <2>1 DEF Folds
<1> QED
  BY <1>6

\* Places in order.
LEMMA FoldSteps ==
  ASSUME NEW N \in Nat, NEW n \in 1..N
  PROVE  1..n # {} /\ Max(1..n) = n /\ (1..n) \ {n} = 1..(n - 1) /\ 1..n \in SUBSET (1..N)
<1>1. 1..n \in SUBSET Int /\ n \in 1..n /\ \A k \in 1..n : k <= n
  OBVIOUS
<1>2. Max(1..n) = n
  BY <1>1, MaxIs
<1> QED
  BY <1>2

\* A fold that takes such steps for as long as what has been folded stays in R, and its run through the
\* sequence, place by place.
Unfolds(it, N, R, b, G) ==
  /\ it[{}] = b
  /\ \A s \in SUBSET (1..N) : s # {} /\ it[s \ {Max(s)}] \in R => it[s] = G[<<Max(s), it[s \ {Max(s)}]>>]
RunsTo(h, last, N, R, b, G) ==
  h \in [0..N -> R] /\ h[0] = b /\ h[N] = last /\ \A n \in 1..N : h[n] = G[<<n, h[n - 1]>>]

LEMMA FoldRuns ==
  ASSUME NEW N \in Nat, NEW R, NEW b \in R, NEW G \in [(1..N) \X R -> R], NEW it, Unfolds(it, N, R, b, G)
  PROVE  \E h : RunsTo(h, it[1..N], N, R, b, G)
<1> DEFINE T == {n \in 0..N : it[1..n] \in R}
           h == [n \in 0..N |-> it[1..n]]
<1>1. 1..0 = {} /\ it[{}] = b
  BY DEF Unfolds
<1>2. ASSUME NEW n \in 1..N, n - 1 \in T PROVE it[1..n] = G[<<n, it[1..(n - 1)]>>] /\ n \in T
  <2>1. 1..n # {} /\ Max(1..n) = n /\ (1..n) \ {n} = 1..(n - 1) /\ 1..n \in SUBSET (1..N)
    BY FoldSteps
  <2>2. it[1..(n - 1)] \in R
    BY <1>2
  <2>3. it[1..n] = G[<<n, it[1..(n - 1)]>>]
    <3> DEFINE s == 1..n
    <3>1. s \in SUBSET (1..N) /\ s # {} /\ Max(s) = n /\ s \ {Max(s)} = 1..(n - 1)
      BY <2>1
    <3> HIDE DEF s
    <3> QED
      BY <2>2, <3>1 DEF s, Unfolds
  <2>4. it[1..n] \in R
    BY <2>2, <2>3
  <2> QED
    BY <2>3, <2>4
<1>3. 0..N \subseteq T
  <2>1. 0 \in T
    BY <1>1
  <2> HIDE DEF T
  <2> QED
    BY <1>2, <2>1, InductionTo
<1>4. h \in [0..N -> R]
  BY <1>3
<1>5. h[0] = b /\ h[N] = it[1..N]
  BY <1>1
<1>6. ASSUME NEW n \in 1..N PROVE h[n] = G[<<n, h[n - 1]>>]
  <2>1. n \in 0..N /\ n - 1 \in 0..N
    OBVIOUS
  <2>2. it[1..n] = G[<<n, it[1..(n - 1)]>>]
    BY <1>2, <1>3, <2>1
  <2> QED
    BY <2>1, <2>2
<1> HIDE DEF h
<1> QED
  BY <1>4, <1>5, <1>6 DEF RunsTo
=============================================================================
