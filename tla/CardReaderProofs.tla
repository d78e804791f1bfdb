-------------------------- MODULE CardReaderProofs --------------------------
(***************************************************************************)
(* Proofs about CardReader, for any number of layers, any sizes of         *)
(* matrices, and any number of slots that SlotAssumption allows.           *)
(*                                                                         *)
(* Requests are numbered as rd hands out slots; those in flight are the    *)
(* last Flying numbers, and the tasks hold them in order: cp, its queue,   *)
(* sd, the queue of slots (NumberInv).  The pass keeps no more of them     *)
(* going than the reads of two units (AheadInv), which fit the slots       *)
(* (IssueFits), and it never leaves before the last one (NothingFlies).    *)
(*                                                                         *)
(* What has landed is where the pass looks for it (LandInv), since no two  *)
(* reads in flight share a buffer.  Until a mismatch is counted, what has  *)
(* been checked is intact, and data that is not will show in a CRC that    *)
(* is still to come (PassSound).                                           *)
(***************************************************************************)
EXTENDS CardReader, FiniteSetTheorems, SequenceTheorems, TLAPS

-----------------------------------------------------------------------------
(* Slots.                                                                  *)

Slot(n) == n % NREQ

LEMMA Remainder ==
    ASSUME NEW a \in Int, NEW m \in Nat \ {0}
    PROVE  a = m * (a \div m) + (a % m)
BY SMTT(30)

\* Fewer than NREQ numbers in a row have slots of their own.
LEMMA SlotsDiffer ==
    ASSUME NEW a \in Int, NEW b \in Int, a < b, b < a + NREQ
    PROVE  Slot(a) # Slot(b)
<1> DEFINE c == a \div NREQ
           d == b \div NREQ
<1>1. NREQ \in Nat \ {0}
  BY CardAssumption
<1>2. a = NREQ * c + (a % NREQ) /\ b = NREQ * d + (b % NREQ)
  BY <1>1, Remainder
<1>3. c \in Int /\ d \in Int /\ a % NREQ \in Int /\ b % NREQ \in Int
  BY <1>1
<1> HIDE DEF c, d
<1>4. SUFFICES ASSUME a % NREQ = b % NREQ PROVE FALSE
  BY DEF Slot
<1>5. NREQ * d - NREQ * c = b - a
  BY <1>1, <1>2, <1>3, <1>4
<1>6. NREQ * (d - c) = b - a
  BY <1>1, <1>3, <1>5
<1>7. CASE d - c <= 0
  BY <1>1, <1>3, <1>6, <1>7
<1>8. CASE d - c >= 1
  <2>1. NREQ * (d - c) >= NREQ
    BY <1>1, <1>3, <1>8
  <2>2. QED
    BY <1>1, <1>6, <2>1
<1>9. QED
  BY <1>3, <1>7, <1>8

LEMMA SlotInRange ==
    ASSUME NEW n \in Int
    PROVE  Slot(n) \in Slots
BY CardAssumption DEF Slot, Slots

-----------------------------------------------------------------------------
(* The plan.                                                               *)

Rank(t) == Cardinality({s \in UnitSet : Before(s, t)})

LEMMA InUnitSet ==
    /\ \A li \in 0..(Layers - 1) : \A mi \in Matrices : \A j \in 0..(Blocks[mi] - 1) : <<li, mi, j>> \in UnitSet
    /\ \A t \in UnitSet : /\ t = <<t[1], t[2], t[3]>>
                          /\ t[1] \in 0..(Layers - 1) /\ t[2] \in Matrices /\ t[3] \in 0..(Blocks[t[2]] - 1)
<1> DEFINE L == 0..(Layers - 1)
           B(mi) == 0..(Blocks[mi] - 1)
           Of(li, mi) == {<<li, mi, j>> : j \in B(mi)}
<1>1. UnitSet = UNION {Of(li, mi) : li \in L, mi \in Matrices}
  BY DEF UnitSet
<1>2. ASSUME NEW li \in L, NEW mi \in Matrices, NEW j \in B(mi)
      PROVE  <<li, mi, j>> \in UnitSet
  <2>1. <<li, mi, j>> \in Of(li, mi)
    OBVIOUS
  <2> HIDE DEF Of, L, B
  <2>2. QED
    BY <1>1, <2>1
<1>3. ASSUME NEW t \in UnitSet
      PROVE  t = <<t[1], t[2], t[3]>> /\ t[1] \in L /\ t[2] \in Matrices /\ t[3] \in B(t[2])
  <2>1. PICK li \in L, mi \in Matrices : t \in Of(li, mi)
    <3> HIDE DEF Of, L, B
    <3>1. QED
      BY <1>1
  <2>2. PICK j \in B(mi) : t = <<li, mi, j>>
    BY <2>1
  <2> HIDE DEF Of, L, B
  <2>3. QED
    BY <2>2
<1>4. QED
  BY <1>2, <1>3

LEMMA UnitsAreInts ==
    \A t \in UnitSet : t[1] \in Int /\ t[2] \in Int /\ t[3] \in Int
BY InUnitSet, CardAssumption DEF Matrices

LEMMA BeforeOrders ==
    /\ \A s \in UnitSet : ~Before(s, s)
    /\ \A s, t, u \in UnitSet : Before(s, t) /\ Before(t, u) => Before(s, u)
    /\ \A s, t \in UnitSet : s = t \/ Before(s, t) \/ Before(t, s)
BY InUnitSet, UnitsAreInts DEF Before

LEMMA UnitSetFinite ==
    IsFiniteSet(UnitSet) /\ <<0, 0, 0>> \in UnitSet
<1> DEFINE L == 0..(Layers - 1)
           B(mi) == 0..(Blocks[mi] - 1)
           Of(li, mi) == {<<li, mi, j>> : j \in B(mi)}
           F == [c \in L \X Matrices |-> Of(c[1], c[2])]
           S == {Of(li, mi) : li \in L, mi \in Matrices}
<1>1. ASSUME NEW li \in L, NEW mi \in Matrices
      PROVE  IsFiniteSet(Of(li, mi))
  <2> DEFINE G == [j \in B(mi) |-> <<li, mi, j>>]
  <2>1. G \in Surjection(B(mi), Of(li, mi))
    BY DEF Surjection
  <2>2. IsFiniteSet(B(mi))
    BY FS_Interval, CardAssumption
  <2> HIDE DEF G, B, Of
  <2>3. QED
    BY <2>1, <2>2, FS_Surjection
<1>2. IsFiniteSet(S)
  <2>1. F \in Surjection(L \X Matrices, S)
    <3> HIDE DEF Of, L
    <3>1. F \in [L \X Matrices -> S]
      OBVIOUS
    <3>2. ASSUME NEW s \in S
          PROVE  \E c \in L \X Matrices : F[c] = s
      <4>1. PICK li \in L, mi \in Matrices : s = Of(li, mi)
        OBVIOUS
      <4>2. F[<<li, mi>>] = s
        BY <4>1
      <4>3. QED
        BY <4>2
    <3>3. QED
      BY <3>1, <3>2 DEF Surjection
  <2>2. IsFiniteSet(L \X Matrices)
    <3>1. Layers - 1 \in Int
      BY CardAssumption
    <3>2. IsFiniteSet(L)
      BY <3>1, FS_Interval
    <3>3. IsFiniteSet(Matrices)
      <4>1. 0 \in Int /\ 5 \in Int
        OBVIOUS
      <4>2. QED
        BY <4>1, FS_Interval, Zenon DEF Matrices
    <3> HIDE DEF L
    <3>4. QED
      BY <3>2, <3>3, FS_Product
  <2> HIDE DEF F, S
  <2>3. QED
    BY <2>1, <2>2, FS_Surjection
<1>3. IsFiniteSet(UnitSet)
  <2>1. UnitSet = UNION S
    BY DEF UnitSet
  <2>2. \A s \in S : IsFiniteSet(s)
    <3> HIDE DEF Of, L
    <3>1. QED
      BY <1>1
  <2> HIDE DEF S
  <2>3. QED
    BY <1>2, <2>1, <2>2, FS_UNION
<1>4. QED
  BY <1>3, InUnitSet, CardAssumption DEF Matrices

LEMMA RankOrders ==
    /\ \A t \in UnitSet : Rank(t) \in 0..(Cardinality(UnitSet) - 1)
    /\ \A s, t \in UnitSet : Before(s, t) => Rank(s) < Rank(t)
    /\ \A s, t \in UnitSet : Rank(s) = Rank(t) => s = t
<1> DEFINE P(t) == {s \in UnitSet : Before(s, t)}
           Q(t) == P(t) \cup {t}
<1>1. ASSUME NEW t \in UnitSet
      PROVE  /\ Rank(t) = Cardinality(P(t)) /\ IsFiniteSet(P(t)) /\ Rank(t) \in Nat
             /\ Q(t) \in SUBSET UnitSet /\ Cardinality(Q(t)) = Rank(t) + 1
  <2>1. P(t) \in SUBSET UnitSet /\ t \notin P(t) /\ Q(t) \in SUBSET UnitSet
    BY BeforeOrders
  <2>2. Rank(t) = Cardinality(P(t))
    BY DEF Rank
  <2>3. Q(t) = P(t) \cup {t}
    OBVIOUS
  <2> HIDE DEF P, Q
  <2>4. IsFiniteSet(P(t)) /\ Cardinality(P(t)) \in Nat
    BY <2>1, UnitSetFinite, FS_Subset, FS_CardinalityType
  <2>5. Cardinality(P(t) \cup {t}) = Cardinality(P(t)) + 1
    BY <2>1, <2>4, FS_AddElement
  <2>6. QED
    BY <2>1, <2>2, <2>3, <2>4, <2>5
<1>2. ASSUME NEW s \in UnitSet, NEW t \in UnitSet, Before(s, t)
      PROVE  Q(s) \in SUBSET P(t)
  BY <1>2, BeforeOrders
<1> HIDE DEF P, Q
<1>3. ASSUME NEW t \in UnitSet
      PROVE  Rank(t) \in 0..(Cardinality(UnitSet) - 1)
  <2>1. Cardinality(Q(t)) <= Cardinality(UnitSet) /\ Cardinality(UnitSet) \in Nat
    BY <1>1, UnitSetFinite, FS_Subset, FS_CardinalityType
  <2>2. QED
    BY <1>1, <2>1
<1>4. ASSUME NEW s \in UnitSet, NEW t \in UnitSet, Before(s, t)
      PROVE  Rank(s) < Rank(t)
  <2>1. Cardinality(Q(s)) <= Cardinality(P(t))
    BY <1>1, <1>2, <1>4, FS_Subset
  <2>2. QED
    BY <1>1, <2>1
<1>5. ASSUME NEW s \in UnitSet, NEW t \in UnitSet, Rank(s) = Rank(t)
      PROVE  s = t
  <2>1. ~Before(s, t) /\ ~Before(t, s)
    BY <1>1, <1>4, <1>5
  <2>2. QED
    BY <2>1, BeforeOrders
<1>6. QED
  BY <1>3, <1>4, <1>5

LEMMA RankReaches ==
    ASSUME NEW n \in 0..(Cardinality(UnitSet) - 1)
    PROVE  \E t \in UnitSet : Rank(t) = n
<1> DEFINE C == Cardinality(UnitSet)
           R == [t \in UnitSet |-> Rank(t)]
<1>1. C \in Nat /\ IsFiniteSet(0..(C - 1)) /\ Cardinality(0..(C - 1)) = C
  <2>1. C \in Nat
    BY UnitSetFinite, FS_CardinalityType
  <2> HIDE DEF C
  <2>2. QED
    BY <2>1, FS_Interval
<1>2. R \in Injection(UnitSet, 0..(C - 1))
  <2> HIDE DEF C
  <2>1. R \in [UnitSet -> 0..(C - 1)]
    BY RankOrders DEF C
  <2>2. \A s, t \in UnitSet : R[s] = R[t] => s = t
    BY RankOrders
  <2> HIDE DEF R
  <2>3. QED
    BY <2>1, <2>2 DEF Injection, IsInjective
<1>3. R \in Surjection(UnitSet, 0..(C - 1))
  <2> HIDE DEF R
  <2>1. QED
    BY <1>1, <1>2, FS_Injection
<1>4. PICK t \in UnitSet : R[t] = n
  BY <1>3 DEF Surjection
<1>5. QED
  BY <1>4

\* Unit u of the plan is the one with u units before it.
LEMMA PlanRanks ==
    /\ NUnits \in Nat \ {0} /\ NUnits = Cardinality(UnitSet)
    /\ \A u \in 0..(NUnits - 1) : plan[u + 1] \in UnitSet /\ Rank(plan[u + 1]) = u
<1> DEFINE C == Cardinality(UnitSet)
<1>1. C \in Nat \ {0}
  BY UnitSetFinite, FS_CardinalityType, FS_EmptySet
<1>2. ASSUME NEW n \in 1..C
      PROVE  plan[n] \in UnitSet /\ Rank(plan[n]) = n - 1
  <2>1. n - 1 \in 0..(C - 1)
    BY <1>1
  <2>2. plan[n] = CHOOSE t \in UnitSet : Rank(t) = n - 1
    BY DEF plan, Rank
  <2>3. QED
    BY <2>1, <2>2, RankReaches
<1>3. plan \in [1..C -> UnitSet]
  <2> DEFINE t(n) == CHOOSE t \in UnitSet : Cardinality({s \in UnitSet : Before(s, t)}) = n - 1
  <2>1. plan = [n \in 1..C |-> t(n)]
    BY DEF plan
  <2> HIDE DEF C, t
  <2>2. QED
    BY <1>2, <2>1
<1>4. Len(plan) = C
  <2> HIDE DEF C
  <2>1. QED
    BY <1>1, <1>3
<1>5. QED
  BY <1>1, <1>2, <1>4 DEF NUnits

\* The unit after <<li, mi, j>>, if there is one.
After(li, mi, j) ==
    IF j < Blocks[mi] - 1 THEN <<li, mi, j + 1>>
    ELSE IF mi < 5 THEN <<li, mi + 1, 0>> ELSE <<li + 1, 0, 0>>

LEMMA AfterIsNext ==
    ASSUME NEW s \in UnitSet
    PROVE  LET a == After(s[1], s[2], s[3])
           IN  /\ \A t \in UnitSet : Before(s, t) => a \in UnitSet /\ (t = a \/ Before(a, t))
               /\ a \in UnitSet => Before(s, a)
<1> DEFINE a == After(s[1], s[2], s[3])
<1>1. s[1] \in 0..(Layers - 1) /\ s[2] \in 0..5 /\ s[3] \in 0..(Blocks[s[2]] - 1) /\ Blocks[s[2]] \in Nat \ {0}
  BY InUnitSet, CardAssumption DEF Matrices
<1>2. a = <<a[1], a[2], a[3]>> /\ Before(s, a)
  BY <1>1, CardAssumption DEF After, Before
<1>3. ASSUME NEW t \in UnitSet, Before(s, t)
      PROVE  a \in UnitSet /\ (t = a \/ Before(a, t))
  <2>1. /\ t = <<t[1], t[2], t[3]>> /\ t[1] \in 0..(Layers - 1) /\ t[2] \in 0..5 /\ t[3] \in 0..(Blocks[t[2]] - 1)
        /\ Blocks[t[2]] \in Nat \ {0}
    BY InUnitSet, CardAssumption DEF Matrices
  <2>2. CASE s[3] < Blocks[s[2]] - 1
    <3>1. a = <<s[1], s[2], s[3] + 1>>
      BY <2>2 DEF After
    <3>2. a \in UnitSet
      BY <1>1, <2>2, <3>1, InUnitSet, CardAssumption DEF Matrices
    <3>3. QED
      BY <1>1, <1>3, <2>1, <3>1, <3>2, CardAssumption DEF Before
  <2>3. CASE s[3] = Blocks[s[2]] - 1 /\ s[2] < 5
    <3>1. a = <<s[1], s[2] + 1, 0>>
      BY <1>1, <2>3 DEF After
    <3>2. a \in UnitSet
      BY <1>1, <2>3, <3>1, InUnitSet, CardAssumption DEF Matrices
    <3>3. QED
      BY <1>1, <1>3, <2>1, <2>3, <3>1, <3>2, CardAssumption DEF Before
  <2>4. CASE s[3] = Blocks[s[2]] - 1 /\ s[2] = 5
    <3>1. a = <<s[1] + 1, 0, 0>>
      BY <1>1, <2>4 DEF After
    <3>2. s[1] < t[1]
      BY <1>1, <1>3, <2>1, <2>4, CardAssumption DEF Before
    <3>3. a \in UnitSet
      BY <1>1, <2>1, <3>1, <3>2, InUnitSet, CardAssumption DEF Matrices
    <3>4. QED
      BY <1>1, <2>1, <3>1, <3>2, <3>3, CardAssumption DEF Before
  <2>5. QED
    BY <1>1, <2>2, <2>3, <2>4, CardAssumption
<1>4. QED
  BY <1>2, <1>3

LEMMA PlanStarts == plan[1] = <<0, 0, 0>>
<1>1. plan[1] \in UnitSet /\ Rank(plan[1]) = 0
  BY PlanRanks
<1>2. <<0, 0, 0>> \in UnitSet /\ Rank(<<0, 0, 0>>) \in Nat
  BY UnitSetFinite, RankOrders, PlanRanks
<1>3. ~Before(plan[1], <<0, 0, 0>>)
  BY <1>1, InUnitSet, UnitsAreInts, CardAssumption DEF Before, Matrices
<1>4. ~Before(<<0, 0, 0>>, plan[1])
  BY <1>1, <1>2, RankOrders
<1>5. QED
  BY <1>1, <1>2, <1>3, <1>4, BeforeOrders

LEMMA PlanGoesOn ==
    ASSUME NEW u \in Nat, u < NUnits
    PROVE  LET a == After(Layer(u), Matrix(u), Block(u))
           IN  IF u + 1 < NUnits THEN plan[u + 2] = a ELSE a \notin UnitSet
<1> DEFINE s == plan[u + 1]
           a == After(s[1], s[2], s[3])
<1>1. s \in UnitSet /\ Rank(s) = u /\ NUnits \in Nat
  BY PlanRanks
<1>2. CASE u + 1 < NUnits
  <2> DEFINE t == plan[u + 2]
  <2>1. t \in UnitSet /\ Rank(t) = u + 1
    <3>1. u + 1 \in 0..(NUnits - 1) /\ (u + 1) + 1 = u + 2
      BY <1>1, <1>2
    <3>2. QED
      BY <3>1, PlanRanks
  <2> HIDE DEF t, s
  <2>2. Before(s, t)
    BY <1>1, <2>1, BeforeOrders, RankOrders
  <2>3. a \in UnitSet /\ (t = a \/ Before(a, t)) /\ Before(s, a)
    BY <1>1, <2>1, <2>2, AfterIsNext
  <2>4. Rank(a) \in Int /\ Rank(s) < Rank(a)
    BY <1>1, <2>3, RankOrders
  <2>5. ~Before(a, t)
    BY <1>1, <2>1, <2>3, <2>4, RankOrders
  <2>6. QED
    BY <1>2, <2>3, <2>5 DEF t, s, Layer, Matrix, Block
<1>3. CASE u + 1 >= NUnits
  <2> HIDE DEF s
  <2>1. ASSUME a \in UnitSet
        PROVE  FALSE
    <3>1. Before(s, a)
      BY <1>1, <2>1, AfterIsNext
    <3>2. Rank(a) \in 0..(NUnits - 1) /\ u < Rank(a)
      BY <1>1, <2>1, <3>1, RankOrders, PlanRanks
    <3>3. QED
      BY <1>1, <1>3, <3>2
  <2>2. QED
    BY <1>1, <1>3, <2>1 DEF s, Layer, Matrix, Block
<1>4. QED
  BY <1>1, <1>2, <1>3

-----------------------------------------------------------------------------
(* The reads of a unit.                                                    *)

N(u) == IF u < NUnits THEN Len(issue(u)) ELSE 0
Opens(u) == Matrix(u) = 0 /\ Block(u) = 0

Sections == {<<"norm", li, i>> : li \in Nat, i \in 1..4}
              \cup {<<k, li, mi>> : k \in {"ws", "b", "wo"}, li \in Nat, mi \in Matrices}
              \cup {<<"wq", li, mi, j>> : li \in Nat, mi \in Matrices, j \in Nat}
Reads == [sec : Sections, dst : Buffers, chunks : Nat \ {0}, acc : Accs, reset : BOOLEAN, verify : BOOLEAN]
Queues == [u : 0..(NUnits - 1), r : Reads, kept : BOOLEAN, first : BOOLEAN]

LEMMA UnitIs ==
    ASSUME NEW u \in 0..(NUnits - 1)
    PROVE  /\ u \in Nat /\ u < NUnits /\ NUnits \in Nat \ {0}
           /\ Layer(u) \in Nat /\ Matrix(u) \in Matrices /\ Block(u) \in Nat
           /\ Blocks[Matrix(u)] \in Nat \ {0} /\ Block(u) <= Blocks[Matrix(u)] - 1
           /\ Parity(u) \in Half /\ MatrixParity(u) \in Half /\ Layer(u) % 2 \in Half
<1>1. /\ u \in Nat /\ u < NUnits /\ NUnits \in Nat \ {0}
      /\ Layer(u) \in Nat /\ Matrix(u) \in Matrices /\ Block(u) \in Nat
      /\ Blocks[Matrix(u)] \in Nat \ {0} /\ Block(u) <= Blocks[Matrix(u)] - 1
  BY PlanRanks, InUnitSet, CardAssumption DEF Layer, Matrix, Block
<1>2. Layer(u) * 6 + Matrix(u) \in Nat
  BY <1>1 DEF Matrices
<1>3. \A n \in Nat : n % 2 \in Half
  BY DEF Half
<1>4. QED
  BY <1>1, <1>2, <1>3 DEF Parity, MatrixParity

LEMMA ReadIs ==
    ASSUME NEW sec \in Sections, NEW dst \in Buffers
    PROVE  Read(sec, dst) \in Reads
<1>1. <<"own">> \in Accs
  BY DEF Accs
<1>2. 1 \in Nat \ {0}
  OBVIOUS
<1> HIDE DEF Accs, Sections, Buffers
<1>3. QED
  BY <1>1, <1>2 DEF Read, Reads

LEMMA ReadsAre ==
    ASSUME NEW u \in 0..(NUnits - 1)
    PROVE  /\ \A i \in 1..4 : Norms(u)[i] \in Reads
           /\ \A k \in {"ws", "b", "wo"} : Small(u, k) \in Reads
           /\ Weights(u) \in Reads
<1>1. \A h \in Half, i \in 1..4 : <<"nrm", h, i>> \in Buffers
  BY DEF Buffers
<1>2. \A h \in Half, k \in {"stage", "ws", "b", "wo"} : <<k, h>> \in Buffers
  BY DEF Buffers
<1>3. <<"own">> \in Accs /\ \A h \in Half : <<"wq", h>> \in Accs
  BY DEF Accs
<1>4. \A i \in 1..4 : <<"norm", Layer(u), i>> \in Sections
  BY UnitIs DEF Sections
<1>5. \A k \in {"ws", "b", "wo"} : <<k, Layer(u), Matrix(u)>> \in Sections
  BY UnitIs DEF Sections
<1>6. <<"wq", Layer(u), Matrix(u), Block(u)>> \in Sections
  BY UnitIs DEF Sections
<1>7. ASSUME NEW i \in 1..4
      PROVE  Norms(u)[i] \in Reads
  <2>1. Norms(u)[i] = Read(<<"norm", Layer(u), i>>, <<"nrm", Layer(u) % 2, i>>)
    BY DEF Norms
  <2>2. QED
    BY <1>1, <1>4, <2>1, UnitIs, ReadIs
<1>8. ASSUME NEW k \in {"ws", "b", "wo"}
      PROVE  Small(u, k) \in Reads
  <2>1. <<k, MatrixParity(u)>> \in Buffers
    BY <1>2, UnitIs
  <2>2. QED
    BY <1>5, <2>1, ReadIs DEF Small
<1>9. Weights(u) \in Reads
  <2>1. <<"stage", Parity(u)>> \in Buffers /\ <<"wq", MatrixParity(u)>> \in Accs
    BY <1>2, <1>3, UnitIs
  <2>2. BlockChunks \in Nat \ {0}
    BY CardAssumption
  <2>3. (Block(u) = 0) \in BOOLEAN /\ LastBlock(u) \in BOOLEAN
    BY DEF LastBlock
  <2> DEFINE b0 == Block(u) = 0
             b1 == LastBlock(u)
  <2>4. Weights(u) = [sec |-> <<"wq", Layer(u), Matrix(u), Block(u)>>,
                      dst |-> <<"stage", Parity(u)>>, chunks |-> BlockChunks,
                      acc |-> <<"wq", MatrixParity(u)>>, reset |-> b0, verify |-> b1]
    BY DEF Weights
  <2> HIDE DEF b0, b1
  <2>5. b0 \in BOOLEAN /\ b1 \in BOOLEAN
    BY DEF b0, b1, LastBlock
  <2>6. QED
    BY <1>6, <2>1, <2>2, <2>4, <2>5 DEF Reads
<1>10. QED
  BY <1>7, <1>8, <1>9

LEMMA Joined ==
    ASSUME NEW S, NEW s \in Seq(S), NEW t \in Seq(S)
    PROVE  /\ s \o t \in Seq(S) /\ Len(s \o t) = Len(s) + Len(t)
           /\ \A i \in 1..Len(s \o t) : (s \o t)[i] = IF i <= Len(s) THEN s[i] ELSE t[i - Len(s)]
BY ConcatProperties

QNorm(u, i) == Queue(u, Norms(u)[i], TRUE, i = 1)
QWs(u) == Queue(u, Small(u, "ws"), FALSE, Matrix(u) # 0)
QB(u) == Queue(u, Small(u, "b"), FALSE, FALSE)
QWo(u) == Queue(u, Small(u, "wo"), TRUE, FALSE)
QWeights(u) == Queue(u, Weights(u), TRUE, Block(u) # 0)

LEMMA QueuesAre ==
    ASSUME NEW u \in 0..(NUnits - 1)
    PROVE  /\ \A i \in 1..4 : QNorm(u, i) \in Queues
           /\ QWs(u) \in Queues /\ QB(u) \in Queues /\ QWo(u) \in Queues /\ QWeights(u) \in Queues
<1>1. ASSUME NEW r \in Reads, NEW kept \in BOOLEAN, NEW first \in BOOLEAN
      PROVE  Queue(u, r, kept, first) \in Queues
  BY <1>1 DEF Queue, Queues
<1>2. ASSUME NEW i \in 1..4
      PROVE  QNorm(u, i) \in Queues
  BY <1>1, ReadsAre DEF QNorm
<1>3. QWs(u) \in Queues
  BY <1>1, ReadsAre DEF QWs
<1>4. QB(u) \in Queues /\ QWo(u) \in Queues
  BY <1>1, ReadsAre DEF QB, QWo
<1>5. QWeights(u) \in Queues
  BY <1>1, ReadsAre DEF QWeights
<1>6. QED
  BY <1>2, <1>3, <1>4, <1>5

\* The reads of a unit: its block of weights, the small sections of a matrix it begins, the norms of
\* a layer it begins.
LEMMA IssueParts ==
    ASSUME NEW u \in 0..(NUnits - 1)
    PROVE  /\ issue(u) \in Seq(Queues)
           /\ Len(issue(u)) = IF Opens(u) THEN 8 ELSE IF Block(u) = 0 THEN 4 ELSE 1
           /\ issue(u)[Len(issue(u))] = QWeights(u)
           /\ Block(u) = 0 =>
                LET n == Len(issue(u)) IN
                issue(u)[n - 3] = QWs(u) /\ issue(u)[n - 2] = QB(u) /\ issue(u)[n - 1] = QWo(u)
           /\ Opens(u) => \A i \in 1..4 : issue(u)[i] = QNorm(u, i)
<1> DEFINE A == [i \in 1..4 |-> QNorm(u, i)]
           B == <<QWs(u), QB(u), QWo(u)>>
           W == <<QWeights(u)>>
<1>1. issue(u) = (IF Matrix(u) = 0 /\ Block(u) = 0 THEN A ELSE <<>>)
                   \o (IF Block(u) = 0 THEN B ELSE <<>>) \o W
  BY DEF issue, QNorm, QWs, QB, QWo, QWeights
<1>2. /\ A \in Seq(Queues) /\ Len(A) = 4 /\ \A i \in 1..4 : A[i] = QNorm(u, i)
      /\ B \in Seq(Queues) /\ Len(B) = 3 /\ B[1] = QWs(u) /\ B[2] = QB(u) /\ B[3] = QWo(u)
      /\ W \in Seq(Queues) /\ Len(W) = 1 /\ W[1] = QWeights(u)
  BY QueuesAre
<1> HIDE DEF A, B, W
<1>3. CASE Opens(u)
  <2>1. issue(u) = (A \o B) \o W /\ Block(u) = 0
    BY <1>1, <1>3 DEF Opens
  <2> DEFINE C == A \o B
             D == C \o W
  <2>2. /\ C \in Seq(Queues) /\ Len(C) = 7
        /\ \A i \in 1..4 : C[i] = A[i]
        /\ C[5] = B[1] /\ C[6] = B[2] /\ C[7] = B[3]
    <3>1. /\ C \in Seq(Queues) /\ Len(C) = Len(A) + Len(B)
          /\ \A i \in 1..Len(C) : C[i] = IF i <= Len(A) THEN A[i] ELSE B[i - Len(A)]
      BY <1>2, Joined
    <3> HIDE DEF C
    <3>2. QED
      BY <1>2, <3>1
  <2> HIDE DEF C
  <2>3. /\ D \in Seq(Queues) /\ Len(D) = 8
        /\ \A i \in 1..7 : D[i] = C[i]
        /\ D[8] = W[1]
    <3>1. /\ D \in Seq(Queues) /\ Len(D) = Len(C) + Len(W)
          /\ \A i \in 1..Len(D) : D[i] = IF i <= Len(C) THEN C[i] ELSE W[i - Len(C)]
      BY <1>2, <2>2, Joined
    <3> HIDE DEF D
    <3>2. QED
      BY <1>2, <2>2, <3>1
  <2>4. issue(u) = D
    BY <2>1 DEF C
  <2> HIDE DEF D
  <2>5. QED
    <3>1. Len(issue(u)) = 8 /\ issue(u) \in Seq(Queues)
      BY <2>3, <2>4
    <3>2. issue(u)[8] = QWeights(u) /\ issue(u)[5] = QWs(u) /\ issue(u)[6] = QB(u) /\ issue(u)[7] = QWo(u)
      BY <1>2, <2>2, <2>3, <2>4
    <3>3. \A i \in 1..4 : issue(u)[i] = QNorm(u, i)
      BY <1>2, <2>2, <2>3, <2>4
    <3>4. QED
      BY <1>3, <3>1, <3>2, <3>3
<1>4. CASE ~Opens(u) /\ Block(u) = 0
  <2> DEFINE D == B \o W
  <2>1. issue(u) = D
    BY <1>1, <1>2, <1>4 DEF Opens
  <2>2. /\ D \in Seq(Queues) /\ Len(D) = Len(B) + Len(W)
        /\ \A i \in 1..Len(D) : D[i] = IF i <= Len(B) THEN B[i] ELSE W[i - Len(B)]
    BY <1>2, Joined
  <2> HIDE DEF D
  <2>3. QED
    BY <1>2, <1>4, <2>1, <2>2
<1>5. CASE Block(u) # 0
  <2>1. issue(u) = W
    BY <1>1, <1>2, <1>5
  <2>2. QED
    BY <1>2, <1>5, <2>1 DEF Opens
<1>6. QED
  BY <1>3, <1>4, <1>5

\* What is issued at once fits the slots.
LEMMA IssueFits ==
    ASSUME NEW u \in 0..(NUnits - 1)
    PROVE  /\ IssueIfAny(u) = issue(u) /\ IssueIfAny(u + 1) \in Seq(Queues)
           /\ N(u) \in 1..8 /\ N(u + 1) \in 0..8 /\ N(u + 1) = Len(IssueIfAny(u + 1))
           /\ N(u) + N(u + 1) <= NREQ
           /\ N(u + 1) = 0 <=> u + 1 >= NUnits
<1>1. NUnits \in Nat \ {0} /\ u + 1 \in Nat /\ (u + 1 < NUnits => u + 1 \in 0..(NUnits - 1))
  BY UnitIs
<1>2. N(u) = IF Opens(u) THEN 8 ELSE IF Block(u) = 0 THEN 4 ELSE 1
  BY IssueParts, UnitIs DEF N
<1>3. CASE u + 1 < NUnits
  <2>1. N(u + 1) = IF Opens(u + 1) THEN 8 ELSE IF Block(u + 1) = 0 THEN 4 ELSE 1
    BY <1>1, <1>3, IssueParts DEF N
  <2>2. N(u) + N(u + 1) <= 12
    <3>1. <<Layer(u + 1), Matrix(u + 1), Block(u + 1)>> = After(Layer(u), Matrix(u), Block(u))
      <4>1. plan[u + 2] = After(Layer(u), Matrix(u), Block(u))
        BY <1>3, PlanGoesOn, UnitIs
      <4>2. plan[(u + 1) + 1] \in UnitSet /\ (u + 1) + 1 = u + 2
        BY <1>1, <1>3, PlanRanks
      <4>3. QED
        BY <4>1, <4>2, InUnitSet DEF Layer, Matrix, Block
    <3>2. Opens(u) => ~Opens(u + 1)
      BY <3>1, UnitIs DEF Opens, After
    <3>3. ~(Opens(u + 1) /\ Opens(u))
      BY <3>2
    <3>4. QED
      BY <1>2, <2>1, <3>3
  <2>3. IssueIfAny(u) = issue(u) /\ IssueIfAny(u + 1) = issue(u + 1)
    BY <1>3, UnitIs DEF IssueIfAny
  <2>4. issue(u + 1) \in Seq(Queues) /\ N(u + 1) = Len(issue(u + 1))
    BY <1>1, <1>3, IssueParts DEF N
  <2>5. NREQ \in Nat /\ NREQ >= 12
    BY SlotAssumption, CardAssumption
  <2>6. N(u) \in 1..8 /\ N(u + 1) \in 1..8
    BY <1>2, <2>1
  <2>7. N(u) + N(u + 1) <= NREQ
    BY <2>2, <2>5, <2>6
  <2>8. N(u + 1) \in 0..8 /\ (N(u + 1) = 0 <=> u + 1 >= NUnits)
    BY <1>1, <1>3, <2>6
  <2>9. QED
    BY <2>3, <2>4, <2>6, <2>7, <2>8
<1>4. CASE u + 1 >= NUnits
  <2>1. IssueIfAny(u) = issue(u) /\ IssueIfAny(u + 1) = <<>> /\ N(u + 1) = 0
    BY <1>1, <1>4, UnitIs DEF IssueIfAny, N
  <2>2. NREQ \in Nat /\ NREQ >= 12
    BY SlotAssumption, CardAssumption
  <2>3. QED
    <3>1. IssueIfAny(u + 1) \in Seq(Queues) /\ Len(IssueIfAny(u + 1)) = 0
      <4>1. <<>> \in Seq(Queues) /\ Len(<<>>) = 0
        BY EmptySeq
      <4>2. IssueIfAny(u + 1) = <<>>
        BY <2>1
      <4>3. QED
        BY <4>1, <4>2, Zenon
    <3>2. N(u) \in 1..8
      BY <1>2
    <3>3. QED
      BY <1>1, <1>4, <2>1, <2>2, <3>1, <3>2
<1>5. QED
  BY <1>1, <1>3, <1>4

-----------------------------------------------------------------------------
(* Requests in flight: issued, numbered by reqNext, and not yet complete.  *)

One(b) == IF b THEN 1 ELSE 0
Copying == ~CpIdle /\ ~cp.copied
CpEnds == One(~CpIdle /\ cp.last)
Ends(i) == One(i <= Len(cq) /\ cq[i].last)
\* The requests whose last chunk is read, the one being read, and those in the queue.
Chunked == CpEnds + Ends(1) + Ends(2)
Flying == Chunked + One(~SdIdle) + Len(rq)
Oldest == reqNext - Flying

Tasks == [slot : 0..NREQ, dst : Buffers \cup {<<>>}, k : Nat, bi : Half,
          first : BOOLEAN, last : BOOLEAN, copied : BOOLEAN]
CardTypes ==
    /\ unit \in Nat /\ todo \in Seq(Queues) /\ awaited \in [Half -> Seq(Slots)]
    /\ reqs \in [Slots -> Reads \cup {NoRead}] /\ done \in [Slots -> BOOLEAN]
    /\ rq \in Seq(Slots) /\ reqNext \in Nat
    /\ sd \in [slot : 0..NREQ, r : Reads \cup {NoRead}, k : Nat, bi : Half]
    /\ cq \in Seq(Tasks) /\ cp \in Tasks
    /\ bfree \in [Half -> BOOLEAN]

\* The two bounce buffers take turns, and a request whose chunks have begun is not dropped.
Held == One(Copying) + Len(cq)
ChunkInv ==
    /\ CpIdle => ~cp.last /\ ~cp.copied
    /\ cp.copied => cp.last
    /\ Held <= 2
    /\ \A i \in 1..Len(cq) : cq[i].slot \in Slots /\ ~cq[i].copied
    /\ bfree[sd.bi] <=> Held <= 1
    /\ bfree[1 - sd.bi] <=> Held = 0
    /\ \A i \in 1..Len(cq) : cq[i].bi = IF i = Len(cq) THEN 1 - sd.bi ELSE sd.bi
    /\ Copying => cp.bi = IF Len(cq) = 0 THEN 1 - sd.bi ELSE sd.bi
    /\ SdIdle => IF Len(cq) = 0 THEN CpIdle \/ cp.last ELSE cq[Len(cq)].last

\* Requests are worked off in the order of their numbers, and none in flight is reported done.
NumberInv ==
    /\ Oldest >= 0
    /\ ~CpIdle => cp.slot = Slot(Oldest)
    /\ Len(cq) >= 1 => cq[1].slot = Slot(Oldest + CpEnds)
    /\ Len(cq) = 2 => cq[2].slot = Slot(Oldest + CpEnds + Ends(1))
    /\ ~SdIdle => sd.slot = Slot(Oldest + Chunked)
    /\ \A i \in 1..Len(rq) : rq[i] = Slot(Oldest + Chunked + One(~SdIdle) + i - 1)
    /\ \A n \in Oldest..(reqNext - 1) : ~done[Slot(n)]

\* The reads of units u and u + 1, in order.
Item(u, j) == IF j <= N(u) THEN issue(u)[j] ELSE issue(u + 1)[j - N(u)]
Window == N(unit) + N(unit + 1)
InPass == pc \notin {"idle", "embed"}

\* The pass is never more than a unit ahead; the last request kept of a unit is its last.
AheadInv ==
    /\ pc \in {"idle", "embed", "issue", "wait", "compute", "abort"}
    /\ mx \in {"free", "pass", "update"} /\ (mx = "pass" <=> pc # "idle")
    /\ ~InPass => Flying = 0
    /\ InPass => unit < NUnits
    /\ pc # "issue" => Len(todo) = 0
    /\ InPass => Flying + Len(todo) <= Window
    /\ InPass => \A i \in 1..Len(todo) : todo[i] = Item(unit, Window - Len(todo) + i)
    /\ pc \in {"issue", "wait"} /\ Len(todo) <= N(unit + 1) =>
         LET w == awaited[Parity(unit)] IN
         IF Len(w) = 0 THEN pc = "wait" /\ Flying <= N(unit + 1)
         ELSE w[Len(w)] = Slot(reqNext - 1 - (N(unit + 1) - Len(todo)))
    /\ InPass /\ Len(todo) = 0 /\ unit + 1 < NUnits =>
         LET w == awaited[1 - Parity(unit)] IN
         Len(w) > 0 /\ w[Len(w)] = Slot(reqNext - 1)
    /\ pc \in {"compute", "abort"} => Flying <= N(unit + 1)

FlowInv == CardTypes /\ ChunkInv /\ NumberInv /\ AheadInv

LEMMA Numbers ==
    ASSUME CardTypes
    PROVE  /\ NREQ \in Nat /\ NREQ > 0 /\ \A s \in Slots : s \in 0..NREQ /\ s # NREQ
           /\ \A s \in 0..NREQ : s # NREQ => s \in Slots
           /\ CpEnds \in {0, 1} /\ Ends(1) \in {0, 1} /\ Ends(2) \in {0, 1} /\ One(~SdIdle) \in {0, 1}
           /\ One(Copying) \in {0, 1}
           /\ Len(rq) \in Nat /\ Len(cq) \in Nat /\ Len(todo) \in Nat
           /\ Chunked \in Nat /\ Flying \in Nat /\ Oldest \in Int /\ Held \in Nat
<1>1. NREQ \in Nat /\ NREQ > 0
  BY CardAssumption
<1>2. Len(rq) \in Nat /\ Len(cq) \in Nat /\ Len(todo) \in Nat
  BY DEF CardTypes
<1>3. \A b : One(b) \in {0, 1}
  BY DEF One
<1>4. CpEnds \in {0, 1} /\ Ends(1) \in {0, 1} /\ Ends(2) \in {0, 1} /\ One(~SdIdle) \in {0, 1} /\ One(Copying) \in {0, 1}
  BY <1>3 DEF CpEnds, Ends
<1>5. Chunked \in Nat /\ Flying \in Nat /\ Oldest \in Int /\ Held \in Nat
  <2>1. Chunked \in Nat
    BY <1>4 DEF Chunked
  <2>2. reqNext \in Nat
    BY DEF CardTypes
  <2>3. Flying \in Nat
    BY <1>2, <1>4, <2>1 DEF Flying
  <2>4. QED
    BY <1>2, <1>4, <2>1, <2>2, <2>3 DEF Oldest, Held
<1>6. QED
  BY <1>1, <1>2, <1>4, <1>5 DEF Slots

LEMMA NumbersNext == CardTypes' => (Flying \in Nat)'
<1>1. CardTypes => Flying \in Nat
  BY Numbers
<1>2. QED
  BY <1>1, PTL

\* What the pass does while the readers stay as they are.
LEMMA ReadersRest ==
    ASSUME FlowInv, UNCHANGED <<sd, bfree, cq, cp, rq, reqNext>>, \A s \in Slots : done'[s] => done[s]
    PROVE  ChunkInv' /\ NumberInv' /\ Flying' = Flying /\ Oldest' = Oldest
<1>1. /\ CpIdle' = CpIdle /\ SdIdle' = SdIdle /\ CpEnds' = CpEnds /\ Ends(1)' = Ends(1) /\ Ends(2)' = Ends(2)
      /\ Copying' = Copying /\ One(~SdIdle)' = One(~SdIdle) /\ Held' = Held
  BY DEF CpIdle, SdIdle, CpEnds, Ends, Copying, One, Held
<1>2. Chunked' = Chunked /\ Flying' = Flying /\ Oldest' = Oldest
  BY <1>1 DEF Chunked, Flying, Oldest
<1>3. ChunkInv'
  BY <1>1 DEF FlowInv, ChunkInv
<1>4. NumberInv'
  <2>1. \A n \in Oldest..(reqNext - 1) : Slot(n) \in Slots
    BY SlotInRange, Numbers DEF FlowInv, CardTypes
  <2>2. QED
    BY <1>1, <1>2, <2>1 DEF FlowInv, NumberInv
<1>5. QED
  BY <1>2, <1>3, <1>4

LEMMA UnitInPlan ==
    ASSUME FlowInv, InPass
    PROVE  unit \in 0..(NUnits - 1)
BY PlanRanks DEF FlowInv, CardTypes, AheadInv

\* What the readers do while the pass stays as it is.
LEMMA PassRests ==
    ASSUME FlowInv, CardTypes', UNCHANGED <<passVars, mx, reqNext>>, Flying' <= Flying
    PROVE  AheadInv'
<1>1. Flying' \in Nat /\ Flying \in Nat
  BY Numbers, NumbersNext DEF FlowInv
<1>2. UNCHANGED <<pc, unit, todo, awaited, mx, reqNext, Window>>
  BY DEF passVars, Window
<1>3. \A j : Item(unit', j) = Item(unit, j)
  BY <1>2
<1>4. N(unit + 1)' = N(unit + 1)
  BY <1>2
<1>5. InPass => Window \in Nat /\ N(unit + 1) \in Nat
  BY UnitInPlan, IssueFits DEF Window
<1>6. QED
  BY <1>1, <1>2, <1>3, <1>4, <1>5 DEF FlowInv, AheadInv, InPass

LEMMA SdTakesFlow ==
    ASSUME FlowInv, SdTakes
    PROVE  FlowInv' /\ Oldest' = Oldest
<1>1. /\ SdIdle /\ Len(rq) >= 1 /\ sd'.slot = rq[1] /\ sd'.bi = sd.bi
      /\ rq' = Tail(rq) /\ Len(rq') = Len(rq) - 1 /\ \A i \in 1..Len(rq') : rq'[i] = rq[i + 1]
      /\ UNCHANGED <<passVars, mx, reqs, done, reqNext, bfree, cq, cp>>
  BY DEF SdTakes, FlowInv, CardTypes, memVars, history
<1>2. CardTypes'
  <2>1. rq[1] \in Slots
    BY <1>1 DEF FlowInv, CardTypes
  <2>2. sd' \in [slot : 0..NREQ, r : Reads \cup {NoRead}, k : Nat, bi : Half]
    <3>1. sd' = [sd EXCEPT !.slot = Head(rq), !.r = reqs[Head(rq)], !.k = 1] /\ Head(rq) = rq[1]
      BY <1>1 DEF SdTakes, FlowInv, CardTypes
    <3>2. rq[1] \in 0..NREQ /\ reqs[rq[1]] \in Reads \cup {NoRead} /\ 1 \in Nat
      BY <2>1, Numbers DEF FlowInv, CardTypes
    <3>3. sd \in [slot : 0..NREQ, r : Reads \cup {NoRead}, k : Nat, bi : Half]
      BY DEF FlowInv, CardTypes
    <3>4. QED
      BY <3>1, <3>2, <3>3
  <2>3. rq' \in Seq(Slots)
    BY <1>1 DEF FlowInv, CardTypes
  <2>4. QED
    BY <1>1, <2>2, <2>3 DEF FlowInv, CardTypes, passVars
<1>3. ~SdIdle' /\ One(~SdIdle)' = 1 /\ One(~SdIdle) = 0
  BY <1>1, Numbers DEF SdIdle, One, FlowInv, CardTypes
<1>4. /\ CpIdle' = CpIdle /\ CpEnds' = CpEnds /\ Ends(1)' = Ends(1) /\ Ends(2)' = Ends(2)
      /\ Copying' = Copying /\ Held' = Held
  BY <1>1 DEF CpIdle, CpEnds, Ends, Copying, One, Held
<1>5. Chunked' = Chunked /\ Flying' = Flying /\ Oldest' = Oldest
  <2>1. Chunked' = Chunked
    BY <1>4 DEF Chunked
  <2>2. Flying' = Flying
    BY <1>1, <1>3, <2>1, Numbers DEF Flying, FlowInv
  <2>3. QED
    BY <1>1, <2>1, <2>2 DEF Oldest
<1>6. ChunkInv'
  BY <1>1, <1>3, <1>4 DEF FlowInv, ChunkInv
<1>7. NumberInv'
  <2>1. \A i \in 1..Len(rq) : rq[i] = Slot(Oldest + Chunked + i - 1)
    BY <1>3, Numbers DEF FlowInv, NumberInv
  <2>2. sd'.slot = Slot(Oldest + Chunked)
    BY <1>1, <2>1, Numbers DEF FlowInv
  <2>3. \A i \in 1..Len(rq') : rq'[i] = Slot(Oldest + Chunked + 1 + i - 1)
    <3>1. ASSUME NEW i \in 1..Len(rq')
          PROVE  rq'[i] = Slot(Oldest + Chunked + 1 + i - 1)
      <4>1. i + 1 \in 1..Len(rq) /\ rq'[i] = rq[i + 1]
        BY <1>1, Numbers DEF FlowInv
      <4>2. rq[i + 1] = Slot(Oldest + Chunked + (i + 1) - 1)
        BY <2>1, <4>1
      <4>3. Oldest + Chunked + (i + 1) - 1 = Oldest + Chunked + 1 + i - 1
        BY Numbers DEF FlowInv
      <4>4. QED
        BY <4>1, <4>2, <4>3
    <3>2. QED
      BY <3>1
  <2>4. QED
    BY <1>1, <1>3, <1>4, <1>5, <2>2, <2>3 DEF FlowInv, NumberInv
<1>8. QED
  BY <1>1, <1>2, <1>5, <1>6, <1>7, PassRests, Numbers DEF FlowInv

\* A chunk more in the queue for cp.
SdLast == sd.k = sd.r.chunks
SdPiece == [slot |-> sd.slot, dst |-> sd.r.dst, k |-> sd.k, bi |-> sd.bi,
            first |-> sd.k = 1, last |-> SdLast, copied |-> FALSE]

LEMMA SdReadsIs ==
    ASSUME FlowInv, SdReads
    PROVE  /\ ~SdIdle /\ bfree[sd.bi] /\ bfree' = [bfree EXCEPT ![sd.bi] = FALSE]
           /\ UNCHANGED <<passVars, mx, reqs, done, rq, reqNext, cp>>
           /\ sd.slot \in Slots /\ sd.bi \in Half /\ 1 - sd.bi \in Half /\ 1 - sd.bi # sd.bi /\ 1 - (1 - sd.bi) = sd.bi
           /\ SdPiece \in Tasks /\ SdPiece.slot = sd.slot /\ SdPiece.bi = sd.bi /\ ~SdPiece.copied
           /\ (SdPiece.last <=> SdLast) /\ (SdPiece.first <=> sd.k = 1) /\ SdPiece.dst = sd.r.dst /\ SdPiece.k = sd.k
           /\ sd'.bi = 1 - sd.bi /\ (SdIdle' <=> SdLast) /\ (~SdLast => sd'.slot = sd.slot /\ sd'.r = sd.r /\ sd'.k = sd.k + 1)
           /\ sd' \in [slot : 0..NREQ, r : Reads \cup {NoRead}, k : Nat, bi : Half]
           /\ Len(cq') = Len(cq) + 1 /\ cq' \in Seq(Tasks)
           /\ \A i \in 1..Len(cq) : cq'[i] = cq[i]
           /\ cq'[Len(cq) + 1] = SdPiece
           /\ Held <= 1 /\ Held' = Held + 1 /\ CpIdle' = CpIdle /\ CpEnds' = CpEnds /\ (Copying' <=> Copying)
           /\ (Len(cq) = 0 \/ Len(cq) = 1) /\ (Copying => Len(cq) = 0) /\ (Len(cq') = 2 => Len(cq) = 1)
<1> DEFINE last == SdLast
           c == SdPiece
<1>1. /\ ~SdIdle /\ bfree[sd.bi] /\ bfree' = [bfree EXCEPT ![sd.bi] = FALSE]
      /\ cq' = Append(cq, c)
      /\ sd' = IF last THEN [slot |-> NREQ, r |-> NoRead, k |-> 0, bi |-> 1 - sd.bi]
                    ELSE [sd EXCEPT !.k = @ + 1, !.bi = 1 - @]
      /\ UNCHANGED <<passVars, mx, reqs, done, rq, reqNext, cp>>
  BY DEF SdReads, reqVars, SdLast, SdPiece
<1>2. /\ sd.slot \in Slots /\ sd.bi \in Half /\ 1 - sd.bi \in Half /\ 1 - sd.bi # sd.bi /\ 1 - (1 - sd.bi) = sd.bi
  BY <1>1, Numbers DEF FlowInv, CardTypes, SdIdle, Half
<1>3. /\ c \in Tasks /\ c.slot = sd.slot /\ c.bi = sd.bi /\ ~c.copied /\ (c.last <=> last)
      /\ (c.first <=> sd.k = 1) /\ c.dst = sd.r.dst /\ c.k = sd.k
  <2> DEFINE f == sd.k = 1
             l == last
  <2>1. f \in BOOLEAN /\ l \in BOOLEAN
    BY DEF SdLast
  <2>2. sd.slot \in 0..NREQ /\ sd.r.dst \in Buffers \cup {<<>>} /\ sd.k \in Nat
    BY DEF FlowInv, CardTypes, Reads, NoRead
  <2>3. c = [slot |-> sd.slot, dst |-> sd.r.dst, k |-> sd.k, bi |-> sd.bi,
             first |-> f, last |-> l, copied |-> FALSE]
    BY DEF SdPiece
  <2> HIDE DEF f, l, c
  <2>4. c \in Tasks
    BY <1>2, <2>1, <2>2, <2>3, Zenon DEF Tasks
  <2>5. c.slot = sd.slot /\ c.bi = sd.bi /\ c.copied = FALSE /\ c.last = l /\ c.first = f /\ c.dst = sd.r.dst /\ c.k = sd.k
    BY <2>3
  <2>6. QED
    BY <2>4, <2>5 DEF l, f
<1> HIDE DEF c, last
<1>4. /\ sd'.bi = 1 - sd.bi /\ (SdIdle' <=> last) /\ (~last => sd'.slot = sd.slot /\ sd'.r = sd.r /\ sd'.k = sd.k + 1)
      /\ sd' \in [slot : 0..NREQ, r : Reads \cup {NoRead}, k : Nat, bi : Half]
  <2>1. sd \in [slot : 0..NREQ, r : Reads \cup {NoRead}, k : Nat, bi : Half]
    BY DEF FlowInv, CardTypes
  <2>2. CASE last
    <3>1. sd' = [slot |-> NREQ, r |-> NoRead, k |-> 0, bi |-> 1 - sd.bi]
      BY <1>1, <2>2
    <3>2. NREQ \in 0..NREQ
      BY Numbers DEF FlowInv
    <3>3. QED
      BY <1>2, <2>2, <3>1, <3>2 DEF SdIdle
  <2>3. CASE ~last
    <3>1. sd' = [sd EXCEPT !.k = @ + 1, !.bi = 1 - @]
      BY <1>1, <2>3
    <3>2. sd'.bi = 1 - sd.bi /\ sd'.slot = sd.slot /\ sd'.r = sd.r /\ sd'.k = sd.k + 1
      BY <2>1, <3>1
    <3>3. sd' \in [slot : 0..NREQ, r : Reads \cup {NoRead}, k : Nat, bi : Half]
      <4>1. sd.slot \in 0..NREQ /\ sd.r \in Reads \cup {NoRead} /\ sd.k + 1 \in Nat /\ 1 - sd.bi \in Half
        BY <1>2, <2>1
      <4>2. sd' = [slot |-> sd.slot, r |-> sd.r, k |-> sd.k + 1, bi |-> 1 - sd.bi]
        BY <2>1, <3>1
      <4>3. QED
        BY <4>1, <4>2
    <3>4. QED
      BY <1>1, <2>3, <3>2, <3>3 DEF SdIdle
  <2>4. QED
    BY <2>2, <2>3
<1>5. /\ Len(cq') = Len(cq) + 1 /\ cq' \in Seq(Tasks)
      /\ \A i \in 1..Len(cq) : cq'[i] = cq[i]
      /\ cq'[Len(cq) + 1] = c
  BY <1>1, <1>3 DEF FlowInv, CardTypes
<1>7. Held <= 1 /\ Held' = Held + 1 /\ Len(cq) <= 1 /\ CpIdle' = CpIdle /\ CpEnds' = CpEnds /\ (Copying' <=> Copying)
  <2>1. CpIdle' = CpIdle /\ CpEnds' = CpEnds /\ (Copying' <=> Copying) /\ One(Copying)' = One(Copying)
    BY <1>1 DEF CpIdle, CpEnds, Copying, One
  <2>2. Held' = Held + 1 /\ Held <= 1
    BY <1>1, <1>5, <2>1, Numbers DEF Held, FlowInv, ChunkInv
  <2>3. Len(cq) <= 1
    BY <2>2, Numbers DEF Held, FlowInv
  <2>4. QED
    BY <2>1, <2>2, <2>3
<1>12. (Len(cq) = 0 \/ Len(cq) = 1) /\ (Len(cq') = 2 => Len(cq) = 1)
  <2> DEFINE a == Len(cq)
             b == Len(cq')
  <2>1. a \in Nat /\ a <= 1 /\ b = a + 1
    BY <1>5, <1>7 DEF FlowInv, CardTypes
  <2> HIDE DEF a, b
  <2>2. (a = 0 \/ a = 1) /\ (b = 2 => a = 1)
    BY <2>1
  <2>3. QED
    BY <2>2 DEF a, b
<1>8. Copying => Len(cq) = 0
  BY <1>7, Numbers DEF FlowInv, Held, One
<1>9. QED
  BY <1>1, <1>2, <1>3, <1>4, <1>5, <1>7, <1>8, <1>12 DEF c, last

LEMMA SdReadsFlow ==
    ASSUME FlowInv, SdReads
    PROVE  FlowInv' /\ Oldest' = Oldest
<1> DEFINE last == SdLast
           c == SdPiece
<1>1. /\ ~SdIdle /\ bfree[sd.bi] /\ bfree' = [bfree EXCEPT ![sd.bi] = FALSE]
      /\ UNCHANGED <<passVars, mx, reqs, done, rq, reqNext, cp>>
  BY SdReadsIs
<1>2. sd.slot \in Slots /\ sd.bi \in Half /\ 1 - sd.bi \in Half /\ 1 - sd.bi # sd.bi /\ 1 - (1 - sd.bi) = sd.bi
  BY SdReadsIs
<1>3. c \in Tasks /\ c.slot = sd.slot /\ c.bi = sd.bi /\ ~c.copied /\ (c.last <=> last)
  BY SdReadsIs
<1>4. /\ sd'.bi = 1 - sd.bi /\ (SdIdle' <=> last) /\ (~last => sd'.slot = sd.slot)
      /\ sd' \in [slot : 0..NREQ, r : Reads \cup {NoRead}, k : Nat, bi : Half]
  BY SdReadsIs
<1>5. /\ Len(cq') = Len(cq) + 1 /\ cq' \in Seq(Tasks)
      /\ \A i \in 1..Len(cq) : cq'[i] = cq[i]
      /\ cq'[Len(cq) + 1] = c
  BY SdReadsIs
<1>6. CardTypes'
  BY <1>1, <1>2, <1>4, <1>5 DEF FlowInv, CardTypes, passVars
<1>7. Held <= 1 /\ Held' = Held + 1 /\ Len(cq) <= 1 /\ CpIdle' = CpIdle /\ CpEnds' = CpEnds /\ (Copying' <=> Copying)
  BY SdReadsIs
<1>12. (Len(cq) = 0 \/ Len(cq) = 1) /\ (Len(cq') = 2 => Len(cq) = 1)
  BY SdReadsIs
<1>8. ChunkInv'
  <2>1. \A h \in Half : bfree'[h] = IF h = sd.bi THEN FALSE ELSE bfree[h]
    BY <1>1 DEF FlowInv, CardTypes
  <2>2. (bfree'[sd'.bi] <=> Held' <= 1) /\ (bfree'[1 - sd'.bi] <=> Held' = 0)
    <3>1. Held \in Nat /\ (bfree[1 - sd.bi] <=> Held = 0)
      BY Numbers DEF FlowInv, ChunkInv
    <3>2. sd'.bi = 1 - sd.bi /\ 1 - sd'.bi = sd.bi
      BY <1>2, <1>4
    <3>3. (bfree'[1 - sd.bi] <=> bfree[1 - sd.bi]) /\ ~bfree'[sd.bi]
      BY <1>2, <2>1
    <3>4. QED
      BY <1>7, <3>1, <3>2, <3>3
  <2>3. \A i \in 1..Len(cq') : /\ cq'[i].slot \in Slots /\ ~cq'[i].copied
                               /\ cq'[i].bi = IF i = Len(cq') THEN 1 - sd'.bi ELSE sd'.bi
    <3>1. SUFFICES ASSUME NEW i \in 1..Len(cq')
                   PROVE  /\ cq'[i].slot \in Slots /\ ~cq'[i].copied
                          /\ cq'[i].bi = IF i = Len(cq') THEN 1 - sd'.bi ELSE sd'.bi
      OBVIOUS
    <3>2. Len(cq) \in Nat /\ Len(cq') = Len(cq) + 1 /\ sd'.bi = 1 - sd.bi /\ 1 - sd'.bi = sd.bi
      BY <1>2, <1>4, <1>5, Numbers DEF FlowInv
    <3>3. CASE i \in 1..Len(cq)
      <4>1. i = 1 /\ Len(cq) = 1 /\ i # Len(cq')
        BY <1>12, <3>2, <3>3
      <4>2. cq'[i] = cq[i] /\ cq[i].slot \in Slots /\ ~cq[i].copied /\ cq[i].bi = 1 - sd.bi
        BY <1>5, <3>3, <4>1 DEF FlowInv, ChunkInv
      <4>3. QED
        BY <3>2, <4>1, <4>2
    <3>4. CASE i = Len(cq')
      BY <1>2, <1>3, <1>5, <3>2, <3>4
    <3>5. QED
      <4>1. i \in 1..Len(cq) \/ i = Len(cq')
        BY <3>1, <3>2
      <4>2. QED
        BY <3>3, <3>4, <4>1
  <2>4. Copying' => cp'.bi = IF Len(cq') = 0 THEN 1 - sd'.bi ELSE sd'.bi
    <3>1. Copying => Len(cq) = 0
      BY <1>7, Numbers DEF FlowInv, Held, One
    <3>2. QED
      BY <1>1, <1>2, <1>4, <1>5, <1>7, <3>1, Numbers DEF FlowInv, ChunkInv
  <2>5. SdIdle' => IF Len(cq') = 0 THEN CpIdle' \/ cp'.last ELSE cq'[Len(cq')].last
    BY <1>3, <1>4, <1>5, Numbers DEF FlowInv
  <2>6. QED
    BY <1>1, <1>7, <2>2, <2>3, <2>4, <2>5, Numbers DEF FlowInv, ChunkInv
<1>9. /\ Chunked' = Chunked + One(last) /\ One(~SdIdle)' = 1 - One(last) /\ One(~SdIdle) = 1
      /\ Flying' = Flying /\ Oldest' = Oldest
      /\ IF Len(cq) = 0 THEN Ends(1) = 0 /\ Ends(2) = 0 /\ Ends(1)' = One(last) /\ Ends(2)' = 0
                        ELSE Ends(2) = 0 /\ Ends(1)' = Ends(1) /\ Ends(2)' = One(last)
  <2>1. One(~SdIdle)' = 1 - One(last) /\ One(~SdIdle) = 1
    BY <1>1, <1>4 DEF One
  <2>2. IF Len(cq) = 0 THEN Ends(1) = 0 /\ Ends(2) = 0 /\ Ends(1)' = One(last) /\ Ends(2)' = 0
                       ELSE Ends(2) = 0 /\ Ends(1)' = Ends(1) /\ Ends(2)' = One(last)
    BY <1>3, <1>5, <1>7, Numbers DEF Ends, One, FlowInv
  <2>3. One(last) \in {0, 1}
    BY DEF One
  <2>4. Chunked' = Chunked + One(last)
    BY <1>7, <2>2, <2>3, Numbers DEF Chunked, FlowInv
  <2>5. Flying' = Flying
    BY <1>1, <2>1, <2>3, <2>4, Numbers DEF Flying, FlowInv
  <2>6. QED
    BY <1>1, <2>1, <2>2, <2>4, <2>5 DEF Oldest
<1>10. NumberInv'
  <2>1. One(last) = IF last THEN 1 ELSE 0
    BY DEF One
  <2>2. sd.slot = Slot(Oldest + Chunked) /\ Chunked = CpEnds + Ends(1) + Ends(2)
    BY <1>1 DEF FlowInv, NumberInv, Chunked
  <2>3. Len(cq') >= 1 => cq'[1].slot = Slot(Oldest + CpEnds)
    <3>1. CASE Len(cq) = 0
      <4>1. cq'[1].slot = sd.slot
        BY <1>3, <1>5, <3>1
      <4>2. Chunked = CpEnds
        BY <1>9, <2>2, <3>1, Numbers DEF FlowInv
      <4>3. QED
        BY <2>2, <4>1, <4>2
    <3>2. CASE Len(cq) = 1
      BY <1>5, <3>2 DEF FlowInv, NumberInv
    <3>3. QED
      BY <1>12, <3>1, <3>2
  <2>4. Len(cq') = 2 => cq'[2].slot = Slot(Oldest + CpEnds + Ends(1)')
    <3>1. SUFFICES ASSUME Len(cq) = 1 PROVE cq'[2].slot = Slot(Oldest + CpEnds + Ends(1)')
      BY <1>12
    <3>2. cq'[2] = c /\ Ends(1)' = Ends(1) /\ Ends(2) = 0
      BY <1>5, <1>9, <3>1
    <3>3. Chunked = CpEnds + Ends(1)
      BY <2>2, <3>2, Numbers DEF FlowInv
    <3>4. QED
      BY <1>3, <2>2, <3>2, <3>3, Numbers DEF FlowInv
  <2>5. ~SdIdle' => sd'.slot = Slot(Oldest + Chunked')
    BY <1>4, <1>9, <2>1, <2>2, Numbers DEF FlowInv
  <2>6. \A i \in 1..Len(rq) : rq[i] = Slot(Oldest + Chunked' + One(~SdIdle)' + i - 1)
    <3>1. Chunked' + One(~SdIdle)' = Chunked + One(~SdIdle)
      BY <1>9, <2>1, Numbers DEF FlowInv
    <3>2. Chunked' \in Int /\ Chunked \in Int /\ One(~SdIdle) \in Int /\ One(~SdIdle)' \in Int /\ Oldest \in Int
      BY <1>9, <2>1, Numbers DEF FlowInv
    <3>3. \A i \in 1..Len(rq) : rq[i] = Slot(Oldest + Chunked + One(~SdIdle) + i - 1)
      BY DEF FlowInv, NumberInv
    <3>4. \A i \in Int : Oldest + Chunked' + One(~SdIdle)' + i - 1 = Oldest + Chunked + One(~SdIdle) + i - 1
      BY <3>1, <3>2
    <3>5. QED
      BY <3>3, <3>4
  <2>7. QED
    BY <1>1, <1>7, <1>9, <2>3, <2>4, <2>5, <2>6 DEF FlowInv, NumberInv
<1>11. QED
  BY <1>1, <1>6, <1>8, <1>9, <1>10, PassRests, Numbers DEF FlowInv

\* One chunk, or none, or two, are in the queue for cp.
LEMMA QueueShort ==
    ASSUME FlowInv
    PROVE  /\ Len(cq) = 0 \/ Len(cq) = 1 \/ Len(cq) = 2
           /\ Copying => Len(cq) = 0 \/ Len(cq) = 1
           /\ Held = One(Copying) + Len(cq)
<1> DEFINE a == Len(cq)
           b == One(Copying)
<1>1. a \in Nat /\ b \in {0, 1} /\ b + a <= 2 /\ (Copying => b = 1)
  BY Numbers DEF FlowInv, ChunkInv, Held, One
<1> HIDE DEF a, b
<1>2. a = 0 \/ a = 1 \/ a = 2
  BY <1>1
<1>3. Copying => a = 0 \/ a = 1
  BY <1>1
<1>4. QED
  BY <1>2, <1>3 DEF a, b, Held

LEMMA CpTakesFlow ==
    ASSUME FlowInv, CpTakes
    PROVE  FlowInv' /\ Oldest' = Oldest
<1>1. /\ CpIdle /\ cp' = cq[1] /\ cq' = Tail(cq)
      /\ UNCHANGED <<passVars, mx, reqs, done, rq, reqNext, sd, bfree>>
  BY DEF CpTakes, reqVars, FlowInv, CardTypes
<1>2. Len(cq) = 1 \/ Len(cq) = 2
  <2>1. Len(cq) # 0
    BY DEF CpTakes, FlowInv, CardTypes
  <2>2. QED
    BY <2>1, QueueShort
<1>3. /\ cq' \in Seq(Tasks) /\ Len(cq') = Len(cq) - 1 /\ (Len(cq) = 2 => cq'[1] = cq[2])
      /\ cq[1] \in Tasks
  BY <1>1, <1>2 DEF FlowInv, CardTypes
<1>4. /\ cp'.slot = cq[1].slot /\ cp'.slot \in Slots /\ ~CpIdle' /\ ~cp'.copied /\ Copying'
      /\ (cp'.last <=> cq[1].last) /\ cp'.bi = cq[1].bi
  BY <1>1, <1>2, Numbers DEF FlowInv, ChunkInv, CpIdle, Copying
<1>5. CardTypes'
  BY <1>1, <1>3 DEF FlowInv, CardTypes, passVars
<1>6. ~Copying /\ CpEnds = 0 /\ One(Copying) = 0 /\ One(Copying)' = 1
  BY <1>1, <1>4 DEF Copying, CpEnds, One
<1>7. Held' = Held
  BY <1>2, <1>3, <1>6, Numbers DEF Held, FlowInv
<1>8. CpEnds' = Ends(1) /\ Ends(1)' = Ends(2) /\ Ends(2)' = 0
  BY <1>1, <1>2, <1>3, <1>4 DEF CpEnds, Ends, One
<1>9. Chunked' = Chunked /\ Flying' = Flying /\ Oldest' = Oldest /\ SdIdle' = SdIdle /\ One(~SdIdle)' = One(~SdIdle)
  <2>1. Chunked' = Chunked
    BY <1>6, <1>8, Numbers DEF Chunked, FlowInv
  <2>2. SdIdle' = SdIdle /\ One(~SdIdle)' = One(~SdIdle)
    BY <1>1 DEF SdIdle, One
  <2>3. QED
    BY <1>1, <2>1, <2>2 DEF Flying, Oldest
<1>10. ChunkInv'
  <2>1. CASE Len(cq) = 1
    <3>1. Len(cq') = 0 /\ cq[1].bi = 1 - sd.bi /\ (SdIdle => cq[1].last)
      BY <1>3, <2>1 DEF FlowInv, ChunkInv
    <3>2. QED
      BY <1>1, <1>4, <1>7, <1>9, <3>1 DEF FlowInv, ChunkInv
  <2>2. CASE Len(cq) = 2
    <3>1. /\ Len(cq') = 1 /\ cq[1].bi = sd.bi /\ cq'[1].bi = 1 - sd.bi /\ (SdIdle => cq'[1].last)
          /\ cq'[1].slot \in Slots /\ ~cq'[1].copied
      BY <1>3, <2>2 DEF FlowInv, ChunkInv
    <3>2. \A i \in 1..Len(cq') : i = 1 /\ i = Len(cq')
      BY <3>1
    <3>3. \A i \in 1..Len(cq') : cq'[i].slot \in Slots /\ ~cq'[i].copied /\ cq'[i].bi = IF i = Len(cq') THEN 1 - sd.bi ELSE sd.bi
      BY <3>1, <3>2
    <3>4. /\ cp'.bi = IF Len(cq') = 0 THEN 1 - sd.bi ELSE sd.bi
          /\ SdIdle' => IF Len(cq') = 0 THEN CpIdle' \/ cp'.last ELSE cq'[Len(cq')].last
      BY <1>4, <1>9, <3>1
    <3>5. QED
      BY <1>1, <1>4, <1>7, <3>3, <3>4 DEF FlowInv, ChunkInv
  <2>3. QED
    BY <1>2, <2>1, <2>2
<1>11. NumberInv'
  <2>1. cp'.slot = Slot(Oldest)
    BY <1>2, <1>4, <1>6, Numbers DEF FlowInv, NumberInv
  <2>2. Len(cq') >= 1 => cq'[1].slot = Slot(Oldest + CpEnds')
    BY <1>2, <1>3, <1>6, <1>8, Numbers DEF FlowInv, NumberInv
  <2>3. Len(cq') # 2
    <3>1. CASE Len(cq) = 1
      BY <1>3, <3>1
    <3>2. CASE Len(cq) = 2
      BY <1>3, <3>2
    <3>3. QED
      BY <1>2, <3>1, <3>2
  <2>4. QED
    BY <1>1, <1>9, <2>1, <2>2, <2>3 DEF FlowInv, NumberInv
<1>12. QED
  BY <1>1, <1>5, <1>9, <1>10, <1>11, PassRests, Numbers DEF FlowInv

LEMMA CpCopiesFlow ==
    ASSUME FlowInv, CpCopies
    PROVE  FlowInv' /\ Oldest' = Oldest
<1>1. /\ ~CpIdle /\ ~cp.copied /\ Copying /\ bfree' = [bfree EXCEPT ![cp.bi] = TRUE]
      /\ cp' = IF cp.last THEN [cp EXCEPT !.copied = TRUE] ELSE NoTask
      /\ UNCHANGED <<passVars, mx, reqs, done, rq, reqNext, sd, cq>>
  BY DEF CpCopies, reqVars, Copying
<1>2. cp \in Tasks /\ (Len(cq) = 0 \/ Len(cq) = 1) /\ cp.slot # NREQ
  BY <1>1, QueueShort DEF FlowInv, CardTypes, CpIdle
<1>3. /\ (CpIdle' <=> ~cp.last) /\ (cp'.last <=> cp.last) /\ (cp'.copied <=> cp.last)
      /\ (cp.last => cp'.slot = cp.slot) /\ cp' \in Tasks /\ ~Copying'
  <2>1. CASE cp.last
    <3>1. cp' = [cp EXCEPT !.copied = TRUE]
      BY <1>1, <2>1
    <3>2. cp'.slot = cp.slot /\ cp'.last = cp.last /\ cp'.copied = TRUE
      BY <1>2, <3>1 DEF Tasks
    <3>3. cp' \in Tasks
      BY <1>2, <3>1, Zenon DEF Tasks
    <3>4. QED
      BY <1>2, <2>1, <3>2, <3>3 DEF CpIdle, Copying
  <2>2. CASE ~cp.last
    <3>1. cp' = NoTask
      BY <1>1, <2>2
    <3>2. NoTask.slot = NREQ /\ ~NoTask.last /\ ~NoTask.copied
      BY DEF NoTask
    <3>3. NoTask \in Tasks
      <4>1. NREQ \in 0..NREQ /\ <<>> \in Buffers \cup {<<>>} /\ 0 \in Nat /\ 0 \in Half
        BY Numbers DEF FlowInv, Half
      <4>2. QED
        BY <4>1, Zenon DEF NoTask, Tasks
    <3>4. QED
      BY <2>2, <3>1, <3>2, <3>3 DEF CpIdle, Copying
  <2>3. QED
    BY <2>1, <2>2
<1>4. CardTypes'
  <2>1. bfree' \in [Half -> BOOLEAN]
    BY <1>1, Zenon DEF FlowInv, CardTypes
  <2>2. QED
    BY <1>1, <1>3, <2>1 DEF FlowInv, CardTypes, passVars
<1>5. Held = 1 + Len(cq) /\ Held' = Len(cq) /\ Len(cq) \in Nat
  BY <1>1, <1>3, Numbers DEF Held, One, FlowInv
<1>6. /\ CpEnds' = CpEnds /\ Ends(1)' = Ends(1) /\ Ends(2)' = Ends(2)
      /\ SdIdle' = SdIdle /\ One(~SdIdle)' = One(~SdIdle)
  BY <1>1, <1>3 DEF CpEnds, Ends, SdIdle, One
<1>7. Chunked' = Chunked /\ Flying' = Flying /\ Oldest' = Oldest
  BY <1>1, <1>6 DEF Chunked, Flying, Oldest
<1>8. ChunkInv'
  <2>1. sd.bi \in Half /\ 1 - sd.bi \in Half /\ 1 - sd.bi # sd.bi
    BY DEF FlowInv, CardTypes, Half
  <2>2. cp.bi \in Half /\ \A h \in Half : bfree'[h] = IF h = cp.bi THEN TRUE ELSE bfree[h]
    BY <1>1, <1>2 DEF FlowInv, CardTypes, Tasks
  <2>3. (bfree'[sd.bi] <=> Held' <= 1) /\ (bfree'[1 - sd.bi] <=> Held' = 0)
    <3>1. (bfree[sd.bi] <=> Held <= 1) /\ (bfree[1 - sd.bi] <=> Held = 0) /\ cp.bi = IF Len(cq) = 0 THEN 1 - sd.bi ELSE sd.bi
      BY <1>1 DEF FlowInv, ChunkInv
    <3>2. CASE Len(cq) = 0
      <4>1. Held = 1 /\ Held' = 0 /\ cp.bi = 1 - sd.bi
        BY <1>5, <3>1, <3>2
      <4>2. bfree'[1 - sd.bi] /\ (bfree'[sd.bi] <=> bfree[sd.bi])
        BY <2>1, <2>2, <4>1
      <4>3. QED
        BY <3>1, <4>1, <4>2
    <3>3. CASE Len(cq) = 1
      <4>1. Held = 2 /\ Held' = 1 /\ cp.bi = sd.bi
        BY <1>5, <3>1, <3>3
      <4>2. bfree'[sd.bi] /\ (bfree'[1 - sd.bi] <=> bfree[1 - sd.bi])
        BY <2>1, <2>2, <4>1
      <4>3. QED
        BY <3>1, <4>1, <4>2
    <3>4. QED
      BY <1>2, <3>2, <3>3
  <2>4. SdIdle' => IF Len(cq') = 0 THEN CpIdle' \/ cp'.last ELSE cq'[Len(cq')].last
    BY <1>1, <1>3, <1>6 DEF FlowInv, ChunkInv
  <2>5. Held' <= 2
    BY <1>2, <1>5
  <2>6. QED
    BY <1>1, <1>3, <2>3, <2>4, <2>5 DEF FlowInv, ChunkInv
<1>9. NumberInv'
  BY <1>1, <1>3, <1>6, <1>7 DEF FlowInv, NumberInv
<1>10. QED
  BY <1>1, <1>4, <1>7, <1>8, <1>9, PassRests, Numbers DEF FlowInv

\* What is in flight has slots of its own.
LEMMA FlyingFits ==
    ASSUME FlowInv
    PROVE  Flying <= NREQ
<1>1. CASE InPass
  <2>1. Flying + Len(todo) <= Window
    BY <1>1 DEF FlowInv, AheadInv
  <2>3. N(unit) \in 1..8 /\ N(unit + 1) \in 0..8 /\ N(unit) + N(unit + 1) <= NREQ
    BY <1>1, UnitInPlan, IssueFits
  <2>4. Window <= NREQ /\ Window \in Nat
    BY <2>3 DEF Window
  <2>2. QED
    BY <2>1, <2>4, Numbers DEF FlowInv
<1>2. CASE ~InPass
  BY <1>2, Numbers DEF FlowInv, AheadInv
<1>3. QED
  BY <1>1, <1>2

\* The request whose last chunk is copied is the oldest in flight.
LEMMA CpCompletesFlow ==
    ASSUME FlowInv, CpCompletes
    PROVE  FlowInv' /\ Oldest' = Oldest + 1
<1>1. /\ ~CpIdle /\ cp.copied /\ done' = [done EXCEPT ![cp.slot] = TRUE] /\ cp' = NoTask
      /\ UNCHANGED <<passVars, mx, reqs, rq, reqNext, sd, bfree, cq>>
  BY DEF CpCompletes
<1>2. /\ CpIdle' /\ ~cp'.last /\ ~cp'.copied /\ cp' \in Tasks
  <2>1. NoTask.slot = NREQ /\ ~NoTask.last /\ ~NoTask.copied
    BY DEF NoTask
  <2>2. NREQ \in 0..NREQ /\ <<>> \in Buffers \cup {<<>>} /\ 0 \in Nat /\ 0 \in Half
    BY Numbers DEF FlowInv, Half
  <2>3. NoTask \in Tasks
    BY <2>2, Zenon DEF NoTask, Tasks
  <2>4. QED
    BY <1>1, <2>1, <2>3 DEF CpIdle
<1>3. CardTypes'
  <2>1. done' \in [Slots -> BOOLEAN]
    BY <1>1, Zenon DEF FlowInv, CardTypes
  <2>2. QED
    BY <1>1, <1>2, <2>1 DEF FlowInv, CardTypes, passVars
<1>4. ~Copying /\ ~Copying' /\ CpEnds = 1 /\ CpEnds' = 0 /\ Held' = Held
  BY <1>1, <1>2 DEF Copying, CpEnds, One, Held, FlowInv, ChunkInv
<1>5. /\ Ends(1)' = Ends(1) /\ Ends(2)' = Ends(2) /\ SdIdle' = SdIdle /\ One(~SdIdle)' = One(~SdIdle)
      /\ Chunked' = Chunked - 1 /\ Flying' = Flying - 1 /\ Oldest' = Oldest + 1
  <2>1. Ends(1)' = Ends(1) /\ Ends(2)' = Ends(2) /\ SdIdle' = SdIdle /\ One(~SdIdle)' = One(~SdIdle)
    BY <1>1 DEF Ends, SdIdle, One
  <2>2. Chunked' = Chunked - 1
    BY <1>4, <2>1, Numbers DEF Chunked, FlowInv
  <2>3. Flying' = Flying - 1
    <3>1. Flying = Chunked + One(~SdIdle) + Len(rq) /\ Flying' = Chunked' + One(~SdIdle) + Len(rq)
      BY <1>1, <2>1 DEF Flying
    <3>2. Chunked \in Nat /\ One(~SdIdle) \in Nat /\ Len(rq) \in Nat
      BY Numbers DEF FlowInv
    <3>3. QED
      BY <2>2, <3>1, <3>2
  <2>4. reqNext \in Nat
    BY DEF FlowInv, CardTypes
  <2>5. Oldest' = Oldest + 1
    BY <1>1, <2>3, <2>4, Numbers DEF Oldest, FlowInv
  <2>6. QED
    BY <2>1, <2>2, <2>3, <2>5
<1>6. ChunkInv'
  BY <1>1, <1>2, <1>4, <1>5 DEF FlowInv, ChunkInv
<1>7. NumberInv'
  <2>1. cp.slot = Slot(Oldest) /\ Oldest \in Int /\ reqNext \in Nat /\ reqNext = Oldest + Flying /\ Oldest >= 0
        /\ Flying \in Nat /\ Flying <= NREQ /\ NREQ \in Nat
    <3>1. cp.slot = Slot(Oldest) /\ Oldest >= 0 /\ reqNext \in Nat
      BY <1>1 DEF FlowInv, NumberInv, CardTypes
    <3>2. Flying \in Nat /\ reqNext = Oldest + Flying
      BY <3>1, Numbers DEF FlowInv, Oldest
    <3>3. QED
      BY <3>1, <3>2, FlyingFits, Numbers DEF FlowInv
  <2>2. ASSUME NEW n \in (Oldest + 1)..(reqNext - 1)
        PROVE  ~done'[Slot(n)]
    <3>1. n \in Int /\ Oldest < n /\ n < Oldest + NREQ /\ n \in Oldest..(reqNext - 1)
      BY <2>1
    <3>2. Slot(n) # cp.slot /\ Slot(n) \in Slots
      BY <2>1, <3>1, SlotsDiffer, SlotInRange
    <3>3. ~done[Slot(n)]
      BY <3>1 DEF FlowInv, NumberInv
    <3>4. QED
      BY <1>1, <3>2, <3>3 DEF FlowInv, CardTypes
  <2>3. Oldest' >= 0
    BY <1>5, <2>1
  <2>4. \A n \in Oldest'..(reqNext - 1) : ~done'[Slot(n)]
    BY <1>5, <2>2
  <2>5. Oldest' + CpEnds' = Oldest + CpEnds /\ Oldest' + CpEnds' + Ends(1) = Oldest + CpEnds + Ends(1)
        /\ Oldest' + Chunked' = Oldest + Chunked
    <3>1. Oldest \in Int /\ CpEnds = 1 /\ CpEnds' = 0 /\ Ends(1) \in Int /\ Chunked \in Int
      BY <1>4, Numbers DEF FlowInv
    <3>2. Oldest' = Oldest + 1 /\ Chunked' = Chunked - 1
      BY <1>5
    <3>3. QED
      BY <3>1, <3>2
  <2>6. /\ Len(cq) >= 1 => cq[1].slot = Slot(Oldest' + CpEnds')
        /\ Len(cq) = 2 => cq[2].slot = Slot(Oldest' + CpEnds' + Ends(1))
        /\ ~SdIdle => sd.slot = Slot(Oldest' + Chunked')
        /\ \A i \in 1..Len(rq) : rq[i] = Slot(Oldest' + Chunked' + One(~SdIdle) + i - 1)
    BY <2>5 DEF FlowInv, NumberInv
  <2>7. QED
    BY <1>1, <1>2, <1>5, <2>3, <2>4, <2>6 DEF NumberInv
<1>8. QED
  BY <1>1, <1>3, <1>5, <1>6, <1>7, PassRests, Numbers DEF FlowInv

-----------------------------------------------------------------------------
(* The pass.                                                               *)

LEMMA ParityAlternates ==
    ASSUME NEW u \in Nat
    PROVE  Parity(u) \in Half /\ Parity(u + 1) = 1 - Parity(u) /\ Parity(u + 1) # Parity(u)
BY DEF Parity, Half

LEMMA IssueIsOwn ==
    ASSUME NEW u \in 0..(NUnits - 1), NEW i \in 1..Len(issue(u))
    PROVE  issue(u)[i] \in Queues /\ issue(u)[i].u = u
<1> DEFINE n == Len(issue(u))
<1>1. /\ n = IF Opens(u) THEN 8 ELSE IF Block(u) = 0 THEN 4 ELSE 1
      /\ issue(u)[n] = QWeights(u)
      /\ Block(u) = 0 => issue(u)[n - 3] = QWs(u) /\ issue(u)[n - 2] = QB(u) /\ issue(u)[n - 1] = QWo(u)
      /\ Opens(u) => \A k \in 1..4 : issue(u)[k] = QNorm(u, k)
      /\ issue(u) \in Seq(Queues)
  BY IssueParts
<1>2. /\ QWeights(u).u = u /\ QWs(u).u = u /\ QB(u).u = u /\ QWo(u).u = u
      /\ \A k : QNorm(u, k).u = u
  BY DEF QWeights, QWs, QB, QWo, QNorm, Queue
<1>3. issue(u)[i] \in Queues
  BY <1>1
<1>4. issue(u)[i].u = u
  <2> HIDE DEF n
  <2>1. i \in 1..n
    BY DEF n
  <2>2. CASE Opens(u)
    <3>1. n = 8 /\ Block(u) = 0
      BY <1>1, <2>2 DEF Opens
    <3>2. i \in 1..4 \/ i = n - 3 \/ i = n - 2 \/ i = n - 1 \/ i = n
      BY <2>1, <3>1
    <3>3. QED
      BY <1>1, <1>2, <2>2, <3>1, <3>2
  <2>3. CASE ~Opens(u) /\ Block(u) = 0
    <3>1. n = 4
      BY <1>1, <2>3
    <3>2. i = n - 3 \/ i = n - 2 \/ i = n - 1 \/ i = n
      BY <2>1, <3>1
    <3>3. QED
      BY <1>1, <1>2, <2>3, <3>2
  <2>4. CASE Block(u) # 0
    <3>1. n = 1 /\ i = n
      BY <1>1, <2>1, <2>4 DEF Opens
    <3>2. QED
      BY <1>1, <1>2, <3>1
  <2>5. QED
    BY <2>2, <2>3, <2>4
<1>5. QED
  BY <1>3, <1>4

\* The window's reads are those of unit, then those of unit + 1; each part ends with a block of weights,
\* which the pass waits for.
LEMMA ItemIs ==
    ASSUME FlowInv, InPass
    PROVE  /\ unit \in Nat /\ N(unit) \in 1..8 /\ N(unit + 1) \in 0..8 /\ Window = N(unit) + N(unit + 1) /\ Window <= NREQ
           /\ \A j \in 1..Window : /\ Item(unit, j) \in Queues
                                   /\ Item(unit, j).u = IF j <= N(unit) THEN unit ELSE unit + 1
           /\ Item(unit, N(unit)) = QWeights(unit)
           /\ unit + 1 < NUnits <=> N(unit + 1) > 0
           /\ unit + 1 < NUnits => Item(unit, Window) = QWeights(unit + 1)
<1>1. unit \in 0..(NUnits - 1) /\ unit \in Nat /\ NUnits \in Nat
  BY UnitInPlan, PlanRanks DEF FlowInv, CardTypes
<1>2. /\ N(unit) \in 1..8 /\ N(unit + 1) \in 0..8 /\ Window = N(unit) + N(unit + 1) /\ Window <= NREQ
      /\ (N(unit + 1) = 0 <=> unit + 1 >= NUnits)
  BY <1>1, IssueFits DEF Window
<1>3. N(unit) = Len(issue(unit)) /\ (N(unit + 1) > 0 => N(unit + 1) = Len(issue(unit + 1)) /\ unit + 1 \in 0..(NUnits - 1))
  BY <1>1, <1>2 DEF N
<1>4. ASSUME NEW j \in 1..Window
      PROVE  Item(unit, j) \in Queues /\ Item(unit, j).u = IF j <= N(unit) THEN unit ELSE unit + 1
  <2>1. CASE j <= N(unit)
    <3>1. Item(unit, j) = issue(unit)[j] /\ j \in 1..Len(issue(unit))
      BY <1>2, <1>3, <2>1 DEF Item
    <3>2. QED
      BY <1>1, <2>1, <3>1, IssueIsOwn
  <2>2. CASE ~(j <= N(unit))
    <3> DEFINE i == j - N(unit)
    <3>1. i \in 1..N(unit + 1) /\ N(unit + 1) > 0
      BY <1>2, <2>2
    <3>2. Item(unit, j) = issue(unit + 1)[i]
      BY <2>2 DEF Item
    <3> HIDE DEF i
    <3>3. QED
      BY <1>3, <2>2, <3>1, <3>2, IssueIsOwn
  <2>3. QED
    BY <2>1, <2>2
<1>5. Item(unit, N(unit)) = QWeights(unit)
  <2>1. Item(unit, N(unit)) = issue(unit)[Len(issue(unit))]
    BY <1>2, <1>3 DEF Item
  <2>2. QED
    BY <1>1, <2>1, IssueParts
<1>6. ASSUME unit + 1 < NUnits
      PROVE  Item(unit, Window) = QWeights(unit + 1)
  <2>1. N(unit + 1) > 0 /\ N(unit + 1) \in 1..8
    BY <1>1, <1>2, <1>6
  <2>2. ~(Window <= N(unit)) /\ Window - N(unit) = N(unit + 1)
    BY <1>2, <2>1
  <2>3. Item(unit, Window) = issue(unit + 1)[Len(issue(unit + 1))]
    BY <1>3, <2>1, <2>2 DEF Item
  <2>4. QED
    BY <1>3, <2>1, <2>3, IssueParts
<1>7. unit + 1 < NUnits <=> N(unit + 1) > 0
  BY <1>1, <1>2
<1>8. QED
  BY <1>1, <1>2, <1>4, <1>5, <1>6, <1>7

LEMMA PassBeginsFlow ==
    ASSUME FlowInv, PassBegins
    PROVE  FlowInv'
<1>1. /\ pc = "idle" /\ pc' = "embed" /\ mx' = "pass"
      /\ UNCHANGED <<unit, todo, awaited, reqs, done, rq, reqNext, sd, bfree, cq, cp>>
  BY DEF PassBegins, reqVars, readerVars
<1>2. CardTypes'
  BY <1>1 DEF FlowInv, CardTypes
<1>3. ChunkInv' /\ NumberInv' /\ Flying' = Flying
  BY <1>1, ReadersRest
<1>4. AheadInv'
  BY <1>1, <1>3 DEF FlowInv, AheadInv, InPass
<1>5. QED
  BY <1>2, <1>3, <1>4 DEF FlowInv

LEMMA EmbedsFlow ==
    ASSUME FlowInv, Embeds
    PROVE  FlowInv'
<1>1. /\ pc = "embed" /\ pc' = "issue" /\ unit' = 0 /\ todo' = issue(0) \o IssueIfAny(1)
      /\ UNCHANGED <<awaited, mx, reqs, done, rq, reqNext, sd, bfree, cq, cp>>
  BY DEF Embeds, reqVars
<1>2. 0 \in 0..(NUnits - 1) /\ NUnits > 0 /\ 0 + 1 = 1
  BY PlanRanks
<1>3. /\ issue(0) \in Seq(Queues) /\ IssueIfAny(1) \in Seq(Queues)
      /\ N(0) = Len(issue(0)) /\ N(1) = Len(IssueIfAny(1)) /\ N(0) \in 1..8 /\ N(1) \in 0..8
      /\ (N(1) > 0 => IssueIfAny(1) = issue(1))
  <2>1. issue(0) \in Seq(Queues) /\ N(0) = Len(issue(0))
    BY <1>2, IssueParts DEF N
  <2>2. IssueIfAny(1) \in Seq(Queues) /\ N(1) = Len(IssueIfAny(1)) /\ N(0) \in 1..8 /\ N(1) \in 0..8
    BY <1>2, IssueFits
  <2>3. N(1) > 0 => IssueIfAny(1) = issue(1)
    BY DEF N, IssueIfAny
  <2>4. QED
    BY <2>1, <2>2, <2>3
<1>4. /\ todo' \in Seq(Queues) /\ Len(todo') = N(0) + N(1)
      /\ \A i \in 1..Len(todo') : todo'[i] = Item(0, i)
  <2> DEFINE s == issue(0) \o IssueIfAny(1)
  <2>1. /\ s \in Seq(Queues) /\ Len(s) = N(0) + N(1)
        /\ \A i \in 1..Len(s) : s[i] = IF i <= N(0) THEN issue(0)[i] ELSE IssueIfAny(1)[i - N(0)]
    BY <1>3, Joined
  <2> HIDE DEF s
  <2>2. ASSUME NEW i \in 1..Len(s)
        PROVE  s[i] = Item(0, i)
    <3>1. CASE i <= N(0)
      BY <2>1, <3>1 DEF Item
    <3>2. CASE ~(i <= N(0))
      <4>1. N(1) > 0
        BY <1>3, <2>1, <3>2
      <4>2. Item(0, i) = issue(1)[i - N(0)]
        BY <1>2, <3>2 DEF Item
      <4>3. QED
        BY <1>3, <2>1, <3>2, <4>1, <4>2
    <3>3. QED
      BY <3>1, <3>2
  <2>3. QED
    BY <1>1, <2>1, <2>2 DEF s
<1>5. CardTypes'
  BY <1>1, <1>4 DEF FlowInv, CardTypes
<1>6. ChunkInv' /\ NumberInv' /\ Flying' = Flying
  BY <1>1, ReadersRest
<1>7. AheadInv'
  <2>1. Flying' = 0 /\ Window' = N(0) + N(1) /\ Window' \in Nat /\ N(unit + 1)' = N(1) /\ mx = "pass"
    BY <1>1, <1>3, <1>6 DEF FlowInv, AheadInv, InPass, Window
  <2>2. Len(todo') = Window' /\ ~(Len(todo') <= N(1)) /\ Len(todo') # 0
    BY <1>3, <1>4, <2>1
  <2>3. Flying' + Len(todo') <= Window'
    BY <2>1, <2>2
  <2>4. \A i \in 1..Len(todo') : todo'[i] = Item(0, Window' - Len(todo') + i)
    <3>1. \A i \in 1..Len(todo') : Window' - Len(todo') + i = i
      BY <2>1, <2>2
    <3>2. QED
      BY <1>4, <3>1
  <2>5. QED
    BY <1>1, <1>2, <2>1, <2>2, <2>3, <2>4 DEF AheadInv, InPass
<1>8. QED
  BY <1>5, <1>6, <1>7 DEF FlowInv

LEMMA IssuedFlow ==
    ASSUME FlowInv, Issued
    PROVE  FlowInv'
<1>1. /\ pc = "issue" /\ pc' = "wait" /\ Len(todo) = 0
      /\ UNCHANGED <<unit, todo, awaited, mx, reqs, done, rq, reqNext, sd, bfree, cq, cp>>
  BY DEF Issued, reqVars, readerVars
<1>2. CardTypes'
  BY <1>1 DEF FlowInv, CardTypes
<1>3. ChunkInv' /\ NumberInv' /\ Flying' = Flying
  BY <1>1, ReadersRest
<1>4. AheadInv'
  <2>1. InPass /\ N(unit + 1) \in Nat
    BY <1>1, ItemIs DEF InPass
  <2>2. Window' = Window /\ N(unit + 1)' = N(unit + 1) /\ \A j : Item(unit', j) = Item(unit, j)
    BY <1>1 DEF Window
  <2>3. QED
    BY <1>1, <1>3, <2>1, <2>2 DEF FlowInv, AheadInv, InPass
<1>5. QED
  BY <1>2, <1>3, <1>4 DEF FlowInv

\* A request that is done is older than all that fly.
LEMMA DoneIsOlder ==
    ASSUME FlowInv, NEW n \in Int, n < reqNext, done[Slot(n)]
    PROVE  Flying <= reqNext - 1 - n
<1>1. SUFFICES ASSUME Flying > reqNext - 1 - n PROVE FALSE
  BY Numbers DEF FlowInv, CardTypes
<1>2. n \in Oldest..(reqNext - 1)
  <2>1. reqNext \in Nat /\ Flying \in Nat /\ Oldest = reqNext - Flying
    BY Numbers DEF FlowInv, CardTypes, Oldest
  <2>2. QED
    BY <1>1, <2>1
<1>3. QED
  BY <1>2 DEF FlowInv, NumberInv

LEMMA wait_rdFlow ==
    ASSUME FlowInv, wait_rd
    PROVE  FlowInv'
<1> DEFINE p == Parity(unit)
           w == awaited[p]
           slot == Head(w)
<1>1. /\ pc = "wait" /\ w # <<>> /\ done[slot] /\ done' = [done EXCEPT ![slot] = FALSE]
      /\ awaited' = [awaited EXCEPT ![p] = Tail(@)]
      /\ UNCHANGED <<pc, unit, todo, mx, reqs, rq, reqNext, sd, bfree, cq, cp>>
  BY DEF wait_rd, readerVars
<1>2. InPass /\ unit \in Nat /\ N(unit + 1) \in Nat /\ p \in Half /\ 1 - p \in Half /\ 1 - p # p
  <2>1. InPass
    BY <1>1 DEF InPass
  <2>2. unit \in Nat /\ N(unit + 1) \in Nat
    BY <2>1, ItemIs
  <2>3. p \in Half
    BY <2>2, ParityAlternates
  <2> HIDE DEF p
  <2>4. 1 - p \in Half /\ 1 - p # p
    BY <2>3 DEF Half
  <2>5. QED
    BY <2>1, <2>2, <2>3, <2>4
<1>3. /\ w \in Seq(Slots) /\ Len(w) \in Nat \ {0} /\ Tail(w) \in Seq(Slots) /\ Len(Tail(w)) = Len(w) - 1
      /\ slot = w[1] /\ (Len(w) > 1 => Tail(w)[Len(w) - 1] = w[Len(w)])
  BY <1>1, <1>2 DEF FlowInv, CardTypes
<1>4. /\ awaited' \in [Half -> Seq(Slots)] /\ awaited'[p] = Tail(w) /\ awaited'[1 - p] = awaited[1 - p]
      /\ done' \in [Slots -> BOOLEAN] /\ \A s \in Slots : done'[s] => done[s]
  <2>1. awaited' \in [Half -> Seq(Slots)] /\ awaited'[p] = Tail(w) /\ awaited'[1 - p] = awaited[1 - p]
    BY <1>1, <1>2, <1>3 DEF FlowInv, CardTypes
  <2>2. done' \in [Slots -> BOOLEAN]
    BY <1>1, Zenon DEF FlowInv, CardTypes
  <2>3. \A s \in Slots : done'[s] => done[s]
    BY <1>1, <1>3 DEF FlowInv, CardTypes
  <2>4. QED
    BY <2>1, <2>2, <2>3
<1>5. CardTypes'
  BY <1>1, <1>4 DEF FlowInv, CardTypes
<1>6. ChunkInv' /\ NumberInv' /\ Flying' = Flying
  BY <1>1, <1>4, ReadersRest
<1>7. AheadInv'
  <2>1. /\ Window' = Window /\ N(unit + 1)' = N(unit + 1) /\ (\A j : Item(unit', j) = Item(unit, j))
        /\ Parity(unit)' = p /\ Len(todo) = 0
    BY <1>1 DEF Window, FlowInv, AheadInv
  <2> DEFINE w1 == Tail(w)
             m == reqNext - 1 - N(unit + 1)
  <2>2. w[Len(w)] = Slot(m)
    <3>1. w[Len(w)] = Slot(reqNext - 1 - (N(unit + 1) - Len(todo))) /\ Len(todo) <= N(unit + 1)
      BY <1>1, <1>2, <1>3, <2>1 DEF FlowInv, AheadInv
    <3>2. reqNext - 1 - (N(unit + 1) - Len(todo)) = m
      BY <1>2, <2>1 DEF FlowInv, CardTypes
    <3>3. QED
      BY <3>1, <3>2
  <2>3. Len(w1) = 0 => Flying <= N(unit + 1)
    <3>1. SUFFICES ASSUME Len(w1) = 0 PROVE Flying <= N(unit + 1)
      OBVIOUS
    <3>2. Len(w) = 1 /\ done[Slot(m)]
      <4>1. Len(w) = 1
        BY <1>3, <3>1
      <4>2. QED
        BY <1>1, <1>3, <2>2, <4>1
    <3>3. m \in Int /\ m < reqNext /\ reqNext - 1 - m = N(unit + 1)
      BY <1>2 DEF FlowInv, CardTypes
    <3> HIDE DEF m
    <3>4. Flying <= reqNext - 1 - m
      BY <3>2, <3>3, DoneIsOlder
    <3>5. QED
      BY <3>3, <3>4
  <2>4. Len(w1) # 0 => w1[Len(w1)] = Slot(reqNext - 1 - (N(unit + 1) - Len(todo)))
    <3>1. SUFFICES ASSUME Len(w1) # 0 PROVE w1[Len(w1)] = Slot(reqNext - 1 - (N(unit + 1) - Len(todo)))
      OBVIOUS
    <3>2. w1[Len(w1)] = w[Len(w)]
      <4>1. Len(w1) = Len(w) - 1 /\ Len(w) # 1 /\ Len(w) \in Nat \ {0}
        BY <1>3, <3>1
      <4>2. Len(w) > 1 => w1[Len(w) - 1] = w[Len(w)]
        BY <1>3
      <4> HIDE DEF w1, w
      <4>3. QED
        BY <4>1, <4>2
    <3>3. reqNext - 1 - (N(unit + 1) - Len(todo)) = m
      BY <1>2, <2>1 DEF FlowInv, CardTypes
    <3>4. QED
      BY <2>2, <3>2, <3>3
  <2> HIDE DEF w1, m
  <2>5. awaited'[Parity(unit)'] = w1 /\ awaited'[1 - Parity(unit)'] = awaited[1 - Parity(unit)]
    BY <1>4, <2>1 DEF w1
  <2> HIDE DEF w, p, slot
  <2>6. QED
    BY <1>1, <1>2, <1>6, <2>1, <2>3, <2>4, <2>5 DEF FlowInv, AheadInv, InPass
<1>8. QED
  BY <1>5, <1>6, <1>7 DEF FlowInv

LEMMA rdFlow ==
    ASSUME FlowInv, rd
    PROVE  FlowInv' /\ Oldest' = Oldest
<1> DEFINE q == Head(todo)
           slot == Slot(reqNext)
           p == Parity(q.u)
           k == Len(todo)
           w == awaited[p]
           w1 == (IF q.first THEN <<>> ELSE w) \o (IF q.kept THEN <<slot>> ELSE <<>>)
           M == N(unit + 1)
<1>1. /\ pc = "issue" /\ todo # <<>>
      /\ done' = [done EXCEPT ![slot] = FALSE] /\ reqs' = [reqs EXCEPT ![slot] = q.r]
      /\ rq' = Append(rq, slot)
      /\ awaited' = [awaited EXCEPT ![p] = (IF q.first THEN <<>> ELSE @) \o (IF q.kept THEN <<slot>> ELSE <<>>)]
      /\ reqNext' = reqNext + 1 /\ todo' = Tail(todo)
      /\ UNCHANGED <<pc, unit, mx, sd, bfree, cq, cp>>
  BY DEF rd, readerVars, Slot
<1>2. /\ k \in Nat \ {0} /\ Tail(todo) \in Seq(Queues) /\ Len(Tail(todo)) = k - 1 /\ q = todo[1] /\ q \in Queues
      /\ \A i \in 1..(k - 1) : Tail(todo)[i] = todo[i + 1]
  BY <1>1 DEF FlowInv, CardTypes
<1>3. InPass /\ reqNext \in Nat /\ slot \in Slots /\ k <= Window /\ Flying + k <= Window
  <2>1. InPass
    BY <1>1 DEF InPass
  <2>2. reqNext \in Nat /\ slot \in Slots
    BY SlotInRange DEF FlowInv, CardTypes
  <2>3. Flying + k <= Window
    BY <2>1 DEF FlowInv, AheadInv
  <2>4. Window \in Nat /\ k \in Nat
    BY <1>2, <2>1, ItemIs
  <2> HIDE DEF k
  <2>5. k <= Window
    BY <2>3, <2>4, Numbers DEF FlowInv
  <2>6. QED
    BY <2>1, <2>2, <2>3, <2>5
<1>4. /\ unit \in Nat /\ N(unit) \in 1..8 /\ M \in 0..8 /\ Window = N(unit) + M
      /\ q = Item(unit, Window - k + 1)
      /\ q.u = IF Window - k + 1 <= N(unit) THEN unit ELSE unit + 1
  <2>1. unit \in Nat /\ N(unit) \in 1..8 /\ M \in 0..8 /\ Window = N(unit) + M
    BY <1>3, ItemIs
  <2>2. q = Item(unit, Window - k + 1)
    BY <1>2, <1>3 DEF FlowInv, AheadInv
  <2> DEFINE j == Window - k + 1
  <2>3. j \in 1..Window
    <3>1. k \in Nat \ {0} /\ k <= Window
      BY <1>2, <1>3
    <3> HIDE DEF k, M
    <3>3. Window \in Nat
      BY <2>1
    <3>2. QED
      BY <3>1, <3>3
  <2>4. Item(unit, j).u = IF j <= N(unit) THEN unit ELSE unit + 1
    BY <1>3, <2>3, ItemIs
  <2>5. QED
    BY <2>1, <2>2, <2>4
<1>17. k \in Nat /\ M \in Nat /\ N(unit) \in Nat /\ Window = N(unit) + M /\ reqNext \in Nat /\ reqNext' = reqNext + 1
  <2>1. k \in Nat
    BY <1>2
  <2>2. M \in Nat /\ N(unit) \in Nat /\ Window = N(unit) + M
    <3> HIDE DEF M
    <3>1. QED
      BY <1>4
  <2>3. reqNext \in Nat /\ reqNext' = reqNext + 1
    BY <1>1, <1>3
  <2>4. QED
    BY <2>1, <2>2, <2>3
<1>5. /\ Parity(unit) \in Half /\ Parity(unit + 1) = 1 - Parity(unit) /\ Parity(unit + 1) # Parity(unit)
      /\ Parity(unit + 1) \in Half
  BY <1>4, ParityAlternates
<1>6. /\ k <= M => q.u = unit + 1 /\ p = 1 - Parity(unit) /\ p # Parity(unit)
      /\ k > M => q.u = unit /\ p = Parity(unit)
      /\ p \in Half
  <2> HIDE DEF q, k, M
  <2>1. CASE k <= M
    <3>1. q.u = unit + 1
      <4>1. ~(Window - k + 1 <= N(unit))
        BY <1>17, <2>1
      <4>2. QED
        BY <1>4, <4>1
    <3>2. QED
      BY <1>2, <1>4, <1>5, <2>1, <3>1
  <2>2. CASE k > M
    <3>1. q.u = unit
      <4>1. Window - k + 1 <= N(unit)
        BY <1>17, <2>2
      <4>2. QED
        BY <1>4, <4>1
    <3>2. QED
      BY <1>2, <1>4, <1>5, <2>2, <3>1
  <2>3. QED
    BY <1>2, <1>4, <2>1, <2>2
<1>7. /\ w1 \in Seq(Slots)
      /\ q.kept => Len(w1) > 0 /\ w1[Len(w1)] = slot
  <2> DEFINE a == IF q.first THEN <<>> ELSE w
             b == IF q.kept THEN <<slot>> ELSE <<>>
  <2>1. a \in Seq(Slots) /\ b \in Seq(Slots) /\ (q.kept => Len(b) = 1 /\ b[1] = slot)
    <3>1. <<>> \in Seq(Slots) /\ w \in Seq(Slots)
      BY <1>6, EmptySeq DEF FlowInv, CardTypes
    <3>2. <<slot>> \in Seq(Slots) /\ Len(<<slot>>) = 1 /\ <<slot>>[1] = slot
      BY <1>3
    <3> HIDE DEF slot, w
    <3>3. QED
      BY <3>1, <3>2, Zenon
  <2>2. w1 = a \o b
    OBVIOUS
  <2> HIDE DEF a, b, w1, slot
  <2>3. /\ w1 \in Seq(Slots) /\ Len(w1) = Len(a) + Len(b)
        /\ \A i \in 1..Len(w1) : w1[i] = IF i <= Len(a) THEN a[i] ELSE b[i - Len(a)]
    BY <2>1, <2>2, Joined
  <2>4. Len(a) \in Nat
    BY <2>1
  <2>5. ASSUME q.kept
        PROVE  Len(w1) > 0 /\ w1[Len(w1)] = slot
    <3>1. Len(b) = 1 /\ b[1] = slot /\ Len(w1) = Len(a) + 1
      BY <2>1, <2>3, <2>5
    <3>2. Len(w1) \in 1..Len(w1) /\ ~(Len(w1) <= Len(a)) /\ Len(w1) - Len(a) = 1
      BY <2>4, <3>1
    <3>3. QED
      BY <2>3, <2>4, <3>1, <3>2
  <2>6. QED
    BY <2>3, <2>5
<1>8. /\ awaited' \in [Half -> Seq(Slots)] /\ awaited'[p] = w1
      /\ \A h \in Half : h # p => awaited'[h] = awaited[h]
  <2>1. awaited' = [awaited EXCEPT ![p] = w1]
    BY <1>1
  <2> HIDE DEF p, w1
  <2>2. QED
    BY <1>6, <1>7, <2>1 DEF FlowInv, CardTypes
<1>9. CardTypes'
  <2>1. done' \in [Slots -> BOOLEAN]
    BY <1>1, Zenon DEF FlowInv, CardTypes
  <2>2. q.r \in Reads
    BY <1>2 DEF Queues
  <2>3. reqs' \in [Slots -> Reads \cup {NoRead}]
    <3> HIDE DEF q, slot
    <3>1. QED
      BY <1>1, <2>2 DEF FlowInv, CardTypes
  <2>4. rq' \in Seq(Slots)
    BY <1>1, <1>3 DEF FlowInv, CardTypes
  <2>5. QED
    BY <1>1, <1>2, <1>3, <1>8, <2>1, <2>3, <2>4 DEF FlowInv, CardTypes
<1>10. /\ CpIdle' = CpIdle /\ SdIdle' = SdIdle /\ CpEnds' = CpEnds /\ Ends(1)' = Ends(1) /\ Ends(2)' = Ends(2)
       /\ Copying' = Copying /\ One(~SdIdle)' = One(~SdIdle) /\ Held' = Held
  BY <1>1 DEF CpIdle, SdIdle, CpEnds, Ends, Copying, One, Held
<1>11. /\ Len(rq') = Len(rq) + 1 /\ rq'[Len(rq) + 1] = slot /\ \A i \in 1..Len(rq) : rq'[i] = rq[i]
       /\ Len(rq) \in Nat
  BY <1>1, <1>3 DEF FlowInv, CardTypes
<1>12. Chunked' = Chunked /\ Flying' = Flying + 1 /\ Oldest' = Oldest /\ Oldest + Flying = reqNext
  <2>1. Chunked' = Chunked
    BY <1>10 DEF Chunked
  <2>2. Flying = Chunked + One(~SdIdle) + Len(rq) /\ Flying' = Chunked + One(~SdIdle) + Len(rq')
    BY <1>10, <2>1 DEF Flying
  <2>3. Chunked \in Nat /\ One(~SdIdle) \in Nat
    BY Numbers DEF FlowInv
  <2>4. Flying' = Flying + 1 /\ Flying \in Nat
    BY <1>11, <2>2, <2>3
  <2>5. Oldest = reqNext - Flying /\ Oldest' = reqNext' - Flying'
    BY DEF Oldest
  <2>6. QED
    BY <1>1, <1>3, <2>1, <2>4, <2>5
<1>13. ChunkInv'
  BY <1>1, <1>10 DEF FlowInv, ChunkInv
<1>14. NumberInv'
  <2>1. ASSUME NEW i \in 1..Len(rq')
        PROVE  rq'[i] = Slot(Oldest + Chunked + One(~SdIdle) + i - 1)
    <3>1. CASE i \in 1..Len(rq)
      BY <1>11, <3>1 DEF FlowInv, NumberInv
    <3>2. CASE i = Len(rq) + 1
      <4>1. Oldest + Chunked + One(~SdIdle) + i - 1 = reqNext
        <5>1. Flying = Chunked + One(~SdIdle) + Len(rq) /\ Oldest + Flying = reqNext
          BY <1>12 DEF Flying
        <5>2. Chunked \in Int /\ One(~SdIdle) \in Int /\ Oldest \in Int
          BY Numbers DEF FlowInv
        <5>3. QED
          BY <1>11, <3>2, <5>1, <5>2
      <4>2. rq'[i] = Slot(reqNext)
        BY <1>11, <3>2
      <4>3. QED
        BY <4>1, <4>2
    <3>3. QED
      BY <1>11, <3>1, <3>2
  <2>2. ASSUME NEW n \in Oldest..reqNext
        PROVE  ~done'[Slot(n)]
    <3>1. Slot(n) \in Slots
      BY SlotInRange, Numbers DEF FlowInv, CardTypes
    <3>2. CASE n = reqNext
      BY <1>1, <3>1, <3>2 DEF FlowInv, CardTypes
    <3>3. CASE n # reqNext
      <4>1. n \in Oldest..(reqNext - 1)
        BY <1>3, <3>3, Numbers DEF FlowInv
      <4>2. ~done[Slot(n)]
        BY <4>1 DEF FlowInv, NumberInv
      <4>3. QED
        BY <1>1, <3>1, <4>2 DEF FlowInv, CardTypes
    <3>4. QED
      BY <3>2, <3>3
  <2>3. \A n \in Oldest..(reqNext' - 1) : ~done'[Slot(n)]
    BY <1>1, <1>3, <2>2
  <2>4. QED
    BY <1>1, <1>10, <1>12, <2>1, <2>3 DEF FlowInv, NumberInv
<1>15. AheadInv'
  <2>1. /\ Window' = Window /\ M' = M /\ (\A j : Item(unit', j) = Item(unit, j)) /\ Parity(unit)' = Parity(unit)
        /\ Len(todo') = k - 1 /\ k - 1 \in Nat
    BY <1>1, <1>2 DEF Window
  <2>2. Flying' + Len(todo') <= Window'
    <3>1. Flying \in Nat
      BY Numbers DEF FlowInv
    <3>2. QED
      BY <1>2, <1>3, <1>12, <2>1, <3>1
  <2>3. \A i \in 1..Len(todo') : todo'[i] = Item(unit, Window - (k - 1) + i)
    <3>1. ASSUME NEW i \in 1..(k - 1)
          PROVE  Tail(todo)[i] = Item(unit, Window - (k - 1) + i)
      <4>1. Tail(todo)[i] = todo[i + 1] /\ i + 1 \in 1..k
        BY <1>2
      <4>2. todo[i + 1] = Item(unit, Window - k + (i + 1))
        BY <1>3, <4>1 DEF FlowInv, AheadInv
      <4>3. Window - k + (i + 1) = Window - (k - 1) + i
        BY <1>2, <1>4
      <4>4. QED
        BY <4>1, <4>2, <4>3
    <3>2. QED
      BY <1>1, <2>1, <3>1
  <2>4. ASSUME k - 1 <= M
        PROVE  LET v == awaited'[Parity(unit)] IN Len(v) # 0 /\ v[Len(v)] = Slot(reqNext' - 1 - (M - (k - 1)))
    <3>1. CASE k <= M
      <4>1. awaited'[Parity(unit)] = awaited[Parity(unit)]
        BY <1>5, <1>6, <1>8, <3>1
      <4> DEFINE v == awaited[Parity(unit)]
      <4>2. Len(v) # 0 /\ v[Len(v)] = Slot(reqNext - 1 - (M - k))
        BY <1>1, <3>1 DEF FlowInv, AheadInv
      <4>3. reqNext - 1 - (M - k) = reqNext' - 1 - (M - (k - 1))
        <5> HIDE DEF k, M
        <5>1. QED
          BY <1>17
      <4>4. QED
        BY <4>1, <4>2, <4>3
    <3>2. CASE k > M
      <4>1. k = M + 1
        <5> HIDE DEF k, M
        <5>1. QED
          BY <1>2, <1>4, <2>4, <3>2
      <4>2. q = QWeights(unit) /\ p = Parity(unit)
        <5>1. Window - k + 1 = N(unit)
          <6> HIDE DEF k, M
          <6>1. QED
            BY <1>17, <4>1
        <5>2. Item(unit, N(unit)) = QWeights(unit)
          BY <1>3, ItemIs
        <5>3. QED
          BY <1>4, <1>6, <3>2, <5>1, <5>2
      <4>3. q.kept
        BY <4>2 DEF QWeights, Queue
      <4>4. Len(w1) > 0 /\ w1[Len(w1)] = slot /\ awaited'[Parity(unit)] = w1
        BY <1>7, <1>8, <4>2, <4>3
      <4>5. reqNext' - 1 - (M - (k - 1)) = reqNext
        <5> HIDE DEF k, M
        <5>1. QED
          BY <1>17, <4>1
      <4> HIDE DEF w1
      <4>6. QED
        BY <4>4, <4>5
    <3>3. QED
      BY <1>2, <1>4, <3>1, <3>2
  <2>5. ASSUME k - 1 = 0, unit + 1 < NUnits
        PROVE  LET v == awaited'[1 - Parity(unit)] IN Len(v) > 0 /\ v[Len(v)] = Slot(reqNext' - 1)
    <3>1. k = 1 /\ M > 0 /\ k <= M
      <4>1. M > 0
        BY <1>3, <2>5, ItemIs
      <4> HIDE DEF k, M
      <4>2. QED
        BY <1>2, <1>4, <2>5, <4>1
    <3>2. q = QWeights(unit + 1)
      <4>1. Window - k + 1 = Window
        BY <1>4, <3>1
      <4>2. Item(unit, Window) = QWeights(unit + 1)
        BY <1>3, <2>5, ItemIs
      <4>3. QED
        BY <1>4, <4>1, <4>2
    <3>3. q.kept /\ p = 1 - Parity(unit)
      BY <1>6, <3>1, <3>2 DEF QWeights, Queue
    <3>4. Len(w1) > 0 /\ w1[Len(w1)] = slot /\ awaited'[1 - Parity(unit)] = w1
      BY <1>7, <1>8, <3>3
    <3>5. reqNext' - 1 = reqNext
      BY <1>1, <1>3
    <3> HIDE DEF w1
    <3>6. QED
      BY <3>4, <3>5
  <2>6. pc' = "issue" /\ mx = "pass" /\ mx' = mx /\ unit' < NUnits
    BY <1>1, <1>3 DEF FlowInv, AheadInv
  <2> HIDE DEF M, k
  <2>7. N(unit + 1)' = M
    BY <2>1 DEF M
  <2>8. QED
    BY <2>1, <2>2, <2>3, <2>4, <2>5, <2>6, <2>7, <1>1 DEF AheadInv, InPass
<1>16. QED
  BY <1>9, <1>12, <1>13, <1>14, <1>15 DEF FlowInv

LEMMA ChecksFlow ==
    ASSUME FlowInv, Checks
    PROVE  FlowInv'
<1>1. /\ pc = "wait" /\ awaited[Parity(unit)] = <<>> /\ pc' \in {"abort", "compute"}
      /\ UNCHANGED <<unit, todo, awaited, mx, reqs, done, rq, reqNext, sd, bfree, cq, cp>>
  BY DEF Checks, reqVars, readerVars
<1>2. CardTypes'
  BY <1>1 DEF FlowInv, CardTypes
<1>3. ChunkInv' /\ NumberInv' /\ Flying' = Flying
  BY <1>1, ReadersRest
<1>4. AheadInv'
  <2>1. InPass /\ N(unit + 1) \in Nat /\ Len(todo) = 0
    BY <1>1, ItemIs DEF InPass, FlowInv, AheadInv
  <2>2. Window' = Window /\ N(unit + 1)' = N(unit + 1) /\ \A j : Item(unit', j) = Item(unit, j)
    BY <1>1 DEF Window
  <2>3. Flying <= N(unit + 1)
    <3>1. Len(awaited[Parity(unit)]) = 0 /\ Len(todo) <= N(unit + 1)
      BY <1>1, <2>1
    <3>2. QED
      BY <1>1, <3>1 DEF FlowInv, AheadInv
  <2>4. QED
    BY <1>1, <1>3, <2>1, <2>2, <2>3 DEF FlowInv, AheadInv, InPass
<1>5. QED
  BY <1>2, <1>3, <1>4 DEF FlowInv

\* A pass that ends leaves nothing in flight.
LEMMA PassEndsFlow ==
    ASSUME FlowInv, NEW r, PassEnds(r), pc \in {"compute", "abort"}, Flying = 0, UNCHANGED <<unit, awaited>>,
           done' \in [Slots -> BOOLEAN], \A s \in Slots : done'[s] => done[s]
    PROVE  FlowInv'
<1>1. /\ pc' = "idle" /\ mx' = "free" /\ Len(todo) = 0
      /\ UNCHANGED <<unit, todo, awaited, reqs, rq, reqNext, sd, bfree, cq, cp>>
  BY DEF PassEnds, readerVars, FlowInv, AheadInv
<1>2. CardTypes'
  BY <1>1 DEF FlowInv, CardTypes
<1>3. ChunkInv' /\ NumberInv' /\ Flying' = Flying
  BY <1>1, ReadersRest
<1>4. AheadInv'
  BY <1>1, <1>3 DEF FlowInv, AheadInv, InPass
<1>5. QED
  BY <1>2, <1>3, <1>4 DEF FlowInv

LEMMA AbortsFlow ==
    ASSUME FlowInv, Aborts
    PROVE  FlowInv'
<1> DEFINE next == awaited[1 - Parity(unit)]
<1>1. /\ pc = "abort" /\ PassEnds("bad") /\ UNCHANGED <<unit, awaited>>
      /\ IF unit + 1 < NUnits /\ next # <<>>
         THEN done[Last(next)] /\ done' = [done EXCEPT ![Last(next)] = FALSE] ELSE UNCHANGED done
  BY DEF Aborts
<1>2. /\ InPass /\ Len(todo) = 0 /\ Flying <= N(unit + 1) /\ Flying \in Nat
      /\ (unit + 1 < NUnits <=> N(unit + 1) > 0) /\ N(unit + 1) \in Nat
      /\ Parity(unit) \in Half /\ reqNext \in Nat
  <2>1. InPass /\ Len(todo) = 0 /\ Flying <= N(unit + 1) /\ reqNext \in Nat
    BY <1>1 DEF InPass, FlowInv, AheadInv, CardTypes
  <2>2. unit \in Nat /\ (unit + 1 < NUnits <=> N(unit + 1) > 0) /\ N(unit + 1) \in Nat
    BY <2>1, ItemIs
  <2>3. QED
    BY <2>1, <2>2, Numbers, ParityAlternates DEF FlowInv
<1>3. done' \in [Slots -> BOOLEAN] /\ \A s \in Slots : done'[s] => done[s]
  <2>1. CASE done' = done
    BY <2>1 DEF FlowInv, CardTypes
  <2>2. CASE done' = [done EXCEPT ![Last(next)] = FALSE]
    <3>1. done' \in [Slots -> BOOLEAN]
      BY <2>2, Zenon DEF FlowInv, CardTypes
    <3>2. \A s \in Slots : done'[s] => done[s]
      BY <2>2 DEF FlowInv, CardTypes
    <3>3. QED
      BY <3>1, <3>2
  <2>3. QED
    BY <1>1, <2>1, <2>2
<1>4. Flying = 0
  <2>1. CASE unit + 1 < NUnits
    <3>1. Len(next) > 0 /\ next[Len(next)] = Slot(reqNext - 1)
      BY <1>2, <2>1 DEF FlowInv, AheadInv
    <3>2. next # <<>>
      BY <3>1
    <3>3. done[Slot(reqNext - 1)]
      BY <1>1, <2>1, <3>1, <3>2 DEF Last
    <3> DEFINE n == reqNext - 1
    <3>4. n \in Int /\ n < reqNext /\ done[Slot(n)] /\ reqNext - 1 - n = 0
      BY <1>2, <3>3
    <3> HIDE DEF n
    <3>5. Flying <= reqNext - 1 - n
      BY <3>4, DoneIsOlder
    <3>6. QED
      BY <1>2, <3>4, <3>5
  <2>2. CASE ~(unit + 1 < NUnits)
    BY <1>2, <2>2
  <2>3. QED
    BY <2>1, <2>2
<1>5. QED
  BY <1>1, <1>3, <1>4, PassEndsFlow

LEMMA EmbeddedFlow ==
    ASSUME FlowInv, Embedded
    PROVE  FlowInv'
<1>1. pc = "compute" /\ unit + 1 = NUnits /\ UNCHANGED <<unit, awaited, done>> /\ \E r : PassEnds(r)
  BY DEF Embedded
<1>2. Flying = 0
  <2>1. InPass /\ Flying <= N(unit + 1) /\ Flying \in Nat
    BY <1>1, Numbers DEF InPass, FlowInv, AheadInv
  <2>2. N(unit + 1) = 0
    BY <1>1, <2>1, UnitInPlan, PlanRanks DEF N
  <2>3. QED
    BY <2>1, <2>2
<1>3. done' \in [Slots -> BOOLEAN] /\ \A s \in Slots : done'[s] => done[s]
  BY <1>1 DEF FlowInv, CardTypes
<1>4. QED
  BY <1>1, <1>2, <1>3, PassEndsFlow

LEMMA ComputesUnitFlow ==
    ASSUME FlowInv, ComputesUnit
    PROVE  FlowInv'
<1> DEFINE M == N(unit + 1)
           K == N(unit + 2)
<1>1. /\ pc = "compute" /\ pc' = "issue" /\ unit + 1 < NUnits /\ unit' = unit + 1 /\ todo' = IssueIfAny(unit + 2)
      /\ UNCHANGED <<awaited, mx, reqs, done, rq, reqNext, sd, bfree, cq, cp>>
  BY DEF ComputesUnit, reqVars, readerVars
<1>2. InPass /\ unit \in Nat /\ unit + 1 \in 0..(NUnits - 1) /\ (unit + 1) + 1 = unit + 2 /\ NUnits \in Nat
  BY <1>1, UnitInPlan, PlanRanks DEF InPass
<1>3. /\ todo' \in Seq(Queues) /\ Len(todo') = K /\ M \in 1..8 /\ K \in 0..8 /\ (K = 0 <=> unit + 2 >= NUnits)
  BY <1>1, <1>2, IssueFits
<1>4. CardTypes'
  BY <1>1, <1>2, <1>3 DEF FlowInv, CardTypes
<1>5. ChunkInv' /\ NumberInv' /\ Flying' = Flying
  BY <1>1, ReadersRest
<1>6. AheadInv'
  <2>1. Window' = M + K /\ N(unit + 1)' = K /\ Flying <= M /\ Flying \in Nat /\ Len(todo) = 0
    BY <1>1, <1>2, Numbers DEF Window, FlowInv, AheadInv
  <2>2. Flying' + Len(todo') <= Window'
    BY <1>3, <1>5, <2>1
  <2>3. ASSUME NEW i \in 1..Len(todo')
        PROVE  todo'[i] = Item(unit', Window' - Len(todo') + i)
    <3>1. K > 0 /\ todo' = issue(unit + 2)
      <4>1. K > 0
        BY <1>3, <2>3
      <4>2. unit + 2 < NUnits
        BY <1>2, <1>3, <4>1
      <4>3. QED
        BY <1>1, <4>1, <4>2 DEF IssueIfAny
    <3>2. Window' - Len(todo') + i = M + i /\ ~(M + i <= M) /\ (M + i) - M = i
      <4>1. M \in Nat /\ K \in Nat /\ Window' = M + K /\ Len(todo') = K /\ i \in Int /\ i >= 1
        BY <1>3, <2>1, <2>3
      <4> HIDE DEF M, K
      <4>2. QED
        BY <4>1
    <3>3. Item(unit + 1, M + i) = issue((unit + 1) + 1)[(M + i) - M]
      BY <3>2 DEF Item
    <3>4. QED
      BY <1>1, <1>2, <3>1, <3>2, <3>3
  <2>4. /\ Parity(unit)' = 1 - Parity(unit)
        /\ LET v == awaited'[1 - Parity(unit)] IN Len(v) # 0 /\ v[Len(v)] = Slot(reqNext' - 1 - (K - Len(todo')))
    <3> DEFINE v == awaited[1 - Parity(unit)]
    <3>1. Parity(unit)' = 1 - Parity(unit)
      BY <1>1, <1>2, ParityAlternates
    <3>2. Len(v) > 0 /\ v[Len(v)] = Slot(reqNext - 1)
      BY <1>1, <1>2, <2>1 DEF FlowInv, AheadInv
    <3>3. Len(v) # 0
      BY <3>2
    <3>4. reqNext' - 1 - (K - Len(todo')) = reqNext - 1
      BY <1>1, <1>3 DEF FlowInv, CardTypes
    <3>5. QED
      BY <1>1, <3>1, <3>2, <3>3, <3>4
  <2>5. Len(todo') = 0 => ~(unit' + 1 < NUnits)
    BY <1>1, <1>2, <1>3
  <2>6. unit' < NUnits /\ mx' = "pass" /\ pc' = "issue"
    BY <1>1, <1>2 DEF FlowInv, AheadInv
  <2> HIDE DEF M, K
  <2>7. QED
    BY <2>1, <2>2, <2>3, <2>4, <2>5, <2>6 DEF AheadInv, InPass
<1>7. QED
  BY <1>4, <1>5, <1>6 DEF FlowInv

\* What only changes who has the buffers.
LEMMA LendFlow ==
    ASSUME FlowInv, UNCHANGED <<passVars, reqVars, readerVars>>, mx # "pass", mx' \in {"free", "update"}
    PROVE  FlowInv'
<1>1. UNCHANGED <<pc, unit, todo, awaited, reqs, done, rq, reqNext, sd, bfree, cq, cp>>
  BY DEF passVars, reqVars, readerVars
<1>2. CardTypes'
  BY <1>1 DEF FlowInv, CardTypes
<1>3. ChunkInv' /\ NumberInv' /\ Flying' = Flying
  BY <1>1, ReadersRest
<1>4. AheadInv'
  BY <1>1, <1>3 DEF FlowInv, AheadInv, InPass
<1>5. QED
  BY <1>2, <1>3, <1>4 DEF FlowInv

LEMMA InitFlow ==
    ASSUME Init
    PROVE  FlowInv
<1>2. CardTypes
  <2>1. todo \in Seq(Queues) /\ rq \in Seq(Slots) /\ cq \in Seq(Tasks) /\ awaited \in [Half -> Seq(Slots)]
    BY EmptySeq, Zenon DEF Init
  <2>2. reqs \in [Slots -> Reads \cup {NoRead}] /\ done \in [Slots -> BOOLEAN] /\ bfree \in [Half -> BOOLEAN]
    BY DEF Init
  <2>3. NREQ \in 0..NREQ /\ 0 \in Nat /\ 0 \in Half /\ <<>> \in Buffers \cup {<<>>}
    BY CardAssumption DEF Half
  <2>4. sd \in [slot : 0..NREQ, r : Reads \cup {NoRead}, k : Nat, bi : Half]
    BY <2>3 DEF Init
  <2>5. cp \in Tasks
    BY <2>3, Zenon DEF Init, NoTask, Tasks
  <2>6. QED
    BY <2>1, <2>2, <2>4, <2>5 DEF Init, CardTypes
<1>3. /\ CpIdle /\ SdIdle /\ ~Copying /\ Len(cq) = 0 /\ Len(rq) = 0 /\ CpEnds = 0 /\ One(~SdIdle) = 0 /\ One(Copying) = 0
      /\ ~cp.last /\ ~cp.copied /\ sd.bi = 0
  <2>1. cp.slot = NREQ /\ sd.slot = NREQ /\ ~cp.last /\ ~cp.copied /\ sd.bi = 0
    BY DEF Init, NoTask
  <2>2. QED
    BY <2>1 DEF Init, CpIdle, SdIdle, Copying, CpEnds, One
<1>4. Ends(1) = 0 /\ Ends(2) = 0
  BY <1>3 DEF Ends, One
<1>5. Chunked = 0 /\ Flying = 0 /\ Oldest = 0 /\ Held = 0
  BY <1>3, <1>4 DEF Chunked, Flying, Oldest, Held, Init
<1>6. ChunkInv
  <2>1. bfree[0] /\ bfree[1] /\ 1 - 0 = 1
    BY DEF Init, Half
  <2>2. QED
    BY <1>3, <1>5, <2>1 DEF ChunkInv
<1>7. NumberInv
  <2>1. reqNext = 0
    BY DEF Init
  <2>2. QED
    BY <1>3, <1>5, <2>1 DEF NumberInv
<1>8. AheadInv
  BY <1>5 DEF Init, AheadInv, InPass
<1>9. QED
  BY <1>2, <1>6, <1>7, <1>8 DEF FlowInv

LEMMA NextFlow == FlowInv /\ [Next]_vars => FlowInv'
<1>1. SUFFICES ASSUME FlowInv, [Next]_vars PROVE FlowInv'
  OBVIOUS
<1>2. CASE Pass
  <2>1. CASE PassBegins
    BY <1>1, <2>1, PassBeginsFlow
  <2>2. CASE Embeds
    BY <1>1, <2>2, EmbedsFlow
  <2>3. CASE rd
    BY <1>1, <2>3, rdFlow
  <2>4. CASE Issued
    BY <1>1, <2>4, IssuedFlow
  <2>5. CASE wait_rd
    BY <1>1, <2>5, wait_rdFlow
  <2>6. CASE Checks
    BY <1>1, <2>6, ChecksFlow
  <2>7. CASE Aborts
    BY <1>1, <2>7, AbortsFlow
  <2>8. CASE ComputesUnit
    BY <1>1, <2>8, ComputesUnitFlow
  <2>9. CASE Embedded
    BY <1>1, <2>9, EmbeddedFlow
  <2>10. QED
    BY <1>2, <2>1, <2>2, <2>3, <2>4, <2>5, <2>6, <2>7, <2>8, <2>9 DEF Pass
<1>3. CASE sd_task
  BY <1>1, <1>3, SdTakesFlow, SdReadsFlow DEF sd_task
<1>4. CASE cp_task
  BY <1>1, <1>4, CpTakesFlow, CpCopiesFlow, CpCompletesFlow DEF cp_task
<1>5. CASE model_lend
  BY <1>1, <1>5, LendFlow DEF model_lend
<1>6. CASE model_reclaim
  BY <1>1, <1>6, LendFlow DEF model_reclaim
<1>7. CASE UNCHANGED vars
  <2>1. CASE mx = "pass"
    <3>1. UNCHANGED <<pc, unit, todo, awaited, mx, reqs, done, rq, reqNext, sd, bfree, cq, cp>>
      BY <1>7 DEF vars, passVars, reqVars, readerVars
    <3>2. CardTypes'
      BY <1>1, <3>1 DEF FlowInv, CardTypes
    <3>3. ChunkInv' /\ NumberInv' /\ Flying' = Flying
      BY <1>1, <3>1, ReadersRest
    <3>4. Flying' <= Flying
      BY <1>1, <3>3, Numbers DEF FlowInv
    <3>5. AheadInv'
      BY <1>1, <3>1, <3>2, <3>4, <1>7, PassRests DEF vars
    <3>6. QED
      BY <3>2, <3>3, <3>5 DEF FlowInv
  <2>2. CASE mx # "pass"
    BY <1>1, <1>7, <2>2, LendFlow DEF vars, FlowInv, AheadInv
  <2>3. QED
    BY <2>1, <2>2
<1>8. QED
  BY <1>1, <1>2, <1>3, <1>4, <1>5, <1>6, <1>7 DEF Next

\* The invariant of the reads in flight holds of the pass, sd_task and cp_task together.
THEOREM Flows == Spec => []FlowInv
<1>1. QED
  BY InitFlow, NextFlow, PTL DEF Spec

-----------------------------------------------------------------------------
(* What follows.                                                           *)

\* As long as something is on its way to cp, something flies that ends behind it.
LEMMA SomethingEnds ==
    ASSUME FlowInv
    PROVE  /\ ~CpIdle /\ Len(cq) = 0 => CpEnds + One(~SdIdle) >= 1
           /\ Len(cq) = 1 => Ends(1) + One(~SdIdle) >= 1
           /\ Len(cq) = 2 => Ends(2) + One(~SdIdle) >= 1
<1>1. CASE ~SdIdle
  <2>1. One(~SdIdle) = 1
    BY <1>1 DEF One
  <2>2. QED
    BY <2>1, Numbers DEF FlowInv
<1>2. CASE SdIdle
  <2>1. IF Len(cq) = 0 THEN CpIdle \/ cp.last ELSE cq[Len(cq)].last
    BY <1>2 DEF FlowInv, ChunkInv
  <2>2. ~CpIdle /\ Len(cq) = 0 => CpEnds = 1
    BY <2>1 DEF CpEnds, One
  <2>3. Len(cq) = 1 => Ends(1) = 1
    BY <2>1 DEF Ends, One
  <2>4. Len(cq) = 2 => Ends(2) = 1
    BY <2>1 DEF Ends, One
  <2>5. One(~SdIdle) = 0
    BY <1>2 DEF One
  <2>6. QED
    BY <2>2, <2>3, <2>4, <2>5
<1>3. QED
  BY <1>1, <1>2

LEMMA NothingFlies ==
    ASSUME FlowInv, Flying = 0
    PROVE  ReaderIdle
<1> DEFINE e == CpEnds
           e1 == Ends(1)
           e2 == Ends(2)
           s == One(~SdIdle)
           l == Len(rq)
<1>1. /\ e \in {0, 1} /\ e1 \in {0, 1} /\ e2 \in {0, 1} /\ s \in {0, 1} /\ l \in Nat
      /\ e + e1 + e2 + s + l = 0
  BY Numbers DEF FlowInv, Flying, Chunked
<1>2. e = 0 /\ e1 = 0 /\ e2 = 0 /\ s = 0 /\ l = 0
  <2> HIDE DEF e, e1, e2, s, l
  <2>1. QED
    BY <1>1
<1>3. Len(cq) # 1 /\ Len(cq) # 2 /\ (Len(cq) = 0 => CpIdle)
  BY <1>2, SomethingEnds
<1>4. Len(cq) = 0 /\ CpIdle
  BY <1>3, QueueShort
<1>5. SdIdle
  BY <1>2 DEF One
<1>6. rq = <<>> /\ cq = <<>>
  BY <1>2, <1>4 DEF FlowInv, CardTypes
<1>7. QED
  BY <1>4, <1>5, <1>6 DEF ReaderIdle

LEMMA FlowKeepsSlots ==
    ASSUME FlowInv
    PROVE  SlotsAreFree
<1> DEFINE slot == Slot(reqNext)
<1>1. SUFFICES ASSUME pc = "issue", todo # <<>>
               PROVE  /\ \A n \in 1..Len(rq) : rq[n] # slot
                      /\ sd.slot # slot /\ cp.slot # slot
                      /\ \A n \in 1..Len(cq) : cq[n].slot # slot
  BY DEF SlotsAreFree, Slot
<1>2. /\ Flying \in Nat /\ Flying < NREQ /\ NREQ \in Nat /\ reqNext \in Nat /\ Oldest + Flying = reqNext
      /\ Oldest \in Int
  <2> DEFINE k == Len(todo)
  <2>1. InPass /\ k \in Nat \ {0} /\ reqNext \in Nat
    BY <1>1 DEF InPass, FlowInv, CardTypes
  <2>2. Flying + k <= Window
    BY <2>1 DEF FlowInv, AheadInv
  <2>3. Window <= NREQ /\ Window \in Nat
    BY <2>1, ItemIs
  <2>4. Flying \in Nat /\ NREQ \in Nat /\ Oldest \in Int
    BY Numbers DEF FlowInv
  <2>5. Oldest = reqNext - Flying
    BY DEF Oldest
  <2> HIDE DEF k
  <2>6. QED
    BY <2>1, <2>2, <2>3, <2>4, <2>5
<1>3. ASSUME NEW d \in Nat, d < Flying
      PROVE  Slot(Oldest + d) # slot
  <2> DEFINE a == Oldest + d
  <2>1. a \in Int /\ a < reqNext /\ reqNext < a + NREQ
    BY <1>2, <1>3
  <2> HIDE DEF a
  <2>2. Slot(a) # Slot(reqNext)
    BY <1>2, <2>1, SlotsDiffer
  <2>3. QED
    BY <2>2 DEF a
<1>4. slot \in Slots /\ NREQ \notin Slots
  BY <1>2, SlotInRange, Numbers DEF FlowInv
<1> HIDE DEF slot
<1> DEFINE c == Chunked
           s == One(~SdIdle)
           e == CpEnds
           e1 == Ends(1)
           e2 == Ends(2)
           l == Len(rq)
<1>5. /\ e \in {0, 1} /\ e1 \in {0, 1} /\ e2 \in {0, 1} /\ s \in {0, 1} /\ c = e + e1 + e2
      /\ Flying = c + s + l /\ l \in Nat
  BY Numbers DEF FlowInv, Chunked, Flying
<1>6. \A n \in 1..Len(rq) : rq[n] # slot
  <2>1. SUFFICES ASSUME NEW n \in 1..Len(rq) PROVE rq[n] # slot
    OBVIOUS
  <2> DEFINE d == c + s + n - 1
  <2>2. rq[n] = Slot(Oldest + c + s + n - 1)
    BY DEF FlowInv, NumberInv
  <2>3. n \in 1..l
    BY <2>1
  <2> HIDE DEF c, s, e, e1, e2, l
  <2>4. d \in Nat /\ d < Flying /\ Oldest + c + s + n - 1 = Oldest + d
    BY <1>2, <1>5, <2>3
  <2> HIDE DEF d
  <2>5. QED
    BY <1>3, <2>2, <2>4
<1>7. sd.slot # slot
  <2>1. CASE SdIdle
    BY <1>4, <2>1 DEF SdIdle
  <2>2. CASE ~SdIdle
    <3>1. sd.slot = Slot(Oldest + c) /\ s = 1
      BY <2>2 DEF FlowInv, NumberInv, One
    <3> HIDE DEF c, s, e, e1, e2, l
    <3>2. c \in Nat /\ c < Flying
      BY <1>2, <1>5, <3>1
    <3>3. QED
      BY <1>3, <3>1, <3>2
  <2>3. QED
    BY <2>1, <2>2
<1>8. cp.slot # slot
  <2>1. CASE CpIdle
    BY <1>4, <2>1 DEF CpIdle
  <2>2. CASE ~CpIdle
    <3>1. cp.slot = Slot(Oldest) /\ Oldest + 0 = Oldest
      BY <1>2, <2>2 DEF FlowInv, NumberInv
    <3>2. Flying # 0
      BY <2>2, NothingFlies DEF ReaderIdle
    <3>3. 0 \in Nat /\ 0 < Flying
      BY <1>2, <3>2
    <3>4. QED
      BY <1>3, <3>1, <3>3
  <2>3. QED
    BY <2>1, <2>2
<1>9. \A n \in 1..Len(cq) : cq[n].slot # slot
  <2>1. ASSUME Len(cq) = 1 \/ Len(cq) = 2
        PROVE  cq[1].slot # slot
    <3>1. cq[1].slot = Slot(Oldest + e)
      BY <2>1 DEF FlowInv, NumberInv
    <3>2. e1 + e2 + s >= 1
      <4>1. e1 + s >= 1 \/ e2 + s >= 1
        BY <2>1, SomethingEnds
      <4> HIDE DEF s, e1, e2
      <4>2. QED
        BY <1>5, <4>1
    <3> HIDE DEF c, s, e, e1, e2, l
    <3>3. e \in Nat /\ e < Flying
      BY <1>2, <1>5, <3>2
    <3>4. QED
      BY <1>3, <3>1, <3>3
  <2>2. ASSUME Len(cq) = 2
        PROVE  cq[2].slot # slot
    <3> DEFINE d == e + e1
    <3>1. cq[2].slot = Slot(Oldest + e + e1) /\ e2 + s >= 1
      BY <2>2, SomethingEnds DEF FlowInv, NumberInv
    <3> HIDE DEF c, s, e, e1, e2, l
    <3>2. d \in Nat /\ d < Flying /\ Oldest + e + e1 = Oldest + d
      BY <1>2, <1>5, <3>1
    <3> HIDE DEF d
    <3>3. QED
      BY <1>3, <3>1, <3>2
  <2>3. QED
    <3>1. CASE Len(cq) = 0
      BY <3>1
    <3>2. CASE Len(cq) = 1
      BY <2>1, <3>2
    <3>3. CASE Len(cq) = 2
      BY <2>1, <2>2, <3>3
    <3>4. QED
      BY <3>1, <3>2, <3>3, QueueShort
<1>10. QED
  BY <1>6, <1>7, <1>8, <1>9

\* A slot that rd takes (full.c:210, the next of NREQ without asking) belongs to no request that sd
\* or cp still has to look at.
THEOREM SlotsStayFree == Spec => []SlotsAreFree
<1>1. FlowInv => SlotsAreFree
  BY FlowKeepsSlots
<1>2. QED
  BY <1>1, Flows, PTL

\* When a pass ends, and while an update has the buffers (model_lend, full.c:463), the reader's tasks
\* and queues are empty, whether the pass ended well or was given up for a CRC (full.c:327).
THEOREM IdleWhenLent == Spec => []IdleBetweenPasses
<1>1. FlowInv => IdleBetweenPasses
  <2>1. SUFFICES ASSUME FlowInv, pc \in {"idle", "embed"} \/ mx = "update"
                 PROVE  ReaderIdle
    BY DEF IdleBetweenPasses
  <2>2. Flying = 0
    BY <2>1 DEF FlowInv, AheadInv, InPass
  <2>3. QED
    BY <2>1, <2>2, NothingFlies
<1>2. QED
  BY <1>1, Flows, PTL

-----------------------------------------------------------------------------
(* What is in memory.                                                      *)

\* The window's reads that have been asked for, and their numbers.
Asked == Window - Len(todo)
First == reqNext - Asked
Num(j) == First + j - 1

\* The chunk that lands next: of which request, and which of its chunks.
NextN == Oldest + (IF Copying THEN 0 ELSE CpEnds)
NextK == IF Copying THEN cp.k
         ELSE IF Len(cq) # 0 THEN cq[1].k
         ELSE IF ~SdIdle THEN sd.k ELSE 1
Landed(n, k) == n < NextN \/ (n = NextN /\ k < NextK)

Chunks == [sec : Sections \cup {<<>>, <<"embedding">>}, k : Nat, ok : BOOLEAN]
DataTypes ==
    /\ buf \in [Buffers -> [1..BlockChunks -> Chunks]]
    /\ bounce \in [Half -> Chunks] /\ acc \in [Accs -> Seq(Chunks)]
    /\ crcBad \in Nat /\ crc0 \in Nat /\ tainted \in BOOLEAN

\* A chunk on its way knows its place, and its bounce buffer holds it.
Fits(a) ==
    LET r == reqs[a.slot]
    IN  a.dst = r.dst /\ a.k \in 1..r.chunks /\ (a.first <=> a.k = 1) /\ (a.last <=> a.k = r.chunks)
Carries(a) == bounce[a.bi].sec = reqs[a.slot].sec /\ bounce[a.bi].k = a.k
NextOf(a) == IF a.last THEN 1 ELSE a.k + 1

\* Chunks are on their way in the order of the card's.
PipeInv ==
    /\ \A i \in 1..Len(cq) : Fits(cq[i]) /\ Carries(cq[i])
    /\ ~CpIdle => Fits(cp)
    /\ Copying => Carries(cp)
    /\ ~SdIdle => sd.r = reqs[sd.slot] /\ sd.k \in 1..sd.r.chunks
    /\ Copying /\ Len(cq) # 0 => cq[1].k = NextOf(cp)
    /\ Len(cq) = 2 => cq[2].k = NextOf(cq[1])
    /\ ~SdIdle /\ Len(cq) # 0 => sd.k = NextOf(cq[Len(cq)])
    /\ ~SdIdle /\ Len(cq) = 0 /\ Copying => sd.k = NextOf(cp)

\* A slot keeps its request as long as it is in flight.
ReqsInv ==
    InPass => \A j \in 1..Asked : Num(j) >= Oldest => reqs[Slot(Num(j))] = Item(unit, j).r

Holds(d, sec, k) == buf[d][k].sec = sec /\ buf[d][k].k = k
\* The sections unit u needs that its own reads do not bring: its matrix's, its layer's.
Past(u) ==
    (IF Block(u) # 0
     THEN {<<<<kind, MatrixParity(u)>>, <<kind, Layer(u), Matrix(u)>>>> : kind \in {"ws", "b", "wo"}} ELSE {})
    \cup (IF ~Opens(u)
          THEN {<<<<"nrm", Layer(u) % 2, i>>, <<"norm", Layer(u), i>>>> : i \in 1..4} ELSE {})

\* What has landed is where the pass will look for it.
LandInv ==
    InPass =>
      /\ \A j \in 1..Asked : LET r == Item(unit, j).r IN
           \A k \in 1..r.chunks : Landed(Num(j), k) => Holds(r.dst, r.sec, k)
      /\ \A p \in Past(unit) : Holds(p[1], p[2], 1)

Bad == crcBad # crc0
Own == <<"own">>
Spoiled(a) == \E i \in 1..Len(acc[a]) : ~acc[a][i].ok
MatrixAcc(u) == <<"wq", MatrixParity(u)>>

\* Until a mismatch is counted, what has been checked is intact, and a corrupt block of weights
\* shows in a CRC that is still to be checked.
Checked(r, n) ==
    IF r.acc = Own THEN n < Oldest => buf[r.dst][1].ok
    ELSE /\ \A k \in 1..r.chunks : Landed(n, k) /\ ~buf[r.dst][k].ok => Spoiled(r.acc)
         /\ r.verify /\ n < Oldest => ~Spoiled(r.acc)
PassSound ==
    InPass /\ ~Bad =>
      /\ \A p \in Past(unit) : buf[p[1]][1].ok
      /\ \A j \in 1..Asked : Checked(Item(unit, j).r, Num(j))
      /\ tainted => Spoiled(MatrixAcc(unit)) /\ (Block(unit) # 0 \/ pc = "compute")

ResultInv ==
    /\ pc # "idle" => crcBad >= crc0 /\ result = "none"
    /\ cp.copied /\ reqs[cp.slot].acc = Own => acc[Own] = <<buf[cp.dst][1]>>
    /\ pc = "embed" => ~tainted
    /\ result = "good" => ~tainted

DataInv == DataTypes /\ PipeInv /\ ReqsInv /\ LandInv /\ PassSound /\ ResultInv

-----------------------------------------------------------------------------
(* Where a unit's reads go.                                                *)

LEMMA NextUnit ==
    ASSUME NEW u \in 0..(NUnits - 1), u + 1 < NUnits
    PROVE  /\ Block(u + 1) # 0 => /\ Layer(u + 1) = Layer(u) /\ Matrix(u + 1) = Matrix(u) /\ ~LastBlock(u)
                                  /\ MatrixParity(u + 1) = MatrixParity(u) /\ ~Opens(u + 1)
           /\ Block(u + 1) = 0 => LastBlock(u) /\ MatrixParity(u + 1) # MatrixParity(u)
           /\ Opens(u + 1) => ~Opens(u) /\ Layer(u + 1) % 2 # Layer(u) % 2
           /\ ~Opens(u + 1) => Layer(u + 1) = Layer(u)
           /\ u + 1 \in 0..(NUnits - 1)
<1> DEFINE v == u + 1
           b == Blocks[Matrix(u)]
           x == Layer(u) * 6 + Matrix(u)
           y == Layer(v) * 6 + Matrix(v)
<1>1. v \in 0..(NUnits - 1) /\ u \in Nat /\ u < NUnits
  BY UnitIs
<1>2. /\ Layer(u) \in Nat /\ Matrix(u) \in 0..5 /\ Block(u) \in Nat /\ b \in Nat \ {0} /\ Block(u) <= b - 1
      /\ Layer(v) \in Nat /\ Matrix(v) \in 0..5 /\ Block(v) \in Nat
  <2> HIDE DEF v
  <2>1. QED
    BY <1>1, UnitIs DEF Matrices
<1>3. <<Layer(v), Matrix(v), Block(v)>> = After(Layer(u), Matrix(u), Block(u))
  <2>1. plan[u + 2] = After(Layer(u), Matrix(u), Block(u))
    BY <1>1, PlanGoesOn
  <2>2. plan[v + 1] \in UnitSet /\ v + 1 = u + 2
    BY <1>1, PlanRanks
  <2>3. QED
    BY <2>1, <2>2, InUnitSet DEF Layer, Matrix, Block
<1> HIDE DEF v
<1>4. /\ MatrixParity(u) = x % 2 /\ MatrixParity(v) = y % 2
      /\ LastBlock(u) <=> Block(u) = b - 1
  BY DEF MatrixParity, LastBlock
<1> HIDE DEF b
<1>5. CASE Block(u) < b - 1
  <2>1. Layer(v) = Layer(u) /\ Matrix(v) = Matrix(u) /\ Block(v) = Block(u) + 1
    BY <1>2, <1>3, <1>5 DEF After, b
  <2>2. Block(v) # 0 /\ ~LastBlock(u) /\ MatrixParity(v) = MatrixParity(u) /\ ~Opens(v)
    BY <1>2, <1>4, <1>5, <2>1 DEF Opens
  <2>3. QED
    BY <1>1, <2>1, <2>2 DEF v
<1>6. CASE Block(u) = b - 1 /\ Matrix(u) < 5
  <2>1. Layer(v) = Layer(u) /\ Matrix(v) = Matrix(u) + 1 /\ Block(v) = 0
    BY <1>2, <1>3, <1>6 DEF After, b
  <2>2. x \in Nat /\ y = x + 1
    BY <1>2, <2>1
  <2>3. Block(v) = 0 /\ LastBlock(u) /\ ~Opens(v)
    BY <1>2, <1>4, <1>6, <2>1 DEF Opens
  <2>4. MatrixParity(v) # MatrixParity(u)
    <3> HIDE DEF x, y
    <3>1. QED
      BY <1>4, <2>2
  <2>5. QED
    BY <1>1, <2>1, <2>3, <2>4 DEF v
<1>7. CASE Block(u) = b - 1 /\ Matrix(u) = 5
  <2>1. Layer(v) = Layer(u) + 1 /\ Matrix(v) = 0 /\ Block(v) = 0
    BY <1>2, <1>3, <1>7 DEF After, b
  <2>2. x \in Nat /\ y = x + 1
    BY <1>2, <1>7, <2>1
  <2>3. LastBlock(u) /\ Opens(v) /\ ~Opens(u)
    BY <1>2, <1>4, <1>7, <2>1 DEF Opens
  <2>4. MatrixParity(v) # MatrixParity(u)
    <3> HIDE DEF x, y
    <3>1. QED
      BY <1>4, <2>2
  <2>5. Layer(v) % 2 # Layer(u) % 2
    BY <1>2, <2>1
  <2>6. QED
    BY <1>1, <2>1, <2>3, <2>4, <2>5 DEF v
<1>8. QED
  BY <1>2, <1>5, <1>6, <1>7

LEMMA LastUnit ==
    ASSUME NEW u \in 0..(NUnits - 1), ~(u + 1 < NUnits)
    PROVE  LastBlock(u)
<1>1. SUFFICES ASSUME ~LastBlock(u) PROVE FALSE
  OBVIOUS
<1> DEFINE l == Layer(u)
           m == Matrix(u)
           b == Block(u)
           n == Blocks[m]
<1>2. l \in 0..(Layers - 1) /\ m \in Matrices /\ b \in Nat /\ n \in Nat \ {0} /\ b < n - 1 /\ Layers \in Nat
  <2>1. m \in Matrices /\ b \in Nat /\ n \in Nat \ {0} /\ b <= n - 1
    BY UnitIs
  <2>2. l \in 0..(Layers - 1)
    BY PlanRanks, InUnitSet DEF Layer
  <2>3. b # n - 1
    BY <1>1 DEF LastBlock
  <2> HIDE DEF l, m, b, n
  <2>4. b < n - 1
    BY <2>1, <2>3
  <2>5. QED
    BY <2>1, <2>2, <2>4, CardAssumption
<1>3. After(l, m, b) = <<l, m, b + 1>>
  BY <1>2 DEF After
<1>4. After(l, m, b) \notin UnitSet
  BY PlanGoesOn, UnitIs
<1>5. b + 1 \in 0..(n - 1)
  <2> HIDE DEF b, n
  <2>1. QED
    BY <1>2
<1>6. <<l, m, b + 1>> \in UnitSet
  BY <1>2, <1>5, InUnitSet
<1>7. QED
  BY <1>3, <1>4, <1>6

\* The i-th read of unit u.
LEMMA IssueReads ==
    ASSUME NEW u \in 0..(NUnits - 1), NEW i \in 1..Len(issue(u))
    PROVE  LET r == issue(u)[i].r
               n == Len(issue(u))
           IN  \/ i = n /\ r = Weights(u)
               \/ i = n - 1 /\ Block(u) = 0 /\ r = Small(u, "wo")
               \/ i = n - 2 /\ Block(u) = 0 /\ r = Small(u, "b")
               \/ i = n - 3 /\ Block(u) = 0 /\ r = Small(u, "ws")
               \/ i \in 1..4 /\ n = 8 /\ Opens(u) /\ r = Norms(u)[i]
<1> DEFINE n == Len(issue(u))
<1>1. /\ n = IF Opens(u) THEN 8 ELSE IF Block(u) = 0 THEN 4 ELSE 1
      /\ issue(u)[n] = QWeights(u)
      /\ Block(u) = 0 => issue(u)[n - 3] = QWs(u) /\ issue(u)[n - 2] = QB(u) /\ issue(u)[n - 1] = QWo(u)
      /\ Opens(u) => \A k \in 1..4 : issue(u)[k] = QNorm(u, k)
  BY IssueParts
<1>2. /\ QWeights(u).r = Weights(u) /\ QWs(u).r = Small(u, "ws") /\ QB(u).r = Small(u, "b")
      /\ QWo(u).r = Small(u, "wo") /\ \A k : QNorm(u, k).r = Norms(u)[k]
  BY DEF QWeights, QWs, QB, QWo, QNorm, Queue
<1>3. i \in 1..n
  OBVIOUS
<1> HIDE DEF n
<1>4. CASE Opens(u)
  <2>1. n = 8 /\ Block(u) = 0
    BY <1>1, <1>4 DEF Opens
  <2>2. i \in 1..4 \/ i = n - 3 \/ i = n - 2 \/ i = n - 1 \/ i = n
    BY <1>3, <2>1
  <2>3. QED
    BY <1>1, <1>2, <1>4, <2>1, <2>2 DEF n
<1>5. CASE ~Opens(u) /\ Block(u) = 0
  <2>1. n = 4
    BY <1>1, <1>5
  <2>2. i = n - 3 \/ i = n - 2 \/ i = n - 1 \/ i = n
    BY <1>3, <2>1
  <2>3. QED
    BY <1>1, <1>2, <1>5, <2>2 DEF n
<1>6. CASE Block(u) # 0
  <2>1. n = 1 /\ i = n
    BY <1>1, <1>3, <1>6 DEF Opens
  <2>2. QED
    BY <1>1, <1>2, <2>1 DEF n
<1>7. QED
  BY <1>4, <1>5, <1>6

\* What a read of unit u is, told by its destination.
Goes(u, r) ==
    \/ r = Weights(u) /\ r.dst[1] = "stage" /\ r.dst[2] = Parity(u) /\ r.acc = <<"wq", MatrixParity(u)>> /\ r.acc # <<"own">>
    \/ /\ Block(u) = 0 /\ r.dst[1] \in {"ws", "b", "wo"} /\ r.dst[2] = MatrixParity(u) /\ r = Small(u, r.dst[1])
       /\ r.acc = <<"own">> /\ r.verify /\ r.reset /\ r.chunks = 1
    \/ /\ Opens(u) /\ r.dst[1] = "nrm" /\ r.dst[2] = Layer(u) % 2 /\ r.dst[3] \in 1..4 /\ r = Norms(u)[r.dst[3]]
       /\ r.acc = <<"own">> /\ r.verify /\ r.reset /\ r.chunks = 1

LEMMA IssueGoes ==
    ASSUME NEW u \in 0..(NUnits - 1)
    PROVE  /\ \A i \in 1..Len(issue(u)) : Goes(u, issue(u)[i].r)
           /\ \A i, k \in 1..Len(issue(u)) : i # k => issue(u)[i].r.dst # issue(u)[k].r.dst
           /\ \A i \in 1..Len(issue(u)) : issue(u)[i].r.acc # <<"own">> => i = Len(issue(u)) /\ issue(u)[i].r = Weights(u)
<1> DEFINE n == Len(issue(u))
           R(i) == issue(u)[i].r
<1>1. /\ Weights(u).dst = <<"stage", Parity(u)>> /\ Weights(u).acc = <<"wq", MatrixParity(u)>>
      /\ \A k : Small(u, k).dst = <<k, MatrixParity(u)>> /\ Small(u, k).acc = <<"own">> /\ Small(u, k).verify /\ Small(u, k).reset /\ Small(u, k).chunks = 1
      /\ \A i \in 1..4 : Norms(u)[i].dst = <<"nrm", Layer(u) % 2, i>> /\ Norms(u)[i].acc = <<"own">> /\ Norms(u)[i].verify /\ Norms(u)[i].reset /\ Norms(u)[i].chunks = 1
  BY DEF Weights, Small, Norms, Read
<1>2. n \in Nat
  BY IssueParts
<1>3. \A i \in 1..n : \/ i = n /\ R(i) = Weights(u)
                      \/ i = n - 1 /\ Block(u) = 0 /\ R(i) = Small(u, "wo")
                      \/ i = n - 2 /\ Block(u) = 0 /\ R(i) = Small(u, "b")
                      \/ i = n - 3 /\ Block(u) = 0 /\ R(i) = Small(u, "ws")
                      \/ i \in 1..4 /\ n = 8 /\ Opens(u) /\ R(i) = Norms(u)[i]
  BY IssueReads
<1> HIDE DEF n, R
<1>4. ASSUME NEW i \in 1..n
      PROVE  Goes(u, R(i)) /\ (R(i).acc # <<"own">> => i = n /\ R(i) = Weights(u))
  BY <1>1, <1>3 DEF Goes
<1>5. ASSUME NEW i \in 1..n, NEW k \in 1..n, i # k
      PROVE  R(i).dst # R(k).dst
  BY <1>1, <1>2, <1>3, <1>5
<1>6. QED
  BY <1>4, <1>5 DEF n, R

\* No read lands where another of the window lands, or where a section lies that unit still needs.
LEMMA DstsDiffer ==
    ASSUME FlowInv, InPass
    PROVE  /\ \A j \in 1..Window : Goes(IF j <= N(unit) THEN unit ELSE unit + 1, Item(unit, j).r)
           /\ \A j, k \in 1..Window : j # k => Item(unit, j).r.dst # Item(unit, k).r.dst
           /\ \A j \in 1..Window, p \in Past(unit) : Item(unit, j).r.dst # p[1]
           /\ \A j \in 1..Window : Item(unit, j).r.acc # <<"own">> =>
                (j = N(unit) /\ Item(unit, j).r = Weights(unit)) \/ (j = Window /\ j > N(unit) /\ Item(unit, j).r = Weights(unit + 1))
<1> DEFINE U(j) == IF j <= N(unit) THEN unit ELSE unit + 1
           I(j) == IF j <= N(unit) THEN j ELSE j - N(unit)
           R(j) == Item(unit, j).r
<1>1. /\ unit \in 0..(NUnits - 1) /\ unit \in Nat /\ NUnits \in Nat
      /\ N(unit) \in 1..8 /\ N(unit + 1) \in 0..8 /\ Window = N(unit) + N(unit + 1)
      /\ (unit + 1 < NUnits <=> N(unit + 1) > 0) /\ (unit + 1 < NUnits => unit + 1 \in 0..(NUnits - 1))
  BY UnitInPlan, ItemIs, PlanRanks
<1>2. ASSUME NEW j \in 1..Window
      PROVE  /\ U(j) \in 0..(NUnits - 1) /\ I(j) \in 1..Len(issue(U(j))) /\ R(j) = issue(U(j))[I(j)].r
             /\ (U(j) = unit /\ I(j) = j /\ j <= N(unit)) \/ (U(j) = unit + 1 /\ unit + 1 < NUnits /\ j > N(unit))
             /\ (I(j) = Len(issue(U(j))) => j = IF j <= N(unit) THEN N(unit) ELSE Window)
  <2>1. CASE j <= N(unit)
    <3>1. N(unit) = Len(issue(unit))
      BY <1>1 DEF N
    <3>2. QED
      BY <1>1, <2>1, <3>1 DEF Item
  <2>2. CASE ~(j <= N(unit))
    <3> DEFINE i == j - N(unit)
    <3>1. i \in 1..N(unit + 1) /\ N(unit + 1) > 0 /\ (i = N(unit + 1) => j = Window)
      BY <1>1, <2>2
    <3>2. N(unit + 1) = Len(issue(unit + 1))
      BY <1>1, <3>1 DEF N
    <3>3. R(j) = issue(unit + 1)[i] .r
      BY <2>2 DEF Item
    <3>4. U(j) = unit + 1 /\ I(j) = i /\ j > N(unit)
      BY <1>1, <2>2
    <3> HIDE DEF i, U, I, R
    <3>5. QED
      BY <1>1, <2>2, <3>1, <3>2, <3>3, <3>4
  <2>3. QED
    BY <2>1, <2>2
<1> HIDE DEF R
<1>3. \A j \in 1..Window : Goes(U(j), R(j))
  <2> HIDE DEF U, I
  <2>1. QED
    BY <1>2, IssueGoes
<1>4. \A j \in 1..Window : R(j).acc # <<"own">> =>
          (j = N(unit) /\ R(j) = Weights(unit)) \/ (j = Window /\ j > N(unit) /\ R(j) = Weights(unit + 1))
  <2>1. SUFFICES ASSUME NEW j \in 1..Window, R(j).acc # <<"own">>
                 PROVE  (j = N(unit) /\ R(j) = Weights(unit)) \/ (j = Window /\ j > N(unit) /\ R(j) = Weights(unit + 1))
    OBVIOUS
  <2>2. I(j) = Len(issue(U(j))) /\ R(j) = Weights(U(j))
    <3> HIDE DEF U, I
    <3>1. QED
      BY <1>2, <2>1, IssueGoes
  <2>3. QED
    BY <1>1, <1>2, <2>2
<1>5. ASSUME NEW j \in 1..N(unit), NEW k \in (N(unit) + 1)..Window
      PROVE  R(j).dst # R(k).dst
  <2>1. Goes(unit, R(j)) /\ Goes(unit + 1, R(k)) /\ unit + 1 < NUnits
    <3>1. j \in 1..Window /\ k \in 1..Window /\ U(j) = unit /\ U(k) = unit + 1
      BY <1>1
    <3>2. unit + 1 < NUnits
      BY <1>1
    <3>3. QED
      BY <1>3, <3>1, <3>2
  <2>2. Parity(unit + 1) # Parity(unit)
    BY <1>1, ParityAlternates
  <2>3. Block(unit) = 0 /\ Block(unit + 1) = 0 => MatrixParity(unit + 1) # MatrixParity(unit)
    BY <1>1, <2>1, NextUnit
  <2>4. ~(Opens(unit) /\ Opens(unit + 1))
    BY <1>1, <2>1, NextUnit
  <2>5. QED
    BY <2>1, <2>2, <2>3, <2>4 DEF Goes
<1>6. \A j, k \in 1..Window : j # k => R(j).dst # R(k).dst
  <2>1. SUFFICES ASSUME NEW j \in 1..Window, NEW k \in 1..Window, j # k PROVE R(j).dst # R(k).dst
    OBVIOUS
  <2>2. CASE U(j) = U(k)
    <3>1. I(j) # I(k)
      BY <1>1, <2>1, <2>2
    <3> HIDE DEF U, I
    <3>2. QED
      BY <1>2, <2>2, <3>1, IssueGoes
  <2>3. CASE j <= N(unit) /\ ~(k <= N(unit))
    BY <1>1, <1>5, <2>3
  <2>4. CASE k <= N(unit) /\ ~(j <= N(unit))
    BY <1>1, <1>5, <2>4
  <2>5. QED
    BY <2>2, <2>3, <2>4
<1>7. ASSUME NEW j \in 1..Window, NEW p \in Past(unit)
      PROVE  R(j).dst # p[1]
  <2>1. \/ Block(unit) # 0 /\ p[1][1] \in {"ws", "b", "wo"} /\ p[1][2] = MatrixParity(unit)
        \/ ~Opens(unit) /\ p[1][1] = "nrm" /\ p[1][2] = Layer(unit) % 2
    BY DEF Past
  <2>2. CASE U(j) = unit
    BY <1>3, <2>1, <2>2 DEF Goes
  <2>3. CASE U(j) = unit + 1 /\ unit + 1 < NUnits
    <3>1. Goes(unit + 1, R(j))
      BY <1>3, <2>3
    <3>2. /\ Block(unit + 1) = 0 => MatrixParity(unit + 1) # MatrixParity(unit)
          /\ Opens(unit + 1) => Layer(unit + 1) % 2 # Layer(unit) % 2
      BY <1>1, <2>3, NextUnit
    <3>3. QED
      BY <2>1, <3>1, <3>2 DEF Goes
  <2>4. QED
    BY <1>2, <2>2, <2>3
<1>8. QED
  BY <1>3, <1>4, <1>6, <1>7 DEF R

-----------------------------------------------------------------------------
(* Who flies.                                                              *)

LEMMA Asking ==
    ASSUME FlowInv, InPass
    PROVE  /\ Asked \in Nat /\ Asked <= Window /\ First \in Int /\ reqNext = First + Asked /\ First <= Oldest
           /\ Window \in Nat /\ reqNext \in Nat /\ Len(todo) \in Nat /\ Oldest <= reqNext
<1> DEFINE k == Len(todo)
<1>1. /\ Flying + k <= Window /\ k \in Nat /\ Flying \in Nat /\ Window \in Nat /\ reqNext \in Nat
      /\ Asked = Window - k /\ First = reqNext - Asked /\ Oldest = reqNext - Flying
  <2>1. Flying + k <= Window /\ reqNext \in Nat
    BY DEF FlowInv, AheadInv, CardTypes
  <2>2. Window \in Nat
    <3>1. N(unit) \in 1..8 /\ N(unit + 1) \in 0..8 /\ Window = N(unit) + N(unit + 1)
      BY ItemIs
    <3>2. QED
      BY <3>1
  <2>3. QED
    BY <2>1, <2>2, Numbers DEF FlowInv, Asked, First, Oldest
<1> HIDE DEF k
<1>2. QED
  BY <1>1 DEF k

\* A number in flight is that of one of the window's reads, and its slot holds it.
LEMMA InFlight ==
    ASSUME FlowInv, ReqsInv, NEW n \in Oldest..(reqNext - 1)
    PROVE  /\ InPass
           /\ \E j \in 1..Asked : n = Num(j) /\ reqs[Slot(n)] = Item(unit, j).r /\ Item(unit, j).r \in Reads
<1>1. InPass
  <2>1. Flying # 0
    BY Numbers DEF FlowInv, CardTypes, Oldest
  <2>2. QED
    BY <2>1 DEF FlowInv, AheadInv
<1> DEFINE j == n - First + 1
<1>2. j \in 1..Asked /\ Num(j) = n /\ Num(j) >= Oldest /\ j \in 1..Window
  <2>1. /\ Asked \in Nat /\ Asked <= Window /\ First \in Int /\ reqNext = First + Asked /\ First <= Oldest
        /\ Window \in Nat /\ Oldest \in Int
    BY <1>1, Asking, Numbers DEF FlowInv
  <2>2. n \in Int /\ Oldest <= n /\ n <= reqNext - 1
    BY <2>1
  <2>3. QED
    BY <2>1, <2>2 DEF Num
<1> HIDE DEF j
<1>3. reqs[Slot(n)] = Item(unit, j).r
  BY <1>1, <1>2 DEF ReqsInv
<1>4. Item(unit, j).r \in Reads
  BY <1>1, <1>2, ItemIs DEF Queues
<1>5. QED
  BY <1>1, <1>2, <1>3, <1>4

\* Everything on its way is in flight.
LEMMA HeldFlies ==
    ASSUME FlowInv
    PROVE  /\ ~CpIdle => Oldest \in Oldest..(reqNext - 1)
           /\ Len(cq) >= 1 => Oldest + CpEnds \in Oldest..(reqNext - 1)
           /\ Len(cq) = 2 => Oldest + CpEnds + Ends(1) \in Oldest..(reqNext - 1)
           /\ ~SdIdle => Oldest + Chunked \in Oldest..(reqNext - 1)
           /\ Len(rq) >= 1 => Oldest + Chunked + One(~SdIdle) \in Oldest..(reqNext - 1)
           /\ NextN \in Int /\ Oldest <= NextN /\ NextN <= reqNext /\ (NextN = reqNext => NextK = 1)
<1> DEFINE c == Chunked
           s == One(~SdIdle)
           e == CpEnds
           e1 == Ends(1)
           e2 == Ends(2)
           l == Len(rq)
           o == Oldest
           f == Flying
<1>1. /\ e \in {0, 1} /\ e1 \in {0, 1} /\ e2 \in {0, 1} /\ s \in {0, 1} /\ c = e + e1 + e2 /\ l \in Nat
      /\ f = c + s + l /\ f \in Nat /\ o \in Int /\ o = reqNext - f /\ reqNext \in Nat
  BY Numbers DEF FlowInv, Chunked, Flying, Oldest, CardTypes
<1>2. ~CpIdle => f >= 1
  <2>1. ~CpIdle => f # 0
    BY NothingFlies DEF ReaderIdle
  <2> HIDE DEF f
  <2>2. QED
    BY <1>1, <2>1
<1>3. Len(cq) >= 1 => e1 + e2 + s >= 1
  <2>1. Len(cq) = 1 \/ Len(cq) = 2 => e1 + s >= 1 \/ e2 + s >= 1
    BY SomethingEnds
  <2>2. Len(cq) >= 1 => Len(cq) = 1 \/ Len(cq) = 2
    <3>1. CASE Len(cq) = 0
      BY <3>1
    <3>2. QED
      BY <3>1, QueueShort
  <2> HIDE DEF e1, e2, s
  <2>3. QED
    BY <1>1, <2>1, <2>2
<1>4. Len(cq) = 2 => e2 + s >= 1
  BY SomethingEnds
<1>5. ~SdIdle => s = 1
  BY DEF One
<1> HIDE DEF c, s, e, e1, e2, l, o, f
<1>6. /\ ~CpIdle => o \in o..(reqNext - 1)
      /\ ~SdIdle => o + c \in o..(reqNext - 1)
      /\ l >= 1 => o + c + s \in o..(reqNext - 1)
  BY <1>1, <1>2, <1>5
<1>7. Len(cq) >= 1 => o + e \in o..(reqNext - 1)
  BY <1>1, <1>3
<1>8. Len(cq) = 2 => o + e + e1 \in o..(reqNext - 1)
  BY <1>1, <1>4
<1>9. NextN \in Int /\ o <= NextN /\ NextN <= reqNext /\ (NextN = reqNext => NextK = 1)
  <2>1. CASE Copying
    <3>1. NextN = o + 0 /\ ~CpIdle
      BY <2>1 DEF NextN, Copying, o
    <3>2. QED
      BY <1>1, <1>2, <3>1
  <2>2. CASE ~Copying
    <3>1. NextN = o + e
      BY <2>2 DEF NextN, e, o
    <3>2. NextN \in Int /\ o <= NextN /\ NextN <= reqNext
      BY <1>1, <3>1
    <3>3. ASSUME NextN = reqNext
          PROVE  NextK = 1
      <4>1. e1 = 0 /\ e2 = 0 /\ s = 0
        BY <1>1, <3>1, <3>3
      <4>2. Len(cq) = 0
        <5>1. ~(Len(cq) = 1) /\ ~(Len(cq) = 2)
          <6>1. Len(cq) = 1 => e1 + s >= 1
            BY SomethingEnds DEF e1, s
          <6>2. QED
            BY <1>4, <4>1, <6>1
        <5>2. QED
          BY <5>1, QueueShort
      <4>3. SdIdle
        BY <1>5, <4>1
      <4>4. QED
        BY <2>2, <4>2, <4>3 DEF NextK
    <3>4. QED
      BY <3>2, <3>3
  <2>3. QED
    BY <2>1, <2>2
<1>10. QED
  BY <1>6, <1>7, <1>8, <1>9 DEF c, s, e, e1, l, o

\* The requests of what is on its way are the window's.
LEMMA HeldReads ==
    ASSUME FlowInv, ReqsInv
    PROVE  /\ ~CpIdle => cp.slot = Slot(Oldest) /\ reqs[cp.slot] \in Reads
           /\ Len(cq) >= 1 => cq[1].slot = Slot(Oldest + CpEnds) /\ reqs[cq[1].slot] \in Reads
           /\ Len(cq) = 2 => cq[2].slot = Slot(Oldest + CpEnds + Ends(1)) /\ reqs[cq[2].slot] \in Reads
           /\ ~SdIdle => sd.slot = Slot(Oldest + Chunked) /\ reqs[sd.slot] \in Reads
           /\ Len(rq) >= 1 => rq[1] = Slot(Oldest + Chunked + One(~SdIdle)) /\ reqs[rq[1]] \in Reads
<1>1. \A n \in Oldest..(reqNext - 1) : reqs[Slot(n)] \in Reads
  BY InFlight
<1>2. Len(rq) >= 1 => rq[1] = Slot(Oldest + Chunked + One(~SdIdle))
  <2>1. Oldest + Chunked + One(~SdIdle) + 1 - 1 = Oldest + Chunked + One(~SdIdle)
    BY Numbers DEF FlowInv
  <2>2. QED
    BY <2>1, Numbers DEF FlowInv, NumberInv
<1>3. QED
  BY <1>1, <1>2, HeldFlies DEF FlowInv, NumberInv

-----------------------------------------------------------------------------
(* What a step leaves as it was.                                           *)

LEMMA PlaceRests ==
    ASSUME UNCHANGED <<sd, cq, cp, rq, reqNext>>
    PROVE  /\ NextN' = NextN /\ NextK' = NextK /\ Oldest' = Oldest /\ (Copying' <=> Copying)
           /\ (CpIdle' <=> CpIdle) /\ (SdIdle' <=> SdIdle)
           /\ \A n, k : Landed(n, k)' <=> Landed(n, k)
<1>1. /\ CpIdle' = CpIdle /\ SdIdle' = SdIdle /\ CpEnds' = CpEnds /\ Ends(1)' = Ends(1) /\ Ends(2)' = Ends(2)
      /\ Copying' = Copying /\ One(~SdIdle)' = One(~SdIdle)
  BY DEF CpIdle, SdIdle, CpEnds, Ends, Copying, One
<1>2. Chunked' = Chunked /\ Flying' = Flying /\ Oldest' = Oldest
  BY <1>1 DEF Chunked, Flying, Oldest
<1>3. NextN' = NextN /\ NextK' = NextK
  BY <1>1, <1>2 DEF NextN, NextK
<1>4. QED
  BY <1>1, <1>2, <1>3 DEF Landed

\* The pass does nothing to what is on its way.
LEMMA PipeRests ==
    ASSUME PipeInv, UNCHANGED <<sd, cq, cp, rq, reqNext, reqs, bounce>>
    PROVE  PipeInv'
<1>1. (CpIdle' <=> CpIdle) /\ (SdIdle' <=> SdIdle) /\ (Copying' <=> Copying)
  BY PlaceRests
<1>2. \A a : (Fits(a)' <=> Fits(a)) /\ (Carries(a)' <=> Carries(a)) /\ NextOf(a)' = NextOf(a)
  BY DEF Fits, Carries, NextOf
<1>3. /\ Fits(cp)' <=> Fits(cp)
      /\ Carries(cp)' <=> Carries(cp)
      /\ \A i : (Fits(cq[i])' <=> Fits(cq[i])) /\ (Carries(cq[i])' <=> Carries(cq[i]))
      /\ NextOf(cp)' = NextOf(cp) /\ \A i : NextOf(cq[i])' = NextOf(cq[i])
  BY DEF Fits, Carries, NextOf
<1>4. QED
  BY <1>1, <1>3 DEF PipeInv

LEMMA WindowRests ==
    ASSUME UNCHANGED <<unit, todo, reqNext>>
    PROVE  /\ Window' = Window /\ Asked' = Asked /\ First' = First /\ Past(unit)' = Past(unit) /\ MatrixAcc(unit)' = MatrixAcc(unit)
           /\ (Block(unit) # 0)' = (Block(unit) # 0)
           /\ \A j : Num(j)' = Num(j) /\ Item(unit, j)' = Item(unit, j)
BY DEF Window, Asked, First, Num, MatrixAcc

\* A step of the pass within a unit.
LEMMA UnitRests ==
    ASSUME FlowInv, DataInv, InPass, InPass', pc = "compute" => pc' = "compute",
           UNCHANGED <<unit, todo, reqNext, reqs, sd, cq, cp, rq, buf, acc, bounce, crcBad, crc0, tainted, result>>
    PROVE  DataInv'
<1>1. DataTypes'
  BY DEF DataInv, DataTypes
<1>2. PipeInv'
  BY PipeRests DEF DataInv
<1>3. /\ NextN' = NextN /\ NextK' = NextK /\ Oldest' = Oldest /\ \A n, k : Landed(n, k)' <=> Landed(n, k)
  BY PlaceRests
<1>4. ReqsInv'
  BY <1>3, WindowRests DEF DataInv, ReqsInv
<1>5. LandInv'
  BY <1>3, WindowRests DEF DataInv, LandInv, Holds
<1>6. PassSound'
  <2>1. \A a : Spoiled(a)' = Spoiled(a)
    BY DEF Spoiled
  <2>2. Bad' = Bad
    BY DEF Bad
  <2>3. \A j : Landed(Num(j), 1)' <=> Landed(Num(j), 1)
    BY <1>3, WindowRests
  <2>4. QED
    BY <1>3, <2>1, <2>2, WindowRests DEF DataInv, PassSound, Checked
<1>7. ResultInv'
  BY DEF DataInv, ResultInv, InPass
<1>8. QED
  BY <1>1, <1>2, <1>4, <1>5, <1>6, <1>7 DEF DataInv

\* A step that ends or begins outside the pass.
LEMMA OutsideRests ==
    ASSUME DataInv, ~InPass', PipeInv', DataTypes', ResultInv'
    PROVE  DataInv'
BY DEF DataInv, ReqsInv, LandInv, PassSound

LEMMA PassBeginsData ==
    ASSUME FlowInv, DataInv, PassBegins
    PROVE  DataInv'
<1>1. /\ pc' = "embed" /\ crc0' = crcBad /\ ~tainted' /\ tainted' = FALSE /\ result' = "none"
      /\ UNCHANGED <<sd, cq, cp, rq, reqNext, reqs, bounce, buf, acc, crcBad>>
  BY DEF PassBegins, reqVars, readerVars, memVars
<1>2. DataTypes'
  BY <1>1 DEF DataInv, DataTypes
<1>3. ResultInv'
  BY <1>1, <1>2 DEF DataInv, DataTypes, ResultInv
<1>4. QED
  BY <1>1, <1>2, <1>3, PipeRests, OutsideRests DEF DataInv, InPass

LEMMA IssuedData ==
    ASSUME FlowInv, DataInv, Issued
    PROVE  DataInv'
BY UnitRests DEF Issued, InPass, reqVars, readerVars, memVars, history

LEMMA wait_rdData ==
    ASSUME FlowInv, DataInv, wait_rd
    PROVE  DataInv'
BY UnitRests DEF wait_rd, InPass, readerVars, memVars, history

LEMMA PassEndsData ==
    ASSUME FlowInv, DataInv, NEW r, PassEnds(r), r = "good" => ~tainted
    PROVE  DataInv'
<1>1. /\ pc' = "idle" /\ result' = r
      /\ UNCHANGED <<sd, cq, cp, rq, reqNext, reqs, bounce, buf, acc, crcBad, crc0, tainted>>
  BY DEF PassEnds, readerVars, memVars
<1>2. DataTypes'
  BY <1>1 DEF DataInv, DataTypes
<1>3. ResultInv'
  BY <1>1 DEF DataInv, ResultInv
<1>4. QED
  BY <1>1, <1>2, <1>3, PipeRests, OutsideRests DEF DataInv, InPass

LEMMA AbortsData ==
    ASSUME FlowInv, DataInv, Aborts
    PROVE  DataInv'
BY PassEndsData DEF Aborts

LEMMA LendData ==
    ASSUME FlowInv, DataInv, UNCHANGED <<passVars, reqVars, readerVars, memVars, tainted, result>>
    PROVE  DataInv'
<1>1. UNCHANGED <<pc, unit, todo, awaited, crc0, reqNext, reqs, sd, cq, cp, rq, buf, acc, bounce, crcBad, tainted, result>>
  BY DEF passVars, reqVars, readerVars, memVars
<1>2. CASE InPass
  BY <1>1, <1>2, UnitRests DEF InPass
<1>3. CASE ~InPass
  <2>1. DataTypes'
    BY <1>1 DEF DataInv, DataTypes
  <2>2. ResultInv'
    BY <1>1 DEF DataInv, ResultInv
  <2>3. QED
    BY <1>1, <1>3, <2>1, <2>2, PipeRests, OutsideRests DEF DataInv, InPass
<1>4. QED
  BY <1>2, <1>3

\* The embedding's row goes through a bounce buffer that nothing is in.
LEMMA EmbedsData ==
    ASSUME FlowInv, DataInv, Embeds
    PROVE  DataInv'
<1>1. /\ pc = "embed" /\ pc' = "issue" /\ unit' = 0 /\ bounce' = [bounce EXCEPT ![0] = Chunk(<<"embedding">>, 1, TRUE)]
      /\ todo' = issue(0) \o IssueIfAny(1)
      /\ UNCHANGED <<sd, cq, cp, rq, reqNext, reqs, buf, acc, crcBad, crc0, tainted, result>>
  BY DEF Embeds, reqVars, memVars, history
<1>2. CpIdle /\ SdIdle /\ Len(cq) = 0 /\ ~Copying /\ CpIdle' /\ SdIdle' /\ ~Copying' /\ Len(cq') = 0
  <2>1. Flying = 0
    BY <1>1 DEF FlowInv, AheadInv, InPass
  <2>2. ReaderIdle
    BY <2>1, NothingFlies
  <2>3. QED
    BY <1>1, <2>2, PlaceRests DEF ReaderIdle, Copying
<1>3. DataTypes'
  <2>1. Chunk(<<"embedding">>, 1, TRUE) \in Chunks
    <3>1. <<"embedding">> \in Sections \cup {<<>>, <<"embedding">>} /\ 1 \in Nat /\ TRUE \in BOOLEAN
      OBVIOUS
    <3> HIDE DEF Sections
    <3>2. QED
      BY <3>1, Zenon DEF Chunk, Chunks
  <2>2. bounce' \in [Half -> Chunks]
    <3> HIDE DEF Chunks
    <3>1. QED
      BY <1>1, <2>1 DEF DataInv, DataTypes
  <2>3. QED
    BY <1>1, <2>2 DEF DataInv, DataTypes
<1>4. PipeInv'
  BY <1>2 DEF PipeInv
<1>5. Asked' = 0
  <2>1. 0 \in 0..(NUnits - 1) /\ 0 + 1 = 1
    BY PlanRanks
  <2>2. /\ issue(0) \in Seq(Queues) /\ IssueIfAny(1) \in Seq(Queues)
        /\ N(0) = Len(issue(0)) /\ N(1) = Len(IssueIfAny(1))
    <3>1. issue(0) \in Seq(Queues) /\ N(0) = Len(issue(0))
      <4>1. 0 < NUnits
        BY PlanRanks
      <4>2. QED
        BY <2>1, <4>1, IssueParts DEF N
    <3>2. IssueIfAny(0 + 1) \in Seq(Queues) /\ N(0 + 1) = Len(IssueIfAny(0 + 1))
      BY <2>1, IssueFits
    <3>3. QED
      BY <2>1, <3>1, <3>2
  <2>3. Len(todo') = N(0) + N(1) /\ N(0) + N(1) \in Int
    <3>1. Len(todo') = Len(issue(0)) + Len(IssueIfAny(1))
      BY <1>1, <2>2, Joined
    <3>2. N(0) \in Int /\ N(1) \in Int
      BY <2>2
    <3>3. QED
      BY <2>2, <3>1, <3>2
  <2>4. Window' = N(0) + N(1)
    BY <1>1, <2>1 DEF Window
  <2>5. QED
    BY <2>3, <2>4 DEF Asked
<1>6. Past(0) = {} /\ Past(unit)' = {}
  <2>1. Block(0) = 0 /\ Opens(0)
    BY PlanStarts DEF Block, Matrix, Opens
  <2>2. Past(0) = {}
    BY <2>1 DEF Past
  <2>3. QED
    BY <1>1, <2>2
<1>7. ReqsInv' /\ LandInv' /\ PassSound'
  <2>1. \A j \in 1..Asked' : FALSE
    BY <1>5
  <2>2. ~tainted'
    BY <1>1 DEF DataInv, ResultInv
  <2>3. QED
    BY <1>6, <2>1, <2>2 DEF ReqsInv, LandInv, PassSound
<1>8. ResultInv'
  BY <1>1 DEF DataInv, ResultInv
<1>9. QED
  BY <1>3, <1>4, <1>7, <1>8 DEF DataInv

-----------------------------------------------------------------------------
(* What the readers do.                                                    *)

LEMMA NoCqIdle ==
    ASSUME FlowInv, SdIdle
    PROVE  IF Len(cq) = 0 THEN CpIdle \/ cp.last ELSE cq[Len(cq)].last
BY DEF FlowInv, ChunkInv

\* Memory stays, and the place of the next chunk with it, or it moves over chunks that were there.
LEMMA MemoryRests ==
    ASSUME DataInv, UNCHANGED <<passVars, reqNext, reqs, buf, acc, crcBad, tainted>>, Oldest' = Oldest,
           NextN' = NextN, NextK' = NextK
    PROVE  ReqsInv' /\ LandInv' /\ PassSound'
<1>1. UNCHANGED <<pc, unit, todo, crc0, reqNext, reqs, buf, acc, crcBad, tainted>>
  BY DEF passVars
<1>2. \A n, k : Landed(n, k)' <=> Landed(n, k)
  BY DEF Landed
<1>3. ReqsInv'
  BY <1>1, WindowRests DEF DataInv, ReqsInv, InPass
<1>4. LandInv'
  BY <1>1, <1>2, WindowRests DEF DataInv, LandInv, Holds, InPass
<1>5. PassSound'
  <2>1. \A a : Spoiled(a)' = Spoiled(a)
    BY <1>1 DEF Spoiled
  <2>2. Bad' = Bad /\ InPass' = InPass
    BY <1>1 DEF Bad, InPass
  <2>3. QED
    BY <1>1, <1>2, <2>1, <2>2, WindowRests DEF DataInv, PassSound, Checked
<1>6. QED
  BY <1>3, <1>4, <1>5

\* The parts of DataInv that memory does not decide.
LEMMA ReaderData ==
    ASSUME DataInv, PipeInv', UNCHANGED <<passVars, reqNext, reqs, buf, acc, crcBad, tainted, result>>, Oldest' = Oldest,
           NextN' = NextN, NextK' = NextK, bounce' \in [Half -> Chunks], cp' = cp \/ ~cp'.copied
    PROVE  DataInv'
<1>1. DataTypes'
  BY DEF DataInv, DataTypes, passVars
<1>2. ResultInv'
  BY DEF DataInv, ResultInv, passVars
<1>3. QED
  BY <1>1, <1>2, MemoryRests DEF DataInv

LEMMA SdTakesData ==
    ASSUME FlowInv, DataInv, SdTakes
    PROVE  DataInv'
<1>1. /\ SdIdle /\ Len(rq) >= 1 /\ sd' = [sd EXCEPT !.slot = rq[1], !.r = reqs[rq[1]], !.k = 1]
      /\ UNCHANGED <<passVars, mx, reqs, done, reqNext, bfree, bounce, cq, cp, buf, acc, crcBad, tainted, result>>
  BY DEF SdTakes, FlowInv, CardTypes, memVars, history
<1>2. /\ sd'.slot = rq[1] /\ sd'.r = reqs[rq[1]] /\ sd'.k = 1
      /\ reqs[rq[1]] \in Reads /\ rq[1] # NREQ
  <2>1. rq[1] \in Slots
    BY <1>1 DEF FlowInv, CardTypes
  <2>2. QED
    BY <1>1, <2>1, HeldReads, Numbers DEF FlowInv, CardTypes, DataInv
<1>3. ~SdIdle' /\ CpIdle' = CpIdle /\ Copying' = Copying /\ Oldest' = Oldest /\ CpEnds' = CpEnds
  BY <1>1, <1>2, SdTakesFlow DEF SdIdle, CpIdle, Copying, CpEnds, One
<1>4. NextN' = NextN /\ NextK' = NextK
  BY <1>1, <1>2, <1>3 DEF NextN, NextK
<1>5. PipeInv'
  <2>1. \A a : (Fits(a)' <=> Fits(a)) /\ (Carries(a)' <=> Carries(a)) /\ NextOf(a)' = NextOf(a)
    BY <1>1 DEF Fits, Carries, NextOf
  <2>2. /\ Fits(cp)' <=> Fits(cp)
        /\ Carries(cp)' <=> Carries(cp)
        /\ \A i : (Fits(cq[i])' <=> Fits(cq[i])) /\ (Carries(cq[i])' <=> Carries(cq[i]))
        /\ NextOf(cp)' = NextOf(cp) /\ \A i : NextOf(cq[i])' = NextOf(cq[i])
    BY <1>1 DEF Fits, Carries, NextOf
  <2>3. sd'.r = reqs'[sd'.slot] /\ sd'.k \in 1..sd'.r.chunks
    BY <1>1, <1>2 DEF Reads
  <2>4. Len(cq) # 0 => NextOf(cq[Len(cq)]) = 1
    BY <1>1, NoCqIdle DEF NextOf
  <2>5. Len(cq) = 0 /\ Copying => NextOf(cp) = 1
    BY <1>1, NoCqIdle DEF NextOf, Copying
  <2>6. QED
    BY <1>1, <1>2, <1>3, <2>2, <2>3, <2>4, <2>5 DEF DataInv, PipeInv
<1>6. QED
  BY <1>1, <1>3, <1>4, <1>5, ReaderData DEF DataInv, DataTypes

LEMMA SdReadsData ==
    ASSUME FlowInv, DataInv, SdReads
    PROVE  DataInv'
<1> DEFINE c == SdPiece
           n == Len(cq)
<1>1. /\ ~SdIdle /\ bfree[sd.bi] /\ UNCHANGED <<passVars, reqs, reqNext, cp, buf, acc, crcBad, tainted, result>>
      /\ \E ok \in BOOLEAN : bounce' = [bounce EXCEPT ![sd.bi] = Chunk(sd.r.sec, sd.k, ok)]
  BY DEF SdReads, reqVars, memVars
<1>2. /\ sd.bi \in Half /\ c.slot = sd.slot /\ c.bi = sd.bi /\ (c.last <=> SdLast) /\ (c.first <=> sd.k = 1)
      /\ c.dst = sd.r.dst /\ c.k = sd.k
      /\ (SdIdle' <=> SdLast) /\ (~SdLast => sd'.slot = sd.slot /\ sd'.r = sd.r /\ sd'.k = sd.k + 1)
      /\ Len(cq') = n + 1 /\ (\A i \in 1..n : cq'[i] = cq[i]) /\ cq'[n + 1] = c
      /\ CpIdle' = CpIdle /\ CpEnds' = CpEnds /\ (Copying' <=> Copying)
      /\ (n = 0 \/ n = 1) /\ (Copying => n = 0) /\ 1 - sd.bi # sd.bi
  BY SdReadsIs
<1> HIDE DEF c
<1>3. sd.r = reqs[sd.slot] /\ sd.k \in 1..sd.r.chunks /\ sd.r \in Reads
  BY <1>1, HeldReads DEF DataInv, PipeInv
<1>4. PICK ok \in BOOLEAN : bounce' = [bounce EXCEPT ![sd.bi] = Chunk(sd.r.sec, sd.k, ok)]
  BY <1>1
<1>5. /\ bounce'[sd.bi].sec = sd.r.sec /\ bounce'[sd.bi].k = sd.k /\ bounce'[1 - sd.bi] = bounce[1 - sd.bi]
      /\ bounce' \in [Half -> Chunks]
  <2>1. bounce \in [Half -> Chunks]
    BY DEF DataInv, DataTypes
  <2>2. Chunk(sd.r.sec, sd.k, ok) \in Chunks
    <3>1. sd.r.sec \in Sections /\ sd.k \in Nat /\ ok \in BOOLEAN
      BY <1>3 DEF Reads
    <3> HIDE DEF Sections
    <3>2. QED
      BY <3>1, Zenon DEF Chunk, Chunks
  <2>3. Chunk(sd.r.sec, sd.k, ok).sec = sd.r.sec /\ Chunk(sd.r.sec, sd.k, ok).k = sd.k
    BY DEF Chunk
  <2> HIDE DEF Chunks
  <2>4. sd.bi \in Half /\ 1 - sd.bi \in Half /\ 1 - sd.bi # sd.bi
    BY <1>2 DEF Half
  <2>5. QED
    BY <1>4, <2>1, <2>2, <2>3, <2>4
<1>6. Oldest' = Oldest
  BY SdReadsFlow
<1>7. NextN' = NextN /\ NextK' = NextK
  <2>1. NextN' = NextN
    BY <1>2, <1>6 DEF NextN
  <2>2. CASE Copying
    BY <1>1, <1>2, <2>1, <2>2 DEF NextK
  <2>3. CASE ~Copying /\ n = 0
    BY <1>1, <1>2, <2>1, <2>3 DEF NextK
  <2>4. CASE ~Copying /\ n = 1
    BY <1>1, <1>2, <2>1, <2>4 DEF NextK
  <2>5. QED
    BY <1>2, <2>1, <2>2, <2>3, <2>4
<1>8. PICK a, m : a = c /\ m = n
  OBVIOUS
<1>9. UNCHANGED <<reqs, cp>> /\ m = Len(cq) /\ (m = 0 \/ m = 1) /\ Len(cq') = m + 1 /\ cq'[m + 1] = a
  BY <1>1, <1>2, <1>8
<1>10. Fits(a)' /\ Carries(a)' /\ (~SdLast => NextOf(a) = sd.k + 1) /\ a.k = sd.k
  <2>1. reqs[a.slot] = sd.r /\ a.bi = sd.bi /\ a.dst = sd.r.dst /\ a.k = sd.k /\ (a.first <=> sd.k = 1) /\ (a.last <=> SdLast)
    BY <1>2, <1>3, <1>8
  <2>2. QED
    BY <1>3, <1>5, <1>9, <2>1 DEF Fits, Carries, NextOf, SdLast
<1>11. ASSUME NEW b, m = 1, b = cq[1]
       PROVE  Fits(b)' /\ Carries(b)' /\ (sd.k = NextOf(b)) /\ cq'[1] = b
  <2>1. Fits(b) /\ Carries(b) /\ sd.k = NextOf(b)
    BY <1>1, <1>9, <1>11 DEF DataInv, PipeInv
  <2>2. b.bi = 1 - sd.bi
    BY <1>9, <1>11 DEF FlowInv, ChunkInv
  <2>3. QED
    BY <1>2, <1>5, <1>8, <1>9, <1>11, <2>1, <2>2 DEF Fits, Carries
<1>12. /\ ~CpIdle => Fits(cp)'
       /\ Copying => Carries(cp)' /\ m = 0 /\ sd.k = NextOf(cp)
  <2>1. PICK d : d = cp
    OBVIOUS
  <2>2. ~CpIdle => Fits(d)'
    <3>1. ~CpIdle => Fits(d)
      BY <2>1 DEF DataInv, PipeInv
    <3>2. QED
      BY <1>9, <3>1 DEF Fits
  <2>3. Copying => Carries(d)' /\ m = 0 /\ sd.k = NextOf(d)
    <3>1. SUFFICES ASSUME Copying PROVE Carries(d)' /\ m = 0 /\ sd.k = NextOf(d)
      OBVIOUS
    <3>2. m = 0 /\ Len(cq) = 0
      BY <1>2, <1>8, <3>1
    <3>3. Carries(d) /\ sd.k = NextOf(d)
      BY <1>1, <2>1, <3>1, <3>2 DEF DataInv, PipeInv
    <3>4. d.bi = 1 - sd.bi
      BY <2>1, <3>1, <3>2 DEF FlowInv, ChunkInv
    <3>5. QED
      BY <1>5, <1>9, <3>2, <3>3, <3>4 DEF Carries
  <2>4. cp' = d
    BY <1>9, <2>1
  <2>5. QED
    BY <2>1, <2>2, <2>3, <2>4 DEF Fits, Carries
<1>13. PipeInv'
  <2>1. ASSUME NEW i \in 1..Len(cq')
        PROVE  Fits(cq[i])' /\ Carries(cq[i])'
    <3>1. PICK e : e = cq'[i]
      OBVIOUS
    <3>2. Fits(e)' /\ Carries(e)'
      <4>1. (m = 0 /\ i = 1) \/ (m = 1 /\ (i = 1 \/ i = 2))
        BY <1>9, <2>1
      <4>2. CASE i = m + 1
        BY <1>9, <1>10, <3>1, <4>2
      <4>3. CASE m = 1 /\ i = 1
        BY <1>11, <3>1, <4>3
      <4>4. QED
        BY <4>1, <4>2, <4>3
    <3>3. QED
      BY <3>1, <3>2 DEF Fits, Carries
  <2>2. ~SdIdle' => sd'.r = reqs'[sd'.slot] /\ sd'.k \in 1..sd'.r.chunks
    <3>1. SUFFICES ASSUME ~SdLast PROVE sd.r = reqs[sd.slot] /\ sd.k + 1 \in 1..sd.r.chunks
      BY <1>2, <1>9
    <3>2. sd.r.chunks \in Nat /\ sd.k # sd.r.chunks
      BY <1>3, <3>1 DEF Reads, SdLast
    <3>3. QED
      BY <1>3, <3>2
  <2>3. (Copying' /\ Len(cq') # 0 => cq'[1].k = NextOf(cp)')
    <3>1. SUFFICES ASSUME Copying PROVE cq'[1].k = NextOf(cp)
      BY <1>2, <1>9 DEF NextOf
    <3>2. m = 0 /\ sd.k = NextOf(cp) /\ cq'[1] = a
      BY <1>9, <1>12, <3>1
    <3>3. QED
      BY <1>10, <3>2
  <2>4. Len(cq') = 2 => cq'[2].k = NextOf(cq[1])'
    <3>1. SUFFICES ASSUME m = 1 PROVE cq'[2].k = NextOf(cq[1])'
      BY <1>9
    <3>2. PICK b : b = cq[1]
      OBVIOUS
    <3>3. sd.k = NextOf(b) /\ cq'[1] = b /\ cq'[2] = a
      BY <1>9, <1>11, <3>1, <3>2
    <3>4. QED
      BY <1>10, <3>3 DEF NextOf
  <2>5. ~SdIdle' => sd'.k = NextOf(cq[Len(cq)])'
    <3>1. SUFFICES ASSUME ~SdLast PROVE sd.k + 1 = NextOf(cq[Len(cq)])'
      BY <1>2
    <3>2. cq'[Len(cq')] = a
      BY <1>9
    <3>3. QED
      BY <1>10, <3>1, <3>2 DEF NextOf
  <2>6. Len(cq') # 0
    BY <1>9
  <2>7. QED
    BY <1>2, <1>12, <2>1, <2>2, <2>3, <2>4, <2>5, <2>6 DEF PipeInv
<1>14. QED
  BY <1>1, <1>5, <1>6, <1>7, <1>13, ReaderData

LEMMA CpTakesData ==
    ASSUME FlowInv, DataInv, CpTakes
    PROVE  DataInv'
<1>1. /\ CpIdle /\ cp' = cq[1] /\ cq' = Tail(cq)
      /\ UNCHANGED <<passVars, mx, reqs, done, rq, reqNext, sd, bfree, bounce, buf, acc, crcBad, tainted, result>>
  BY DEF CpTakes, reqVars, memVars, history, FlowInv, CardTypes
<1>2. Len(cq) = 1 \/ Len(cq) = 2
  <2>1. Len(cq) # 0
    BY DEF CpTakes, FlowInv, CardTypes
  <2>2. QED
    BY <2>1, QueueShort
<1>3. PICK a, m : a = cq[1] /\ m = Len(cq)
  OBVIOUS
<1>4. /\ cp' = a /\ (m = 1 \/ m = 2) /\ Len(cq') = m - 1 /\ (m = 2 => cq'[1] = cq[2])
      /\ a.slot \in Slots /\ ~a.copied
  <2>1. cq \in Seq(Tasks) /\ \A i \in 1..Len(cq) : cq[i].slot \in Slots /\ ~cq[i].copied
    BY DEF FlowInv, CardTypes, ChunkInv
  <2>2. QED
    BY <1>1, <1>2, <1>3, <2>1
<1>5. ~CpIdle' /\ Copying' /\ ~Copying /\ SdIdle' = SdIdle /\ Oldest' = Oldest
  BY <1>1, <1>4, CpTakesFlow, Numbers DEF CpIdle, Copying, SdIdle, FlowInv
<1>6. NextN' = NextN /\ NextK' = NextK
  <2>1. CpEnds = 0
    BY <1>1 DEF CpEnds, One
  <2>2. NextN' = NextN
    BY <1>5, <2>1 DEF NextN
  <2>3. Len(cq) # 0 /\ cp'.k = cq[1].k
    BY <1>1, <1>3, <1>4
  <2>4. NextK' = NextK
    BY <1>5, <2>3 DEF NextK
  <2>5. QED
    BY <2>2, <2>4
<1>7. /\ Fits(a)' /\ Carries(a)' /\ (m = 2 => cq[2].k = NextOf(a))
      /\ m = 1 /\ ~SdIdle => sd.k = NextOf(a)
  <2>1. Fits(a) /\ Carries(a) /\ (m = 2 => cq[2].k = NextOf(a)) /\ (m = 1 /\ ~SdIdle => sd.k = NextOf(a))
    BY <1>3, <1>4 DEF DataInv, PipeInv
  <2>2. QED
    BY <1>1, <2>1 DEF Fits, Carries
<1>8. ASSUME m = 2, NEW b, b = cq[2]
      PROVE  Fits(b)' /\ Carries(b)' /\ (~SdIdle => sd.k = NextOf(b))
  <2>1. Fits(b) /\ Carries(b) /\ (~SdIdle => sd.k = NextOf(b))
    BY <1>3, <1>8 DEF DataInv, PipeInv
  <2>2. QED
    BY <1>1, <2>1 DEF Fits, Carries
<1>9. PipeInv'
  <2>1. ~SdIdle' => sd'.r = reqs'[sd'.slot] /\ sd'.k \in 1..sd'.r.chunks
    BY <1>1, <1>5 DEF DataInv, PipeInv
  <2>2. Fits(cp)' /\ Carries(cp)' /\ NextOf(cp)' = NextOf(a)
    BY <1>4, <1>7 DEF Fits, Carries, NextOf
  <2>3. CASE m = 1
    <3>1. Len(cq') = 0 /\ \A i \in 1..Len(cq') : FALSE
      BY <1>4, <2>3
    <3>2. ~SdIdle => sd'.k = NextOf(a)
      BY <1>1, <1>7, <2>3
    <3>3. QED
      BY <1>5, <2>1, <2>2, <3>1, <3>2 DEF PipeInv
  <2>4. CASE m = 2
    <3>1. PICK b : b = cq[2]
      OBVIOUS
    <3>2. Len(cq') = 1 /\ cq'[1] = b /\ \A i \in 1..Len(cq') : i = 1
      BY <1>4, <2>4, <3>1
    <3>3. Fits(b)' /\ Carries(b)' /\ (~SdIdle => sd.k = NextOf(b))
      BY <1>8, <2>4, <3>1
    <3>4. \A i \in 1..Len(cq') : Fits(cq[i])' /\ Carries(cq[i])'
      BY <3>2, <3>3 DEF Fits, Carries
    <3>5. NextOf(cq[Len(cq)])' = NextOf(b)
      BY <3>2 DEF NextOf
    <3>6. cq'[1].k = NextOf(a)
      BY <1>7, <2>4, <3>1, <3>2
    <3>7. sd' = sd
      BY <1>1
    <3>8. Len(cq') # 2 /\ Len(cq') # 0
      BY <3>2
    <3>9. QED
      BY <1>5, <2>1, <2>2, <3>3, <3>4, <3>5, <3>6, <3>7, <3>8 DEF PipeInv
  <2>5. QED
    BY <1>4, <2>3, <2>4
<1>10. bounce' \in [Half -> Chunks]
  BY <1>1 DEF DataInv, DataTypes
<1>11. QED
  BY <1>1, <1>4, <1>5, <1>6, <1>9, <1>10, ReaderData

-----------------------------------------------------------------------------
(* What a unit is computed with.                                           *)

\* Once the waits for a unit are over, all its reads have landed.
LEMMA UnitLanded ==
    ASSUME FlowInv, DataInv, InPass, Len(todo) = 0, Flying <= N(unit + 1), NEW j \in 1..N(unit)
    PROVE  LET r == issue(unit)[j].r
           IN  /\ \A k \in 1..r.chunks : Holds(r.dst, r.sec, k)
               /\ ~Bad => IF r.acc = Own THEN buf[r.dst][1].ok
                          ELSE /\ \A k \in 1..r.chunks : ~buf[r.dst][k].ok => Spoiled(r.acc)
                               /\ r.verify => ~Spoiled(r.acc)
<1> DEFINE r == issue(unit)[j].r
<1>1. j \in 1..Asked /\ Num(j) < Oldest
  <2> DEFINE n == N(unit)
             m == N(unit + 1)
  <2>1. n \in Nat /\ m \in Nat /\ Window = n + m /\ j \in 1..n
    BY ItemIs
  <2>2. Asked = Window /\ First = reqNext - Window /\ Oldest = reqNext - Flying /\ reqNext \in Nat /\ Flying \in Nat
        /\ Flying <= m
    <3>1. Window \in Nat /\ reqNext \in Nat /\ Flying \in Nat
      BY Asking, Numbers DEF FlowInv
    <3>2. Asked = Window
      BY <3>1 DEF Asked
    <3>3. QED
      BY <3>1, <3>2 DEF First, Oldest
  <2> HIDE DEF n, m
  <2>3. QED
    BY <2>1, <2>2 DEF Num
<1>2. Item(unit, j).r = r
  BY DEF Item
<1>3. \A k : Landed(Num(j), k)
  <2>1. Num(j) \in Int /\ Oldest \in Int /\ NextN \in Int /\ Oldest <= NextN
    BY <1>1, HeldFlies, Asking, Numbers DEF Num, FlowInv
  <2>2. QED
    BY <1>1, <2>1 DEF Landed
<1> HIDE DEF r
<1>4. \A k \in 1..r.chunks : Holds(r.dst, r.sec, k)
  BY <1>1, <1>2, <1>3 DEF DataInv, LandInv
<1>5. ~Bad => IF r.acc = Own THEN buf[r.dst][1].ok
              ELSE (\A k \in 1..r.chunks : ~buf[r.dst][k].ok => Spoiled(r.acc)) /\ (r.verify => ~Spoiled(r.acc))
  BY <1>1, <1>2, <1>3 DEF DataInv, PassSound, Checked
<1>6. QED
  BY <1>4, <1>5 DEF r

\* Then its arithmetic has what it needs, or a mismatch is counted, or the CRC of its matrix, not
\* complete yet, has seen the corrupt block.
LEMMA UnitReady ==
    ASSUME FlowInv, DataInv, InPass, Len(todo) = 0, Flying <= N(unit + 1)
    PROVE  /\ \A k \in 1..BlockChunks :
                /\ Holds(<<"stage", Parity(unit)>>, Weights(unit).sec, k)
                /\ ~Bad /\ ~buf[<<"stage", Parity(unit)>>][k].ok => Spoiled(MatrixAcc(unit))
           /\ ~Bad /\ LastBlock(unit) => ~Spoiled(MatrixAcc(unit))
           /\ \A kind \in {"ws", "b", "wo"} :
                /\ Holds(<<kind, MatrixParity(unit)>>, <<kind, Layer(unit), Matrix(unit)>>, 1)
                /\ ~Bad => buf[<<kind, MatrixParity(unit)>>][1].ok
           /\ \A i \in 1..4 :
                /\ Holds(<<"nrm", Layer(unit) % 2, i>>, <<"norm", Layer(unit), i>>, 1)
                /\ ~Bad => buf[<<"nrm", Layer(unit) % 2, i>>][1].ok
<1> DEFINE u == unit
           n == Len(issue(u))
           Lands(r) == /\ \A k \in 1..r.chunks : Holds(r.dst, r.sec, k)
                       /\ ~Bad => IF r.acc = Own THEN buf[r.dst][1].ok
                                  ELSE /\ \A k \in 1..r.chunks : ~buf[r.dst][k].ok => Spoiled(r.acc)
                                       /\ r.verify => ~Spoiled(r.acc)
<1>1. unit \in 0..(NUnits - 1) /\ N(unit) = n /\ unit < NUnits
  BY UnitInPlan, UnitIs DEF N
<1>2. /\ n = IF Opens(u) THEN 8 ELSE IF Block(u) = 0 THEN 4 ELSE 1
      /\ issue(u)[n] = QWeights(u)
      /\ Block(u) = 0 => issue(u)[n - 3] = QWs(u) /\ issue(u)[n - 2] = QB(u) /\ issue(u)[n - 1] = QWo(u)
      /\ Opens(u) => \A i \in 1..4 : issue(u)[i] = QNorm(u, i)
  BY <1>1, IssueParts
<1>3. \A j \in 1..n : Lands(issue(u)[j].r)
  BY <1>1, UnitLanded
<1>4. /\ QWeights(u).r = Weights(u) /\ QWs(u).r = Small(u, "ws") /\ QB(u).r = Small(u, "b")
      /\ QWo(u).r = Small(u, "wo") /\ \A k : QNorm(u, k).r = Norms(u)[k]
  BY DEF QWeights, QWs, QB, QWo, QNorm, Queue
<1>5. Past(u) = (IF Block(u) # 0
                 THEN {<<<<kind, MatrixParity(u)>>, <<kind, Layer(u), Matrix(u)>>>> : kind \in {"ws", "b", "wo"}} ELSE {})
                \cup (IF ~Opens(u)
                      THEN {<<<<"nrm", Layer(u) % 2, i>>, <<"norm", Layer(u), i>>>> : i \in 1..4} ELSE {})
  BY DEF Past
<1>6. \A p \in Past(u) : Holds(p[1], p[2], 1) /\ (~Bad => buf[p[1]][1].ok)
  BY DEF DataInv, LandInv, PassSound
<1> HIDE DEF u, n, Lands
<1>7. (n = 1 \/ n = 4 \/ n = 8) /\ (Block(u) = 0 => n = 4 \/ n = 8) /\ (Opens(u) => n = 8)
  BY <1>2 DEF Opens
<1>8. /\ \A k \in 1..BlockChunks :
           /\ Holds(<<"stage", Parity(u)>>, Weights(u).sec, k)
           /\ ~Bad /\ ~buf[<<"stage", Parity(u)>>][k].ok => Spoiled(MatrixAcc(u))
      /\ ~Bad /\ LastBlock(u) => ~Spoiled(MatrixAcc(u))
  <2>1. Lands(Weights(u))
    BY <1>2, <1>3, <1>4, <1>7
  <2>2. /\ Weights(u).dst = <<"stage", Parity(u)>> /\ Weights(u).acc = MatrixAcc(u) /\ Weights(u).acc # Own
        /\ Weights(u).chunks = BlockChunks /\ (Weights(u).verify <=> LastBlock(u))
    BY DEF Weights, MatrixAcc, Own
  <2>3. QED
    BY <2>1, <2>2 DEF Lands
<1>9. ASSUME NEW kind \in {"ws", "b", "wo"}
      PROVE  /\ Holds(<<kind, MatrixParity(u)>>, <<kind, Layer(u), Matrix(u)>>, 1)
             /\ ~Bad => buf[<<kind, MatrixParity(u)>>][1].ok
  <2>1. CASE Block(u) = 0
    <3>1. Lands(Small(u, kind))
      <4>1. n - 3 \in 1..n /\ n - 2 \in 1..n /\ n - 1 \in 1..n
        BY <1>7, <2>1
      <4>2. QED
        BY <1>2, <1>3, <1>4, <2>1, <4>1
    <3>2. /\ Small(u, kind).dst = <<kind, MatrixParity(u)>> /\ Small(u, kind).sec = <<kind, Layer(u), Matrix(u)>>
          /\ Small(u, kind).chunks = 1 /\ Small(u, kind).acc = Own
      BY DEF Small, Read, Own
    <3>3. QED
      BY <3>1, <3>2 DEF Lands
  <2>2. CASE Block(u) # 0
    <3> DEFINE p == <<<<kind, MatrixParity(u)>>, <<kind, Layer(u), Matrix(u)>>>>
    <3>1. p \in Past(u) /\ p[1] = <<kind, MatrixParity(u)>> /\ p[2] = <<kind, Layer(u), Matrix(u)>>
      BY <1>5, <2>2
    <3> HIDE DEF p
    <3>2. QED
      BY <1>6, <3>1
  <2>3. QED
    BY <2>1, <2>2
<1>10. ASSUME NEW i \in 1..4
       PROVE  /\ Holds(<<"nrm", Layer(u) % 2, i>>, <<"norm", Layer(u), i>>, 1)
              /\ ~Bad => buf[<<"nrm", Layer(u) % 2, i>>][1].ok
  <2>1. CASE Opens(u)
    <3>1. Lands(Norms(u)[i])
      <4>1. i \in 1..n
        BY <1>7, <2>1
      <4>2. QED
        BY <1>2, <1>3, <1>4, <2>1, <4>1
    <3>2. /\ Norms(u)[i].dst = <<"nrm", Layer(u) % 2, i>> /\ Norms(u)[i].sec = <<"norm", Layer(u), i>>
          /\ Norms(u)[i].chunks = 1 /\ Norms(u)[i].acc = Own
      BY DEF Norms, Read, Own
    <3>3. QED
      BY <3>1, <3>2 DEF Lands
  <2>2. CASE ~Opens(u)
    <3> DEFINE p == <<<<"nrm", Layer(u) % 2, i>>, <<"norm", Layer(u), i>>>>
    <3>1. p \in Past(u) /\ p[1] = <<"nrm", Layer(u) % 2, i>> /\ p[2] = <<"norm", Layer(u), i>>
      BY <1>5, <2>2
    <3> HIDE DEF p
    <3>2. QED
      BY <1>6, <3>1
  <2>3. QED
    BY <2>1, <2>2
<1>11. QED
  BY <1>8, <1>9, <1>10 DEF u

\* What a unit's arithmetic reads is its block of weights, one of its matrix's sections, or a norm.
LEMMA NeedsAre ==
    ASSUME NEW u \in Nat, NEW n \in Needs(u)
    PROVE  \/ n = [dst |-> <<"stage", Parity(u)>>, n |-> BlockChunks, sec |-> Weights(u).sec]
           \/ \E kind \in {"ws", "b", "wo"} : n = [dst |-> <<kind, MatrixParity(u)>>, n |-> 1, sec |-> <<kind, Layer(u), Matrix(u)>>]
           \/ \E i \in 1..4 : n = [dst |-> <<"nrm", Layer(u) % 2, i>>, n |-> 1, sec |-> <<"norm", Layer(u), i>>]
BY DEF Needs

\* So it reads the unit's own sections, corrupt at most in a matrix whose CRC is still to come.
LEMMA NeedsReady ==
    ASSUME FlowInv, DataInv, InPass, Len(todo) = 0, Flying <= N(unit + 1),
           NEW n \in Needs(unit), NEW k \in 1..BlockChunks, k <= n.n
    PROVE  /\ n.dst \in Buffers /\ buf[n.dst][k].sec = n.sec /\ buf[n.dst][k].k = k
           /\ ~Bad /\ buf[n.dst][k] # Chunk(n.sec, k, TRUE) => Spoiled(MatrixAcc(unit))
<1>1. unit \in 0..(NUnits - 1) /\ unit \in Nat
  BY UnitInPlan, UnitIs
<1>2. /\ <<"stage", Parity(unit)>> \in Buffers
      /\ \A kind \in {"ws", "b", "wo"} : <<kind, MatrixParity(unit)>> \in Buffers
      /\ \A i \in 1..4 : <<"nrm", Layer(unit) % 2, i>> \in Buffers
  BY <1>1, UnitIs DEF Buffers
<1>3. /\ n.dst \in Buffers /\ Holds(n.dst, n.sec, k)
      /\ ~Bad /\ ~buf[n.dst][k].ok => Spoiled(MatrixAcc(unit))
  <2>1. CASE n = [dst |-> <<"stage", Parity(unit)>>, n |-> BlockChunks, sec |-> Weights(unit).sec]
    BY <1>2, <2>1, UnitReady
  <2>2. CASE \E kind \in {"ws", "b", "wo"} : n = [dst |-> <<kind, MatrixParity(unit)>>, n |-> 1, sec |-> <<kind, Layer(unit), Matrix(unit)>>]
    <3>1. PICK kind \in {"ws", "b", "wo"} : n = [dst |-> <<kind, MatrixParity(unit)>>, n |-> 1, sec |-> <<kind, Layer(unit), Matrix(unit)>>]
      BY <2>2
    <3>2. n.dst = <<kind, MatrixParity(unit)>> /\ n.sec = <<kind, Layer(unit), Matrix(unit)>> /\ k = 1
      BY <3>1
    <3>3. QED
      BY <1>2, <3>2, UnitReady
  <2>3. CASE \E i \in 1..4 : n = [dst |-> <<"nrm", Layer(unit) % 2, i>>, n |-> 1, sec |-> <<"norm", Layer(unit), i>>]
    <3>1. PICK i \in 1..4 : n = [dst |-> <<"nrm", Layer(unit) % 2, i>>, n |-> 1, sec |-> <<"norm", Layer(unit), i>>]
      BY <2>3
    <3>2. n.dst = <<"nrm", Layer(unit) % 2, i>> /\ n.sec = <<"norm", Layer(unit), i>> /\ k = 1
      BY <3>1
    <3>3. QED
      BY <1>2, <3>2, UnitReady
  <2>4. QED
    BY <1>1, <2>1, <2>2, <2>3, NeedsAre
<1>4. buf[n.dst][k] \in Chunks
  BY <1>3 DEF DataInv, DataTypes
<1> DEFINE b == buf[n.dst][k]
<1>5. b.sec = n.sec /\ b.k = k /\ b.ok \in BOOLEAN /\ b = [sec |-> b.sec, k |-> b.k, ok |-> b.ok]
  BY <1>3, <1>4 DEF Holds, Chunks
<1> HIDE DEF b
<1>6. b # Chunk(n.sec, k, TRUE) => ~b.ok
  BY <1>5, Zenon DEF Chunk
<1>7. QED
  BY <1>3, <1>5, <1>6 DEF b

-----------------------------------------------------------------------------
(* The pass.                                                               *)

LEMMA WaitsOver ==
    ASSUME FlowInv, pc = "compute" \/ (pc = "wait" /\ awaited[Parity(unit)] = <<>>)
    PROVE  InPass /\ Len(todo) = 0 /\ Flying <= N(unit + 1)
<1>1. InPass /\ Len(todo) = 0
  BY DEF FlowInv, AheadInv, InPass
<1>2. N(unit + 1) \in Nat
  BY <1>1, ItemIs
<1>3. CASE pc = "compute"
  BY <1>1, <1>3 DEF FlowInv, AheadInv
<1>4. CASE pc = "wait" /\ awaited[Parity(unit)] = <<>>
  <2>1. Len(awaited[Parity(unit)]) = 0 /\ Len(todo) <= N(unit + 1)
    BY <1>1, <1>2, <1>4
  <2>2. QED
    BY <1>1, <1>4, <2>1 DEF FlowInv, AheadInv
<1>5. QED
  BY <1>3, <1>4

LEMMA ChecksData ==
    ASSUME FlowInv, DataInv, Checks
    PROVE  DataInv'
<1> DEFINE Stale == \E n \in Needs(unit), k \in 1..BlockChunks : k <= n.n /\ buf[n.dst][k] # Chunk(n.sec, k, TRUE)
<1>1. /\ pc = "wait" /\ awaited[Parity(unit)] = <<>> /\ pc' = (IF crcBad # crc0 THEN "abort" ELSE "compute")
      /\ tainted' = (tainted \/ (crcBad = crc0 /\ Stale))
      /\ UNCHANGED <<unit, todo, crc0, reqNext, reqs, sd, cq, cp, rq, buf, acc, bounce, crcBad, result>>
  BY DEF Checks, reqVars, readerVars, memVars
<1>2. InPass /\ Len(todo) = 0 /\ Flying <= N(unit + 1) /\ InPass'
  BY <1>1, WaitsOver DEF InPass
<1>3. Stale /\ ~Bad => Spoiled(MatrixAcc(unit))
  BY <1>2, NeedsReady
<1> HIDE DEF Stale
<1>4. DataTypes'
  <2>1. tainted' \in BOOLEAN
    BY <1>1, Zenon DEF DataInv, DataTypes
  <2>2. QED
    BY <1>1, <2>1 DEF DataInv, DataTypes
<1>5. PipeInv'
  BY <1>1, PipeRests DEF DataInv
<1>6. /\ NextN' = NextN /\ NextK' = NextK /\ Oldest' = Oldest /\ \A n, k : Landed(n, k)' <=> Landed(n, k)
  BY <1>1, PlaceRests
<1>7. ReqsInv'
  BY <1>1, <1>2, <1>6, WindowRests DEF DataInv, ReqsInv
<1>8. LandInv'
  BY <1>1, <1>2, <1>6, WindowRests DEF DataInv, LandInv, Holds
<1>9. PassSound'
  <2>1. \A a : Spoiled(a)' = Spoiled(a)
    BY <1>1 DEF Spoiled
  <2>2. Bad' = Bad /\ (~Bad => pc' = "compute")
    BY <1>1 DEF Bad
  <2>3. ~Bad /\ tainted' => Spoiled(MatrixAcc(unit))'
    <3>1. ~Bad /\ tainted => Spoiled(MatrixAcc(unit))
      BY <1>2 DEF DataInv, PassSound, Checked
    <3>2. MatrixAcc(unit)' = MatrixAcc(unit)
      BY <1>1, WindowRests
    <3>3. Spoiled(MatrixAcc(unit))' = Spoiled(MatrixAcc(unit))
      BY <1>1, <3>2 DEF Spoiled
    <3>4. QED
      BY <1>1, <1>3, <3>1, <3>3, Zenon
  <2>4. ~Bad => /\ \A p \in Past(unit) : buf[p[1]][1].ok
                /\ \A j \in 1..Asked : Checked(Item(unit, j).r, Num(j))
    BY <1>2 DEF DataInv, PassSound
  <2>5. \A j : Checked(Item(unit, j).r, Num(j))' <=> Checked(Item(unit, j).r, Num(j))
    BY <1>1, <1>6, <2>1, WindowRests DEF Checked
  <2>6. QED
    BY <1>1, <2>2, <2>3, <2>4, <2>5, WindowRests DEF PassSound
<1>10. ResultInv'
  <2>1. result = "none" /\ crcBad >= crc0 /\ pc' # "embed" /\ result' # "good"
    BY <1>1 DEF DataInv, ResultInv
  <2>2. QED
    BY <1>1, <2>1 DEF DataInv, ResultInv
<1>11. QED
  BY <1>4, <1>5, <1>7, <1>8, <1>9, <1>10 DEF DataInv

\* The last unit is the last block of its matrix: what it was computed with has been checked.
LEMMA EmbeddedData ==
    ASSUME FlowInv, DataInv, Embedded
    PROVE  DataInv'
<1>1. pc = "compute" /\ unit + 1 = NUnits /\ PassEnds(IF crcBad # crc0 THEN "bad" ELSE "good")
  BY DEF Embedded
<1>2. InPass /\ Len(todo) = 0 /\ Flying <= N(unit + 1) /\ unit \in 0..(NUnits - 1)
  BY <1>1, WaitsOver, UnitInPlan
<1>3. crcBad = crc0 => ~tainted
  <2>1. LastBlock(unit)
    BY <1>1, <1>2, LastUnit, UnitIs
  <2>2. ~Bad => ~Spoiled(MatrixAcc(unit))
    BY <1>2, <2>1, UnitReady
  <2>3. ~Bad /\ tainted => Spoiled(MatrixAcc(unit))
    BY <1>2 DEF DataInv, PassSound, Checked
  <2>4. QED
    BY <2>2, <2>3 DEF Bad
<1>4. CASE crcBad # crc0
  <2>1. PassEnds("bad")
    BY <1>1, <1>4
  <2>2. QED
    BY <2>1, PassEndsData
<1>5. CASE crcBad = crc0
  <2>1. PassEnds("good")
    BY <1>1, <1>5
  <2>2. QED
    BY <1>3, <1>5, <2>1, PassEndsData
<1>6. QED
  BY <1>4, <1>5

\* The next unit's reads come first in the window, and what it needs besides has landed.
LEMMA ComputesUnitData ==
    ASSUME FlowInv, DataInv, ComputesUnit
    PROVE  DataInv'
<1> DEFINE v == unit + 1
           n == N(unit)
           m == N(v)
<1>1. /\ pc = "compute" /\ pc' = "issue" /\ v < NUnits /\ unit' = v /\ todo' = IssueIfAny(unit + 2)
      /\ UNCHANGED <<crc0, reqNext, reqs, sd, cq, cp, rq, buf, acc, bounce, crcBad, tainted, result>>
  BY DEF ComputesUnit, reqVars, readerVars, memVars, history
<1>2. InPass /\ Len(todo) = 0 /\ Flying <= m /\ InPass' /\ unit \in 0..(NUnits - 1) /\ unit \in Nat /\ v + 1 = unit + 2
  BY <1>1, WaitsOver, UnitInPlan DEF InPass
<1>3. v \in 0..(NUnits - 1)
  BY <1>1, <1>2, NextUnit
<1>4. Asked' = m /\ First' = reqNext - m
  <2>1. Len(todo') = N(v + 1) /\ Window' = m + N(v + 1) /\ m \in Nat /\ N(v + 1) \in Nat
    <3>1. Len(IssueIfAny(v + 1)) = N(v + 1) /\ N(v + 1) \in 0..8 /\ m \in 1..8
      BY <1>3, IssueFits
    <3>2. Window' = N(v) + N(v + 1)
      BY <1>1 DEF Window
    <3>3. QED
      BY <1>1, <1>2, <3>1, <3>2
  <2> HIDE DEF m, v
  <2>2. Asked' = m
    BY <2>1 DEF Asked
  <2>3. QED
    BY <1>1, <2>2 DEF First
<1>5. n \in Nat /\ m \in Nat /\ Asked = n + m /\ First \in Int /\ reqNext = First + Asked
  <2>1. n \in 1..8 /\ m \in 0..8 /\ Window = n + m
    BY <1>2, ItemIs
  <2>2. Asked = Window
    BY <1>2, <2>1 DEF Asked
  <2>3. First \in Int /\ reqNext = First + Asked
    BY <1>2, Asking
  <2>4. QED
    BY <2>1, <2>2, <2>3
<1>6. ASSUME NEW j \in 1..Asked'
      PROVE  n + j \in 1..Asked /\ Num(n + j) = Num(j)' /\ Item(unit, n + j) = Item(unit, j)'
  <2>1. j \in 1..m
    BY <1>4
  <2>2. Item(unit, n + j) = issue(v)[j]
    <3>1. ~(n + j <= n) /\ (n + j) - n = j
      BY <1>5, <2>1
    <3>2. QED
      BY <3>1 DEF Item
  <2>3. Item(v, j) = issue(v)[j]
    BY <2>1 DEF Item
  <2>4. Item(unit, j)' = Item(v, j)
    BY <1>1
  <2> HIDE DEF n, m, v
  <2>5. n + j \in 1..Asked
    BY <1>5, <2>1
  <2>6. Num(n + j) = Num(j)'
    BY <1>4, <1>5, <2>1 DEF Num
  <2>7. QED
    BY <2>2, <2>3, <2>4, <2>5, <2>6
<1>7. /\ NextN' = NextN /\ NextK' = NextK /\ Oldest' = Oldest /\ \A a, k : Landed(a, k)' <=> Landed(a, k)
  BY <1>1, PlaceRests
<1>8. ASSUME NEW j \in 1..Asked', NEW k
      PROVE  Landed(Num(j), k)' <=> Landed(Num(n + j), k)
  <2>1. PICK x : x = Num(n + j)
    OBVIOUS
  <2>2. Num(j)' = x
    BY <1>6, <2>1
  <2>3. QED
    BY <1>7, <2>1, <2>2 DEF Landed
<1>9. \A p \in Past(v) : Holds(p[1], p[2], 1) /\ (~Bad => buf[p[1]][1].ok)
  <2>1. SUFFICES ASSUME NEW p \in Past(v) PROVE Holds(p[1], p[2], 1) /\ (~Bad => buf[p[1]][1].ok)
    OBVIOUS
  <2>2. \/ Block(v) # 0 /\ \E kind \in {"ws", "b", "wo"} : p = <<<<kind, MatrixParity(v)>>, <<kind, Layer(v), Matrix(v)>>>>
        \/ ~Opens(v) /\ \E i \in 1..4 : p = <<<<"nrm", Layer(v) % 2, i>>, <<"norm", Layer(v), i>>>>
    BY <2>1 DEF Past
  <2>3. /\ Block(v) # 0 => Layer(v) = Layer(unit) /\ Matrix(v) = Matrix(unit) /\ MatrixParity(v) = MatrixParity(unit)
        /\ ~Opens(v) => Layer(v) = Layer(unit)
    BY <1>1, <1>2, NextUnit
  <2>4. CASE Block(v) # 0 /\ \E kind \in {"ws", "b", "wo"} : p = <<<<kind, MatrixParity(v)>>, <<kind, Layer(v), Matrix(v)>>>>
    <3>1. PICK kind \in {"ws", "b", "wo"} : p = <<<<kind, MatrixParity(v)>>, <<kind, Layer(v), Matrix(v)>>>>
      BY <2>4
    <3>2. p[1] = <<kind, MatrixParity(unit)>> /\ p[2] = <<kind, Layer(unit), Matrix(unit)>>
      BY <2>3, <2>4, <3>1
    <3>3. QED
      BY <1>2, <3>2, UnitReady
  <2>5. CASE ~Opens(v) /\ \E i \in 1..4 : p = <<<<"nrm", Layer(v) % 2, i>>, <<"norm", Layer(v), i>>>>
    <3>1. PICK i \in 1..4 : p = <<<<"nrm", Layer(v) % 2, i>>, <<"norm", Layer(v), i>>>>
      BY <2>5
    <3>2. p[1] = <<"nrm", Layer(unit) % 2, i>> /\ p[2] = <<"norm", Layer(unit), i>>
      BY <2>3, <2>5, <3>1
    <3>3. QED
      BY <1>2, <3>2, UnitReady
  <2>6. QED
    BY <2>2, <2>4, <2>5
<1>10. ~Bad /\ tainted => Block(v) # 0 /\ Spoiled(MatrixAcc(v))
  <2>1. ~Bad /\ tainted => Spoiled(MatrixAcc(unit))
    BY <1>2 DEF DataInv, PassSound, Checked
  <2>2. ~Bad /\ LastBlock(unit) => ~Spoiled(MatrixAcc(unit))
    BY <1>2, UnitReady
  <2>3. ~LastBlock(unit) => Block(v) # 0 /\ MatrixParity(v) = MatrixParity(unit)
    BY <1>1, <1>2, NextUnit
  <2>4. QED
    BY <2>1, <2>2, <2>3 DEF MatrixAcc
<1> HIDE DEF n, m
<1>11. ReqsInv'
  <2>1. SUFFICES ASSUME NEW j \in 1..Asked', Num(j)' >= Oldest'
                 PROVE  reqs'[Slot(Num(j)')] = Item(unit, j)'.r
    BY <1>2 DEF ReqsInv
  <2>2. n + j \in 1..Asked /\ Num(n + j) >= Oldest /\ Num(n + j) = Num(j)' /\ Item(unit, n + j) = Item(unit, j)'
    BY <1>6, <1>7, <2>1
  <2>3. reqs[Slot(Num(n + j))] = Item(unit, n + j).r
    BY <1>2, <2>2 DEF DataInv, ReqsInv
  <2>4. QED
    BY <1>1, <2>2, <2>3
<1>12. LandInv'
  <2>1. \A p \in Past(unit)' : Holds(p[1], p[2], 1)'
    BY <1>1, <1>9 DEF Holds
  <2>2. ASSUME NEW j \in 1..Asked', NEW k \in 1..(Item(unit, j).r.chunks)', Landed(Num(j), k)'
        PROVE  Holds(Item(unit, j).r.dst, Item(unit, j).r.sec, k)'
    <3>1. PICK r : r = Item(unit, n + j).r
      OBVIOUS
    <3>2. Item(unit, j)'.r = r /\ n + j \in 1..Asked /\ k \in 1..r.chunks /\ Landed(Num(n + j), k)
      BY <1>6, <1>8, <2>2, <3>1
    <3>3. Holds(r.dst, r.sec, k)
      BY <1>2, <3>1, <3>2 DEF DataInv, LandInv
    <3>4. QED
      BY <1>1, <3>2, <3>3 DEF Holds
  <2>3. QED
    BY <2>1, <2>2 DEF LandInv
<1>13. PassSound'
  <2>1. SUFFICES ASSUME ~Bad
                 PROVE  /\ \A p \in Past(unit)' : buf'[p[1]][1].ok
                        /\ \A j \in 1..Asked' : Checked(Item(unit, j).r, Num(j))'
                        /\ tainted' => Spoiled(MatrixAcc(unit))' /\ Block(unit)' # 0
    <3>1. Bad' = Bad
      BY <1>1 DEF Bad
    <3>2. QED
      BY <3>1 DEF PassSound
  <2>2. \A p \in Past(unit)' : buf'[p[1]][1].ok
    BY <1>1, <1>9, <2>1
  <2>3. ASSUME NEW j \in 1..Asked'
        PROVE  Checked(Item(unit, j).r, Num(j))'
    <3>1. PICK r, x : r = Item(unit, n + j).r /\ x = Num(n + j)
      OBVIOUS
    <3>2. Item(unit, j)'.r = r /\ n + j \in 1..Asked /\ x = Num(j)' /\ \A k : Landed(Num(j), k)' <=> Landed(x, k)
      BY <1>6, <1>8, <3>1
    <3>3. Checked(r, x)
      BY <1>2, <2>1, <3>1, <3>2 DEF DataInv, PassSound
    <3>4. Checked(r, x)'
      <4>1. Spoiled(r.acc)' <=> Spoiled(r.acc)
        BY <1>1 DEF Spoiled
      <4>2. QED
        BY <1>1, <1>7, <3>3, <4>1 DEF Checked
    <3>5. QED
      BY <3>2, <3>4 DEF Checked
  <2>4. tainted' => Spoiled(MatrixAcc(unit))' /\ Block(unit)' # 0
    BY <1>1, <1>10, <2>1 DEF Spoiled, MatrixAcc
  <2>5. QED
    BY <2>2, <2>3, <2>4
<1>14. DataTypes' /\ PipeInv' /\ ResultInv'
  <2>1. PipeInv'
    BY <1>1, PipeRests DEF DataInv
  <2>2. DataTypes'
    BY <1>1 DEF DataInv, DataTypes
  <2>3. ResultInv'
    BY <1>1 DEF DataInv, ResultInv
  <2>4. QED
    BY <2>1, <2>2, <2>3
<1>15. QED
  BY <1>11, <1>12, <1>13, <1>14 DEF DataInv

\* rd takes a slot that nothing on its way has, and its read has not landed.
LEMMA rdData ==
    ASSUME FlowInv, DataInv, rd
    PROVE  DataInv'
<1> DEFINE q == Head(todo)
           slot == Slot(reqNext)
           t == Len(todo)
<1>1. /\ pc = "issue" /\ todo # <<>> /\ reqs' = [reqs EXCEPT ![slot] = q.r] /\ todo' = Tail(todo) /\ reqNext' = reqNext + 1
      /\ UNCHANGED <<pc, unit, crc0, sd, cq, cp, buf, acc, bounce, crcBad, tainted, result>>
  BY DEF rd, readerVars, memVars, history, Slot
<1>2. /\ t \in Nat /\ t >= 1 /\ q = todo[1] /\ Len(todo') = t - 1 /\ reqNext \in Nat /\ InPass
  BY <1>1 DEF FlowInv, CardTypes, InPass
<1>3. Oldest' = Oldest /\ (CpIdle' <=> CpIdle) /\ (SdIdle' <=> SdIdle) /\ (Copying' <=> Copying) /\ CpEnds' = CpEnds
  BY <1>1, rdFlow DEF CpIdle, SdIdle, Copying, CpEnds, One
<1>4. NextN' = NextN /\ NextK' = NextK /\ \A n, k : Landed(n, k)' <=> Landed(n, k)
  BY <1>1, <1>3 DEF NextN, NextK, Landed
<1>5. /\ Asked \in Nat /\ Asked < Window /\ Window \in Nat /\ First \in Int /\ reqNext = First + Asked /\ Asked = Window - t
      /\ Oldest \in Int /\ First <= Oldest /\ Oldest <= reqNext /\ Flying + t <= Window /\ Flying \in Nat /\ Oldest = reqNext - Flying
      /\ Window <= NREQ /\ NREQ \in Nat
  <2>1. Asked = Window - t /\ Oldest = reqNext - Flying
    BY DEF Asked, Oldest
  <2>2. /\ Asked \in Nat /\ Window \in Nat /\ First \in Int /\ reqNext = First + Asked
        /\ Oldest \in Int /\ First <= Oldest /\ Oldest <= reqNext /\ Flying + t <= Window /\ Flying \in Nat
        /\ Window <= NREQ /\ NREQ \in Nat
    BY <1>2, Asking, ItemIs, Numbers DEF FlowInv, AheadInv
  <2> HIDE DEF t
  <2>3. Asked < Window
    BY <1>2, <2>1, <2>2
  <2>4. QED
    BY <2>1, <2>2, <2>3
<1>6. q.r = Item(unit, Asked + 1).r /\ Num(Asked + 1) = reqNext
  <2>1. todo[1] = Item(unit, Window - Len(todo) + 1)
    BY <1>2 DEF FlowInv, AheadInv
  <2>2. Window - Len(todo) + 1 = Asked + 1
    BY <1>5
  <2>3. Num(Asked + 1) = reqNext
    BY <1>5 DEF Num
  <2>4. QED
    BY <1>2, <2>1, <2>2, <2>3
<1>7. slot \in Slots /\ \A s \in Slots : reqs'[s] = IF s = slot THEN q.r ELSE reqs[s]
  BY <1>1, <1>2, SlotInRange DEF FlowInv, CardTypes
<1>8. /\ \A i \in 1..Len(cq) : reqs'[cq[i].slot] = reqs[cq[i].slot]
      /\ ~CpIdle => reqs'[cp.slot] = reqs[cp.slot]
      /\ ~SdIdle => reqs'[sd.slot] = reqs[sd.slot]
  <2>1. /\ \A i \in 1..Len(cq) : cq[i].slot # slot
        /\ cp.slot # slot /\ sd.slot # slot
    BY <1>1, FlowKeepsSlots DEF SlotsAreFree, Slot
  <2>2. /\ \A i \in 1..Len(cq) : cq[i].slot \in Slots
        /\ ~CpIdle => cp.slot \in Slots
        /\ ~SdIdle => sd.slot \in Slots
    BY Numbers DEF FlowInv, ChunkInv, CardTypes, CpIdle, SdIdle, Tasks
  <2> HIDE DEF slot, q
  <2>3. QED
    BY <1>7, <2>1, <2>2
<1> HIDE DEF slot, q, t
<1>9. /\ Window' = Window /\ Asked' = Asked + 1 /\ First' = First /\ Past(unit)' = Past(unit) /\ MatrixAcc(unit)' = MatrixAcc(unit)
      /\ \A j : Num(j)' = Num(j) /\ Item(unit, j)' = Item(unit, j)
  <2>1. Window' = Window
    BY <1>1 DEF Window
  <2>2. Asked' = Asked + 1
    BY <1>2, <1>5, <2>1 DEF Asked
  <2>3. First' = First
    <3>1. First' = (reqNext + 1) - (Asked + 1) /\ First = reqNext - Asked
      BY <1>1, <2>2 DEF First
    <3>2. QED
      BY <1>2, <1>5, <3>1
  <2>4. QED
    BY <1>1, <2>1, <2>2, <2>3 DEF Num, MatrixAcc
<1>10. \A j \in 1..(Asked + 1) : j \in 1..Asked \/ j = Asked + 1
  BY <1>5
<1>11. PipeInv'
  <2>1. \A i \in 1..Len(cq) : Fits(cq[i])' /\ Carries(cq[i])' /\ NextOf(cq[i])' = NextOf(cq[i])
    BY <1>1, <1>8 DEF DataInv, PipeInv, Fits, Carries, NextOf
  <2>2. (~CpIdle => Fits(cp)') /\ NextOf(cp)' = NextOf(cp)
    BY <1>1, <1>8 DEF DataInv, PipeInv, Fits, NextOf
  <2>3. Copying => Carries(cp)'
    BY <1>1, <1>8 DEF DataInv, PipeInv, Carries, Copying
  <2>4. ~SdIdle => sd.r = reqs'[sd.slot]
    BY <1>8 DEF DataInv, PipeInv
  <2>5. NextOf(cq[1])' = NextOf(cq[1]) /\ NextOf(cq[Len(cq)])' = NextOf(cq[Len(cq)])
    BY <1>1 DEF NextOf
  <2>6. QED
    BY <1>1, <1>3, <2>1, <2>2, <2>3, <2>4, <2>5 DEF DataInv, PipeInv
<1>12. ReqsInv'
  <2>1. SUFFICES ASSUME NEW j \in 1..(Asked + 1), Num(j) >= Oldest
                 PROVE  reqs'[Slot(Num(j))] = Item(unit, j).r
    BY <1>1, <1>3, <1>9 DEF ReqsInv
  <2>2. CASE j = Asked + 1
    BY <1>6, <1>7, <2>2 DEF slot
  <2>3. CASE j \in 1..Asked
    <3>1. Num(j) \in Int /\ Num(j) < reqNext /\ reqNext < Num(j) + NREQ
      <4> DEFINE x == Num(j)
      <4>1. x = First + j - 1
        BY DEF Num
      <4> HIDE DEF x
      <4>2. x \in Int /\ x < reqNext
        BY <1>5, <2>3, <4>1
      <4>3. Flying < NREQ
        BY <1>2, <1>5
      <4>4. x >= Oldest
        BY <2>1 DEF x
      <4>5. reqNext < x + NREQ
        BY <1>2, <1>5, <4>2, <4>3, <4>4
      <4>6. QED
        BY <4>2, <4>5 DEF x
    <3>2. Slot(Num(j)) # Slot(reqNext) /\ Slot(Num(j)) \in Slots
      BY <1>2, <3>1, SlotsDiffer, SlotInRange
    <3>3. reqs[Slot(Num(j))] = Item(unit, j).r
      BY <1>2, <2>1, <2>3 DEF DataInv, ReqsInv
    <3>4. QED
      BY <1>7, <3>2, <3>3 DEF slot
  <2>4. QED
    BY <1>10, <2>1, <2>2, <2>3
<1>13. \A k : k \in Nat \ {0} => ~Landed(reqNext, k)
  BY <1>2, HeldFlies DEF Landed
<1>14. Item(unit, Asked + 1).r \in Reads
  <2>1. Asked + 1 \in 1..Window
    BY <1>5
  <2>2. QED
    BY <1>2, <2>1, ItemIs DEF Queues
<1>15. LandInv'
  <2>1. \A d, sec, k : Holds(d, sec, k)' <=> Holds(d, sec, k)
    BY <1>1 DEF Holds
  <2>2. ASSUME NEW j \in 1..(Asked + 1)
        PROVE  LET r == Item(unit, j).r IN \A k \in 1..r.chunks : Landed(Num(j), k) => Holds(r.dst, r.sec, k)
    <3>1. CASE j \in 1..Asked
      BY <1>2, <3>1 DEF DataInv, LandInv
    <3>2. CASE j = Asked + 1
      BY <1>6, <1>13, <3>2
    <3>3. QED
      BY <1>10, <2>2, <3>1, <3>2
  <2>3. \A p \in Past(unit) : Holds(p[1], p[2], 1)
    BY <1>2 DEF DataInv, LandInv
  <2>4. QED
    BY <1>1, <1>4, <1>9, <2>2, <2>3 DEF LandInv, Holds
<1>16. PassSound'
  <2>1. \A a : Spoiled(a)' <=> Spoiled(a)
    BY <1>1 DEF Spoiled
  <2>2. \A r, n : Checked(r, n)' <=> Checked(r, n)
    BY <1>1, <1>3, <1>4, <2>1 DEF Checked
  <2>3. Checked(Item(unit, Asked + 1).r, reqNext)
    <3>1. ~(reqNext < Oldest) /\ \A k \in 1..Item(unit, Asked + 1).r.chunks : ~Landed(reqNext, k)
      BY <1>2, <1>5, <1>13
    <3>2. QED
      BY <3>1 DEF Checked
  <2>4. ~Bad => \A j \in 1..(Asked + 1) : Checked(Item(unit, j).r, Num(j))
    BY <1>2, <1>6, <1>10, <2>3 DEF DataInv, PassSound
  <2>5. (Bad' <=> Bad) /\ InPass' /\ (Spoiled(MatrixAcc(unit))' <=> Spoiled(MatrixAcc(unit)))
    BY <1>1, <1>2, <1>9 DEF Bad, InPass, Spoiled
  <2>6. ASSUME NEW j, Checked(Item(unit, j).r, Num(j))
        PROVE  Checked(Item(unit, j).r, Num(j))'
    <3>1. PICK r, n : r = Item(unit, j).r /\ n = Num(j)
      OBVIOUS
    <3>2. Item(unit, j)'.r = r /\ Num(j)' = n
      BY <1>9, <3>1
    <3>3. Checked(r, n)'
      BY <2>2, <2>6, <3>1
    <3>4. QED
      BY <3>2, <3>3 DEF Checked
  <2>7. QED
    BY <1>1, <1>2, <1>9, <2>4, <2>5, <2>6 DEF DataInv, PassSound
<1>17. DataTypes' /\ ResultInv'
  <2>1. DataTypes'
    BY <1>1 DEF DataInv, DataTypes
  <2>2. cp.copied => ~CpIdle
    BY DEF FlowInv, ChunkInv
  <2>3. ResultInv'
    BY <1>1, <1>8, <2>2 DEF DataInv, ResultInv
  <2>4. QED
    BY <2>1, <2>3
<1>18. QED
  BY <1>11, <1>12, <1>15, <1>16, <1>17 DEF DataInv

-----------------------------------------------------------------------------
(* Copies and CRCs.                                                        *)

\* Two reads of the window that share a CRC are two blocks of one matrix: the first is not its last
\* block, the second does not begin it.
LEMMA WindowAccs ==
    ASSUME FlowInv, InPass, NEW i \in 1..Window, NEW j \in 1..Window, i < j,
           Item(unit, i).r.acc = Item(unit, j).r.acc, Item(unit, j).r.acc # Own
    PROVE  ~Item(unit, i).r.verify /\ ~Item(unit, j).r.reset
<1>1. /\ unit \in 0..(NUnits - 1) /\ N(unit) \in 1..8 /\ N(unit + 1) \in 0..8 /\ Window = N(unit) + N(unit + 1)
      /\ (unit + 1 < NUnits <=> N(unit + 1) > 0)
  BY UnitInPlan, ItemIs
<1>2. /\ (i = N(unit) /\ Item(unit, i).r = Weights(unit)) \/ i = Window
      /\ (j = N(unit) /\ Item(unit, j).r = Weights(unit)) \/ (j = Window /\ j > N(unit) /\ Item(unit, j).r = Weights(unit + 1))
  BY DstsDiffer DEF Own
<1>3. i = N(unit) /\ Item(unit, i).r = Weights(unit) /\ Item(unit, j).r = Weights(unit + 1) /\ unit + 1 < NUnits
  BY <1>1, <1>2
<1>4. MatrixParity(unit) = MatrixParity(unit + 1)
  BY <1>3 DEF Weights
<1>5. ~LastBlock(unit) /\ Block(unit + 1) # 0
  BY <1>1, <1>3, <1>4, NextUnit
<1>6. (Weights(unit).verify <=> LastBlock(unit)) /\ (Weights(unit + 1).reset <=> Block(unit + 1) = 0)
  BY DEF Weights
<1>7. QED
  BY <1>3, <1>5, <1>6

\* What cp works at is the oldest read in flight.
LEMMA CpReads ==
    ASSUME FlowInv, DataInv, ~CpIdle
    PROVE  /\ InPass /\ cp.dst = reqs[cp.slot].dst /\ cp.k \in 1..reqs[cp.slot].chunks
           /\ (cp.first <=> cp.k = 1) /\ (cp.last <=> cp.k = reqs[cp.slot].chunks)
           /\ cp.k \in 1..BlockChunks /\ reqs[cp.slot] \in Reads
           /\ reqs[cp.slot].acc = Own => reqs[cp.slot].chunks = 1 /\ reqs[cp.slot].reset /\ reqs[cp.slot].verify
           /\ \E j \in 1..Asked : /\ j \in 1..Window /\ Num(j) = Oldest /\ reqs[cp.slot] = Item(unit, j).r
                                  /\ reqs[cp.slot].acc # Own =>
                                       (j = N(unit) /\ reqs[cp.slot] = Weights(unit))
                                       \/ (j = Window /\ j > N(unit) /\ reqs[cp.slot] = Weights(unit + 1))
<1> DEFINE r == reqs[cp.slot]
<1>1. cp.slot = Slot(Oldest) /\ Oldest \in Oldest..(reqNext - 1)
  BY HeldReads, HeldFlies DEF DataInv
<1>2. InPass /\ \E j \in 1..Asked : Oldest = Num(j) /\ r = Item(unit, j).r /\ r \in Reads
  BY <1>1, InFlight DEF DataInv
<1>3. PICK j \in 1..Asked : Oldest = Num(j) /\ r = Item(unit, j).r /\ r \in Reads
  BY <1>2
<1>4. j \in 1..Window
  BY <1>2, Asking
<1>5. Fits(cp)
  BY DEF DataInv, PipeInv
<1> HIDE DEF r
<1>6. /\ cp.dst = r.dst /\ cp.k \in 1..r.chunks /\ (cp.first <=> cp.k = 1) /\ (cp.last <=> cp.k = r.chunks)
  BY <1>5 DEF Fits, r
<1>7. /\ r.chunks = 1 \/ r.chunks = BlockChunks
      /\ r.acc = Own => r.chunks = 1 /\ r.reset /\ r.verify
      /\ r.acc # Own => (j = N(unit) /\ r = Weights(unit)) \/ (j = Window /\ j > N(unit) /\ r = Weights(unit + 1))
  <2>1. Goes(IF j <= N(unit) THEN unit ELSE unit + 1, r)
    BY <1>2, <1>3, <1>4, DstsDiffer
  <2>2. \A u : Weights(u).chunks = BlockChunks
    BY DEF Weights
  <2>3. r.chunks = 1 \/ r.chunks = BlockChunks
    BY <2>1, <2>2 DEF Goes
  <2>4. r.acc = Own => r.chunks = 1 /\ r.reset /\ r.verify
    BY <2>1 DEF Goes, Own
  <2>5. r.acc # Own => (j = N(unit) /\ r = Weights(unit)) \/ (j = Window /\ j > N(unit) /\ r = Weights(unit + 1))
    BY <1>2, <1>3, <1>4, DstsDiffer DEF Own
  <2>6. QED
    BY <2>3, <2>4, <2>5
<1>8. cp.k \in 1..BlockChunks
  BY <1>6, <1>7, CardAssumption
<1>9. QED
  BY <1>2, <1>3, <1>4, <1>6, <1>7, <1>8 DEF r

\* The place of the next chunk moves past the one that is copied.
LEMMA CpCopiesMoves ==
    ASSUME FlowInv, DataInv, CpCopies
    PROVE  /\ NextN = Oldest /\ NextK = cp.k
           /\ \A n \in Int, k \in Nat \ {0} :
                Landed(n, k)' /\ (n = Oldest => k <= reqs[cp.slot].chunks) => Landed(n, k) \/ (n = Oldest /\ k = cp.k)
           /\ PipeInv'
<1>1. /\ ~CpIdle /\ ~cp.copied /\ Copying /\ cp' = (IF cp.last THEN [cp EXCEPT !.copied = TRUE] ELSE NoTask)
      /\ UNCHANGED <<passVars, reqs, rq, reqNext, sd, cq, bounce>>
  BY DEF CpCopies, reqVars, Copying
<1>2. NextN = Oldest /\ NextK = cp.k
  BY <1>1, Numbers DEF NextN, NextK, FlowInv
<1>3. /\ cp.k \in Nat \ {0} /\ (cp.last <=> cp.k = reqs[cp.slot].chunks) /\ reqs[cp.slot].chunks \in Nat
  BY <1>1, CpReads DEF Reads
<1>4. (Len(cq) = 0 \/ Len(cq) = 1) /\ cp.slot # NREQ /\ cp \in Tasks
  BY <1>1, QueueShort DEF CpIdle, FlowInv, CardTypes
<1>5. /\ (CpIdle' <=> ~cp.last) /\ (cp'.last <=> cp.last) /\ ~Copying'
      /\ cp.last => /\ cp'.slot = cp.slot /\ cp'.dst = cp.dst /\ cp'.k = cp.k /\ cp'.first = cp.first
                    /\ cp'.last = cp.last
  <2>1. CASE cp.last
    <3>1. cp' = [cp EXCEPT !.copied = TRUE]
      BY <1>1, <2>1
    <3>2. /\ cp'.slot = cp.slot /\ cp'.dst = cp.dst /\ cp'.k = cp.k /\ cp'.first = cp.first
          /\ cp'.last = cp.last /\ cp'.copied = TRUE
      BY <1>4, <3>1 DEF Tasks
    <3>3. QED
      BY <1>4, <2>1, <3>2 DEF CpIdle, Copying
  <2>2. CASE ~cp.last
    <3>1. cp' = NoTask
      BY <1>1, <2>2
    <3>2. NoTask.slot = NREQ /\ ~NoTask.last /\ ~NoTask.copied
      BY DEF NoTask
    <3>3. QED
      BY <2>2, <3>1, <3>2 DEF CpIdle, Copying
  <2>3. QED
    BY <2>1, <2>2
<1>6. Oldest' = Oldest /\ Oldest \in Int /\ SdIdle' = SdIdle
  BY <1>1, CpCopiesFlow, Numbers DEF FlowInv, SdIdle
<1>7. /\ Len(cq) # 0 => cq[1].k = NextOf(cp)
      /\ Len(cq) = 0 /\ ~SdIdle => sd.k = NextOf(cp)
      /\ Len(cq) = 0 /\ SdIdle => cp.last
  BY <1>1, NoCqIdle DEF DataInv, PipeInv
<1>8. NextK' = NextOf(cp) /\ NextN' = IF cp.last THEN Oldest + 1 ELSE Oldest
  <2>1. NextN' = IF cp.last THEN Oldest + 1 ELSE Oldest
    <3>1. CpEnds' = IF cp.last THEN 1 ELSE 0
      BY <1>5 DEF CpEnds, One
    <3>2. QED
      BY <1>5, <1>6, <3>1 DEF NextN
  <2>2. NextK' = IF Len(cq) # 0 THEN cq[1].k ELSE IF ~SdIdle THEN sd.k ELSE 1
    BY <1>1, <1>5, <1>6 DEF NextK
  <2>3. NextK' = NextOf(cp)
    BY <1>7, <2>2 DEF NextOf
  <2>4. QED
    BY <2>1, <2>3
<1>9. ASSUME NEW n \in Int, NEW k \in Nat \ {0}, Landed(n, k)', n = Oldest => k <= reqs[cp.slot].chunks
      PROVE  Landed(n, k) \/ (n = Oldest /\ k = cp.k)
  <2>1. n < NextN' \/ (n = NextN' /\ k < NextK')
    BY <1>9 DEF Landed
  <2>2. CASE cp.last
    <3>1. n <= Oldest
      BY <1>6, <1>8, <2>1, <2>2 DEF NextOf
    <3>2. n < Oldest \/ (n = Oldest /\ k <= cp.k)
      BY <1>3, <1>6, <1>9, <2>2, <3>1
    <3>3. n < NextN \/ (n = NextN /\ k < NextK) \/ (n = Oldest /\ k = cp.k)
      BY <1>2, <1>3, <1>6, <3>2
    <3>4. QED
      BY <3>3 DEF Landed
  <2>3. CASE ~cp.last
    <3>1. n < Oldest \/ (n = Oldest /\ k < cp.k + 1)
      BY <1>8, <2>1, <2>3 DEF NextOf
    <3>2. n < NextN \/ (n = NextN /\ k < NextK) \/ (n = Oldest /\ k = cp.k)
      BY <1>2, <1>3, <1>6, <3>1
    <3>3. QED
      BY <3>2 DEF Landed
  <2>4. QED
    BY <2>2, <2>3
<1>10. PipeInv'
  <2>1. \A i \in 1..Len(cq) : Fits(cq[i])' /\ Carries(cq[i])'
    BY <1>1 DEF DataInv, PipeInv, Fits, Carries
  <2>2. ~CpIdle' => Fits(cp)'
    <3>1. SUFFICES ASSUME cp.last PROVE Fits(cp)'
      BY <1>5
    <3>2. Fits(cp)
      BY <1>1 DEF DataInv, PipeInv
    <3>3. QED
      BY <1>1, <1>5, <3>1, <3>2 DEF Fits
  <2>3. Len(cq) # 2
    BY <1>4
  <2>4. ~SdIdle => sd.r = reqs'[sd.slot] /\ sd.k \in 1..sd.r.chunks
    BY <1>1 DEF DataInv, PipeInv
  <2>5. ~SdIdle /\ Len(cq) # 0 => sd.k = NextOf(cq[Len(cq)])'
    <3>1. ~SdIdle /\ Len(cq) # 0 => sd.k = NextOf(cq[Len(cq)])
      BY DEF DataInv, PipeInv
    <3>2. cq' = cq
      BY <1>1
    <3>3. NextOf(cq[Len(cq)])' = NextOf(cq[Len(cq)])
      BY <3>2 DEF NextOf
    <3>4. QED
      BY <3>1, <3>3
  <2>6. UNCHANGED <<sd, cq>>
    BY <1>1
  <2>7. QED
    BY <1>5, <1>6, <2>1, <2>2, <2>3, <2>4, <2>5, <2>6 DEF PipeInv
<1>11. QED
  BY <1>2, <1>9, <1>10

LEMMA CpCopiesData ==
    ASSUME FlowInv, DataInv, CpCopies
    PROVE  DataInv'
<1> DEFINE data == bounce[cp.bi]
<1>1. /\ ~CpIdle /\ Copying /\ cp' = (IF cp.last THEN [cp EXCEPT !.copied = TRUE] ELSE NoTask)
      /\ acc' = [acc EXCEPT ![reqs[cp.slot].acc] = Append(IF cp.first /\ reqs[cp.slot].reset THEN <<>> ELSE @, data)]
      /\ buf' = [buf EXCEPT ![cp.dst][cp.k] = data]
      /\ UNCHANGED <<pc, unit, todo, crc0, reqs, reqNext, bounce, crcBad, tainted, result>>
  BY DEF CpCopies, reqVars, passVars, history, Copying
<1>2. PICK r, kk : r = reqs[cp.slot] /\ kk = cp.k
  OBVIOUS
<1>3. /\ InPass /\ cp.dst = r.dst /\ kk \in 1..r.chunks /\ (cp.first <=> kk = 1) /\ (cp.last <=> kk = r.chunks)
      /\ kk \in 1..BlockChunks /\ r \in Reads /\ (r.acc = Own => r.chunks = 1 /\ r.reset)
  BY <1>1, <1>2, CpReads
<1>4. PICK jj \in 1..Asked :
          /\ jj \in 1..Window /\ Num(jj) = Oldest /\ r = Item(unit, jj).r
          /\ r.acc # Own => (jj = N(unit) /\ r = Weights(unit)) \/ (jj = Window /\ jj > N(unit) /\ r = Weights(unit + 1))
  BY <1>1, <1>2, CpReads
<1>5. PICK x : x = data
  OBVIOUS
<1>6. x.sec = r.sec /\ x.k = kk /\ x \in Chunks
  <2>1. Carries(cp)
    BY <1>1 DEF DataInv, PipeInv
  <2>2. cp.bi \in Half
    BY DEF FlowInv, CardTypes, Tasks
  <2>3. bounce \in [Half -> Chunks]
    BY DEF DataInv, DataTypes
  <2> HIDE DEF Chunks
  <2>4. QED
    BY <1>2, <1>5, <2>1, <2>2, <2>3 DEF Carries
<1> HIDE DEF data
<1>7. /\ \A d \in Buffers, k \in 1..BlockChunks : buf'[d][k] = IF d = r.dst /\ k = kk THEN x ELSE buf[d][k]
      /\ buf' \in [Buffers -> [1..BlockChunks -> Chunks]]
  <2>1. buf' = [buf EXCEPT ![r.dst][kk] = x]
    BY <1>1, <1>2, <1>3, <1>5
  <2>2. buf \in [Buffers -> [1..BlockChunks -> Chunks]] /\ r.dst \in Buffers
    BY <1>3 DEF DataInv, DataTypes, Reads
  <2> HIDE DEF Chunks, Buffers
  <2>3. QED
    BY <1>3, <1>6, <2>1, <2>2
<1>8. PICK start : start = IF kk = 1 /\ r.reset THEN <<>> ELSE acc[r.acc]
  OBVIOUS
<1>9. /\ \A a \in Accs : acc'[a] = IF a = r.acc THEN Append(start, x) ELSE acc[a]
      /\ acc' \in [Accs -> Seq(Chunks)] /\ start \in Seq(Chunks) /\ r.acc \in Accs
  <2>1. acc' = [acc EXCEPT ![r.acc] = Append(start, x)]
    BY <1>1, <1>2, <1>3, <1>5, <1>8
  <2>2. acc \in [Accs -> Seq(Chunks)] /\ r.acc \in Accs
    BY <1>3 DEF DataInv, DataTypes, Reads
  <2> HIDE DEF Chunks, Accs
  <2>3. start \in Seq(Chunks)
    <3>1. <<>> \in Seq(Chunks)
      BY EmptySeq
    <3>2. QED
      BY <1>8, <2>2, <3>1
  <2>4. Append(start, x) \in Seq(Chunks)
    BY <1>6, <2>3
  <2>5. QED
    BY <2>1, <2>2, <2>3, <2>4
<1>10. /\ \A a \in Accs : a # r.acc => (Spoiled(a)' <=> Spoiled(a))
       /\ ~(kk = 1 /\ r.reset) /\ Spoiled(r.acc) => Spoiled(r.acc)'
       /\ ~x.ok => Spoiled(r.acc)'
  <2>1. Len(start) \in Nat /\ Len(Append(start, x)) = Len(start) + 1 /\ Append(start, x)[Len(start) + 1] = x
        /\ \A i \in 1..Len(start) : Append(start, x)[i] = start[i]
    <3> HIDE DEF Chunks
    <3>1. QED
      BY <1>6, <1>9
  <2>2. acc'[r.acc] = Append(start, x)
    BY <1>9
  <2>3. Len(start) + 1 \in 1..(Len(start) + 1) /\ \A i \in 1..Len(start) : i \in 1..(Len(start) + 1)
    BY <2>1
  <2>4. ~x.ok => Spoiled(r.acc)'
    BY <2>1, <2>2, <2>3 DEF Spoiled
  <2>5. ~(kk = 1 /\ r.reset) /\ Spoiled(r.acc) => Spoiled(r.acc)'
    BY <1>8, <2>1, <2>2, <2>3 DEF Spoiled
  <2>6. QED
    BY <1>9, <2>4, <2>5 DEF Spoiled
<1>11. Oldest' = Oldest /\ NextN = Oldest /\ NextK = kk /\ PipeInv'
       /\ \A n \in Int, k \in Nat \ {0} :
            Landed(n, k)' /\ (n = Oldest => k <= r.chunks) => Landed(n, k) \/ (n = Oldest /\ k = kk)
  BY <1>2, CpCopiesMoves, CpCopiesFlow
<1>12. /\ Asked \in Nat /\ Asked <= Window /\ Window \in Nat /\ First \in Int /\ Oldest \in Int
       /\ \A j \in 1..Asked : j \in 1..Window /\ Num(j) \in Int
       /\ \A j \in 1..Asked : Num(j) = Oldest => j = jj
       /\ \A j \in 1..Asked : Num(j) < Oldest <=> j < jj
  <2>1. Asked \in Nat /\ Asked <= Window /\ Window \in Nat /\ First \in Int /\ Oldest \in Int
    BY <1>3, Asking, Numbers DEF FlowInv
  <2>2. First + jj - 1 = Oldest
    BY <1>4 DEF Num
  <2>3. QED
    BY <2>1, <2>2 DEF Num
<1>13. \A j \in 1..Asked : Item(unit, j).r \in Reads /\ (j # jj => Item(unit, j).r.dst # r.dst)
  <2>1. \A j \in 1..Window : Item(unit, j).r \in Reads
    BY <1>3, ItemIs DEF Queues
  <2>2. QED
    BY <1>3, <1>4, <1>12, <2>1, DstsDiffer
<1>14. \A p \in Past(unit) : p[1] # r.dst
  BY <1>3, <1>4, DstsDiffer
<1>15. \A j \in 1..Asked : Item(unit, j).r.chunks \in Nat /\ \A k \in 1..Item(unit, j).r.chunks : k \in 1..BlockChunks /\ k \in Nat \ {0}
  <2>1. SUFFICES ASSUME NEW j \in 1..Asked
                 PROVE  Item(unit, j).r.chunks = 1 \/ Item(unit, j).r.chunks = BlockChunks
    BY CardAssumption
  <2>2. Goes(IF j <= N(unit) THEN unit ELSE unit + 1, Item(unit, j).r)
    BY <1>3, <1>12, DstsDiffer
  <2>3. \A u : Weights(u).chunks = BlockChunks
    BY DEF Weights
  <2>4. QED
    BY <2>2, <2>3 DEF Goes
\* A chunk that has landed is the one just copied, or it had landed and stays.
<1>16. ASSUME NEW j \in 1..Asked, NEW k \in 1..Item(unit, j).r.chunks, Landed(Num(j), k)'
       PROVE  \/ j = jj /\ k = kk
              \/ Landed(Num(j), k) /\ buf'[Item(unit, j).r.dst][k] = buf[Item(unit, j).r.dst][k]
  <2>1. Num(j)' = Num(j)
    BY <1>1, WindowRests
  <2>2. PICK n : n = Num(j)
    OBVIOUS
  <2>3. Landed(n, k)'
    BY <1>16, <2>1, <2>2 DEF Landed
  <2>4. n \in Int /\ k \in Nat \ {0} /\ (n = Oldest => j = jj /\ k <= r.chunks) /\ k \in 1..BlockChunks
    <3>1. n \in Int /\ k \in Nat \ {0} /\ (n = Oldest => j = jj) /\ k \in 1..BlockChunks /\ Item(unit, j).r.chunks \in Nat
      BY <1>12, <1>15, <2>2
    <3>2. j = jj => k <= r.chunks
      BY <1>4, <3>1
    <3>3. QED
      BY <3>1, <3>2
  <2>5. Landed(n, k) \/ (n = Oldest /\ k = kk)
    BY <1>11, <2>3, <2>4
  <2>6. CASE j = jj /\ k = kk
    BY <2>6
  <2>7. CASE ~(j = jj /\ k = kk)
    <3>1. Landed(Num(j), k)
      BY <2>2, <2>4, <2>5, <2>7
    <3>2. Item(unit, j).r.dst \in Buffers /\ ~(Item(unit, j).r.dst = r.dst /\ k = kk)
      BY <1>13, <2>7 DEF Reads
    <3>3. buf'[Item(unit, j).r.dst][k] = buf[Item(unit, j).r.dst][k]
      BY <1>7, <2>4, <3>2
    <3>4. QED
      BY <3>1, <3>3
  <2>8. QED
    BY <2>6, <2>7
<1>17. buf'[r.dst][kk] = x
  <2>1. r.dst \in Buffers
    BY <1>3 DEF Reads
  <2>2. QED
    BY <1>3, <1>7, <2>1
<1>18. \A p \in Past(unit) : buf'[p[1]][1] = buf[p[1]][1]
  <2>1. ASSUME NEW p \in Past(unit)
        PROVE  p[1] \in Buffers
    <3>1. MatrixParity(unit) \in Half /\ Layer(unit) % 2 \in Half
      BY <1>3, UnitInPlan, UnitIs
    <3>2. QED
      BY <3>1 DEF Past, Buffers
  <2>2. 1 \in 1..BlockChunks
    BY CardAssumption
  <2>3. QED
    BY <1>7, <1>14, <2>1, <2>2
<1>19. LandInv'
  <2>1. ASSUME NEW j \in 1..Asked, NEW k \in 1..Item(unit, j).r.chunks, Landed(Num(j), k)'
        PROVE  LET r1 == Item(unit, j).r IN buf'[r1.dst][k].sec = r1.sec /\ buf'[r1.dst][k].k = k
    <3>1. CASE j = jj /\ k = kk
      BY <1>4, <1>6, <1>17, <3>1
    <3>2. CASE Landed(Num(j), k) /\ buf'[Item(unit, j).r.dst][k] = buf[Item(unit, j).r.dst][k]
      BY <1>3, <3>2 DEF DataInv, LandInv, Holds
    <3>3. QED
      BY <1>16, <2>1, <3>1, <3>2
  <2>2. \A p \in Past(unit) : buf'[p[1]][1].sec = p[2] /\ buf'[p[1]][1].k = 1
    BY <1>3, <1>18 DEF DataInv, LandInv, Holds
  <2>3. QED
    BY <1>1, <2>1, <2>2, WindowRests DEF LandInv, Holds
<1>20. ASSUME ~Bad, NEW j \in 1..Asked
       PROVE  Checked(Item(unit, j).r, Num(j))'
  <2>1. PICK r1, n : r1 = Item(unit, j).r /\ n = Num(j)
    OBVIOUS
  <2>2. Checked(r1, n)
    BY <1>3, <1>20, <2>1 DEF DataInv, PassSound
  <2>3. r1 \in Reads /\ r1.acc \in Accs /\ r1.dst \in Buffers /\ (j # jj => r1.dst # r.dst) /\ n \in Int /\ (n < Oldest <=> j < jj)
        /\ j \in Int /\ jj \in Int
    BY <1>12, <1>13, <2>1 DEF Reads
  <2>4. ASSUME r1.acc = Own, n < Oldest
        PROVE  buf'[r1.dst][1].ok
    <3>1. buf[r1.dst][1].ok /\ r1.dst # r.dst
      BY <2>2, <2>3, <2>4 DEF Checked
    <3>2. buf'[r1.dst][1] = buf[r1.dst][1]
      BY <1>7, <2>3, <3>1, CardAssumption
    <3>3. QED
      BY <3>1, <3>2
  <2>5. ASSUME r1.acc # Own, NEW k \in 1..r1.chunks, Landed(n, k)', ~buf'[r1.dst][k].ok
        PROVE  Spoiled(r1.acc)'
    <3>1. CASE j = jj /\ k = kk
      <4>1. r1 = r /\ ~x.ok
        BY <1>4, <1>17, <2>1, <2>5, <3>1
      <4>2. QED
        BY <1>10, <4>1
    <3>2. CASE Landed(n, k) /\ buf'[r1.dst][k] = buf[r1.dst][k]
      <4>1. Spoiled(r1.acc)
        BY <2>2, <2>5, <3>2 DEF Checked
      <4>2. CASE r1.acc # r.acc
        BY <1>10, <2>3, <4>1, <4>2
      <4>3. CASE r1.acc = r.acc
        <5>1. ~(kk = 1 /\ r.reset)
          <6>1. SUFFICES ASSUME kk = 1, r.reset PROVE FALSE
            OBVIOUS
          <6>2. CASE j < jj
            <7>1. j \in 1..Window
              BY <1>12
            <7>2. QED
              BY <1>3, <1>4, <2>1, <2>5, <4>3, <6>1, <6>2, <7>1, WindowAccs
          <6>3. CASE ~(j < jj)
            <7>1. n < NextN \/ (n = NextN /\ k < NextK)
              BY <3>2 DEF Landed
            <7>2. k \in 1..r1.chunks /\ k >= 1 /\ k \in Nat
              BY <1>15, <2>1, <2>5
            <7>3. QED
              BY <1>11, <1>12, <2>3, <6>1, <6>3, <7>1, <7>2
          <6>4. QED
            BY <6>2, <6>3
        <5>2. QED
          BY <1>10, <4>1, <4>3, <5>1
      <4>4. QED
        BY <4>2, <4>3
    <3>3. Landed(Num(j), k)'
      <4>1. Num(j)' = n
        BY <1>1, <2>1, WindowRests
      <4>2. QED
        BY <2>5, <4>1 DEF Landed
    <3>4. QED
      BY <1>16, <2>1, <3>1, <3>2, <3>3
  <2>6. ASSUME r1.acc # Own, r1.verify, n < Oldest
        PROVE  ~Spoiled(r1.acc)'
    <3>1. ~Spoiled(r1.acc)
      BY <2>2, <2>6 DEF Checked
    <3>2. r1.acc # r.acc
      <4>1. SUFFICES ASSUME r1.acc = r.acc PROVE FALSE
        OBVIOUS
      <4>2. j < jj /\ j \in 1..Window
        BY <1>12, <2>3, <2>6
      <4>3. QED
        BY <1>3, <1>4, <2>1, <2>6, <4>1, <4>2, WindowAccs
    <3>3. QED
      BY <1>10, <2>3, <3>1, <3>2
  <2>7. Checked(r1, n)'
    BY <1>11, <2>4, <2>5, <2>6 DEF Checked
  <2>8. Item(unit, j)'.r = r1 /\ Num(j)' = n
    BY <1>1, <2>1, WindowRests
  <2>9. QED
    BY <2>7, <2>8 DEF Checked
<1>21. ASSUME ~Bad, tainted
       PROVE  Spoiled(MatrixAcc(unit))'
  <2>1. PICK a : a = MatrixAcc(unit)
    OBVIOUS
  <2>2. Spoiled(a) /\ (Block(unit) # 0 \/ pc = "compute")
    BY <1>3, <1>21, <2>1 DEF DataInv, PassSound
  <2>3. a \in Accs /\ a # Own
    <3>1. MatrixParity(unit) \in Half
      BY <1>3, UnitInPlan, UnitIs
    <3>2. QED
      BY <2>1, <3>1 DEF MatrixAcc, Accs, Own
  <2>4. CASE a # r.acc
    <3>1. Spoiled(a)'
      BY <1>10, <2>2, <2>3, <2>4
    <3>2. QED
      BY <1>1, <2>1, <3>1 DEF MatrixAcc, Spoiled
  <2>5. CASE a = r.acc
    <3>1. ~(kk = 1 /\ r.reset)
      <4>1. SUFFICES ASSUME r.reset PROVE FALSE
        OBVIOUS
      <4>2. CASE jj = N(unit) /\ r = Weights(unit)
        <5>1. Block(unit) = 0
          BY <4>1, <4>2 DEF Weights
        <5>2. pc = "compute"
          BY <2>2, <5>1
        <5>3. Len(todo) = 0 /\ Flying <= N(unit + 1)
          BY <5>2, WaitsOver
        <5>4. N(unit) \in Nat /\ N(unit + 1) \in Nat /\ Window = N(unit) + N(unit + 1)
          BY <1>3, ItemIs
        <5>5. Asked = Window
          BY <1>12, <5>3 DEF Asked
        <5>6. reqNext = First + Asked /\ Flying \in Nat /\ Oldest = reqNext - Flying
          BY <1>3, Asking, Numbers DEF FlowInv, Oldest
        <5>7. First + jj - 1 = Oldest
          BY <1>4 DEF Num
        <5> DEFINE n0 == N(unit)
                   m0 == N(unit + 1)
        <5>8. jj = n0 /\ Flying <= m0 /\ n0 \in Nat /\ m0 \in Nat /\ Window = n0 + m0
          BY <4>2, <5>3, <5>4
        <5> HIDE DEF n0, m0
        <5>9. QED
          BY <1>12, <5>5, <5>6, <5>7, <5>8
      <4>3. CASE jj = Window /\ jj > N(unit) /\ r = Weights(unit + 1)
        <5>1. unit \in 0..(NUnits - 1) /\ unit + 1 < NUnits
          BY <1>3, <4>3, UnitInPlan, ItemIs
        <5>2. Block(unit + 1) = 0 /\ MatrixParity(unit + 1) = MatrixParity(unit)
          <6>1. Weights(unit + 1).acc = <<"wq", MatrixParity(unit + 1)>> /\ (Weights(unit + 1).reset <=> Block(unit + 1) = 0)
            BY DEF Weights
          <6>2. QED
            BY <2>1, <2>5, <4>1, <4>3, <6>1 DEF MatrixAcc
        <5>3. QED
          BY <5>1, <5>2, NextUnit
      <4>4. QED
        BY <1>4, <2>3, <2>5, <4>2, <4>3
    <3>2. Spoiled(a)'
      BY <1>10, <2>2, <2>5, <3>1
    <3>3. QED
      BY <1>1, <2>1, <3>2 DEF MatrixAcc, Spoiled
  <2>6. QED
    BY <2>4, <2>5
<1>22. PassSound'
  <2>1. \A p \in Past(unit) : ~Bad => buf'[p[1]][1].ok
    BY <1>3, <1>18 DEF DataInv, PassSound
  <2>2. (Bad' <=> Bad) /\ (Block(unit) # 0)' = (Block(unit) # 0)
    BY <1>1 DEF Bad
  <2>3. ~Bad /\ tainted => Block(unit) # 0 \/ pc = "compute"
    BY <1>3 DEF DataInv, PassSound
  <2>4. QED
    BY <1>1, <1>20, <1>21, <2>1, <2>2, <2>3, WindowRests DEF PassSound
<1>23. ResultInv'
  <2>1. ASSUME cp'.copied, reqs'[cp'.slot].acc = Own
        PROVE  acc'[Own] = <<buf'[cp'.dst][1]>>
    <3>1. cp.last /\ cp' = [cp EXCEPT !.copied = TRUE]
      BY <1>1, <2>1 DEF NoTask
    <3>2. cp'.slot = cp.slot /\ cp'.dst = cp.dst
      BY <3>1 DEF FlowInv, CardTypes, Tasks
    <3>3. r.acc = Own /\ kk = 1 /\ r.reset
      BY <1>1, <1>2, <1>3, <2>1, <3>2
    <3>4. start = <<>> /\ acc'[Own] = Append(start, x)
      BY <1>8, <1>9, <3>3
    <3>5. acc'[Own] = <<x>>
      BY <3>4
    <3>6. buf'[cp'.dst][1] = x
      BY <1>3, <1>17, <3>2, <3>3
    <3>7. QED
      BY <3>5, <3>6
  <2>2. QED
    BY <1>1, <2>1 DEF DataInv, ResultInv
<1>24. DataTypes'
  BY <1>1, <1>7, <1>9 DEF DataInv, DataTypes
<1>25. ReqsInv'
  BY <1>1, <1>11, WindowRests DEF DataInv, ReqsInv, InPass
<1>26. QED
  BY <1>11, <1>19, <1>22, <1>23, <1>24, <1>25 DEF DataInv

\* A read whose CRC has been compared is intact, or a mismatch is counted.
LEMMA CpCompletesData ==
    ASSUME FlowInv, DataInv, CpCompletes
    PROVE  DataInv'
<1>1. /\ ~CpIdle /\ cp.copied /\ cp' = NoTask
      /\ crcBad' = (IF reqs[cp.slot].verify /\ acc[reqs[cp.slot].acc] # Want(reqs[cp.slot]) THEN crcBad + 1 ELSE crcBad)
      /\ UNCHANGED <<pc, unit, todo, crc0, reqs, rq, reqNext, sd, cq, bounce, buf, acc, tainted, result>>
  BY DEF CpCompletes, passVars, history
<1>2. PICK r : r = reqs[cp.slot]
  OBVIOUS
<1>3. /\ InPass /\ cp.dst = r.dst /\ r \in Reads /\ (r.acc = Own => r.chunks = 1 /\ r.verify)
  BY <1>1, <1>2, CpReads
<1>4. PICK jj \in 1..Asked :
          /\ jj \in 1..Window /\ Num(jj) = Oldest /\ r = Item(unit, jj).r
          /\ r.acc # Own => (jj = N(unit) /\ r = Weights(unit)) \/ (jj = Window /\ jj > N(unit) /\ r = Weights(unit + 1))
  BY <1>1, <1>2, CpReads
<1>5. CpIdle' /\ ~cp'.copied /\ ~cp'.last /\ ~Copying /\ ~Copying' /\ SdIdle' = SdIdle /\ cp.last
  <2>1. NoTask.slot = NREQ /\ ~NoTask.last /\ ~NoTask.copied
    BY DEF NoTask
  <2>2. QED
    BY <1>1, <2>1 DEF CpIdle, Copying, SdIdle, FlowInv, ChunkInv
<1>6. Oldest' = Oldest + 1 /\ Oldest \in Int /\ NextN' = NextN /\ NextK' = NextK
  <2>1. CpEnds = 1 /\ CpEnds' = 0
    BY <1>1, <1>5 DEF CpEnds, One
  <2>2. Oldest' = Oldest + 1 /\ Oldest \in Int
    BY CpCompletesFlow, Numbers DEF FlowInv
  <2>3. NextN' = NextN
    BY <1>5, <2>1, <2>2 DEF NextN
  <2>4. NextK' = NextK
    BY <1>1, <1>5 DEF NextK
  <2>5. QED
    BY <2>2, <2>3, <2>4
<1>7. \A n, k : Landed(n, k)' <=> Landed(n, k)
  BY <1>6 DEF Landed
<1>8. /\ \A j \in 1..Asked : Num(j) \in Int /\ (Num(j) = Oldest => j = jj)
      /\ crcBad \in Nat /\ crc0 \in Nat /\ crcBad >= crc0
  <2>1. Asked \in Nat /\ First \in Int
    BY <1>3, Asking
  <2>2. First + jj - 1 = Oldest
    BY <1>4 DEF Num
  <2>3. crcBad >= crc0
    BY <1>3 DEF DataInv, ResultInv, InPass
  <2>4. crcBad \in Nat /\ crc0 \in Nat
    BY DEF DataInv, DataTypes
  <2>5. QED
    BY <2>1, <2>2, <2>3, <2>4 DEF Num
<1>9. ~Bad' => ~Bad /\ (r.verify => acc[r.acc] = Want(r))
  BY <1>1, <1>2, <1>8 DEF Bad
\* What a matching CRC says of the chunks it has seen, and of those in memory.
<1>10. ASSUME acc[r.acc] = Want(r)
       PROVE  ~Spoiled(r.acc) /\ (r.acc = Own => buf[r.dst][1].ok)
  <2>1. CASE r.acc = Own
    <3>1. Want(r) = [k \in 1..1 |-> Chunk(r.sec, k, TRUE)]
      BY <1>3, <2>1 DEF Want, Intact, Own
    <3>2. acc[Own] = <<buf[r.dst][1]>>
      BY <1>1, <1>2, <1>3, <2>1 DEF DataInv, ResultInv
    <3>3. PICK b, f : b = buf[r.dst][1] /\ f = acc[Own]
      OBVIOUS
    <3>4. f = <<b>>
      BY <3>2, <3>3
    <3>5. f[1] = b /\ Len(f) = 1
      BY <3>4
    <3>6. f[1] = Chunk(r.sec, 1, TRUE)
      <4>1. f = [k \in 1..1 |-> Chunk(r.sec, k, TRUE)]
        BY <1>10, <2>1, <3>1, <3>3
      <4>2. QED
        BY <4>1
    <3>7. b.ok
      BY <3>5, <3>6 DEF Chunk
    <3>8. \A i \in 1..Len(f) : i = 1
      BY <3>5
    <3>9. ~Spoiled(Own)
      BY <3>3, <3>5, <3>7, <3>8 DEF Spoiled
    <3>10. QED
      BY <2>1, <3>3, <3>7, <3>9
  <2>2. CASE r.acc # Own
    <3> DEFINE M == Blocks[r.sec[3]] * BlockChunks
               F == [n \in 1..M |-> Chunk(<<"wq", r.sec[2], r.sec[3], (n - 1) \div BlockChunks>>,
                                          ((n - 1) % BlockChunks) + 1, TRUE)]
    <3>1. Want(r) = F
      BY <2>2 DEF Want, Own
    <3>2. M \in Nat
      <4>1. PICK u \in 0..(NUnits - 1) : r = Weights(u)
        <5>1. CASE jj = N(unit) /\ r = Weights(unit)
          BY <1>3, <5>1, UnitInPlan
        <5>2. CASE jj = Window /\ jj > N(unit) /\ r = Weights(unit + 1)
          <6>1. unit \in 0..(NUnits - 1) /\ unit + 1 < NUnits
            BY <1>3, <5>2, UnitInPlan, ItemIs
          <6>2. QED
            BY <5>2, <6>1, NextUnit
        <5>3. QED
          BY <1>4, <2>2, <5>1, <5>2
      <4>2. r.sec[3] = Matrix(u)
        BY <4>1 DEF Weights
      <4>3. Blocks[r.sec[3]] \in Nat /\ BlockChunks \in Nat
        BY <4>2, UnitIs, CardAssumption
      <4>4. QED
        BY <4>3
    <3> HIDE DEF M
    <3>3. Len(F) = M /\ \A n \in 1..M : F[n].ok
      <4>1. Len(F) = M
        BY <3>2
      <4>2. \A sec, k : Chunk(sec, k, TRUE).ok
        BY DEF Chunk
      <4>3. QED
        BY <4>1, <4>2
    <3> HIDE DEF F
    <3>4. QED
      BY <1>10, <2>2, <3>1, <3>3 DEF Spoiled
  <2>3. QED
    BY <2>1, <2>2
<1>11. ASSUME ~Bad', NEW j \in 1..Asked
       PROVE  Checked(Item(unit, j).r, Num(j))'
  <2>1. PICK r1, n : r1 = Item(unit, j).r /\ n = Num(j)
    OBVIOUS
  <2>2. Checked(r1, n)
    BY <1>3, <1>9, <1>11, <2>1 DEF DataInv, PassSound
  <2>3. Spoiled(r1.acc)' <=> Spoiled(r1.acc)
    BY <1>1 DEF Spoiled
  <2>4. n < Oldest' => n < Oldest \/ (n = Oldest /\ j = jj /\ r1 = r)
    BY <1>4, <1>6, <1>8, <2>1
  <2>5. r1 = r /\ n = Oldest /\ r.acc = Own => buf[r.dst][1].ok
    BY <1>3, <1>9, <1>10, <1>11
  <2>6. r1 = r /\ n = Oldest /\ r.verify => ~Spoiled(r.acc)
    BY <1>9, <1>10, <1>11
  <2>7. Checked(r1, n)'
    BY <1>1, <1>7, <2>2, <2>3, <2>4, <2>5, <2>6 DEF Checked
  <2>8. Item(unit, j)'.r = r1 /\ Num(j)' = n
    BY <1>1, <2>1, WindowRests
  <2>9. QED
    BY <2>7, <2>8 DEF Checked
<1>12. PassSound'
  <2>1. ~Bad' => /\ \A p \in Past(unit) : buf[p[1]][1].ok
                 /\ tainted => Spoiled(MatrixAcc(unit)) /\ (Block(unit) # 0 \/ pc = "compute")
    BY <1>3, <1>9 DEF DataInv, PassSound
  <2>2. Spoiled(MatrixAcc(unit))' <=> Spoiled(MatrixAcc(unit))
    BY <1>1 DEF Spoiled, MatrixAcc
  <2>3. (Block(unit) # 0)' = (Block(unit) # 0)
    BY <1>1
  <2>4. QED
    BY <1>1, <1>11, <2>1, <2>2, <2>3, WindowRests DEF PassSound
<1>13. PipeInv'
  <2>1. UNCHANGED <<sd, cq, reqs, bounce>>
    BY <1>1
  <2>2. \A i \in 1..Len(cq) : Fits(cq[i])' /\ Carries(cq[i])'
    BY <1>1 DEF DataInv, PipeInv, Fits, Carries
  <2>3. \A i : NextOf(cq[i])' = NextOf(cq[i])
    BY <1>1 DEF NextOf
  <2>4. NextOf(cq[Len(cq)])' = NextOf(cq[Len(cq)]) /\ NextOf(cq[1])' = NextOf(cq[1])
    BY <1>1 DEF NextOf
  <2>5. QED
    BY <1>5, <2>1, <2>2, <2>4 DEF DataInv, PipeInv
<1>14. LandInv'
  BY <1>1, <1>7, WindowRests DEF DataInv, LandInv, Holds, InPass
<1>15. ReqsInv'
  <2>1. SUFFICES ASSUME NEW j \in 1..Asked, Num(j) >= Oldest + 1
                 PROVE  reqs[Slot(Num(j))] = Item(unit, j).r
    BY <1>1, <1>6, WindowRests DEF ReqsInv
  <2>2. Num(j) >= Oldest
    BY <1>6, <1>8, <2>1
  <2>3. QED
    BY <1>3, <2>2 DEF DataInv, ReqsInv
<1>16. DataTypes'
  <2>1. crcBad' \in Nat
    BY <1>1, <1>8
  <2>2. QED
    BY <1>1, <2>1 DEF DataInv, DataTypes
<1>17. ResultInv'
  <2>1. crcBad' >= crc0 /\ pc # "idle"
    BY <1>1, <1>3, <1>8 DEF InPass
  <2>2. QED
    BY <1>1, <1>5, <2>1 DEF DataInv, ResultInv
<1>18. QED
  BY <1>12, <1>13, <1>14, <1>15, <1>16, <1>17 DEF DataInv

LEMMA InitData ==
    ASSUME Init
    PROVE  DataInv
<1>1. DataTypes
  <2>1. Nothing \in Chunks
    <3>1. <<>> \in Sections \cup {<<>>, <<"embedding">>} /\ 0 \in Nat /\ TRUE \in BOOLEAN
      OBVIOUS
    <3> HIDE DEF Sections
    <3>2. QED
      BY <3>1, Zenon DEF Nothing, Chunk, Chunks
  <2> HIDE DEF Chunks, Buffers, Accs, Nothing
  <2>2. buf \in [Buffers -> [1..BlockChunks -> Chunks]] /\ bounce \in [Half -> Chunks]
    BY <2>1 DEF Init
  <2>3. acc \in [Accs -> Seq(Chunks)]
    <3>1. <<>> \in Seq(Chunks)
      BY EmptySeq
    <3>2. QED
      BY <3>1 DEF Init
  <2>4. crcBad \in Nat /\ crc0 \in Nat /\ tainted \in BOOLEAN
    BY DEF Init
  <2>5. QED
    BY <2>2, <2>3, <2>4 DEF DataTypes
<1>2. CpIdle /\ SdIdle /\ ~Copying /\ Len(cq) = 0
  BY DEF Init, CpIdle, SdIdle, Copying, NoTask
<1>3. PipeInv
  BY <1>2 DEF PipeInv
<1>4. ReqsInv /\ LandInv /\ PassSound
  BY DEF Init, InPass, ReqsInv, LandInv, PassSound
<1>5. ResultInv
  BY DEF Init, ResultInv, NoTask
<1>6. QED
  BY <1>1, <1>3, <1>4, <1>5 DEF DataInv

LEMMA NextData == FlowInv /\ DataInv /\ [Next]_vars => DataInv'
<1>1. SUFFICES ASSUME FlowInv, DataInv, [Next]_vars PROVE DataInv'
  OBVIOUS
<1>2. CASE Pass
  <2>1. CASE PassBegins
    BY <1>1, <2>1, PassBeginsData
  <2>2. CASE Embeds
    BY <1>1, <2>2, EmbedsData
  <2>3. CASE rd
    BY <1>1, <2>3, rdData
  <2>4. CASE Issued
    BY <1>1, <2>4, IssuedData
  <2>5. CASE wait_rd
    BY <1>1, <2>5, wait_rdData
  <2>6. CASE Checks
    BY <1>1, <2>6, ChecksData
  <2>7. CASE Aborts
    BY <1>1, <2>7, AbortsData
  <2>8. CASE ComputesUnit
    BY <1>1, <2>8, ComputesUnitData
  <2>9. CASE Embedded
    BY <1>1, <2>9, EmbeddedData
  <2>10. QED
    BY <1>2, <2>1, <2>2, <2>3, <2>4, <2>5, <2>6, <2>7, <2>8, <2>9 DEF Pass
<1>3. CASE sd_task
  BY <1>1, <1>3, SdTakesData, SdReadsData DEF sd_task
<1>4. CASE cp_task
  BY <1>1, <1>4, CpTakesData, CpCopiesData, CpCompletesData DEF cp_task
<1>5. CASE model_lend
  BY <1>1, <1>5, LendData DEF model_lend, history
<1>6. CASE model_reclaim
  BY <1>1, <1>6, LendData DEF model_reclaim
<1>7. CASE UNCHANGED vars
  BY <1>1, <1>7, LendData DEF vars, history
<1>8. QED
  BY <1>1, <1>2, <1>3, <1>4, <1>5, <1>6, <1>7 DEF Next

\* The invariants of the reads in flight and of the data they bring hold of the pass, sd_task and
\* cp_task together.
THEOREM Computes == Spec => [](FlowInv /\ DataInv)
<1>1. Init => FlowInv /\ DataInv
  BY InitFlow, InitData
<1>2. FlowInv /\ DataInv /\ [Next]_vars => (FlowInv /\ DataInv)'
  BY NextFlow, NextData
<1>3. QED
  BY <1>1, <1>2, PTL DEF Spec

\* While a unit is computed, every buffer it reads holds that unit's sections, although the reads of
\* the next unit land meanwhile: two staging buffers by the unit's parity, the small sections by the
\* matrix's, the norms by the layer's are enough (issue and pass_fwd, full.c:279 and 309).
THEOREM UnitsComputeWithTheirOwn == Spec => []ComputesWithItsOwn
<1>1. FlowInv /\ DataInv => ComputesWithItsOwn
  <2>1. SUFFICES ASSUME FlowInv, DataInv, pc = "compute", NEW n \in Needs(unit), NEW k \in 1..BlockChunks, k <= n.n
                 PROVE  buf[n.dst][k].sec = n.sec /\ buf[n.dst][k].k = k
    BY DEF ComputesWithItsOwn
  <2>2. InPass /\ Len(todo) = 0 /\ Flying <= N(unit + 1)
    BY <2>1, WaitsOver
  <2>3. QED
    BY <2>1, <2>2, NeedsReady
<1>2. QED
  BY <1>1, Computes, PTL

\* Vectors are handed on only if no corrupt or stale chunk went into them, although a block of weights
\* is used before the CRC of its matrix is complete: the mismatch that would show it is counted before
\* the pass ends (full.c:510).
THEOREM GoodVectorsAreIntact == Spec => []GoodMeansIntact
<1>1. DataInv => GoodMeansIntact
  BY DEF DataInv, ResultInv, GoodMeansIntact
<1>2. QED
  BY <1>1, Computes, PTL
=============================================================================
