---------------------------- MODULE OutboxProofs ----------------------------
(***************************************************************************)
(* Proofs about Outbox, for any messages, sessions, hooks, drains, titles  *)
(* and bounds that satisfy the module's assumptions: the types, that what  *)
(* is captured is kept until it is stored, and which title a session ends  *)
(* up with.                                                                *)
(***************************************************************************)
EXTENDS Outbox, FiniteSetTheorems, SequenceTheorems, WellFoundedInduction, TLAPS

LEMMA CleanCounts ==
    ASSUME CountTypes, NEW ok \in BOOLEAN, Clean(ok)
    PROVE  faults' \in 0..MaxFaults
BY NumAssumption DEF CountTypes, Clean

LEMMA CardinalityIsNat ==
    ASSUME NEW S \in SUBSET Messages
    PROVE  Cardinality(S) \in Nat
<1>1. IsFiniteSet(Messages)
  BY FS_Interval, NumAssumption DEF Messages
<1>2. QED
  BY <1>1, FS_Subset, FS_CardinalityType

LEMMA FileLength ==
    /\ <<>> \in Seq(Write) /\ Len(<<>>) = 0
    /\ fallback \in Seq(Write) => Len(fallback) \in Nat
<1>1. <<>> \in Seq(Write)
  BY EmptySeq
<1>2. Len(<<>>) = 0
  OBVIOUS
<1>3. fallback \in Seq(Write) => Len(fallback) \in Nat
  BY LenProperties
<1>4. QED
  BY <1>1, <1>2, <1>3

LEMMA CoalesceTypes ==
    ASSUME NEW t \in AnyTitle, NEW u \in AnyTitle
    PROVE  Coalesce(t, u) \in AnyTitle
BY DEF Coalesce

LEMMA InitTypes == Init => TypeOK
<1> SUFFICES ASSUME Init PROVE TypeOK
  OBVIOUS
<1>1. TranscriptTypes /\ OutboxTypes /\ PgTypes /\ HookTypes
  BY NumAssumption DEF Init, TranscriptTypes, OutboxTypes, PgTypes, HookTypes, AnyTitle, RowStates
<1>2. DrainTypes
  BY DEF Init, DrainTypes, DrainSteps, AnyTitle
<1>3. FileTypes
  <2>1. fallback \in Seq(Write) /\ Len(fallback) = 0
    BY FileLength DEF Init
  <2>2. archived \subseteq Messages /\ replayAt = 0
    BY DEF Init
  <2>3. replayed \in BOOLEAN
    BY DEF Init
  <2>4. QED
    BY <2>1, <2>2, <2>3 DEF FileTypes
<1>4. CountTypes
  BY NumAssumption DEF Init, CountTypes, AnyTitle
<1>5. QED
  BY <1>1, <1>2, <1>3, <1>4 DEF TypeOK

LEMMA SessionTypes ==
    ASSUME TypeOK, (\E m \in Messages : Say(m)) \/ (\E s \in Sessions : Rename(s))
    PROVE  TypeOK'
<1>1. TranscriptTypes'
  BY DEF TypeOK, TranscriptTypes, Say, Rename, AnyTitle
<1>2. UNCHANGED <<outboxVars, fileVars, pgVars, hookVars, drainVars, replayVars, caught, faults>>
  BY DEF Say, Rename
<1>3. QED
  BY <1>1, <1>2
  DEF TypeOK, outboxVars, fileVars, pgVars, hookVars, drainVars, batchVars, replayVars,
      OutboxTypes, FileTypes, PgTypes, HookTypes, DrainTypes, CountTypes

LEMMA HookReadsTypes ==
    ASSUME TypeOK, NEW h \in Hooks, NEW s \in Sessions, HookReads(h, s)
    PROVE  TypeOK'
<1>1. HookTypes'
  BY DEF TypeOK, TranscriptTypes, HookTypes, HookReads, In
<1>2. QED
  BY <1>1
  DEF TypeOK, HookReads, transcriptVars, outboxVars, fileVars, pgVars, drainVars, batchVars, replayVars,
      TranscriptTypes, OutboxTypes, FileTypes, PgTypes, DrainTypes, CountTypes

LEMMA HookEndsTypes ==
    ASSUME HookTypes, NEW h \in Hooks, HookEnds(h)
    PROVE  HookTypes'
BY DEF HookTypes, HookEnds, AnyTitle

LEMMA StartDrainTypes ==
    ASSUME DrainTypes, CountTypes, NEW changed \in BOOLEAN, StartDrain(changed), UNCHANGED <<lock, batchVars>>
    PROVE  DrainTypes' /\ faults' \in 0..MaxFaults
<1>1. faults' \in 0..MaxFaults
  BY CleanCounts DEF StartDrain, CountTypes
<1>2. \/ UNCHANGED drainAt
      \/ \E d \in Drains : drainAt' = [drainAt EXCEPT ![d] = "look"]
  BY DEF StartDrain
<1>3. DrainTypes'
  BY <1>2 DEF DrainTypes, batchVars, DrainSteps
<1>4. QED
  BY <1>1, <1>3

LEMMA HookCommitsTypes ==
    ASSUME TypeOK, NEW h \in Hooks, HookCommits(h)
    PROVE  TypeOK'
<1> DEFINE s     == hookSession[h]
           t     == snapTitle[h]
           new   == {m \in snap[h] : rowState[m] = "absent"}
           onto  == IF t = NoTitle THEN {} ELSE Pending(In(s)) \cup new
           again == IF t = NoTitle \/ onto # {} THEN {} ELSE Requeued(Rows(In(s)), snap[h], t)
<1>1. s \in Sessions /\ t \in AnyTitle /\ new \subseteq Messages
  BY DEF TypeOK, HookTypes, HookCommits
<1>2. /\ rowState' = [m \in Messages |-> IF m \in new \cup again THEN "pending" ELSE rowState[m]]
      /\ rowTitle' = [m \in Messages |-> IF m \in new \cup onto \cup again THEN t ELSE rowTitle[m]]
      /\ rowText' = Refilled(again, [m \in Messages |-> m \in new \/ rowText[m]])
      /\ attempts' = [m \in Messages |-> IF m \in new \cup again THEN 0 ELSE attempts[m]]
      /\ rowId' = Inserted(new)
      /\ caught' = [caught EXCEPT ![s] = Coalesce(t, @)]
      /\ StartDrain(new \cup onto \cup again # {})
      /\ HookEnds(h)
      /\ UNCHANGED <<transcriptVars, fileVars, pgVars, lock, batchVars, replayVars>>
  BY DEF HookCommits
<1> HIDE DEF s, t, new, onto, again
<1>3. OutboxTypes'
  <2>1. Inserted(new) \in [Messages -> Nat]
    <3>1. ASSUME NEW m \in Messages
          PROVE  Cardinality(Rows(Messages)) + Cardinality({n \in new : n <= m}) \in Nat
      BY <1>1, CardinalityIsNat DEF Rows
    <3>2. QED
      BY <3>1 DEF Inserted, TypeOK, OutboxTypes
  <2>2. rowText' \in [Messages -> BOOLEAN]
    BY <1>2 DEF Refilled
  <2>3. rowState' \in [Messages -> RowStates] /\ rowTitle' \in [Messages -> AnyTitle]
    BY <1>1, <1>2 DEF TypeOK, OutboxTypes, RowStates
  <2>4. attempts' \in [Messages -> 0..MaxAttempts]
    BY <1>2, NumAssumption DEF TypeOK, OutboxTypes
  <2>5. QED
    BY <1>2, <2>1, <2>2, <2>3, <2>4 DEF OutboxTypes
<1>4. HookTypes'
  BY <1>2, HookEndsTypes DEF TypeOK
<1>5. DrainTypes' /\ faults' \in 0..MaxFaults
  BY <1>2, StartDrainTypes DEF TypeOK
<1>6. CountTypes'
  BY <1>1, <1>2, <1>5, CoalesceTypes DEF TypeOK, CountTypes, replayVars
<1>7. QED
  BY <1>2, <1>3, <1>4, <1>5, <1>6
  DEF TypeOK, transcriptVars, fileVars, pgVars, replayVars, TranscriptTypes, FileTypes, PgTypes

LEMMA HookFallsBackTypes ==
    ASSUME TypeOK, NEW h \in Hooks, HookFallsBack(h)
    PROVE  TypeOK'
<1>1. PICK P \in SUBSET snap[h] :
        /\ fallback' = IF P = {} THEN fallback
                       ELSE Append(fallback, [msgs |-> P, title |-> snapTitle[h]])
        /\ caught' = IF P = {} THEN caught
                     ELSE [caught EXCEPT ![hookSession[h]] = Coalesce(snapTitle[h], @)]
  BY DEF HookFallsBack
<1>2. [msgs |-> P, title |-> snapTitle[h]] \in Write
  BY DEF TypeOK, HookTypes, Write
<1>3. fallback' \in Seq(Write) /\ Len(fallback') >= Len(fallback)
  BY <1>1, <1>2, AppendProperties, LenProperties DEF TypeOK, FileTypes
<1>4. FileTypes'
  BY <1>3, LenProperties DEF TypeOK, FileTypes, HookFallsBack, replayVars
<1>5. faults' \in 0..MaxFaults
  BY CleanCounts DEF TypeOK, HookFallsBack
<1>6. CountTypes'
  BY <1>1, <1>5, CoalesceTypes DEF TypeOK, CountTypes, HookTypes, HookFallsBack, replayVars
<1>7. HookTypes'
  BY HookEndsTypes DEF TypeOK, HookFallsBack
<1>8. QED
  BY <1>4, <1>6, <1>7
  DEF TypeOK, HookFallsBack, transcriptVars, outboxVars, pgVars, drainVars, batchVars,
      TranscriptTypes, OutboxTypes, PgTypes, DrainTypes

\* The parts of the state a drain leaves alone.
LEMMA DrainKeeps ==
    ASSUME TypeOK, UNCHANGED <<transcriptVars, fileVars, hookVars, replayVars, caught>>
    PROVE  TranscriptTypes' /\ FileTypes' /\ HookTypes' /\ (faults' \in 0..MaxFaults => CountTypes')
BY DEF TypeOK, transcriptVars, fileVars, hookVars, replayVars, TranscriptTypes, FileTypes, HookTypes, CountTypes

LEMMA DrainToTypes ==
    ASSUME DrainTypes, NEW d \in Drains, NEW step \in DrainSteps, DrainTo(d, step)
    PROVE  drainAt' \in [Drains -> DrainSteps] /\ drainAt' = [drainAt EXCEPT ![d] = step]
BY DEF DrainTypes, DrainTo

LEMMA DrainMovesTypes ==
    ASSUME TypeOK, NEW d \in Drains, DrainStarts(d) \/ DrainLooks(d) \/ DrainWaits(d)
    PROVE  TypeOK'
<1>1. faults' \in 0..MaxFaults
  <2>1. CASE DrainLooks(d)
    BY <2>1, CleanCounts DEF DrainLooks, TypeOK
  <2>2. QED
    BY <2>1 DEF DrainStarts, DrainWaits, TypeOK, CountTypes
<1>2. UNCHANGED <<transcriptVars, outboxVars, fileVars, pgVars, hookVars, batchVars, replayVars, caught>>
  BY DEF DrainStarts, DrainLooks, DrainWaits
<1>3. DrainTypes'
  <2>1. CASE DrainStarts(d)
    BY <2>1 DEF DrainStarts, DrainTo, TypeOK, DrainTypes, batchVars, DrainSteps
  <2>2. CASE DrainLooks(d)
    BY <2>2 DEF DrainLooks, DrainTo, TypeOK, DrainTypes, batchVars, DrainSteps
  <2>3. CASE DrainWaits(d)
    BY <2>3, TitleAssumption DEF DrainWaits, Free, DrainTo, TypeOK, DrainTypes, batchVars, DrainSteps
  <2>4. QED
    BY <2>1, <2>2, <2>3
<1>4. QED
  BY <1>1, <1>2, <1>3, DrainKeeps DEF TypeOK, outboxVars, pgVars, OutboxTypes, PgTypes

LEMMA DrainReadsTypes ==
    ASSUME TypeOK, NEW d \in Drains, DrainReads(d)
    PROVE  TypeOK'
<1>1. PICK B \in SUBSET Messages :
        /\ batch' = [batch EXCEPT ![d] = B]
        /\ DrainTo(d, IF B = {} THEN "close" ELSE IF drainAt[d] = "open" THEN "connect" ELSE "write")
  BY DEF DrainReads
<1>2. DrainTypes'
  BY <1>1 DEF DrainReads, DrainTo, TypeOK, DrainTypes, DrainSteps, OutboxTypes
<1>3. QED
  BY <1>2, DrainKeeps DEF DrainReads, TypeOK, CountTypes, outboxVars, pgVars, OutboxTypes, PgTypes

LEMMA FailedTypes ==
    ASSUME OutboxTypes, NEW S, Failed(S)
    PROVE  attempts' \in [Messages -> 0..MaxAttempts]
BY NumAssumption DEF OutboxTypes, Failed, More

LEMMA DrainConnectsTypes ==
    ASSUME TypeOK, NEW d \in Drains, DrainConnects(d)
    PROVE  TypeOK'
<1>1. attempts' \in [Messages -> 0..MaxAttempts]
  BY FailedTypes DEF DrainConnects, TypeOK, OutboxTypes
<1>2. faults' \in 0..MaxFaults
  BY CleanCounts DEF DrainConnects, TypeOK
<1>3. DrainTypes'
  BY DEF DrainConnects, DrainTo, TypeOK, DrainTypes, DrainSteps
<1>4. QED
  BY <1>1, <1>2, <1>3, DrainKeeps DEF DrainConnects, TypeOK, pgVars, OutboxTypes, PgTypes

LEMMA CommitsTypes ==
    ASSUME TypeOK, NEW d \in Drains, NEW s \in Sessions, Commits(d, s)
    PROVE  PgTypes'
<1>1. LastTitle(d, batch[d] \cap In(s)) \subseteq AnyTitle
  BY DEF LastTitle, TypeOK, DrainTypes, AnyTitle, In
<1>2. pgTitle' \in [Sessions -> AnyTitle]
  <2>1. PICK t \in LastTitle(d, batch[d] \cap In(s)) : pgTitle' = [pgTitle EXCEPT ![s] = Coalesce(t, @)]
    BY DEF Commits
  <2>2. Coalesce(t, pgTitle[s]) \in AnyTitle
    BY <1>1, CoalesceTypes DEF TypeOK, PgTypes
  <2>3. QED
    BY <2>1, <2>2 DEF TypeOK, PgTypes
<1>3. pgMessage' \in [Messages -> {"absent", "text", "vector"}]
  BY DEF Commits, Upserted, TypeOK, PgTypes
<1>4. QED
  BY <1>2, <1>3 DEF PgTypes

LEMMA NextTurnTypes ==
    ASSUME DrainTypes, NEW d \in Drains, NEW s, NEW got \in BOOLEAN, NextTurn(d, s, got),
           UNCHANGED <<lock, read>>, group' \in [Drains -> Sessions \cup {None}],
           drainAt[d] \in {"write", "mark"}
    PROVE  DrainTypes'
BY DEF DrainTypes, NextTurn, DrainTo, DrainSteps

LEMMA DrainWritesTypes ==
    ASSUME TypeOK, NEW d \in Drains, DrainWrites(d)
    PROVE  TypeOK'
<1>1. PICK s \in {SessionOf[m] : m \in batch[d]} :
        \/ /\ s \notin Rejected /\ Clean(TRUE)
           /\ Commits(d, s)
           /\ group' = [group EXCEPT ![d] = s]
           /\ DrainTo(d, "mark")
           /\ UNCHANGED <<attempts, batch, through>>
        \/ /\ Clean(s \in Rejected)
           /\ Failed(batch[d] \cap In(s))
           /\ NextTurn(d, s, FALSE)
           /\ UNCHANGED <<pgVars, group>>
  BY DEF DrainWrites
<1>2. s \in Sessions
  BY <1>1, SessionAssumption DEF TypeOK, DrainTypes
<1>3. faults' \in 0..MaxFaults
  <2>1. CASE Clean(TRUE)
    BY <2>1, CleanCounts DEF TypeOK
  <2>2. CASE Clean(s \in Rejected)
    BY <2>2, NumAssumption DEF Clean, TypeOK, CountTypes
  <2>3. QED
    BY <1>1, <2>1, <2>2
<1>4. attempts' \in [Messages -> 0..MaxAttempts]
  BY <1>1, FailedTypes DEF TypeOK, OutboxTypes
<1>5. PgTypes'
  BY <1>1, <1>2, CommitsTypes DEF TypeOK, PgTypes, pgVars
<1>6. DrainTypes'
  <2>1. CASE DrainTo(d, "mark") /\ group' = [group EXCEPT ![d] = s] /\ UNCHANGED <<batch, through>>
    BY <1>2, <2>1 DEF DrainWrites, DrainTo, TypeOK, DrainTypes, DrainSteps
  <2>2. CASE NextTurn(d, s, FALSE) /\ UNCHANGED group
    BY <2>2, NextTurnTypes DEF DrainWrites, TypeOK, DrainTypes
  <2>3. QED
    BY <1>1, <2>1, <2>2
<1>7. QED
  BY <1>3, <1>4, <1>5, <1>6, DrainKeeps DEF DrainWrites, TypeOK, OutboxTypes

LEMMA DrainMarksTypes ==
    ASSUME TypeOK, NEW d \in Drains, DrainMarks(d)
    PROVE  TypeOK'
<1>1. OutboxTypes'
  BY DEF DrainMarks, TypeOK, OutboxTypes, RowStates
<1>2. DrainTypes'
  BY NextTurnTypes DEF DrainMarks, TypeOK, DrainTypes
<1>3. QED
  BY <1>1, <1>2, DrainKeeps DEF DrainMarks, TypeOK, CountTypes, pgVars, PgTypes

LEMMA DrainEndsTypes ==
    ASSUME DrainTypes, NEW d \in Drains, DrainEnds(d)
    PROVE  DrainTypes'
<1>1. drainAt' = [drainAt EXCEPT ![d] = "off"]
  BY DEF DrainEnds, DrainTo
<1>2. \A e \in Drains : drainAt'[e] \notin {"off", "look", "wait"} => lock' = e
  BY <1>1 DEF DrainEnds, DrainTypes
<1>3. QED
  BY <1>1, <1>2 DEF DrainEnds, DrainTypes, DrainSteps

LEMMA DrainLeavesTypes ==
    ASSUME TypeOK, NEW d \in Drains, DrainCloses(d) \/ DrainDies(d)
    PROVE  TypeOK'
<1>1. DrainTypes'
  BY DrainEndsTypes DEF DrainCloses, DrainDies, TypeOK
<1>2. faults' \in 0..MaxFaults
  BY CleanCounts DEF DrainCloses, DrainDies, TypeOK, CountTypes
<1>3. PgTypes'
  <2>1. CASE UNCHANGED pgVars
    BY <2>1 DEF pgVars, TypeOK, PgTypes
  <2>2. CASE \E s \in {SessionOf[m] : m \in batch[d]} \ Rejected : Commits(d, s)
    BY <2>2, CommitsTypes, SessionAssumption DEF TypeOK, DrainTypes
  <2>3. QED
    BY <2>1, <2>2 DEF DrainCloses, DrainDies
<1>4. UNCHANGED <<transcriptVars, outboxVars, fileVars, hookVars, replayVars, caught>>
  BY DEF DrainCloses, DrainDies
<1>5. QED
  BY <1>1, <1>2, <1>3, <1>4, DrainKeeps DEF TypeOK, outboxVars, OutboxTypes

LEMMA ReplayInsertsTypes ==
    ASSUME TypeOK, ReplayInserts
    PROVE  TypeOK'
<1> DEFINE new == {m \in UNION {fallback[i].msgs : i \in 1..replayAt} : rowState[m] = "absent"}
           upTo(first, m) == {n \in new : first[n] < first[m] \/ (first[n] = first[m] /\ n <= m)}
<1>1. PICK first \in [new -> 1..replayAt] :
        /\ rowState' = [m \in Messages |-> IF m \in new THEN "pending" ELSE rowState[m]]
        /\ rowTitle' = [m \in Messages |-> IF m \in new THEN fallback[first[m]].title ELSE rowTitle[m]]
        /\ rowText' = [m \in Messages |-> m \in new \/ rowText[m]]
        /\ rowId' = [m \in Messages |->
                       IF m \in new THEN Cardinality(Rows(Messages)) + Cardinality(upTo(first, m)) ELSE rowId[m]]
  BY DEF ReplayInserts
<1>2. \A i \in 1..replayAt : fallback[i] \in Write
  BY ElementOfSeq, LenProperties DEF TypeOK, FileTypes
<1>3. new \subseteq Messages
  BY <1>2 DEF Write
<1>4. rowId' \in [Messages -> Nat]
  <2>1. ASSUME NEW m \in Messages
        PROVE  Cardinality(Rows(Messages)) + Cardinality(upTo(first, m)) \in Nat
    <3>1. upTo(first, m) \subseteq Messages /\ Rows(Messages) \subseteq Messages
      BY <1>3 DEF Rows
    <3>2. QED
      BY <3>1, CardinalityIsNat
  <2> HIDE DEF upTo, new
  <2>2. QED
    BY <1>1, <2>1 DEF TypeOK, OutboxTypes
<1>5. OutboxTypes'
  BY <1>1, <1>2, <1>4 DEF ReplayInserts, TypeOK, OutboxTypes, RowStates, Write
<1>6. FileTypes'
  BY DEF ReplayInserts, TypeOK, FileTypes, fileVars
<1>7. QED
  BY <1>5, <1>6
  DEF ReplayInserts, TypeOK, transcriptVars, pgVars, hookVars, drainVars, batchVars,
      TranscriptTypes, PgTypes, HookTypes, DrainTypes, CountTypes

LEMMA ReplayTypes ==
    ASSUME TypeOK, ReplayReads \/ ReplayArchives \/ ReplayDies
    PROVE  TypeOK'
<1>1. faults' \in 0..MaxFaults
  <2>1. CASE ReplayDies
    BY <2>1, CleanCounts DEF ReplayDies, TypeOK
  <2>2. QED
    BY <2>1 DEF ReplayReads, ReplayArchives, TypeOK, CountTypes
<1>2. replays' \in 0..MaxReplays
  <2>1. CASE ReplayReads
    BY <2>1, NumAssumption DEF ReplayReads, TypeOK, CountTypes
  <2>2. CASE ReplayArchives \/ ReplayDies
    BY <2>2 DEF ReplayArchives, ReplayDies, TypeOK, CountTypes
  <2>3. QED
    BY <2>1, <2>2
<1>3. FileTypes'
  <2>1. CASE ReplayArchives
    <3>1. \A i \in 1..Len(fallback) : fallback[i] \in Write
      BY ElementOfSeq, LenProperties DEF TypeOK, FileTypes
    <3>2. archived' \subseteq Messages
      BY <2>1, <3>1 DEF ReplayArchives, TypeOK, FileTypes, Write
    <3>3. QED
      <4>1. fallback' \in Seq(Write) /\ Len(fallback') = 0 /\ replayAt' = 0
        BY <2>1, FileLength DEF ReplayArchives
      <4>2. replayed' \in BOOLEAN
        BY <2>1 DEF ReplayArchives
      <4>3. QED
        BY <3>2, <4>1, <4>2 DEF FileTypes
  <2>2. CASE ReplayReads
    <3>1. Len(fallback) \in Nat /\ UNCHANGED <<fallback, archived>>
      BY <2>2, FileLength DEF ReplayReads, fileVars, TypeOK, FileTypes
    <3>2. replayed' \in BOOLEAN
      BY <2>2 DEF ReplayReads
    <3>3. replayAt' \in 0..Len(fallback)
      BY <2>2, <3>1 DEF ReplayReads
    <3>4. QED
      BY <3>1, <3>2, <3>3 DEF TypeOK, FileTypes
  <2>3. CASE ReplayDies
    <3>1. Len(fallback) \in Nat /\ UNCHANGED <<fallback, archived>>
      BY <2>3, FileLength DEF ReplayDies, fileVars, TypeOK, FileTypes
    <3>2. replayed' \in BOOLEAN
      BY <2>3 DEF ReplayDies
    <3>3. replayAt' \in 0..Len(fallback)
      BY <2>3, <3>1 DEF ReplayDies
    <3>4. QED
      BY <3>1, <3>2, <3>3 DEF TypeOK, FileTypes
  <2>4. QED
    BY <2>1, <2>2, <2>3
<1>4. UNCHANGED <<transcriptVars, outboxVars, pgVars, hookVars, drainVars, caught>>
  BY DEF ReplayReads, ReplayArchives, ReplayDies
<1>5. QED
  BY <1>1, <1>2, <1>3, <1>4
  DEF TypeOK, transcriptVars, outboxVars, pgVars, hookVars, drainVars, batchVars,
      TranscriptTypes, OutboxTypes, PgTypes, HookTypes, DrainTypes, CountTypes

LEMMA NextTypes == TypeOK /\ [Next]_vars => TypeOK'
<1> SUFFICES ASSUME TypeOK, [Next]_vars PROVE TypeOK'
  OBVIOUS
<1>1. CASE UNCHANGED vars
  BY <1>1
  DEF vars, TypeOK, transcriptVars, outboxVars, fileVars, pgVars, hookVars, drainVars, batchVars, replayVars,
      TranscriptTypes, OutboxTypes, FileTypes, PgTypes, HookTypes, DrainTypes, CountTypes
<1>2. CASE \E h \in Hooks : HookStep(h)
  BY <1>2, HookReadsTypes, HookCommitsTypes, HookFallsBackTypes DEF HookStep
<1>3. CASE \E d \in Drains : DrainStep(d) \/ DrainDies(d)
  BY <1>3, DrainMovesTypes, DrainReadsTypes, DrainConnectsTypes, DrainWritesTypes, DrainMarksTypes,
     DrainLeavesTypes
  DEF DrainStep
<1>4. QED
  BY <1>1, <1>2, <1>3, SessionTypes, ReplayInsertsTypes, ReplayTypes DEF Next

\* The types, and that one drain works at a time.
THEOREM TypeCorrect == Spec => []TypeOK
BY InitTypes, NextTypes, PTL DEF Spec

-----------------------------------------------------------------------------
(* Durability.                                                             *)

Stored(m) == pgMessage[m] # "absent"
Kept(m) == rowState[m] = "pending" \/ m \in InFile \/ m \in archived

\* A tombstone stands for a message that is stored, a drain only works on rows of the outbox, and it
\* turns into tombstones what it has stored.
SentIsStored == \A m \in Messages : rowState[m] = "sent" => Stored(m)
BatchIsRows == \A d \in Drains : batch[d] \subseteq Rows(Messages)
MarkedIsStored ==
    \A d \in Drains : drainAt[d] = "mark" => \A m \in batch[d] \cap In(group[d]) : Stored(m)

SafeInv == TypeOK /\ QueuedRowsHaveText /\ SentIsStored /\ BatchIsRows /\ MarkedIsStored

\* What any step may do to the outbox, the files and Postgres, without saying who does it.
Safely ==
    \A m \in Messages :
        /\ Stored(m) => Stored(m)'
        /\ ~Stored(m) /\ Stored(m)' => Kept(m)
        /\ Kept(m) => Kept(m)' \/ Stored(m)'
        /\ rowState[m] # "absent" => rowState'[m] # "absent"

\* Vectors stay.
VectorsStay == \A m \in Messages : pgMessage[m] = "vector" => pgMessage'[m] = "vector"

LEMMA InitSafe == Init => SafeInv
<1>1. Init => QueuedRowsHaveText /\ SentIsStored /\ BatchIsRows /\ MarkedIsStored
  BY DEF Init, QueuedRowsHaveText, SentIsStored, BatchIsRows, MarkedIsStored
<1>2. QED
  BY <1>1, InitTypes DEF SafeInv

\* A step that changes neither a row nor Postgres nor the files, nor a drain at work, is safe.
LEMMA QuietIsSafe ==
    ASSUME SafeInv, UNCHANGED <<rowState, rowText, fallback, archived, pgMessage>>
    PROVE  Safely /\ VectorsStay /\ QueuedRowsHaveText' /\ SentIsStored'
BY DEF SafeInv, Safely, VectorsStay, Stored, Kept, InFile, QueuedRowsHaveText, SentIsStored

LEMMA SameDrainsAreSafe ==
    ASSUME SafeInv, Safely, UNCHANGED <<batch, group>>,
           \A d \in Drains : drainAt'[d] = "mark" => drainAt[d] = "mark"
    PROVE  BatchIsRows' /\ MarkedIsStored'
BY DEF SafeInv, TypeOK, DrainTypes, Safely, BatchIsRows, MarkedIsStored, Rows, In

\* One drain's turn: the others' batches and groups stay as they are.
LEMMA OneDrainIsSafe ==
    ASSUME SafeInv, Safely, NEW d \in Drains,
           batch' \in [Drains -> SUBSET Messages],
           \A e \in Drains \ {d} : drainAt'[e] = drainAt[e] /\ batch'[e] = batch[e] /\ group'[e] = group[e],
           batch'[d] \subseteq Rows(Messages),
           drainAt'[d] # "mark" \/ \A m \in batch'[d] \cap In(group'[d]) : Stored(m)'
    PROVE  BatchIsRows' /\ MarkedIsStored'
<1>1. \A m \in Messages : Stored(m) => Stored(m)'
  BY DEF Safely
<1>2. BatchIsRows'
  BY DEF SafeInv, Safely, BatchIsRows, Rows
<1>3. ASSUME NEW e \in Drains, drainAt'[e] = "mark"
      PROVE  \A m \in batch'[e] \cap In(group'[e]) : Stored(m)'
  <2>1. CASE e = d
    BY <1>3, <2>1
  <2>2. CASE e # d
    BY <1>1, <1>3, <2>2 DEF SafeInv, MarkedIsStored, In
  <2>3. QED
    BY <2>1, <2>2
<1>4. MarkedIsStored'
  BY <1>3 DEF MarkedIsStored, In
<1>5. QED
  BY <1>2, <1>4

LEMMA HookCommitsSafe ==
    ASSUME SafeInv, NEW h \in Hooks, HookCommits(h)
    PROVE  Safely /\ VectorsStay /\ QueuedRowsHaveText' /\ SentIsStored' /\ BatchIsRows' /\ MarkedIsStored'
<1> DEFINE s     == hookSession[h]
           t     == snapTitle[h]
           new   == {m \in snap[h] : rowState[m] = "absent"}
           onto  == IF t = NoTitle THEN {} ELSE Pending(In(s)) \cup new
           again == IF t = NoTitle \/ onto # {} THEN {} ELSE Requeued(Rows(In(s)), snap[h], t)
<1>1. /\ rowState' = [m \in Messages |-> IF m \in new \cup again THEN "pending" ELSE rowState[m]]
      /\ rowText' = Refilled(again, [m \in Messages |-> m \in new \/ rowText[m]])
      /\ StartDrain(new \cup onto \cup again # {})
      /\ UNCHANGED <<fileVars, pgVars, batchVars>>
  BY DEF HookCommits
<1> HIDE DEF s, t, new, onto, again
<1>2. rowText' = [m \in Messages |-> m \in again \/ m \in new \/ rowText[m]]
  BY <1>1 DEF Refilled, SafeInv, TypeOK, OutboxTypes
<1>3. Safely /\ VectorsStay
  BY <1>1 DEF Safely, VectorsStay, Stored, Kept, InFile, fileVars, pgVars
<1>4. QueuedRowsHaveText' /\ SentIsStored'
  BY <1>1, <1>2 DEF SafeInv, QueuedRowsHaveText, SentIsStored, Stored, pgVars
<1>5. \A d \in Drains : drainAt'[d] = "mark" => drainAt[d] = "mark"
  BY <1>1 DEF StartDrain, SafeInv, TypeOK, DrainTypes
<1>6. QED
  BY <1>1, <1>3, <1>4, <1>5, SameDrainsAreSafe DEF batchVars

LEMMA FallbackGrows ==
    ASSUME fallback \in Seq(Write), NEW w \in Write, fallback' = Append(fallback, w)
    PROVE  InFile \subseteq InFile'
<1>1. Len(fallback) \in Nat
  BY FileLength
<1>2. /\ Len(fallback') = Len(fallback) + 1
      /\ \A i \in 1..Len(fallback) : fallback'[i] = fallback[i]
  BY AppendProperties
<1>3. QED
  BY <1>1, <1>2 DEF InFile

LEMMA HookFallsBackSafe ==
    ASSUME SafeInv, NEW h \in Hooks, HookFallsBack(h)
    PROVE  Safely /\ VectorsStay /\ QueuedRowsHaveText' /\ SentIsStored' /\ BatchIsRows' /\ MarkedIsStored'
<1>1. InFile \subseteq InFile'
  <2>1. PICK P \in SUBSET snap[h] :
          fallback' = IF P = {} THEN fallback ELSE Append(fallback, [msgs |-> P, title |-> snapTitle[h]])
    BY DEF HookFallsBack
  <2>2. [msgs |-> P, title |-> snapTitle[h]] \in Write
    BY DEF SafeInv, TypeOK, HookTypes, Write
  <2>3. CASE P = {}
    BY <2>1, <2>3 DEF InFile
  <2>4. CASE P # {}
    BY <2>1, <2>2, <2>4, FallbackGrows DEF SafeInv, TypeOK, FileTypes
  <2>5. QED
    BY <2>3, <2>4
<1>2. UNCHANGED <<outboxVars, archived, pgVars, drainVars>>
  BY DEF HookFallsBack
<1>3. Safely /\ VectorsStay
  BY <1>1, <1>2 DEF Safely, VectorsStay, Stored, Kept, outboxVars, pgVars
<1>4. QueuedRowsHaveText' /\ SentIsStored'
  BY <1>2 DEF SafeInv, QueuedRowsHaveText, SentIsStored, Stored, outboxVars, pgVars
<1>5. QED
  BY <1>2, <1>3, <1>4, SameDrainsAreSafe DEF drainVars, batchVars

\* A commit stores rows of the outbox, and nothing that is stored goes away.
LEMMA CommitsStore ==
    ASSUME SafeInv, NEW d \in Drains, NEW s \in Sessions, Commits(d, s)
    PROVE  \A m \in Messages :
             /\ Stored(m) => Stored(m)'
             /\ ~Stored(m) /\ Stored(m)' => rowState[m] = "pending"
             /\ m \in batch[d] \cap In(s) => Stored(m)'
             /\ pgMessage[m] = "vector" => pgMessage'[m] = "vector"
<1> DEFINE live == {m \in batch[d] \cap In(s) : rowText[m]}
<1>1. PICK embedded \in SUBSET {m \in live : pgMessage[m] # "vector"} :
        pgMessage' = [m \in Messages |-> IF m \in live THEN Upserted(pgMessage[m], m \in embedded)
                                         ELSE pgMessage[m]]
  BY DEF Commits
<1>2. ASSUME NEW m \in Messages, m \in batch[d] \cap In(s)
      PROVE  (rowState[m] = "pending" /\ rowText[m]) \/ Stored(m)
  BY <1>2 DEF SafeInv, TypeOK, OutboxTypes, RowStates, BatchIsRows, Rows, QueuedRowsHaveText, SentIsStored
<1>3. QED
  BY <1>1, <1>2 DEF Stored, Upserted

LEMMA DrainWritesSafe ==
    ASSUME SafeInv, NEW d \in Drains, DrainWrites(d)
    PROVE  Safely /\ VectorsStay /\ QueuedRowsHaveText' /\ SentIsStored' /\ BatchIsRows' /\ MarkedIsStored'
<1>1. PICK s \in {SessionOf[m] : m \in batch[d]} :
        \/ /\ Commits(d, s)
           /\ group' = [group EXCEPT ![d] = s]
           /\ DrainTo(d, "mark")
           /\ UNCHANGED batch
        \/ /\ NextTurn(d, s, FALSE)
           /\ UNCHANGED <<pgVars, group>>
  BY DEF DrainWrites
<1>2. s \in Sessions
  BY <1>1, SessionAssumption DEF SafeInv, TypeOK, DrainTypes
<1>3. UNCHANGED <<rowState, rowText, fallback, archived>>
  BY DEF DrainWrites, fileVars
<1>4. CASE Commits(d, s) /\ group' = [group EXCEPT ![d] = s] /\ DrainTo(d, "mark") /\ UNCHANGED batch
  <2>1. Safely /\ VectorsStay
    BY <1>2, <1>3, <1>4, CommitsStore DEF Safely, VectorsStay, Kept, InFile
  <2>2. QueuedRowsHaveText' /\ SentIsStored'
    BY <1>3, <2>1 DEF SafeInv, QueuedRowsHaveText, SentIsStored, Safely
  <2>3. \A m \in batch'[d] \cap In(group'[d]) : Stored(m)'
    BY <1>2, <1>4, CommitsStore DEF SafeInv, TypeOK, DrainTypes, In
  <2>4. BatchIsRows' /\ MarkedIsStored'
    <3>1. /\ batch' \in [Drains -> SUBSET Messages] /\ batch'[d] \subseteq Rows(Messages)
          /\ \A e \in Drains \ {d} : drainAt'[e] = drainAt[e] /\ batch'[e] = batch[e] /\ group'[e] = group[e]
      BY <1>4 DEF SafeInv, TypeOK, DrainTypes, BatchIsRows, DrainTo
    <3>2. QED
      BY <2>1, <2>3, <3>1, OneDrainIsSafe
  <2>5. QED
    BY <2>1, <2>2, <2>4
<1>5. CASE NextTurn(d, s, FALSE) /\ UNCHANGED <<pgVars, group>>
  <2>1. Safely /\ VectorsStay /\ QueuedRowsHaveText' /\ SentIsStored'
    BY <1>3, <1>5, QuietIsSafe DEF pgVars
  <2>2. /\ batch' \in [Drains -> SUBSET Messages] /\ batch'[d] \subseteq Rows(Messages)
        /\ \A e \in Drains \ {d} : drainAt'[e] = drainAt[e] /\ batch'[e] = batch[e] /\ group'[e] = group[e]
        /\ drainAt'[d] # "mark"
    BY <1>5 DEF SafeInv, TypeOK, DrainTypes, BatchIsRows, NextTurn, DrainTo
  <2>3. QED
    BY <2>1, <2>2, OneDrainIsSafe
<1>6. QED
  BY <1>1, <1>4, <1>5

LEMMA DrainMarksSafe ==
    ASSUME SafeInv, NEW d \in Drains, DrainMarks(d)
    PROVE  Safely /\ VectorsStay /\ QueuedRowsHaveText' /\ SentIsStored' /\ BatchIsRows' /\ MarkedIsStored'
<1>1. \A m \in Messages : m \in Marked(d) => Stored(m) /\ rowState[m] = "pending"
  BY DEF DrainMarks, Marked, Pending, SafeInv, MarkedIsStored
<1>2. /\ rowState' = [m \in Messages |-> IF m \in Marked(d) THEN "sent" ELSE rowState[m]]
      /\ rowText' = [m \in Messages |-> rowText[m] /\ m \notin Marked(d)]
      /\ UNCHANGED <<fallback, archived, pgMessage>>
  BY DEF DrainMarks, fileVars, pgVars
<1>3. Safely /\ VectorsStay
  BY <1>1, <1>2 DEF Safely, VectorsStay, Stored, Kept, InFile
<1>4. QueuedRowsHaveText' /\ SentIsStored'
  BY <1>1, <1>2 DEF SafeInv, QueuedRowsHaveText, SentIsStored, Stored
<1>5. /\ batch' \in [Drains -> SUBSET Messages] /\ batch'[d] \subseteq Rows(Messages)
      /\ \A e \in Drains \ {d} : drainAt'[e] = drainAt[e] /\ batch'[e] = batch[e] /\ group'[e] = group[e]
      /\ drainAt'[d] # "mark"
  BY DEF DrainMarks, SafeInv, TypeOK, DrainTypes, BatchIsRows, NextTurn, DrainTo
<1>6. QED
  BY <1>3, <1>4, <1>5, OneDrainIsSafe

LEMMA DrainLeavesSafe ==
    ASSUME SafeInv, NEW d \in Drains, DrainCloses(d) \/ DrainDies(d)
    PROVE  Safely /\ VectorsStay /\ QueuedRowsHaveText' /\ SentIsStored' /\ BatchIsRows' /\ MarkedIsStored'
<1>1. UNCHANGED <<rowState, rowText, fallback, archived>>
  BY DEF DrainCloses, DrainDies, outboxVars, fileVars
<1>2. Safely /\ VectorsStay
  <2>1. CASE UNCHANGED pgVars
    BY <1>1, <2>1, QuietIsSafe DEF pgVars
  <2>2. CASE \E s \in {SessionOf[m] : m \in batch[d]} \ Rejected : Commits(d, s)
    <3>1. PICK s \in {SessionOf[m] : m \in batch[d]} \ Rejected : Commits(d, s)
      BY <2>2
    <3>2. s \in Sessions
      BY <3>1, SessionAssumption DEF SafeInv, TypeOK, DrainTypes
    <3>3. QED
      BY <1>1, <3>1, <3>2, CommitsStore DEF Safely, VectorsStay, Kept, InFile
  <2>3. QED
    BY <2>1, <2>2 DEF DrainCloses, DrainDies
<1>3. QueuedRowsHaveText' /\ SentIsStored'
  BY <1>1, <1>2 DEF SafeInv, QueuedRowsHaveText, SentIsStored, Safely
<1>4. DrainEnds(d)
  BY DEF DrainCloses, DrainDies
<1>5. /\ batch' \in [Drains -> SUBSET Messages] /\ batch'[d] \subseteq Rows(Messages)
      /\ \A e \in Drains \ {d} : drainAt'[e] = drainAt[e] /\ batch'[e] = batch[e] /\ group'[e] = group[e]
      /\ drainAt'[d] # "mark"
  BY <1>4 DEF SafeInv, TypeOK, DrainTypes, DrainEnds, DrainTo
<1>6. QED
  BY <1>2, <1>3, <1>5, OneDrainIsSafe

LEMMA DrainReadsSafe ==
    ASSUME SafeInv, NEW d \in Drains, DrainReads(d) \/ DrainConnects(d)
    PROVE  Safely /\ VectorsStay /\ QueuedRowsHaveText' /\ SentIsStored' /\ BatchIsRows' /\ MarkedIsStored'
<1>1. Safely /\ VectorsStay /\ QueuedRowsHaveText' /\ SentIsStored'
  BY QuietIsSafe DEF DrainReads, DrainConnects, outboxVars, fileVars, pgVars
<1>2. PICK B \in SUBSET Messages : batch' = [batch EXCEPT ![d] = B] /\ B \subseteq Rows(Messages)
  <2>1. CASE DrainReads(d)
    BY <2>1 DEF DrainReads, NextBatch, Pending, Rows
  <2>2. CASE DrainConnects(d)
    <3>1. batch' = batch \/ batch' = [batch EXCEPT ![d] = {}]
      BY <2>2 DEF DrainConnects
    <3>2. /\ batch = [batch EXCEPT ![d] = batch[d]]
          /\ batch[d] \in SUBSET Messages /\ batch[d] \subseteq Rows(Messages)
      BY DEF SafeInv, TypeOK, DrainTypes, BatchIsRows
    <3>3. {} \in SUBSET Messages /\ {} \subseteq Rows(Messages)
      OBVIOUS
    <3>4. QED
      BY <3>1, <3>2, <3>3
  <2>3. QED
    BY <2>1, <2>2
<1>3. PICK step \in DrainSteps \ {"mark"} : DrainTo(d, step)
  <2>1. CASE DrainReads(d)
    <3>1. PICK B2 \in SUBSET Messages :
            DrainTo(d, IF B2 = {} THEN "close" ELSE IF drainAt[d] = "open" THEN "connect" ELSE "write")
      BY <2>1 DEF DrainReads
    <3>2. QED
      BY <3>1 DEF DrainSteps
  <2>2. CASE DrainConnects(d)
    BY <2>2 DEF DrainConnects, DrainSteps
  <2>3. QED
    BY <2>1, <2>2
<1>4. UNCHANGED group
  BY DEF DrainReads, DrainConnects
<1>5. /\ batch' \in [Drains -> SUBSET Messages] /\ batch'[d] \subseteq Rows(Messages)
      /\ \A e \in Drains \ {d} : drainAt'[e] = drainAt[e] /\ batch'[e] = batch[e] /\ group'[e] = group[e]
      /\ drainAt'[d] # "mark"
  BY <1>2, <1>3, <1>4 DEF SafeInv, TypeOK, DrainTypes, DrainTo
<1>6. QED
  BY <1>1, <1>5, OneDrainIsSafe

LEMMA DrainMovesSafe ==
    ASSUME SafeInv, NEW d \in Drains, DrainStarts(d) \/ DrainLooks(d) \/ DrainWaits(d)
    PROVE  Safely /\ VectorsStay /\ QueuedRowsHaveText' /\ SentIsStored' /\ BatchIsRows' /\ MarkedIsStored'
<1>1. UNCHANGED <<outboxVars, fileVars, pgVars, batchVars>>
  BY DEF DrainStarts, DrainLooks, DrainWaits
<1>2. Safely /\ VectorsStay /\ QueuedRowsHaveText' /\ SentIsStored'
  BY <1>1, QuietIsSafe DEF outboxVars, fileVars, pgVars
<1>3. \A e \in Drains : drainAt'[e] = "mark" => drainAt[e] = "mark"
  BY DEF DrainStarts, DrainLooks, DrainWaits, DrainTo, SafeInv, TypeOK, DrainTypes
<1>4. QED
  BY <1>1, <1>2, <1>3, SameDrainsAreSafe DEF batchVars

LEMMA ReplaySafe ==
    ASSUME SafeInv, ReplayReads \/ ReplayInserts \/ ReplayArchives \/ ReplayDies
    PROVE  Safely /\ VectorsStay /\ QueuedRowsHaveText' /\ SentIsStored' /\ BatchIsRows' /\ MarkedIsStored'
<1>1. UNCHANGED <<pgVars, drainVars>>
  BY DEF ReplayReads, ReplayInserts, ReplayArchives, ReplayDies
<1>2. Safely /\ VectorsStay /\ QueuedRowsHaveText' /\ SentIsStored'
  <2>1. CASE ReplayReads \/ ReplayDies
    BY <1>1, <2>1, QuietIsSafe DEF ReplayReads, ReplayDies, outboxVars, fileVars, pgVars
  <2>2. CASE ReplayInserts
    <3> DEFINE new == {m \in UNION {fallback[i].msgs : i \in 1..replayAt} : rowState[m] = "absent"}
    <3>1. /\ rowState' = [m \in Messages |-> IF m \in new THEN "pending" ELSE rowState[m]]
          /\ rowText' = [m \in Messages |-> m \in new \/ rowText[m]]
          /\ UNCHANGED <<fallback, archived, pgMessage>>
      BY <1>1, <2>2 DEF ReplayInserts, fileVars, pgVars
    <3> HIDE DEF new
    <3>2. Safely /\ VectorsStay
      BY <3>1 DEF Safely, VectorsStay, Stored, Kept, InFile
    <3>3. QED
      BY <3>1, <3>2 DEF SafeInv, QueuedRowsHaveText, SentIsStored, Stored
  <2>3. CASE ReplayArchives
    <3>1. InFile \subseteq archived' /\ archived \subseteq archived' /\ UNCHANGED <<rowState, rowText, pgMessage>>
      BY <1>1, <2>3 DEF ReplayArchives, InFile, outboxVars, pgVars
    <3>2. Safely /\ VectorsStay
      BY <3>1 DEF Safely, VectorsStay, Stored, Kept
    <3>3. QED
      BY <3>1, <3>2 DEF SafeInv, QueuedRowsHaveText, SentIsStored, Stored
  <2>4. QED
    BY <2>1, <2>2, <2>3
<1>3. QED
  BY <1>1, <1>2, SameDrainsAreSafe DEF drainVars, batchVars

LEMMA NextSafe ==
    ASSUME SafeInv, [Next]_vars
    PROVE  SafeInv' /\ Safely /\ VectorsStay
<1> DEFINE Good == Safely /\ VectorsStay /\ QueuedRowsHaveText' /\ SentIsStored' /\ BatchIsRows' /\ MarkedIsStored'
<1> SUFFICES Good
  BY NextTypes DEF SafeInv
<1>1. CASE \/ UNCHANGED vars
           \/ \E m \in Messages : Say(m)
           \/ \E s \in Sessions : Rename(s)
           \/ \E h \in Hooks, s \in Sessions : HookReads(h, s)
  <2>1. UNCHANGED <<outboxVars, fileVars, pgVars, drainVars>>
    BY <1>1 DEF vars, Say, Rename, HookReads
  <2>2. QED
    BY <2>1, QuietIsSafe, SameDrainsAreSafe DEF outboxVars, fileVars, pgVars, drainVars, batchVars
<1>2. CASE \E h \in Hooks : HookCommits(h) \/ HookFallsBack(h)
  BY <1>2, HookCommitsSafe, HookFallsBackSafe
<1>3. CASE \E d \in Drains : DrainStep(d) \/ DrainDies(d)
  BY <1>3, DrainMovesSafe, DrainReadsSafe, DrainWritesSafe, DrainMarksSafe, DrainLeavesSafe DEF DrainStep
<1>4. CASE ReplayReads \/ ReplayInserts \/ ReplayArchives \/ ReplayDies
  BY <1>4, ReplaySafe
<1>5. QED
  BY <1>1, <1>2, <1>3, <1>4 DEF Next, HookStep

LEMMA Safe == Spec => []SafeInv
<1>1. SafeInv /\ [Next]_vars => SafeInv'
  BY NextSafe
<1>2. QED
  BY <1>1, InitSafe, PTL DEF Spec

\* record.py:673-675: no row is ever queued without its text.
THEOREM QueuedRowsAreWhole == Spec => []QueuedRowsHaveText
<1>1. SafeInv => QueuedRowsHaveText
  BY DEF SafeInv
<1>2. QED
  BY <1>1, Safe, PTL

\* drain.py:151-152: a vector that is stored stays stored.
THEOREM VectorsSurvive == Spec => VectorsAreKept
<1>1. SafeInv /\ [Next]_vars => [VectorsStay]_vars
  BY NextSafe
<1>2. QED
  BY <1>1, Safe, PTL DEF Spec, VectorsAreKept, VectorsStay

\* Hook, drains and replay implement safe capture.
THEOREM CaptureImplemented == Spec => ImplementsCapture
<1>1. Init => Capture!Init
  BY DEF Init, Capture!Init, Stage, InFile
<1>2. SafeInv /\ [Next]_vars => [Capture!Next]_[m \in Messages |-> Stage(m)]
  <2> SUFFICES ASSUME SafeInv, [Next]_vars
               PROVE  Capture!Next
    OBVIOUS
  <2>1. Safely /\ SafeInv'
    BY NextSafe
  <2>2. \A m \in Messages :
          /\ Stage(m) = IF Stored(m) THEN "stored" ELSE IF Kept(m) THEN "captured" ELSE "said"
          /\ Stage(m)' = IF Stored(m)' THEN "stored" ELSE IF Kept(m)' THEN "captured" ELSE "said"
    BY <2>1 DEF SafeInv, QueuedRowsHaveText, Stage, Stored, Kept
  <2>3. \A m \in Messages : Stage(m)' \in Capture!Stages
    BY DEF Stage, Capture!Stages
  <2>4. ASSUME NEW m \in Messages
        PROVE  Capture!Moves(Stage(m), Stage(m)')
    <3> HIDE DEF Stage
    <3>1. QED
      BY <2>1, <2>2 DEF Safely, Capture!Moves
  <2>5. QED
    BY <2>3, <2>4 DEF Capture!Next
<1>3. QED
  BY <1>1, <1>2, Safe, PTL DEF Spec, ImplementsCapture, Capture!Spec

-----------------------------------------------------------------------------
(* Titles.                                                                 *)

\* age says how late a title comes in a session's life: with names that are always new, it grows.
AlwaysNew(age) ==
    /\ age \in [Sessions -> [AnyTitle -> Nat]]
    /\ \A s \in Sessions, t \in Titles : age[s][NoTitle] < age[s][t]
    /\ \A s \in Sessions, t \in AnyTitle, u \in AnyTitle :
         <<s, t, u>> \in Renames => age[s][t] < age[s][u]
Since(age, s, t, u) == t = u \/ age[s][t] < age[s][u]

\* Two hooks of one session do not overlap, and no replay is running.
TakeTurns == \A g, h \in Hooks : hookSession[g] = hookSession[h] /\ hookSession[g] # None => g = h
Undisturbed == TakeTurns /\ replayAt = 0

\* Nothing of session s waits in the fallback file.
Whole(s) == InFile \cap In(s) = {}

\* Where a title is, from the transcript down, it is no newer than where it came from.
Downstream(age) ==
    \A s \in Sessions :
        /\ Since(age, s, caught[s], title[s]) /\ Since(age, s, pgTitle[s], caught[s])
        /\ \A m \in Rows(In(s)) : Since(age, s, rowTitle[m], caught[s])
        /\ \A d \in Drains : \A m \in batch[d] \cap In(s) : Since(age, s, read[d][m], caught[s])
HookAhead(age) ==
    \A h \in Hooks : hookSession[h] # None =>
        LET s == hookSession[h] IN
        /\ Since(age, s, caught[s], snapTitle[h]) /\ Since(age, s, snapTitle[h], title[s])
        /\ Rows(In(s)) \subseteq snap[h] /\ snap[h] \subseteq said \cap In(s)

\* Rows that wait carry the title captured last; a drain's rows of one session were read alike and
\* still wait; once they are written Postgres has what was read, and when nothing waits, that title.
WaitingIsCurrent ==
    \A s \in Sessions : Whole(s) => \A m \in Pending(In(s)) : rowTitle[m] = caught[s]
ReadAlike ==
    \A d \in Drains :
        /\ batch[d] \subseteq Pending(Messages) /\ (batch[d] # {} => lock = d)
        /\ \A m, n \in batch[d] : SessionOf[m] = SessionOf[n] /\ Whole(SessionOf[m]) => read[d][m] = read[d][n]
        /\ drainAt[d] = "mark" =>
             /\ \E m \in batch[d] : SessionOf[m] = group[d]
             /\ Whole(group[d]) => \A m \in batch[d] \cap In(group[d]) :
                                     read[d][m] # NoTitle => pgTitle[group[d]] = read[d][m]
DeliveredIsCurrent ==
    \A s \in Sessions : Whole(s) /\ Rows(In(s)) # {} /\ Pending(In(s)) = {} => pgTitle[s] = caught[s]

Titled(age) ==
    /\ ~replayed /\ Rows(Messages) \subseteq said
    /\ Downstream(age) /\ HookAhead(age)
    /\ WaitingIsCurrent /\ ReadAlike /\ DeliveredIsCurrent
TitleInv(age) == SafeInv /\ Titled(age)

LEMMA SinceOrders ==
    ASSUME NEW age, AlwaysNew(age), NEW s \in Sessions, NEW t \in AnyTitle, NEW u \in AnyTitle, Since(age, s, t, u)
    PROVE  /\ \A v \in AnyTitle : Since(age, s, u, v) => Since(age, s, t, v)
           /\ Since(age, s, u, t) => t = u
           /\ u = NoTitle => t = NoTitle
<1>1. age[s][t] \in Nat /\ age[s][u] \in Nat /\ \A v \in AnyTitle : age[s][v] \in Nat
  BY DEF AlwaysNew
<1>2. t # NoTitle => age[s][NoTitle] < age[s][t]
  BY DEF AlwaysNew, AnyTitle
<1>3. QED
  BY <1>1, <1>2 DEF Since

LEMMA LeastNatural ==
    ASSUME NEW T \in SUBSET Nat, T # {}
    PROVE  \E x \in T : \A y \in T : x <= y
<1> DEFINE R == {p \in Nat \X Nat : p[1] < p[2]}
<1>1. IsWellFoundedOn(R, Nat)
  BY NatLessThanWellFounded DEF OpToRel
<1> HIDE DEF R
<1>2. PICK x \in T : \A y \in T : <<y, x>> \notin R
  BY <1>1, WFMin
<1>3. ASSUME NEW y \in T, ~(x <= y)
      PROVE  FALSE
  <2>1. <<y, x>> \in Nat \X Nat /\ y < x
    BY <1>3
  <2>2. <<y, x>> \in R
    BY <2>1 DEF R
  <2>3. QED
    BY <1>2, <2>2
<1>4. QED
  BY <1>3

\* A row with the fewest rows after it is the newest.
LEMMA NewestExists ==
    ASSUME TypeOK, NEW R \in SUBSET Messages, R # {}
    PROVE  Newest(R) # {}
<1> DEFINE After(m) == {n \in R : SeqNum[m] < SeqNum[n] \/ (SeqNum[m] = SeqNum[n] /\ rowId[m] < rowId[n])}
           T == {Cardinality(After(m)) : m \in R}
<1>1. \A m \in R : SeqNum[m] \in Nat /\ rowId[m] \in Nat
  BY SessionAssumption DEF TypeOK, OutboxTypes
<1>2. \A m \in R : After(m) \in SUBSET Messages /\ IsFiniteSet(After(m)) /\ Cardinality(After(m)) \in Nat
  <2>1. IsFiniteSet(Messages)
    BY FS_Interval, NumAssumption DEF Messages
  <2>2. QED
    BY <2>1, FS_Subset, CardinalityIsNat
<1>3. PICK m \in R : \A n \in R : Cardinality(After(m)) <= Cardinality(After(n))
  <2>1. T \in SUBSET Nat /\ T # {}
    BY <1>2
  <2>2. PICK x \in T : \A y \in T : x <= y
    BY <2>1, LeastNatural
  <2>3. PICK m \in R : x = Cardinality(After(m))
    BY <2>2
  <2>4. \A n \in R : Cardinality(After(n)) \in T
    OBVIOUS
  <2> HIDE DEF T, After
  <2>5. QED
    BY <2>2, <2>3, <2>4
<1>4. ASSUME NEW n \in R, n \in After(m)
      PROVE  FALSE
  <2>1. After(n) \subseteq After(m) /\ n \notin After(n)
    BY <1>1, <1>4
  <2>2. Cardinality(After(n)) <= Cardinality(After(m)) /\ Cardinality(After(n)) # Cardinality(After(m))
    <3> HIDE DEF After
    <3>1. QED
      BY <1>2, <1>4, <2>1, FS_Subset
  <2> HIDE DEF After
  <2>3. QED
    BY <1>2, <1>3, <1>4, <2>2
<1>5. m \in Newest(R)
  BY <1>1, <1>4 DEF Newest
<1>6. QED
  BY <1>5

LEMMA InitTitled == \A age : Init => Titled(age)
<1> SUFFICES ASSUME NEW age, Init PROVE Titled(age)
  OBVIOUS
<1>1. ~replayed /\ Rows(Messages) = {} /\ \A s : Rows(In(s)) = {}
  BY DEF Init, Rows, In
<1>2. Downstream(age)
  BY <1>1 DEF Init, Downstream, Since
<1>3. HookAhead(age)
  BY DEF Init, HookAhead
<1>4. WaitingIsCurrent /\ ReadAlike /\ DeliveredIsCurrent
  BY <1>1 DEF Init, WaitingIsCurrent, ReadAlike, DeliveredIsCurrent, Pending, In
<1>5. QED
  BY <1>1, <1>2, <1>3, <1>4 DEF Titled

\* The session speaks, or is renamed to something new.
LEMMA SessionTitled ==
    ASSUME NEW age, AlwaysNew(age), TitleInv(age),
           (\E m \in Messages : Say(m)) \/ (\E s \in Sessions : Rename(s))
    PROVE  Titled(age)'
<1>1. /\ UNCHANGED <<outboxVars, fileVars, pgVars, hookVars, drainVars, replayVars, caught>>
      /\ said \subseteq said' /\ said' \subseteq Messages
  BY DEF Say, Rename, TitleInv, SafeInv, TypeOK, TranscriptTypes
<1>2. ~replayed' /\ Rows(Messages)' \subseteq said'
  BY <1>1 DEF TitleInv, Titled, Rows, outboxVars, replayVars
<1>3. ASSUME NEW s \in Sessions, NEW t \in AnyTitle, Since(age, s, t, title[s])
      PROVE  Since(age, s, t, title'[s])
  <2>1. \/ title'[s] = title[s]
        \/ title'[s] \in AnyTitle /\ <<s, title[s], title'[s]>> \in Renames
    BY DEF Say, Rename, TitleInv, SafeInv, TypeOK, TranscriptTypes, AnyTitle
  <2>2. title[s] \in AnyTitle
    BY DEF TitleInv, SafeInv, TypeOK, TranscriptTypes
  <2>3. title'[s] \in AnyTitle /\ Since(age, s, title[s], title'[s])
    BY <2>1, <2>2 DEF AlwaysNew, Since
  <2>4. QED
    BY <1>3, <2>2, <2>3, SinceOrders
<1>4. Downstream(age)'
  <2>1. \A s \in Sessions : caught[s] \in AnyTitle
    BY DEF TitleInv, SafeInv, TypeOK, CountTypes
  <2>2. \A s \in Sessions : Since(age, s, caught[s], title'[s])
    BY <1>3, <2>1 DEF TitleInv, Titled, Downstream
  <2>3. QED
    BY <1>1, <2>2 DEF TitleInv, Titled, Downstream, Rows, In, outboxVars, pgVars, drainVars, batchVars, Since
<1>5. HookAhead(age)'
  <2>1. ASSUME NEW h \in Hooks, hookSession[h] # None
        PROVE  hookSession[h] \in Sessions /\ Since(age, hookSession[h], snapTitle[h], title'[hookSession[h]])
    BY <1>3, <2>1 DEF TitleInv, Titled, HookAhead, SafeInv, TypeOK, HookTypes
  <2>2. QED
    BY <1>1, <2>1 DEF TitleInv, Titled, HookAhead, Rows, In, outboxVars, hookVars, Since
<1>6. WaitingIsCurrent' /\ ReadAlike' /\ DeliveredIsCurrent'
  BY <1>1
  DEF TitleInv, Titled, WaitingIsCurrent, ReadAlike, DeliveredIsCurrent, Whole, InFile, Pending, Rows, In,
      outboxVars, fileVars, pgVars, drainVars, batchVars
<1>7. QED
  BY <1>2, <1>4, <1>5, <1>6 DEF Titled

LEMMA HookReadsTitled ==
    ASSUME NEW age, TitleInv(age), NEW h \in Hooks, NEW s \in Sessions, HookReads(h, s)
    PROVE  Titled(age)'
<1>1. UNCHANGED <<transcriptVars, outboxVars, fileVars, pgVars, drainVars, replayVars, caught>>
  BY DEF HookReads
<1>2. HookAhead(age)'
  <2>1. ASSUME NEW g \in Hooks, hookSession'[g] # None
        PROVE  \/ hookSession'[g] = hookSession[g] /\ snap'[g] = snap[g] /\ snapTitle'[g] = snapTitle[g]
               \/ hookSession'[g] = s /\ snap'[g] = said \cap In(s) /\ snapTitle'[g] = title[s]
    BY <2>1 DEF HookReads, TitleInv, SafeInv, TypeOK, HookTypes
  <2>2. Rows(In(s)) \subseteq said \cap In(s)
    BY DEF TitleInv, Titled, Rows, In
  <2>3. Since(age, s, caught[s], title[s]) /\ Since(age, s, title[s], title[s])
    BY DEF TitleInv, Titled, Downstream, Since
  <2>4. QED
    BY <1>1, <2>1, <2>2, <2>3
    DEF TitleInv, Titled, HookAhead, Rows, In, outboxVars, transcriptVars, Since
<1>3. QED
  BY <1>1, <1>2
  DEF TitleInv, Titled, Downstream, WaitingIsCurrent, ReadAlike, DeliveredIsCurrent, Whole, InFile, Pending,
      Rows, In, transcriptVars, outboxVars, fileVars, pgVars, drainVars, batchVars, replayVars, Since

\* With nothing to do but move, a drain changes no title, row, or batch.
LEMMA DrainMovesTitled ==
    ASSUME NEW age, TitleInv(age), NEW d \in Drains, DrainStarts(d) \/ DrainLooks(d) \/ DrainWaits(d)
    PROVE  Titled(age)'
<1>1. UNCHANGED <<transcriptVars, outboxVars, fileVars, pgVars, hookVars, batchVars, replayVars, caught>>
  BY DEF DrainStarts, DrainLooks, DrainWaits
<1>2. \A e \in Drains : drainAt'[e] = "mark" => drainAt[e] = "mark"
  BY DEF DrainStarts, DrainLooks, DrainWaits, DrainTo, SafeInv, TypeOK, DrainTypes, TitleInv
<1>3. lock' = lock \/ (lock = None /\ \A e \in Drains : batch[e] = {})
  <2>1. lock' = lock \/ lock = None
    BY DEF DrainStarts, DrainLooks, DrainWaits, Free
  <2>2. QED
    BY <2>1, TitleAssumption DEF TitleInv, Titled, ReadAlike
<1>4. ReadAlike'
  BY <1>1, <1>2, <1>3
  DEF TitleInv, Titled, ReadAlike, Whole, InFile, Pending, In, outboxVars, fileVars, pgVars, batchVars
<1>5. QED
  BY <1>1, <1>4
  DEF TitleInv, Titled, Downstream, HookAhead, WaitingIsCurrent, DeliveredIsCurrent, Whole, InFile, Pending,
      Rows, In, transcriptVars, outboxVars, fileVars, pgVars, hookVars, batchVars, replayVars, Since

\* A hook of session s may raise what was captured last to what it has read, t: whatever lies
\* downstream is no newer, and the other sessions' hooks do not notice.
LEMMA CaptureTitled ==
    ASSUME NEW age, AlwaysNew(age), TitleInv(age), TakeTurns, NEW h \in Hooks, hookSession[h] # None,
           HookEnds(h), UNCHANGED <<transcriptVars, pgVars, batchVars>>,
           caught' = [caught EXCEPT ![hookSession[h]] = snapTitle[h]],
           \A m \in Messages : SessionOf[m] # hookSession[h] => rowState'[m] = rowState[m],
           \A m \in Rows(Messages)' :
                 \/ rowTitle'[m] = rowTitle[m] /\ m \in Rows(Messages)
                 \/ SessionOf[m] = hookSession[h] /\ rowTitle'[m] = snapTitle[h]
    PROVE  Downstream(age)' /\ HookAhead(age)'
<1> DEFINE s == hookSession[h]
           t == snapTitle[h]
<1>1. /\ s \in Sessions /\ t \in AnyTitle /\ caught[s] \in AnyTitle /\ title[s] \in AnyTitle
      /\ Since(age, s, caught[s], t) /\ Since(age, s, t, title[s])
  BY DEF TitleInv, Titled, HookAhead, SafeInv, TypeOK, HookTypes, CountTypes, TranscriptTypes
<1>2. caught'[s] = t /\ \A z \in Sessions \ {s} : caught'[z] = caught[z]
  BY <1>1 DEF TitleInv, SafeInv, TypeOK, CountTypes
<1>3. ASSUME NEW z \in Sessions, NEW v \in AnyTitle, Since(age, z, v, caught[z])
      PROVE  Since(age, z, v, caught'[z])
  BY <1>1, <1>2, <1>3, SinceOrders
<1>4. ASSUME NEW z \in Sessions
      PROVE  Since(age, z, caught'[z], title[z]) /\ Since(age, z, pgTitle[z], caught'[z])
  <2>1. pgTitle[z] \in AnyTitle
    BY DEF TitleInv, SafeInv, TypeOK, PgTypes
  <2>2. Since(age, z, caught[z], title[z]) /\ Since(age, z, pgTitle[z], caught[z])
    BY DEF TitleInv, Titled, Downstream
  <2>3. QED
    BY <1>1, <1>2, <1>3, <2>1, <2>2
<1>5. ASSUME NEW z \in Sessions, NEW m \in Rows(In(z))'
      PROVE  Since(age, z, rowTitle'[m], caught'[z])
  <2>1. m \in Messages /\ SessionOf[m] = z /\ m \in Rows(Messages)'
    BY DEF Rows, In
  <2>2. CASE rowTitle'[m] = rowTitle[m] /\ m \in Rows(Messages)
    <3>1. Since(age, z, rowTitle[m], caught[z])
      BY <2>1, <2>2 DEF TitleInv, Titled, Downstream, Rows, In
    <3>2. rowTitle[m] \in AnyTitle
      BY <2>1 DEF TitleInv, SafeInv, TypeOK, OutboxTypes
    <3>3. QED
      BY <1>3, <2>2, <3>1, <3>2
  <2>3. CASE z = s /\ rowTitle'[m] = t
    BY <1>2, <2>3 DEF Since
  <2>4. QED
    BY <2>1, <2>2, <2>3
<1>6. ASSUME NEW z \in Sessions, NEW d \in Drains, NEW m \in batch[d] \cap In(z)
      PROVE  Since(age, z, read[d][m], caught'[z])
  <2>1. Since(age, z, read[d][m], caught[z])
    BY DEF TitleInv, Titled, Downstream
  <2>2. read[d][m] \in AnyTitle
    BY DEF TitleInv, SafeInv, TypeOK, DrainTypes, In
  <2>3. QED
    BY <1>3, <2>1, <2>2
<1>7. Downstream(age)'
  <2>1. UNCHANGED <<title, pgTitle, batch, read>>
    BY DEF transcriptVars, pgVars, batchVars
  <2>2. \A z \in Sessions :
             /\ Since(age, z, caught'[z], title'[z]) /\ Since(age, z, pgTitle'[z], caught'[z])
             /\ \A m \in Rows(In(z))' : Since(age, z, rowTitle'[m], caught'[z])
             /\ \A d \in Drains : \A m \in batch'[d] \cap In(z) : Since(age, z, read'[d][m], caught'[z])
    BY <1>4, <1>5, <1>6, <2>1
  <2>3. QED
    BY <2>2 DEF Downstream, Since, In
<1>8. HookAhead(age)'
  <2>1. ASSUME NEW g \in Hooks, hookSession'[g] # None
        PROVE  /\ g # h /\ hookSession'[g] = hookSession[g] /\ snap'[g] = snap[g] /\ snapTitle'[g] = snapTitle[g]
               /\ hookSession[g] \in Sessions \ {s}
    BY <2>1 DEF HookEnds, TakeTurns, TitleInv, SafeInv, TypeOK, HookTypes
  <2>2. ASSUME NEW z \in Sessions \ {s}
        PROVE  Rows(In(z))' = Rows(In(z)) /\ caught'[z] = caught[z]
    BY <1>2 DEF Rows, In
  <2>3. QED
    BY <2>1, <2>2 DEF TitleInv, Titled, HookAhead, transcriptVars, Since, In
<1>9. QED
  BY <1>7, <1>8

\* What a hook has read is NoTitle only while nothing has been captured.
LEMMA CaughtIsSnap ==
    ASSUME NEW age, AlwaysNew(age), TitleInv(age), NEW h \in Hooks, hookSession[h] # None
    PROVE  /\ hookSession[h] \in Sessions
           /\ snapTitle[h] = NoTitle => caught[hookSession[h]] = NoTitle
           /\ [caught EXCEPT ![hookSession[h]] = Coalesce(snapTitle[h], @)]
                 = [caught EXCEPT ![hookSession[h]] = snapTitle[h]]
<1> DEFINE s == hookSession[h]
<1>1. s \in Sessions /\ caught[s] \in AnyTitle /\ snapTitle[h] \in AnyTitle
  BY DEF TitleInv, SafeInv, TypeOK, HookTypes, CountTypes
<1>2. Since(age, s, caught[s], snapTitle[h])
  BY <1>1 DEF TitleInv, Titled, HookAhead
<1>3. snapTitle[h] = NoTitle => caught[s] = NoTitle
  BY <1>1, <1>2, SinceOrders
<1>4. QED
  BY <1>1, <1>3 DEF Coalesce, TitleInv, SafeInv, TypeOK, CountTypes

LEMMA HookFallsBackTitled ==
    ASSUME NEW age, AlwaysNew(age), TitleInv(age), TakeTurns, NEW h \in Hooks, HookFallsBack(h)
    PROVE  Titled(age)'
<1> DEFINE s == hookSession[h]
<1>1. /\ UNCHANGED <<transcriptVars, outboxVars, pgVars, drainVars, replayVars>>
      /\ HookEnds(h) /\ s # None
  BY DEF HookFallsBack
<1>2. PICK P \in SUBSET snap[h] :
        /\ fallback' = IF P = {} THEN fallback ELSE Append(fallback, [msgs |-> P, title |-> snapTitle[h]])
        /\ caught' = IF P = {} THEN caught ELSE [caught EXCEPT ![s] = Coalesce(snapTitle[h], @)]
  BY DEF HookFallsBack
<1>3. CASE P = {}
  <2>1. HookAhead(age)'
    BY <1>1, <1>2, <1>3
    DEF TitleInv, Titled, HookAhead, HookEnds, SafeInv, TypeOK, HookTypes, Rows, In, transcriptVars, outboxVars, Since
  <2>2. QED
    BY <1>1, <1>2, <1>3, <2>1
    DEF TitleInv, Titled, Downstream, WaitingIsCurrent, ReadAlike, DeliveredIsCurrent, Whole, InFile, Pending,
        Rows, In, transcriptVars, outboxVars, pgVars, drainVars, batchVars, replayVars, Since
<1>4. CASE P # {}
  <2>1. [msgs |-> P, title |-> snapTitle[h]] \in Write /\ fallback \in Seq(Write)
    BY DEF TitleInv, SafeInv, TypeOK, HookTypes, FileTypes, Write
  <2>2. InFile \subseteq InFile' /\ P \subseteq InFile'
    <3>1. Len(fallback) \in Nat
      BY <2>1, FileLength
    <3>2. /\ Len(fallback') = Len(fallback) + 1
          /\ \A i \in 1..Len(fallback) : fallback'[i] = fallback[i]
          /\ fallback'[Len(fallback) + 1].msgs = P
      BY <1>2, <1>4, <2>1, AppendProperties
    <3>3. QED
      BY <3>1, <3>2 DEF InFile
  <2>3. P \subseteq In(s) /\ s \in Sessions
    BY <1>1, CaughtIsSnap DEF TitleInv, Titled, HookAhead
  <2>4. \A z \in Sessions : Whole(z)' => Whole(z) /\ z # s
    BY <1>4, <2>2, <2>3 DEF Whole, In
  <2>5. caught' = [caught EXCEPT ![s] = snapTitle[h]]
    BY <1>1, <1>2, <1>4, CaughtIsSnap
  <2>6. Downstream(age)' /\ HookAhead(age)'
    <3>1. UNCHANGED <<rowState, rowTitle, batchVars>>
      BY <1>1 DEF outboxVars, drainVars
    <3>2. \A m \in Rows(Messages)' : rowTitle'[m] = rowTitle[m] /\ m \in Rows(Messages)
      BY <3>1 DEF Rows
    <3>3. UNCHANGED <<transcriptVars, pgVars, batchVars>>
      BY <1>1, <3>1
    <3>4. \A m \in Messages : SessionOf[m] # hookSession[h] => rowState'[m] = rowState[m]
      BY <3>1
    <3>5. \A m \in Rows(Messages)' :
          \/ rowTitle'[m] = rowTitle[m] /\ m \in Rows(Messages)
          \/ SessionOf[m] = hookSession[h] /\ rowTitle'[m] = snapTitle[h]
      BY <3>2
    <3>6. QED
      BY <1>1, <2>5, <3>3, <3>4, <3>5, CaptureTitled
  <2>7. \A z \in Sessions : Whole(z)' => caught'[z] = caught[z]
    BY <2>4, <2>5 DEF TitleInv, SafeInv, TypeOK, CountTypes
  <2>8. WaitingIsCurrent' /\ DeliveredIsCurrent'
    BY <1>1, <2>4, <2>7
    DEF TitleInv, Titled, WaitingIsCurrent, DeliveredIsCurrent, Pending, Rows, In, outboxVars, pgVars
  <2>9. ReadAlike'
    <3>1. \A m \in Messages : SessionOf[m] \in Sessions
      BY SessionAssumption
    <3>2. \A d \in Drains : drainAt[d] = "mark" => group[d] \in Sessions
      BY SessionAssumption DEF TitleInv, Titled, ReadAlike, SafeInv, TypeOK, DrainTypes
    <3>3. \A d \in Drains : batch[d] \subseteq Messages
      BY DEF TitleInv, SafeInv, TypeOK, DrainTypes
    <3>4. QED
      BY <1>1, <2>4, <3>1, <3>2, <3>3
      DEF TitleInv, Titled, ReadAlike, Pending, In, outboxVars, pgVars, drainVars, batchVars
  <2>10. QED
    BY <1>1, <2>6, <2>8, <2>9 DEF TitleInv, Titled, Rows, transcriptVars, outboxVars, replayVars
<1>5. QED
  BY <1>3, <1>4

\* The hook's transaction puts the title it has read onto whatever waits, or queues the newest row
\* again unless that row carried it already, and so is what was captured last.
LEMMA HookCommitsTitled ==
    ASSUME NEW age, AlwaysNew(age), TitleInv(age), TakeTurns, NEW h \in Hooks, HookCommits(h), TypeOK',
           NEW s \in Sessions, s = hookSession[h]
    PROVE  Titled(age)'
<1> DEFINE t     == snapTitle[h]
           new   == {m \in snap[h] : rowState[m] = "absent"}
           onto  == IF t = NoTitle THEN {} ELSE Pending(In(s)) \cup new
           again == IF t = NoTitle \/ onto # {} THEN {} ELSE Requeued(Rows(In(s)), snap[h], t)
<1>1. /\ rowState' = [m \in Messages |-> IF m \in new \cup again THEN "pending" ELSE rowState[m]]
      /\ rowTitle' = [m \in Messages |-> IF m \in new \cup onto \cup again THEN t ELSE rowTitle[m]]
      /\ caught' = [caught EXCEPT ![s] = Coalesce(t, @)]
      /\ StartDrain(new \cup onto \cup again # {})
      /\ HookEnds(h) /\ hookSession[h] # None
      /\ UNCHANGED <<transcriptVars, fileVars, pgVars, lock, batchVars, replayVars>>
  BY DEF HookCommits
<1>2. /\ s \in Sessions /\ t \in AnyTitle /\ caught[s] \in AnyTitle
      /\ t = NoTitle => caught[s] = NoTitle
      /\ caught' = [caught EXCEPT ![s] = t]
  BY <1>1, CaughtIsSnap DEF TitleInv, SafeInv, TypeOK, HookTypes, CountTypes
<1>3. /\ Since(age, s, caught[s], t) /\ Rows(In(s)) \subseteq snap[h] /\ snap[h] \subseteq said \cap In(s)
  BY <1>1 DEF TitleInv, Titled, HookAhead
<1>4. new \subseteq In(s) /\ onto \subseteq In(s) /\ again \subseteq Newest(Rows(In(s)))
  BY <1>3 DEF Pending, Requeued
<1>5. /\ Newest(Rows(In(s))) \subseteq Rows(In(s)) /\ In(s) \subseteq Messages
      /\ again \subseteq In(s) /\ again \subseteq Rows(Messages)
  BY <1>4 DEF Newest, Rows, In
<1>6. /\ \A m \in Messages : rowState'[m] = rowState[m] \/ rowState'[m] = "pending"
      /\ \A m \in Messages : SessionOf[m] # s => rowState'[m] = rowState[m] /\ rowTitle'[m] = rowTitle[m]
      /\ \A m \in Messages : rowTitle'[m] = rowTitle[m] \/ rowTitle'[m] = t
      /\ \A m \in Messages : m \notin new => (m \in Rows(Messages)' <=> m \in Rows(Messages))
  <2>1. \A m \in Messages : SessionOf[m] # s => m \notin new \cup onto \cup again
    BY <1>4, <1>5 DEF In
  <2> HIDE DEF t, new, onto, again
  <2>2. QED
    BY <1>1, <1>5, <2>1 DEF Rows
<1>7. Downstream(age)' /\ HookAhead(age)'
  <2>1. UNCHANGED <<transcriptVars, pgVars, batchVars>>
    BY <1>1
  <2>2. \A m \in Messages : SessionOf[m] # hookSession[h] => rowState'[m] = rowState[m]
    BY <1>6
  <2>3. \A m \in Rows(Messages)' :
              \/ rowTitle'[m] = rowTitle[m] /\ m \in Rows(Messages)
              \/ SessionOf[m] = hookSession[h] /\ rowTitle'[m] = snapTitle[h]
    <3>1. \A m \in Rows(Messages)' : m \in Messages
      BY DEF Rows
    <3>2. \A m \in new : SessionOf[m] = s /\ rowTitle'[m] = t
      BY <1>1, <1>4, <1>5 DEF In
    <3>3. QED
      BY <1>6, <3>1, <3>2
  <2>4. QED
    BY <1>1, <1>2, <2>1, <2>2, <2>3, CaptureTitled
<1>8. Rows(Messages)' \subseteq said' /\ ~replayed'
  <2>1. Rows(Messages)' \subseteq Rows(Messages) \cup new
    BY <1>6 DEF Rows
  <2>2. QED
    BY <1>1, <1>3, <2>1 DEF TitleInv, Titled, transcriptVars, replayVars
<1>9. UNCHANGED <<fallback, pgTitle, batch, read, group, lock>>
  BY <1>1 DEF fileVars, pgVars, batchVars
<1>10. \A z \in Sessions \ {s} : Pending(In(z))' = Pending(In(z)) /\ Rows(In(z))' = Rows(In(z)) /\ caught'[z] = caught[z]
  BY <1>2, <1>6 DEF Pending, Rows, In, TitleInv, SafeInv, TypeOK, CountTypes
<1>11. WaitingIsCurrent'
  <2>1. ASSUME Whole(s), NEW m \in Pending(In(s))'
        PROVE  rowTitle'[m] = t
    <3>1. m \in In(s) /\ rowState'[m] = "pending" /\ m \in Messages
      BY DEF Pending, In
    <3>2. CASE m \in new \cup onto \cup again
      BY <1>1, <3>1, <3>2
    <3>3. CASE m \notin new \cup onto \cup again
      <4>1. m \in Pending(In(s)) /\ rowTitle'[m] = rowTitle[m]
        BY <1>1, <3>1, <3>3 DEF Pending
      <4>2. t = NoTitle
        BY <3>3, <4>1
      <4>3. QED
        BY <1>2, <2>1, <4>1, <4>2 DEF TitleInv, Titled, WaitingIsCurrent
    <3>4. QED
      BY <3>2, <3>3
  <2>2. caught'[s] = t
    BY <1>2 DEF TitleInv, SafeInv, TypeOK, CountTypes
  <2>3. ASSUME NEW z \in Sessions \ {s}, Whole(z), NEW m \in Pending(In(z))
        PROVE  rowTitle'[m] = caught'[z]
    BY <1>6, <1>10, <2>3 DEF TitleInv, Titled, WaitingIsCurrent, Pending, In
  <2> HIDE DEF t, new, onto, again
  <2>4. QED
    BY <1>2, <1>9, <1>10, <2>1, <2>2, <2>3 DEF WaitingIsCurrent, Whole, InFile, In
<1>12. ReadAlike'
  <2>1. \A d \in Drains : batch[d] \subseteq Pending(Messages)'
    BY <1>6 DEF TitleInv, Titled, ReadAlike, Pending
  <2>2. \A d \in Drains : drainAt'[d] = "mark" => drainAt[d] = "mark"
    BY <1>1 DEF StartDrain, TitleInv, SafeInv, TypeOK, DrainTypes
  <2>3. QED
    BY <1>9, <2>1, <2>2 DEF TitleInv, Titled, ReadAlike, Whole, InFile, In
<1>13. DeliveredIsCurrent'
  <2>1. ASSUME Whole(s), Rows(In(s))' # {}, Pending(In(s))' = {}
        PROVE  pgTitle[s] = caught'[s]
    <3>1. \A m \in In(s) : m \notin new \cup again
      BY <1>1, <1>5, <2>1 DEF Pending
    <3>2. new = {} /\ again = {}
      BY <1>4, <1>5, <3>1
    <3>3. rowState' = rowState
      BY <1>1, <3>2 DEF TitleInv, SafeInv, TypeOK, OutboxTypes
    <3>4. Rows(In(s)) # {} /\ Pending(In(s)) = {}
      BY <2>1, <3>3 DEF Rows, Pending
    <3>5. pgTitle[s] = caught[s]
      BY <1>2, <2>1, <3>4 DEF TitleInv, Titled, DeliveredIsCurrent
    <3>6. t = caught[s]
      <4>1. CASE t = NoTitle
        BY <1>2, <4>1
      <4>2. CASE t # NoTitle
        <5>1. onto = {}
          BY <3>2, <3>4
        <5>2. Requeued(Rows(In(s)), snap[h], t) = {}
          BY <3>2, <4>2, <5>1
        <5>3. PICK m : m \in Newest(Rows(In(s)))
          BY <3>4, NewestExists DEF TitleInv, SafeInv, Rows, In
        <5>4. m \in Rows(In(s)) /\ m \in Messages /\ rowTitle[m] = t
          BY <1>3, <1>5, <5>2, <5>3 DEF Requeued
        <5>5. Since(age, s, t, caught[s])
          BY <1>2, <5>4 DEF TitleInv, Titled, Downstream
        <5>6. QED
          BY <1>2, <1>3, <5>5, SinceOrders
      <4>3. QED
        BY <4>1, <4>2
    <3>7. QED
      BY <1>2, <3>5, <3>6 DEF TitleInv, SafeInv, TypeOK, CountTypes
  <2> HIDE DEF t, new, onto, again
  <2>2. \A z \in Sessions : Whole(z)' <=> Whole(z)
    BY <1>9 DEF Whole, InFile
  <2>3. QED
    BY <1>2, <1>9, <1>10, <2>1, <2>2 DEF TitleInv, Titled, DeliveredIsCurrent
<1>14. QED
  BY <1>7, <1>8, <1>11, <1>12, <1>13 DEF Titled

\* One drain's turn that marks nothing: what the others hold stays, and what is written for a session
\* comes from rows that still wait.
LEMMA OneDrainTitled ==
    ASSUME NEW age, TitleInv(age), NEW d \in Drains,
           UNCHANGED <<transcriptVars, rowState, rowTitle, fileVars, hookVars, replayVars, caught>>,
           \A e \in Drains \ {d} : /\ drainAt'[e] = drainAt[e] /\ batch'[e] = batch[e] /\ read'[e] = read[e]
                                   /\ group'[e] = group[e],
           batch'[d] \subseteq Pending(Messages), batch'[d] # {} => lock = d,
           lock' = lock \/ (lock = d /\ batch'[d] = {}),
           \/ batch'[d] \subseteq batch[d] /\ read'[d] = read[d]
           \/ read'[d] = rowTitle,
           \A z \in Sessions : \/ pgTitle'[z] = pgTitle[z]
                               \/ /\ Pending(In(z)) # {} /\ Since(age, z, pgTitle'[z], caught[z])
                                  /\ lock = d,
           drainAt'[d] = "mark" =>
             /\ \E m \in batch'[d] : SessionOf[m] = group'[d]
             /\ Whole(group'[d]) => \A m \in batch'[d] \cap In(group'[d]) :
                                      read'[d][m] # NoTitle => pgTitle'[group'[d]] = read'[d][m]
    PROVE  Titled(age)'
<1>1. UNCHANGED <<said, title, fallback, archived, hookSession, snap, snapTitle, replayed>>
  BY DEF transcriptVars, fileVars, hookVars, replayVars
<1>2. /\ batch[d] \subseteq Messages /\ \A m \in Messages : SessionOf[m] \in Sessions
      /\ \A z \in Sessions : Whole(z)' <=> Whole(z)
      /\ \A z : Pending(In(z))' = Pending(In(z)) /\ Rows(In(z))' = Rows(In(z))
      /\ Pending(Messages)' = Pending(Messages) /\ Rows(Messages)' = Rows(Messages)
  BY <1>1, SessionAssumption DEF TitleInv, SafeInv, TypeOK, DrainTypes, Whole, InFile, Pending, Rows, In
<1>3. ASSUME NEW m \in batch'[d]
      PROVE  /\ m \in Messages /\ m \in Pending(In(SessionOf[m])) /\ SessionOf[m] \in Sessions
             /\ Since(age, SessionOf[m], read'[d][m], caught[SessionOf[m]])
  <2>1. m \in Messages /\ m \in Pending(In(SessionOf[m])) /\ m \in Rows(In(SessionOf[m])) /\ SessionOf[m] \in Sessions
    BY <1>2 DEF Pending, Rows, In
  <2>2. CASE batch'[d] \subseteq batch[d] /\ read'[d] = read[d]
    BY <2>1, <2>2 DEF TitleInv, Titled, Downstream, In
  <2>3. CASE read'[d] = rowTitle
    BY <2>1, <2>3 DEF TitleInv, Titled, Downstream
  <2>4. QED
    BY <2>1, <2>2, <2>3
<1>4. \A m, n \in batch'[d] : SessionOf[m] = SessionOf[n] /\ Whole(SessionOf[m]) => read'[d][m] = read'[d][n]
  <2>1. CASE batch'[d] \subseteq batch[d] /\ read'[d] = read[d]
    BY <2>1 DEF TitleInv, Titled, ReadAlike
  <2>2. CASE read'[d] = rowTitle
    BY <1>3, <2>2 DEF TitleInv, Titled, WaitingIsCurrent
  <2>3. QED
    BY <2>1, <2>2
<1>5. Downstream(age)'
  <2>1. \A z \in Sessions : Since(age, z, pgTitle'[z], caught[z])
    BY DEF TitleInv, Titled, Downstream
  <2>2. ASSUME NEW z \in Sessions, NEW e \in Drains, NEW m \in batch'[e] \cap In(z)
        PROVE  Since(age, z, read'[e][m], caught[z])
    <3>1. CASE e = d
      BY <1>3, <3>1 DEF In
    <3>2. CASE e # d
      BY <3>2 DEF TitleInv, Titled, Downstream
    <3>3. QED
      BY <3>1, <3>2
  <2>3. \A z \in Sessions :
          /\ Since(age, z, caught'[z], title'[z]) /\ Since(age, z, pgTitle'[z], caught'[z])
          /\ \A m \in Rows(In(z))' : Since(age, z, rowTitle'[m], caught'[z])
          /\ \A e \in Drains : \A m \in batch'[e] \cap In(z) : Since(age, z, read'[e][m], caught'[z])
    BY <1>1, <1>2, <2>1, <2>2 DEF TitleInv, Titled, Downstream
  <2>4. QED
    BY <2>3 DEF Downstream, Since, In
<1>6. ReadAlike'
  <2>1. ASSUME NEW e \in Drains \ {d}
        PROVE  /\ batch'[e] \subseteq Pending(Messages)' /\ (batch'[e] # {} => lock' = e)
               /\ \A m, n \in batch'[e] : SessionOf[m] = SessionOf[n] /\ Whole(SessionOf[m])' => read'[e][m] = read'[e][n]
               /\ drainAt'[e] = "mark" =>
                    /\ \E m \in batch'[e] : SessionOf[m] = group'[e]
                    /\ Whole(group[e])' => \A m \in batch'[e] \cap In(group[e]) :
                                     read'[e][m] # NoTitle => pgTitle'[group[e]] = read'[e][m]
    <3>1. batch[e] # {} => lock = e
      BY DEF TitleInv, Titled, ReadAlike
    <3>2. \A m \in batch[e] : m \in Messages /\ SessionOf[m] \in Sessions
      BY <1>2 DEF TitleInv, SafeInv, TypeOK, DrainTypes
    <3>3. drainAt[e] = "mark" => group[e] \in Sessions /\ pgTitle'[group[e]] = pgTitle[group[e]]
      BY <3>1, <3>2 DEF TitleInv, Titled, ReadAlike
    <3>4. QED
      BY <1>2, <2>1, <3>1, <3>2, <3>3 DEF TitleInv, Titled, ReadAlike
  <2>2. /\ batch'[d] \subseteq Pending(Messages)' /\ (batch'[d] # {} => lock' = d)
        /\ \A m, n \in batch'[d] : SessionOf[m] = SessionOf[n] /\ Whole(SessionOf[m])' => read'[d][m] = read'[d][n]
    BY <1>2, <1>3, <1>4
  <2>3. /\ \A e \in Drains \ {d} : group'[e] = group[e]
        /\ \A z : Whole(z)' <=> Whole(z)
    BY <1>1 DEF Whole, InFile, In
  <2> DEFINE Alike(e) ==
        /\ batch[e] \subseteq Pending(Messages) /\ (batch[e] # {} => lock = e)
        /\ \A m, n \in batch[e] : SessionOf[m] = SessionOf[n] /\ Whole(SessionOf[m]) => read[e][m] = read[e][n]
        /\ drainAt[e] = "mark" =>
             /\ \E m \in batch[e] : SessionOf[m] = group[e]
             /\ Whole(group[e]) => \A m \in batch[e] \cap In(group[e]) :
                                     read[e][m] # NoTitle => pgTitle[group[e]] = read[e][m]
  <2>4. ASSUME NEW e \in Drains \ {d}
        PROVE  Alike(e)'
    <3>1. group'[e] = group[e]
      BY <2>3
    <3>2. QED
      BY <2>1, <3>1 DEF Whole, InFile, In
  <2>5. Alike(d)'
    <3>1. drainAt'[d] = "mark" => (Whole(group'[d]) <=> Whole(group[d])')
      BY <2>3 DEF Whole, In
    <3>2. QED
      BY <2>2, <3>1 DEF In
  <2>6. \A e \in Drains : Alike(e)'
    BY <2>4, <2>5
  <2>7. QED
    BY <2>6 DEF ReadAlike
<1>7. WaitingIsCurrent'
  BY <1>2 DEF TitleInv, Titled, WaitingIsCurrent
<1>8. DeliveredIsCurrent'
  BY <1>2 DEF TitleInv, Titled, DeliveredIsCurrent
<1>9. HookAhead(age)'
  BY <1>1 DEF TitleInv, Titled, HookAhead, Rows, In, Since
<1>10. QED
  BY <1>1, <1>2, <1>5, <1>6, <1>7, <1>8, <1>9 DEF TitleInv, Titled

\* What a commit of session s writes is what its rows were read to carry.
LEMMA CommitsWhatWasRead ==
    ASSUME NEW age, AlwaysNew(age), TitleInv(age), NEW d \in Drains, NEW m \in batch[d], Commits(d, SessionOf[m])
    PROVE  LET s == SessionOf[m] IN
           /\ s \in Sessions /\ lock = d /\ Pending(In(s)) # {}
           /\ \A z \in Sessions \ {s} : pgTitle'[z] = pgTitle[z]
           /\ Since(age, s, pgTitle'[s], caught[s])
           /\ Whole(s) => \A n \in batch[d] \cap In(s) : read[d][n] # NoTitle => pgTitle'[s] = read[d][n]
<1> DEFINE s == SessionOf[m]
           G == batch[d] \cap In(s)
           named == {n \in G : read[d][n] # NoTitle}
<1>1. /\ m \in Messages /\ s \in Sessions /\ G \subseteq Messages
      /\ \A n \in G : n \in batch[d] /\ SessionOf[n] = s
  BY SessionAssumption DEF TitleInv, SafeInv, TypeOK, DrainTypes, In
<1>2. lock = d /\ m \in Pending(In(s))
  BY <1>1 DEF TitleInv, Titled, ReadAlike, Pending, In
<1>3. PICK t \in LastTitle(d, G) : pgTitle' = [pgTitle EXCEPT ![s] = Coalesce(t, @)]
  BY DEF Commits
<1>4. \/ t = NoTitle /\ named = {}
      \/ t # NoTitle /\ \E n \in G : t = read[d][n]
  <2>1. named = {} => t = NoTitle
    BY <1>3 DEF LastTitle
  <2>2. named # {} => \E n \in named : t = read[d][n]
    BY <1>3 DEF LastTitle
  <2>3. QED
    BY <2>1, <2>2
<1>5. pgTitle'[s] = Coalesce(t, pgTitle[s]) /\ \A z \in Sessions \ {s} : pgTitle'[z] = pgTitle[z]
  BY <1>1, <1>3 DEF TitleInv, SafeInv, TypeOK, PgTypes
<1>6. Since(age, s, pgTitle'[s], caught[s])
  <2>1. Since(age, s, pgTitle[s], caught[s]) /\ \A n \in G : Since(age, s, read[d][n], caught[s])
    BY <1>1 DEF TitleInv, Titled, Downstream
  <2> HIDE DEF G, named, s
  <2>2. QED
    BY <1>4, <1>5, <2>1 DEF Coalesce
<1>7. Whole(s) => \A n \in G : read[d][n] # NoTitle => pgTitle'[s] = read[d][n]
  <2>1. Whole(s) => \A n, k \in G : read[d][n] = read[d][k]
    BY <1>1 DEF TitleInv, Titled, ReadAlike
  <2>2. QED
    BY <1>4, <1>5, <2>1 DEF Coalesce
<1>8. QED
  BY <1>1, <1>2, <1>5, <1>6, <1>7

LEMMA DrainReadsTitled ==
    ASSUME NEW age, TitleInv(age), NEW d \in Drains, DrainReads(d)
    PROVE  Titled(age)'
<1>1. PICK B \in SUBSET Messages :
        /\ NextBatch(B) /\ batch' = [batch EXCEPT ![d] = B]
        /\ DrainTo(d, IF B = {} THEN "close" ELSE IF drainAt[d] = "open" THEN "connect" ELSE "write")
  BY DEF DrainReads
<1>2. /\ batch'[d] = B /\ B \subseteq Pending(Messages) /\ read'[d] = rowTitle
      /\ \A e \in Drains \ {d} : batch'[e] = batch[e] /\ read'[e] = read[e] /\ drainAt'[e] = drainAt[e]
      /\ drainAt'[d] # "mark"
  BY <1>1 DEF DrainReads, DrainTo, NextBatch, TitleInv, SafeInv, TypeOK, DrainTypes
<1>3. lock = d
  BY DEF DrainReads, TitleInv, SafeInv, TypeOK, DrainTypes
<1>4. UNCHANGED <<transcriptVars, rowState, rowTitle, fileVars, hookVars, replayVars, caught, pgTitle, lock, group>>
  BY DEF DrainReads, outboxVars, pgVars
<1>5. QED
  BY <1>2, <1>3, <1>4, OneDrainTitled

LEMMA DrainConnectsTitled ==
    ASSUME NEW age, TitleInv(age), NEW d \in Drains, DrainConnects(d)
    PROVE  Titled(age)'
<1>1. /\ batch'[d] \subseteq batch[d] /\ drainAt'[d] # "mark"
      /\ \A e \in Drains \ {d} : batch'[e] = batch[e] /\ drainAt'[e] = drainAt[e]
  BY DEF DrainConnects, DrainTo, TitleInv, SafeInv, TypeOK, DrainTypes
<1>2. batch[d] \subseteq Pending(Messages) /\ (batch[d] # {} => lock = d)
  BY DEF TitleInv, Titled, ReadAlike
<1>3. UNCHANGED <<transcriptVars, rowState, rowTitle, fileVars, hookVars, replayVars, caught, pgTitle, lock, group, read>>
  BY DEF DrainConnects, pgVars
<1>4. batch'[d] \subseteq Pending(Messages) /\ (batch'[d] # {} => lock = d)
  BY <1>1, <1>2
<1>5. QED
  BY <1>1, <1>3, <1>4, OneDrainTitled

LEMMA DrainWritesTitled ==
    ASSUME NEW age, AlwaysNew(age), TitleInv(age), NEW d \in Drains, DrainWrites(d)
    PROVE  Titled(age)'
<1>1. PICK s \in {SessionOf[m] : m \in batch[d]} :
        \/ /\ Commits(d, s)
           /\ group' = [group EXCEPT ![d] = s]
           /\ DrainTo(d, "mark")
           /\ UNCHANGED batch
        \/ /\ NextTurn(d, s, FALSE)
           /\ UNCHANGED <<pgVars, group>>
  BY DEF DrainWrites
<1>2. PICK m \in batch[d] : s = SessionOf[m]
  BY <1>1
<1>3. batch[d] \subseteq Pending(Messages) /\ lock = d
  BY <1>2 DEF TitleInv, Titled, ReadAlike
<1>4. UNCHANGED <<transcriptVars, rowState, rowTitle, fileVars, hookVars, replayVars, caught, lock, read>>
  BY DEF DrainWrites
<1>5. CASE Commits(d, s) /\ group' = [group EXCEPT ![d] = s] /\ DrainTo(d, "mark") /\ UNCHANGED batch
  <2>1. /\ s \in Sessions /\ Pending(In(s)) # {}
        /\ \A z \in Sessions \ {s} : pgTitle'[z] = pgTitle[z]
        /\ Since(age, s, pgTitle'[s], caught[s])
        /\ Whole(s) => \A n \in batch[d] \cap In(s) : read[d][n] # NoTitle => pgTitle'[s] = read[d][n]
    BY <1>2, <1>5, CommitsWhatWasRead
  <2>2. /\ drainAt'[d] = "mark" /\ group'[d] = s
        /\ \A e \in Drains \ {d} : drainAt'[e] = drainAt[e] /\ group'[e] = group[e]
    BY <1>5 DEF DrainTo, TitleInv, SafeInv, TypeOK, DrainTypes
  <2>3. \A z \in Sessions : \/ pgTitle'[z] = pgTitle[z]
                            \/ Pending(In(z)) # {} /\ Since(age, z, pgTitle'[z], caught[z]) /\ lock = d
    BY <1>3, <2>1
  <2>4. QED
    BY <1>2, <1>3, <1>4, <1>5, <2>1, <2>2, <2>3, OneDrainTitled
<1>6. CASE NextTurn(d, s, FALSE) /\ UNCHANGED <<pgVars, group>>
  <2>1. /\ batch'[d] \subseteq batch[d] /\ drainAt'[d] # "mark"
        /\ \A e \in Drains \ {d} : batch'[e] = batch[e] /\ drainAt'[e] = drainAt[e]
    BY <1>6 DEF NextTurn, DrainTo, TitleInv, SafeInv, TypeOK, DrainTypes
  <2>2. UNCHANGED <<pgTitle, group>>
    BY <1>6 DEF pgVars
  <2>3. batch'[d] \subseteq Pending(Messages)
    BY <1>3, <2>1
  <2>4. QED
    BY <1>3, <1>4, <2>1, <2>2, <2>3, OneDrainTitled
<1>7. QED
  BY <1>1, <1>5, <1>6

\* A drain that ends, or is killed, though its last transaction may have been committed.
LEMMA DrainLeavesTitled ==
    ASSUME NEW age, AlwaysNew(age), TitleInv(age), NEW d \in Drains, DrainCloses(d) \/ DrainDies(d)
    PROVE  Titled(age)'
<1>1. DrainEnds(d) /\ UNCHANGED <<transcriptVars, rowState, rowTitle, fileVars, hookVars, replayVars, caught>>
  BY DEF DrainCloses, DrainDies, outboxVars
<1>2. /\ batch'[d] = {} /\ drainAt'[d] # "mark" /\ read' = read
      /\ lock' = lock \/ (lock = d /\ batch'[d] = {})
      /\ \A e \in Drains \ {d} : batch'[e] = batch[e] /\ drainAt'[e] = drainAt[e] /\ group'[e] = group[e]
  BY <1>1 DEF DrainEnds, DrainTo, TitleInv, SafeInv, TypeOK, DrainTypes
<1>3. \A z \in Sessions : \/ pgTitle'[z] = pgTitle[z]
                          \/ Pending(In(z)) # {} /\ Since(age, z, pgTitle'[z], caught[z]) /\ lock = d
  <2>1. CASE UNCHANGED pgVars
    BY <2>1 DEF pgVars
  <2>2. CASE \E s \in {SessionOf[m] : m \in batch[d]} \ Rejected : Commits(d, s)
    <3>1. PICK m \in batch[d] : Commits(d, SessionOf[m])
      BY <2>2
    <3>2. QED
      BY <3>1, CommitsWhatWasRead
  <2>3. QED
    BY <2>1, <2>2 DEF DrainCloses, DrainDies
<1>4. QED
  BY <1>1, <1>2, <1>3, OneDrainTitled

\* Rows stop waiting only when what Postgres has been given is what they carry now.
LEMMA DrainMarksTitled ==
    ASSUME NEW age, AlwaysNew(age), TitleInv(age), NEW d \in Drains, DrainMarks(d)
    PROVE  Titled(age)'
<1> DEFINE s == group[d]
<1>1. /\ rowState' = [m \in Messages |-> IF m \in Marked(d) THEN "sent" ELSE rowState[m]]
      /\ UNCHANGED <<transcriptVars, rowTitle, fileVars, hookVars, replayVars, caught, pgTitle, lock, read>>
  BY DEF DrainMarks, pgVars
<1>2. /\ batch'[d] = batch[d] \ In(s) /\ drainAt'[d] # "mark"
      /\ \A e \in Drains \ {d} : batch'[e] = batch[e] /\ drainAt'[e] = drainAt[e] /\ group'[e] = group[e]
  BY DEF DrainMarks, NextTurn, DrainTo, TitleInv, SafeInv, TypeOK, DrainTypes
<1>3. PICK k \in batch[d] : SessionOf[k] = s /\ k \in Messages /\ s \in Sessions /\ lock = d
  BY SessionAssumption DEF DrainMarks, TitleInv, Titled, ReadAlike, SafeInv, TypeOK, DrainTypes
<1>4. Marked(d) \subseteq batch[d] \cap In(s) \cap Messages
  BY DEF Marked, Pending, TitleInv, SafeInv, TypeOK, DrainTypes
<1>5. /\ Pending(Messages)' = Pending(Messages) \ Marked(d)
      /\ \A z : Rows(In(z))' = Rows(In(z)) /\ Pending(In(z))' = Pending(In(z)) \ Marked(d)
      /\ Rows(Messages)' = Rows(Messages)
  <2>1. \A m \in Marked(d) : rowState[m] = "pending"
    BY DEF Marked, Pending
  <2>2. QED
    BY <1>1, <2>1 DEF Pending, Rows, In
<1>6. /\ UNCHANGED <<said, title, hookSession, snap, snapTitle, replayed>>
      /\ \A z : Whole(z)' <=> Whole(z)
  BY <1>1 DEF transcriptVars, fileVars, hookVars, replayVars, Whole, InFile, In
<1>7. Downstream(age)' /\ HookAhead(age)'
  <2>1. \A e \in Drains : batch'[e] \subseteq batch[e]
    BY <1>2
  <2>2. Downstream(age)'
    BY <1>1, <1>5, <1>6, <2>1 DEF TitleInv, Titled, Downstream, Since, In
  <2>3. HookAhead(age)'
    <3>1. \A m \in Messages : rowState'[m] # "absent" <=> rowState[m] # "absent"
      BY <1>1, <1>4 DEF Marked, Pending
    <3>2. QED
      BY <1>1, <1>6, <3>1 DEF TitleInv, Titled, HookAhead, Since, Rows, In
  <2>4. QED
    BY <2>2, <2>3
<1>8. WaitingIsCurrent'
  BY <1>1, <1>5, <1>6 DEF TitleInv, Titled, WaitingIsCurrent
<1>9. ReadAlike'
  <2>1. ASSUME NEW e \in Drains \ {d}
        PROVE  batch'[e] = {} /\ drainAt'[e] # "mark"
    BY <1>2, <1>3 DEF TitleInv, Titled, ReadAlike
  <2>2. /\ batch'[d] \subseteq Pending(Messages)' /\ lock' = d
        /\ \A m, n \in batch'[d] : SessionOf[m] = SessionOf[n] /\ Whole(SessionOf[m])' => read'[d][m] = read'[d][n]
    BY <1>1, <1>2, <1>3, <1>4, <1>5, <1>6 DEF TitleInv, Titled, ReadAlike
  <2>3. QED
    BY <1>2, <2>1, <2>2 DEF ReadAlike, Whole, InFile, In
<1>10. DeliveredIsCurrent'
  <2>1. ASSUME NEW z \in Sessions, Whole(z), Rows(In(z)) # {}, Pending(In(z)) \ Marked(d) = {}
        PROVE  pgTitle[z] = caught[z]
    <3>1. CASE Pending(In(z)) = {}
      BY <2>1, <3>1 DEF TitleInv, Titled, DeliveredIsCurrent
    <3>2. CASE Pending(In(z)) # {}
      <4>1. PICK m \in Pending(In(z)) : m \in Marked(d)
        BY <2>1, <3>2
      <4>2. /\ z = s /\ m \in batch[d] \cap In(s) /\ rowTitle[m] = read[d][m]
        BY <4>1 DEF Marked, Pending, In
      <4>3. rowTitle[m] = caught[z]
        BY <2>1 DEF TitleInv, Titled, WaitingIsCurrent
      <4>4. CASE read[d][m] # NoTitle
        BY <2>1, <4>2, <4>3, <4>4 DEF DrainMarks, TitleInv, Titled, ReadAlike
      <4>5. CASE caught[z] = NoTitle
        <5>1. Since(age, z, pgTitle[z], caught[z]) /\ pgTitle[z] \in AnyTitle /\ caught[z] \in AnyTitle
          BY DEF TitleInv, Titled, Downstream, SafeInv, TypeOK, PgTypes, CountTypes
        <5>2. QED
          BY <4>5, <5>1, SinceOrders
      <4>6. QED
        BY <4>2, <4>3, <4>4, <4>5
    <3>3. QED
      BY <3>1, <3>2
  <2>2. QED
    BY <1>1, <1>5, <1>6, <2>1 DEF DeliveredIsCurrent
<1>11. QED
  BY <1>5, <1>6, <1>7, <1>8, <1>9, <1>10 DEF TitleInv, Titled

LEMMA NextTitled ==
    ASSUME NEW age, AlwaysNew(age), TitleInv(age), Undisturbed, Undisturbed', [Next]_vars
    PROVE  TitleInv(age)'
<1>1. SafeInv' /\ TypeOK'
  BY NextSafe DEF TitleInv, SafeInv
<1>2. TakeTurns
  BY DEF Undisturbed
<1> SUFFICES Titled(age)'
  BY <1>1 DEF TitleInv
<1>3. CASE UNCHANGED vars
  BY <1>1, <1>3
  DEF vars, transcriptVars, outboxVars, fileVars, pgVars, hookVars, drainVars, batchVars, replayVars,
      TitleInv, Titled, Downstream, HookAhead, WaitingIsCurrent, ReadAlike, DeliveredIsCurrent, Whole, InFile,
      Pending, Rows, In, Since
<1>4. CASE \E h \in Hooks : HookStep(h)
  <2>1. PICK h \in Hooks : HookStep(h)
    BY <1>4
  <2>2. CASE HookCommits(h)
    <3>1. hookSession[h] \in Sessions
      BY <2>2 DEF HookCommits, TitleInv, SafeInv, TypeOK, HookTypes
    <3>2. QED
      BY <1>1, <1>2, <2>2, <3>1, HookCommitsTitled
  <2>3. QED
    BY <1>2, <2>1, <2>2, HookReadsTitled, HookFallsBackTitled DEF HookStep
<1>5. CASE \E d \in Drains : DrainStep(d) \/ DrainDies(d)
  BY <1>5, DrainMovesTitled, DrainReadsTitled, DrainConnectsTitled, DrainWritesTitled, DrainMarksTitled,
     DrainLeavesTitled
  DEF DrainStep
<1>6. CASE (\E m \in Messages : Say(m)) \/ (\E s \in Sessions : Rename(s))
  BY <1>6, SessionTitled
<1>7. CASE ReplayReads \/ ReplayInserts \/ ReplayArchives \/ ReplayDies
  <2>1. replayAt = 0 /\ replayAt' = 0 /\ ~replayed
    BY DEF Undisturbed, TitleInv, Titled
  <2>2. FALSE
    <3>1. fallback # <<>> => Len(fallback) # 0
      BY EmptySeq, LenProperties DEF TitleInv, SafeInv, TypeOK, FileTypes
    <3>2. QED
      BY <1>7, <2>1, <3>1 DEF ReplayReads, ReplayInserts, ReplayArchives, ReplayDies
  <2>3. QED
    BY <2>2
<1>8. QED
  BY <1>3, <1>4, <1>5, <1>6, <1>7 DEF Next

\* record.py:640, "Make sure the session's current titles reach the database": in a session that only
\* ever gets new names, whose hooks do not overlap and which nobody replays, whatever the drains do
\* and however they fail, the title captured last is in Postgres once nothing of the session waits.
THEOREM TitlesSettle ==
    ASSUME NEW age, AlwaysNew(age)
    PROVE  Spec /\ []Undisturbed => []SettledTitleIsCurrent
<1>1. Init => TitleInv(age)
  BY InitSafe, InitTitled DEF TitleInv
<1>2. TitleInv(age) /\ Undisturbed /\ Undisturbed' /\ [Next]_vars => TitleInv(age)'
  BY NextTitled
<1>3. TitleInv(age) => SettledTitleIsCurrent
  BY DEF TitleInv, Titled, DeliveredIsCurrent, SettledTitleIsCurrent, Settled, Whole
<1>4. QED
  BY <1>1, <1>2, <1>3, PTL DEF Spec
=============================================================================
