--------------------------- MODULE KataWorkerProofs ---------------------------
(***************************************************************************)
(* Proofs about KataWorker, for any jobs, boards, bounds and durations     *)
(* that satisfy the module's assumptions: no job is lost, a job in a pass  *)
(* is nobody else's, a worker parked for an update holds nothing, a job    *)
(* crashes boards a bounded number of times, and in quiet weather no job   *)
(* comes round twice.                                                      *)
(***************************************************************************)
EXTENDS KataWorker, FiniteSetTheorems, TLAPS

\* A sick board starts no pass, so bad_in_row never goes past the threshold.
HealthInv ==
    \A b \in Boards :
        /\ pc[b] = "embed" => ~sick[b]
        /\ ~sick[b] => bad[b] < BadPasses

TInv == TypeOK /\ HealthInv

LEMMA CleanCounts ==
    ASSUME CountTypes, NEW ok \in BOOLEAN, Clean(ok)
    PROVE  faults' \in 0..MaxFaults
BY CountAssumption DEF CountTypes, Clean

LEMMA SetPoolTypes ==
    ASSUME PoolTypes, NEW b \in Boards, NEW p, NEW sn, NEW tr,
           p \in [Receipt -> PoolStates],
           \A r \in Receipt : p[r] # "none" => sn[r] \in 0..Visibility /\ tr[r] \in 0..(DeleteTries - 1),
           SetPool(b, p, sn, tr)
    PROVE  PoolTypes'
<1> DEFINE sn2 == [r \in Receipt |-> IF p[r] = "none" THEN 0 ELSE sn[r]]
           tr2 == [r \in Receipt |-> IF p[r] = "none" THEN 0 ELSE tr[r]]
<1>1. sn2 \in [Receipt -> 0..Visibility]
  BY TimeAssumption
<1>2. tr2 \in [Receipt -> 0..(DeleteTries - 1)]
  BY CountAssumption
<1>3. pool' = [pool EXCEPT ![b] = p] /\ seen' = [seen EXCEPT ![b] = sn2] /\ tries' = [tries EXCEPT ![b] = tr2]
  BY DEF SetPool
<1> HIDE DEF sn2, tr2
<1>4. QED
  BY <1>1, <1>2, <1>3 DEF PoolTypes

\* The same when the worker's clock and delete counts are left as they are.
LEMMA SetPoolKeeps ==
    ASSUME PoolTypes, NEW b \in Boards, NEW p \in [Receipt -> PoolStates],
           SetPool(b, p, seen[b], tries[b])
    PROVE  PoolTypes'
BY SetPoolTypes DEF PoolTypes

LEMMA MarkTypes ==
    ASSUME NEW p \in [Receipt -> PoolStates], NEW R, NEW s \in PoolStates
    PROVE  Mark(p, R, s) \in [Receipt -> PoolStates]
BY DEF Mark

LEMMA GotoTypes ==
    ASSUME FlowTypes, NEW b \in Boards, NEW s \in Steps, Goto(b, s)
    PROVE  pc' \in [Boards -> Steps] /\ lag' \in [Boards -> Nat] /\ pc' = [pc EXCEPT ![b] = s]
BY DEF FlowTypes, Goto

LEMMA InitTInv == Init => TInv
BY CountAssumption, TimeAssumption
DEF Init, TInv, TypeOK, QueueTypes, PoolTypes, FlowTypes, HealthTypes, CountTypes, HealthInv,
    PoolStates, Steps, NetSteps

LEMMA NetBeginTInv ==
    ASSUME TInv, NEW b \in Boards, NetBegin(b)
    PROVE  TInv'
<1> USE DEF TInv, TypeOK
<1>1. QueueTypes' /\ HealthTypes'
  BY DEF NetBegin, queueVars, calVars, healthVars, QueueTypes, HealthTypes
<1>2. PoolTypes'
  <2>1. DropTooBig(pool[b]) \in [Receipt -> PoolStates]
    BY MarkTypes DEF DropTooBig, PoolTypes, PoolStates
  <2>2. CASE UNCHANGED poolVars
    BY <2>2 DEF poolVars, PoolTypes
  <2>3. CASE SetPool(b, DropTooBig(pool[b]), seen[b], tries[b])
    BY <2>1, <2>3, SetPoolKeeps
  <2>4. QED
    BY <2>2, <2>3 DEF NetBegin
<1>3. FlowTypes' /\ HealthInv'
  BY GotoTypes DEF NetBegin, Goto, FlowTypes, HealthInv, HealthTypes, passVars, parkVars, healthVars, Steps, NetSteps
<1>4. CountTypes'
  BY CleanCounts DEF NetBegin, CountTypes, parkVars
<1>5. QED
  BY <1>1, <1>2, <1>3, <1>4

LEMMA SendTInv ==
    ASSUME TInv, NEW b \in Boards, Send(b)
    PROVE  TInv'
<1> USE DEF TInv, TypeOK
<1> DEFINE S == InState(pool[b], {"result"})
<1>1. PICK heard \in SUBSET S, unheard \in SUBSET S :
        /\ Clean(heard = S)
        /\ results' = results \cup JobsOf(heard \cup unheard)
        /\ SetPool(b, Mark(pool[b], heard, "delete"), seen[b], tries[b])
  BY DEF Send
<1>2. QueueTypes'
  BY <1>1 DEF Send, queueVars, QueueTypes, JobsOf, InState, Receipt
<1>3. PoolTypes'
  BY <1>1, MarkTypes, SetPoolKeeps DEF PoolTypes, PoolStates
<1>4. FlowTypes' /\ HealthTypes' /\ HealthInv'
  BY GotoTypes DEF Send, Goto, FlowTypes, HealthInv, HealthTypes, passVars, parkVars, healthVars, Steps, NetSteps
<1>5. CountTypes'
  BY <1>1, CleanCounts DEF Send, CountTypes, parkVars
<1>6. QED
  BY <1>2, <1>3, <1>4, <1>5

LEMMA DeleteTInv ==
    ASSUME TInv, NEW b \in Boards, Delete(b)
    PROVE  TInv'
<1> USE DEF TInv, TypeOK
<1> DEFINE S == Deletable(pool[b])
           Tr(q, a) == [r \in Receipt |-> IF r \in q \ a THEN tries[b][r] + 1 ELSE tries[b][r]]
           P(q, a) == Mark(pool[b], {r \in S : r \in a \/ Tr(q, a)[r] >= DeleteTries}, "none")
<1>1. PICK asked \in SUBSET S, answered \in SUBSET S, gone \in SUBSET S :
        /\ Clean(answered = S /\ gone = {r \in S : r[1] \in ingest /\ rcv[r[1]] = r[2]})
        /\ ingest' = ingest \ JobsOf(gone)
        /\ SetPool(b, P(asked, answered), seen[b], Tr(asked, answered))
        /\ Goto(b, AfterHandoff(b, P(asked, answered)))
  BY DEF Delete
<1>2. AfterHandoff(b, P(asked, answered)) \in {"extend", "release", "keep", "receive"}
  <2>1. pc[b] \in {"delete1", "delete2"}
    BY DEF Delete
  <2> HIDE DEF P
  <2>2. QED
    BY <2>1 DEF AfterHandoff
<1>3. QueueTypes'
  BY <1>1 DEF Delete, calVars, QueueTypes
<1>4. PoolTypes'
  <2>1. P(asked, answered) \in [Receipt -> PoolStates]
    BY MarkTypes DEF PoolTypes, PoolStates
  <2>2. ASSUME NEW r \in Receipt, P(asked, answered)[r] # "none"
        PROVE  seen[b][r] \in 0..Visibility /\ Tr(asked, answered)[r] \in 0..(DeleteTries - 1)
    <3>1. tries[b][r] \in 0..(DeleteTries - 1) /\ seen[b][r] \in 0..Visibility
      BY DEF PoolTypes
    <3>2. r \in asked \ answered => Tr(asked, answered)[r] < DeleteTries
      BY <2>2, <3>1, CountAssumption DEF Mark
    <3>3. QED
      BY <3>1, <3>2, CountAssumption
  <2> HIDE DEF P, Tr
  <2>3. QED
    BY <1>1, <2>1, <2>2, SetPoolTypes
<1>5. FlowTypes' /\ HealthTypes' /\ HealthInv'
  <2> HIDE DEF P, Tr
  <2>1. pc' \in [Boards -> Steps] /\ lag' \in [Boards -> Nat] /\ pc'[b] # "embed"
        /\ \A c \in Boards \ {b} : pc'[c] = pc[c]
    BY <1>1, <1>2, GotoTypes DEF Steps, NetSteps, FlowTypes
  <2>2. rounds' = [rounds EXCEPT ![b] = 0] /\ UNCHANGED <<picked, healthVars, parkVars>>
    BY DEF Delete
  <2>3. QED
    BY <2>1, <2>2, CountAssumption DEF FlowTypes, HealthInv, HealthTypes, parkVars, healthVars
<1>6. CountTypes'
  BY <1>1, CleanCounts DEF Delete, CountTypes, parkVars
<1>7. QED
  BY <1>3, <1>4, <1>5, <1>6

LEMMA ReceiveTInv ==
    ASSUME TInv, NEW b \in Boards, Receive(b)
    PROVE  TInv'
<1> USE DEF TInv, TypeOK
<1> DEFINE New(K) == {<<j, rcv[j] + 1>> : j \in K}
           P(K) == [r \in Receipt |-> IF r \in New(K) THEN Verdict(b, r) ELSE pool[b][r]]
           Sn(K) == [r \in Receipt |-> IF r \in New(K) THEN Visibility ELSE seen[b][r]]
<1>1. PICK S \in SUBSET Available, kept \in SUBSET Available :
        /\ Clean(kept = S)
        /\ rcv' = [j \in Jobs |-> IF j \in S THEN rcv[j] + 1 ELSE rcv[j]]
        /\ hidden' = [j \in Jobs |-> IF j \in S THEN Visibility ELSE hidden[j]]
        /\ SetPool(b, P(kept), Sn(kept), tries[b])
  BY DEF Receive
<1>2. QueueTypes'
  BY <1>1, TimeAssumption, CountAssumption DEF Receive, calVars, QueueTypes, Available
<1>3. PoolTypes'
  <2>1. P(kept) \in [Receipt -> PoolStates]
    BY DEF PoolTypes, PoolStates, Verdict
  <2>2. \A r \in Receipt : Sn(kept)[r] \in 0..Visibility /\ tries[b][r] \in 0..(DeleteTries - 1)
    BY TimeAssumption DEF PoolTypes
  <2> HIDE DEF P, Sn
  <2>3. QED
    BY <1>1, <2>1, <2>2, SetPoolTypes
<1>4. FlowTypes' /\ HealthTypes' /\ HealthInv'
  BY CountAssumption DEF Receive, MoreRounds, FlowTypes, HealthInv, HealthTypes, flowVars, parkVars, healthVars
<1>5. CountTypes'
  BY <1>1, CleanCounts DEF Receive, CountTypes, parkVars
<1>6. QED
  BY <1>2, <1>3, <1>4, <1>5

LEMMA ReceiveDoneTInv ==
    ASSUME TInv, NEW b \in Boards, ReceiveDone(b)
    PROVE  TInv'
<1> USE DEF TInv, TypeOK
<1> DEFINE P == IF sick[b] THEN InState(pool[b], {"pending"}) ELSE {}
<1>1. PICK short \in SUBSET P :
        /\ Clean(short = {})
        /\ IF InState(Mark(pool[b], P \ short, "result"), {"result"}) # {}
             THEN /\ SetPool(b, DropTooBig(Mark(pool[b], P \ short, "result")), seen[b], tries[b])
                  /\ Goto(b, "send2")
             ELSE /\ SetPool(b, Mark(pool[b], P \ short, "result"), seen[b], tries[b])
                  /\ Goto(b, "extend")
  BY DEF ReceiveDone
<1> DEFINE p == Mark(pool[b], P \ short, "result")
<1> HIDE DEF P
<1>2. p \in [Receipt -> PoolStates] /\ DropTooBig(p) \in [Receipt -> PoolStates]
  BY MarkTypes DEF DropTooBig, PoolTypes, PoolStates
<1>3. QueueTypes'
  BY DEF ReceiveDone, queueVars, calVars, QueueTypes
<1> HIDE DEF p
<1>4. PoolTypes'
  <2>1. SetPool(b, p, seen[b], tries[b]) \/ SetPool(b, DropTooBig(p), seen[b], tries[b])
    BY <1>1 DEF p
  <2>2. QED
    BY <1>2, <2>1, SetPoolKeeps
<1>5. FlowTypes' /\ HealthTypes' /\ HealthInv'
  <2>1. PICK s \in {"send2", "extend"} : Goto(b, s)
    BY <1>1
  <2>2. QED
    BY <2>1, GotoTypes DEF ReceiveDone, FlowTypes, HealthInv, HealthTypes, passVars, parkVars, healthVars, Steps, NetSteps
<1>6. CountTypes'
  BY <1>1, CleanCounts DEF ReceiveDone, CountTypes, parkVars
<1>7. QED
  BY <1>3, <1>4, <1>5, <1>6

LEMMA ExtendTInv ==
    ASSUME TInv, NEW b \in Boards, Extend(b)
    PROVE  TInv'
<1> USE DEF TInv, TypeOK
<1> DEFINE W == Expiring(b)
           P(a, d) == Mark(pool[b], {r \in a \ d : pool[b][r] = "pending"}, "none")
           Sn(a, d) == [r \in Receipt |-> IF r \in a \cap d THEN Visibility ELSE seen[b][r]]
<1>1. PICK answered \in SUBSET W, done \in SUBSET W :
        /\ Clean(answered = W /\ done = {r \in W : InFlight(r)})
        /\ hidden' = [j \in Jobs |-> IF j \in JobsOf(done) THEN Visibility ELSE hidden[j]]
        /\ SetPool(b, P(answered, done), Sn(answered, done), tries[b])
        /\ \/ /\ \E s \in {"idle", "ready"} : Goto(b, s)
              /\ UNCHANGED picked
           \/ /\ ~sick[b]
              /\ \E Q \in Plans(P(answered, done)) : picked' = [picked EXCEPT ![b] = Q]
              /\ Goto(b, "embed")
  BY DEF Extend
<1>2. QueueTypes'
  BY <1>1, TimeAssumption DEF Extend, calVars, QueueTypes
<1>3. PoolTypes'
  <2>1. P(answered, done) \in [Receipt -> PoolStates]
    BY MarkTypes DEF PoolTypes, PoolStates
  <2>2. \A r \in Receipt : Sn(answered, done)[r] \in 0..Visibility /\ tries[b][r] \in 0..(DeleteTries - 1)
    BY TimeAssumption DEF PoolTypes
  <2> HIDE DEF P, Sn
  <2>3. QED
    BY <1>1, <2>1, <2>2, SetPoolTypes
<1>4. FlowTypes' /\ HealthTypes' /\ HealthInv'
  <2> HIDE DEF P, Sn
  <2>1. \A p : \A Q \in Plans(p) : Q \subseteq Receipt
    BY DEF Plans, InState
  <2>2. CASE (\E s \in {"idle", "ready"} : Goto(b, s)) /\ UNCHANGED picked
    BY <2>2, GotoTypes DEF Extend, FlowTypes, HealthInv, HealthTypes, parkVars, healthVars, Steps, NetSteps
  <2>3. CASE /\ ~sick[b]
             /\ \E Q \in Plans(P(answered, done)) : picked' = [picked EXCEPT ![b] = Q]
             /\ Goto(b, "embed")
    BY <2>1, <2>3, GotoTypes DEF Extend, FlowTypes, HealthInv, HealthTypes, parkVars, healthVars, Steps, NetSteps
  <2>4. QED
    BY <1>1, <2>2, <2>3
<1>5. CountTypes'
  BY <1>1, CleanCounts DEF Extend, CountTypes, parkVars
<1>6. QED
  BY <1>2, <1>3, <1>4, <1>5

LEMMA HealthCheckTInv ==
    ASSUME TInv, NEW b \in Boards, HealthCheck(b)
    PROVE  TInv'
BY CountAssumption
DEF TInv, TypeOK, HealthCheck, QueueTypes, PoolTypes, FlowTypes, HealthTypes, CountTypes, HealthInv,
    queueVars, calVars, poolVars, flowVars, passVars, parkVars

\* Every way a pass ends keeps the types: a board that was well enough to run it is sick afterwards
\* exactly when it counted BadPasses bad ones.
LEMMA PassEndsTInv ==
    ASSUME TInv, NEW b \in Boards, NEW p \in [Receipt -> PoolStates], NEW badPass \in BOOLEAN,
           pc[b] = "embed", PassEnds(b, p, badPass), faults' \in 0..MaxFaults
    PROVE  TInv'
<1> USE DEF TInv, TypeOK
<1> DEFINE inRow == IF badPass THEN bad[b] + 1 ELSE 0
           goSick == badPass /\ inRow >= BadPasses
<1>1. PoolTypes'
  <2>1. PICK q \in [Receipt -> PoolStates] : SetPool(b, q, seen[b], tries[b])
    <3>1. \A R, short : Unembedded(p, R, short) \in [Receipt -> PoolStates]
      BY MarkTypes DEF Unembedded, PoolStates
    <3>2. QED
      BY <3>1 DEF PassEnds
  <2>2. QED
    BY <2>1, SetPoolKeeps
<1>2. HealthTypes' /\ HealthInv'
  <2>1. bad' = [bad EXCEPT ![b] = inRow] /\ sick' = [sick EXCEPT ![b] = @ \/ goSick]
    BY DEF PassEnds
  <2>2. pc' = [pc EXCEPT ![b] = "ready"]
    BY DEF PassEnds, Goto
  <2>3. inRow \in 0..BadPasses /\ (~goSick => inRow < BadPasses)
    BY CountAssumption DEF HealthInv, HealthTypes
  <2> HIDE DEF inRow, goSick
  <2>4. QED
    BY <2>1, <2>2, <2>3 DEF HealthTypes, HealthInv, FlowTypes
<1>3. FlowTypes'
  BY GotoTypes DEF PassEnds, FlowTypes, parkVars, Steps, NetSteps
<1>4. QueueTypes' /\ CountTypes'
  BY DEF PassEnds, queueVars, calVars, parkVars, QueueTypes, CountTypes
<1>5. QED
  BY <1>1, <1>2, <1>3, <1>4

LEMMA PassTInv ==
    ASSUME TInv, NEW b \in Boards, PassGood(b) \/ PassBad(b) \/ PassSkipped(b)
    PROVE  TInv'
<1>1. pc[b] = "embed" /\ faults' \in 0..MaxFaults
  BY CleanCounts DEF PassGood, PassBad, PassSkipped, TInv, TypeOK
<1>2. \A p \in [Receipt -> PoolStates] : \A R, short : Unembedded(p, R, short) \in [Receipt -> PoolStates]
  BY MarkTypes DEF Unembedded, PoolStates
<1>3. CASE PassGood(b)
  <2>1. PICK lost : PassEnds(b, Mark(pool[b], picked[b] \ lost, "result"), lost # {})
    BY <1>3 DEF PassGood
  <2>2. Mark(pool[b], picked[b] \ lost, "result") \in [Receipt -> PoolStates]
    BY MarkTypes DEF TInv, TypeOK, PoolTypes, PoolStates
  <2>3. QED
    BY <1>1, <2>1, <2>2, PassEndsTInv
<1>4. CASE PassBad(b)
  <2>1. PICK short : PassEnds(b, Unembedded(pool[b], picked[b], short), TRUE)
    BY <1>4 DEF PassBad
  <2>2. Unembedded(pool[b], picked[b], short) \in [Receipt -> PoolStates]
    BY <1>2 DEF TInv, TypeOK, PoolTypes
  <2>3. QED
    BY <1>1, <2>1, <2>2, PassEndsTInv
<1>5. CASE PassSkipped(b)
  BY <1>1, <1>5, GotoTypes
  DEF TInv, TypeOK, PassSkipped, QueueTypes, PoolTypes, FlowTypes, HealthTypes, CountTypes, HealthInv,
      queueVars, calVars, poolVars, healthVars, parkVars, Steps, NetSteps
<1>6. QED
  BY <1>3, <1>4, <1>5

LEMMA LostTInv ==
    ASSUME TInv, NEW b \in Boards, Lost(b), kills' \in [Jobs -> Nat], faults' \in 0..MaxFaults
    PROVE  TInv'
<1> USE DEF TInv, TypeOK
<1>1. PoolTypes'
  BY SetPoolKeeps DEF Lost, PoolStates
<1>2. QueueTypes' /\ CountTypes'
  BY DEF Lost, queueVars, calVars, QueueTypes, CountTypes
<1>3. FlowTypes' /\ HealthTypes' /\ HealthInv'
  BY CountAssumption DEF Lost, FlowTypes, HealthTypes, HealthInv, Steps
<1>4. QED
  BY <1>1, <1>2, <1>3

LEMMA CrashTInv ==
    ASSUME TInv, NEW b \in Boards, PassCrashes(b) \/ Crash(b)
    PROVE  TInv'
<1>1. kills' \in [Jobs -> Nat]
  <2>1. kills \in [Jobs -> Nat]
    BY DEF TInv, TypeOK, CountTypes
  <2>2. CASE PassCrashes(b)
    BY <2>1, <2>2 DEF PassCrashes
  <2>3. CASE Crash(b)
    BY <2>1, <2>3 DEF Crash
  <2>4. QED
    BY <2>2, <2>3
<1>2. faults' \in 0..MaxFaults
  BY CleanCounts DEF PassCrashes, Crash, TInv, TypeOK, CountTypes
<1>3. Lost(b)
  BY DEF PassCrashes, Crash
<1>4. QED
  BY <1>1, <1>2, <1>3, LostTInv

LEMMA BootTInv ==
    ASSUME TInv, NEW b \in Boards, Boot(b)
    PROVE  TInv'
<1> USE DEF TInv, TypeOK
<1>1. QueueTypes' /\ PoolTypes'
  BY DEF Boot, queueVars, calVars, poolVars, QueueTypes, PoolTypes
<1>2. FlowTypes'
  BY GotoTypes DEF Boot, FlowTypes, passVars, parkVars, Steps
<1> HealthTypes' /\ HealthInv'
  <2>1. PICK healthy \in BOOLEAN :
          /\ sick' = [sick EXCEPT ![b] = ~healthy]
          /\ bad' = [bad EXCEPT ![b] = IF healthy THEN 0 ELSE BadPasses]
    BY DEF Boot
  <2>2. pc' = [pc EXCEPT ![b] = "idle"]
    BY DEF Boot, Goto
  <2>3. CASE healthy
    BY <2>1, <2>2, <2>3, CountAssumption DEF HealthTypes, HealthInv, FlowTypes
  <2>4. CASE ~healthy
    <3>1. sick' = [sick EXCEPT ![b] = TRUE] /\ bad' = [bad EXCEPT ![b] = BadPasses]
      BY <2>1, <2>4
    <3>2. QED
      BY <2>2, <3>1, CountAssumption DEF HealthTypes, HealthInv, FlowTypes
  <2>5. QED
    BY <2>3, <2>4
<1>3. CountTypes'
  BY CleanCounts DEF Boot, parkVars, CountTypes
<1>4. QED
  BY <1>1, <1>2, <1>3

LEMMA ParkingTInv ==
    ASSUME TInv, NEW b \in Boards, RequestPark(b) \/ Resume(b) \/ Park(b)
    PROVE  TInv'
<1> USE DEF TInv, TypeOK
<1>1. QueueTypes' /\ PoolTypes' /\ HealthTypes'
  BY DEF RequestPark, Resume, Park, queueVars, calVars, poolVars, healthVars,
         QueueTypes, PoolTypes, HealthTypes
<1>2. CASE RequestPark(b) \/ Resume(b)
  <2>1. FlowTypes' /\ HealthInv'
    BY <1>2 DEF RequestPark, Resume, FlowTypes, HealthInv, flowVars, passVars, healthVars
  <2>2. CountTypes'
    BY <1>2, CountAssumption DEF RequestPark, Resume, CountTypes
  <2>3. QED
    BY <1>1, <2>1, <2>2
<1>3. CASE Park(b)
  <2>1. FlowTypes'
    BY <1>3, GotoTypes DEF Park, FlowTypes, passVars, Steps
  <2>2. HealthInv' /\ CountTypes'
    BY <1>3, GotoTypes DEF Park, FlowTypes, HealthInv, CountTypes, healthVars, Steps
  <2>3. QED
    BY <1>1, <2>1, <2>2
<1>4. QED
  BY <1>2, <1>3

LEMMA ReleaseTInv ==
    ASSUME TInv, NEW b \in Boards, Release(b)
    PROVE  TInv'
<1> USE DEF TInv, TypeOK
<1>1. PICK freed, p, s :
        /\ Clean(freed = {r \in InState(pool[b], {"pending"}) : InFlight(r)})
        /\ hidden' = [j \in Jobs |-> IF j \in JobsOf(freed) THEN 0 ELSE hidden[j]]
        /\ p = Mark(pool[b], InState(pool[b], {"pending"}), "none")
        /\ SetPool(b, p, seen[b], tries[b])
        /\ s \in {"park", "keep"} /\ Goto(b, s)
  BY DEF Release
<1>2. QueueTypes'
  BY <1>1, TimeAssumption DEF Release, calVars, QueueTypes
<1>3. PoolTypes'
  BY <1>1, MarkTypes, SetPoolKeeps DEF PoolTypes, PoolStates
<1>4. FlowTypes' /\ HealthTypes' /\ HealthInv'
  BY <1>1, GotoTypes
  DEF Release, FlowTypes, HealthInv, HealthTypes, passVars, parkVars, healthVars, Steps, NetSteps
<1>5. CountTypes'
  BY <1>1, CleanCounts DEF Release, CountTypes, parkVars
<1>6. QED
  BY <1>2, <1>3, <1>4, <1>5

LEMMA QueuesTInv ==
    ASSUME TInv, Queues
    PROVE  TInv'
BY DEF TInv, TypeOK, Queues, Redrive, CalCommit, CalAck, QueueTypes, PoolTypes, FlowTypes, HealthTypes,
       CountTypes, HealthInv, queueVars, calVars, poolVars, flowVars, passVars, healthVars, parkVars

LEMMA TickTInv ==
    ASSUME TInv, Tick
    PROVE  TInv'
<1> USE DEF TInv, TypeOK
<1>1. \A n \in 0..Visibility : Fewer(n) \in 0..Visibility
  BY TimeAssumption DEF Fewer
<1>2. QueueTypes' /\ PoolTypes'
  BY <1>1 DEF Tick, calVars, QueueTypes, PoolTypes
<1>3. FlowTypes' /\ HealthTypes' /\ HealthInv' /\ CountTypes'
  BY DEF Tick, passVars, healthVars, parkVars, FlowTypes, HealthTypes, HealthInv, CountTypes
<1>4. QED
  BY <1>2, <1>3

LEMMA NextTInv == TInv /\ [Next]_vars => TInv'
<1> SUFFICES ASSUME TInv, [Next]_vars PROVE TInv'
  OBVIOUS
<1>1. CASE UNCHANGED vars
  BY <1>1 DEF TInv, TypeOK, QueueTypes, PoolTypes, FlowTypes, HealthTypes, CountTypes, HealthInv, vars,
              queueVars, calVars, poolVars, flowVars, passVars, healthVars, parkVars
<1>2. CASE Tick
  BY <1>2, TickTInv
<1>3. CASE Queues
  BY <1>3, QueuesTInv
<1>4. ASSUME NEW b \in Boards, BoardStep(b) \/ HealthCheck(b) \/ Crash(b) \/ RequestPark(b) \/ Resume(b)
      PROVE  TInv'
  BY <1>4, NetBeginTInv, SendTInv, DeleteTInv, ReceiveTInv, ReceiveDoneTInv, ExtendTInv, PassTInv,
     CrashTInv, ReleaseTInv, ParkingTInv, BootTInv, HealthCheckTInv DEF BoardStep
<1>5. QED
  BY <1>1, <1>2, <1>3, <1>4 DEF Next

\* A worker never holds a receipt it has tried to delete DeleteTries times, never counts past the bad
\* pass that makes it sick, and never believes a job hidden for longer than SQS could hide it.
THEOREM TypeCorrect == Spec => []TypeOK
<1>1. Spec => []TInv
  BY InitTInv, NextTInv, PTL DEF Spec
<1>2. TInv => TypeOK
  BY DEF TInv
<1>3. QED
  BY <1>1, <1>2, PTL

-----------------------------------------------------------------------------
(* No job is lost.  What a worker may delete is what Cal has been given.   *)

AcceptedInv ==
    \A b \in Boards : \A r \in Receipt : pool[b][r] = "delete" => r[1] \in results \cup committed

DurableInv == TInv /\ AcceptedInv /\ NoJobLost

LEMMA SetPoolValue ==
    ASSUME PoolTypes, NEW b \in Boards, NEW p, NEW sn, NEW tr, SetPool(b, p, sn, tr)
    PROVE  pool'[b] = p /\ \A c \in Boards \ {b} : pool'[c] = pool[c]
BY DEF SetPool, PoolTypes

\* No step but an accepted send makes a receipt deletable.
DeletesAccepted ==
    \A c \in Boards : \A r \in Receipt :
        pool'[c][r] = "delete" => pool[c][r] = "delete" \/ r[1] \in results'

LEMMA OnePoolChanges ==
    ASSUME PoolTypes, NEW b \in Boards, NEW p, NEW sn, NEW tr, SetPool(b, p, sn, tr),
           \A r \in Receipt : p[r] = "delete" => pool[b][r] = "delete" \/ r[1] \in results'
    PROVE  DeletesAccepted
BY SetPoolValue DEF DeletesAccepted

LEMMA MarkDeletes ==
    ASSUME NEW p, NEW R, NEW s, s # "delete"
    PROVE  \A r \in Receipt : Mark(p, R, s)[r] = "delete" => p[r] = "delete"
BY DEF Mark

LEMMA DropDeletes ==
    ASSUME NEW p
    PROVE  \A r \in Receipt : DropTooBig(p)[r] = "delete" => p[r] = "delete"
BY MarkDeletes DEF DropTooBig

LEMMA PassEndsDeletes ==
    ASSUME PoolTypes, NEW b \in Boards, NEW p, NEW badPass, PassEnds(b, p, badPass),
           \A r \in Receipt : p[r] = "delete" => pool[b][r] = "delete"
    PROVE  DeletesAccepted
<1>1. PICK q : /\ SetPool(b, q, seen[b], tries[b])
               /\ q = p \/ \E R, short : q = Unembedded(p, R, short)
  BY DEF PassEnds
<1>2. \A r \in Receipt : q[r] = "delete" => p[r] = "delete"
  BY <1>1, MarkDeletes DEF Unembedded
<1>3. QED
  BY <1>1, <1>2, OnePoolChanges

LEMMA BoardDeletes ==
    ASSUME TInv, NEW b \in Boards,
           BoardStep(b) \/ HealthCheck(b) \/ Crash(b) \/ RequestPark(b) \/ Resume(b)
    PROVE  DeletesAccepted
<1>1. PoolTypes
  BY DEF TInv, TypeOK
<1>2. ASSUME UNCHANGED poolVars
      PROVE  DeletesAccepted
  BY <1>2 DEF poolVars, DeletesAccepted
<1>3. CASE NetBegin(b)
  BY <1>1, <1>2, <1>3, DropDeletes, OnePoolChanges DEF NetBegin
<1>4. CASE Send(b)
  <2>1. PICK heard, unheard :
          /\ results' = results \cup JobsOf(heard \cup unheard)
          /\ SetPool(b, Mark(pool[b], heard, "delete"), seen[b], tries[b])
    BY <1>4 DEF Send
  <2>2. \A r \in Receipt : Mark(pool[b], heard, "delete")[r] = "delete" =>
                            pool[b][r] = "delete" \/ r[1] \in results'
    BY <2>1 DEF Mark, JobsOf
  <2>3. QED
    BY <1>1, <2>1, <2>2, OnePoolChanges
<1>5. CASE Delete(b)
  <2>1. PICK R, tr : SetPool(b, Mark(pool[b], R, "none"), seen[b], tr)
    BY <1>5 DEF Delete
  <2>2. QED
    BY <1>1, <2>1, MarkDeletes, OnePoolChanges
<1>6. CASE Receive(b)
  <2>1. PICK new, sn : SetPool(b, [r \in Receipt |-> IF r \in new THEN Verdict(b, r) ELSE pool[b][r]],
                               sn, tries[b])
    BY <1>6 DEF Receive
  <2>2. \A r \in Receipt : Verdict(b, r) # "delete"
    BY DEF Verdict
  <2>3. QED
    BY <1>1, <2>1, <2>2, OnePoolChanges
<1>7. CASE ReceiveDone(b)
  <2>1. PICK p : /\ \A r \in Receipt : p[r] = "delete" => pool[b][r] = "delete"
                 /\ SetPool(b, p, seen[b], tries[b]) \/ SetPool(b, DropTooBig(p), seen[b], tries[b])
    BY <1>7, MarkDeletes DEF ReceiveDone
  <2>2. QED
    BY <1>1, <2>1, DropDeletes, OnePoolChanges
<1>8. CASE Extend(b)
  <2>1. PICK R, sn : SetPool(b, Mark(pool[b], R, "none"), sn, tries[b])
    BY <1>8 DEF Extend
  <2>2. QED
    BY <1>1, <2>1, MarkDeletes, OnePoolChanges
<1>9. CASE PassGood(b)
  <2>1. PICK lost : PassEnds(b, Mark(pool[b], picked[b] \ lost, "result"), lost # {})
    BY <1>9 DEF PassGood
  <2>2. QED
    BY <1>1, <2>1, MarkDeletes, PassEndsDeletes
<1>10. CASE PassBad(b)
  <2>1. PICK short, badPass : PassEnds(b, Mark(pool[b], picked[b] \ short, "result"), badPass)
    BY <1>10 DEF PassBad, Unembedded
  <2>2. QED
    BY <1>1, <2>1, MarkDeletes, PassEndsDeletes
<1>11. CASE PassCrashes(b) \/ Crash(b)
  <2>1. SetPool(b, [r \in Receipt |-> "none"], seen[b], tries[b])
    BY <1>11 DEF PassCrashes, Crash, Lost
  <2>2. QED
    BY <1>1, <2>1, OnePoolChanges
<1>12. CASE Release(b)
  <2>1. PICK R : SetPool(b, Mark(pool[b], R, "none"), seen[b], tries[b])
    BY <1>12 DEF Release
  <2>2. QED
    BY <1>1, <2>1, MarkDeletes, OnePoolChanges
<1>13. CASE PassSkipped(b) \/ Park(b) \/ Boot(b) \/ HealthCheck(b) \/ RequestPark(b) \/ Resume(b)
  BY <1>2, <1>13 DEF PassSkipped, Park, Boot, HealthCheck, RequestPark, Resume
<1>14. QED
  BY <1>3, <1>4, <1>5, <1>6, <1>7, <1>8, <1>9, <1>10, <1>11, <1>12, <1>13 DEF BoardStep

LEMMA NextDeletes ==
    ASSUME TInv, [Next]_vars
    PROVE  DeletesAccepted
<1>1. ASSUME UNCHANGED pool
      PROVE  DeletesAccepted
  BY <1>1 DEF DeletesAccepted
<1>2. CASE UNCHANGED vars \/ Queues \/ Tick
  BY <1>1, <1>2 DEF vars, poolVars, Queues, Redrive, CalCommit, CalAck, Tick
<1>3. QED
  BY <1>2, BoardDeletes DEF Next

\* What one step does to the durable copies of jobs: an accepted result, a delete of what Cal has been
\* given, a dead letter, a commit, an acknowledgement, or nothing.
CopiesStep ==
    \/ UNCHANGED <<ingest, dlq, results, committed>>
    \/ \E R : results' = results \cup R /\ UNCHANGED <<ingest, dlq, committed>>
    \/ \E R : /\ \A j \in R : j \in results \cup committed
             /\ ingest' = ingest \ R
             /\ UNCHANGED <<dlq, results, committed>>
    \/ \E j \in ingest : /\ ingest' = ingest \ {j} /\ dlq' = dlq \cup {j}
                         /\ UNCHANGED <<results, committed>>
    \/ \E j \in results : committed' = committed \cup {j} /\ UNCHANGED <<ingest, dlq, results>>
    \/ \E j \in committed : results' = results \ {j} /\ UNCHANGED <<ingest, dlq, committed>>

LEMMA BoardCopies ==
    ASSUME AcceptedInv, NEW b \in Boards,
           BoardStep(b) \/ HealthCheck(b) \/ Crash(b) \/ RequestPark(b) \/ Resume(b)
    PROVE  CopiesStep
<1>1. CASE Send(b)
  BY <1>1 DEF Send, queueVars, CopiesStep
<1>2. CASE Delete(b)
  <2>1. PICK gone \in SUBSET Deletable(pool[b]) : ingest' = ingest \ JobsOf(gone)
    BY <1>2 DEF Delete
  <2>2. \A j \in JobsOf(gone) : j \in results \cup committed
    BY <2>1 DEF AcceptedInv, JobsOf, Deletable, InState
  <2>3. UNCHANGED <<dlq, results, committed>>
    BY <1>2 DEF Delete, calVars
  <2>4. QED
    BY <2>1, <2>2, <2>3 DEF CopiesStep
<1>3. CASE ~Send(b) /\ ~Delete(b)
  <2>1. UNCHANGED <<ingest, dlq, results, committed>>
    BY <1>3 DEF BoardStep, NetBegin, Receive, ReceiveDone, Extend, PassGood, PassBad, PassSkipped, PassEnds,
                PassCrashes, Lost, Release, Park, Boot, HealthCheck, Crash, RequestPark, Resume,
                queueVars, calVars
  <2>2. QED
    BY <2>1 DEF CopiesStep
<1>4. QED
  BY <1>1, <1>2, <1>3

LEMMA NextCopies ==
    ASSUME AcceptedInv, [Next]_vars
    PROVE  CopiesStep
<1>1. CASE UNCHANGED vars
  BY <1>1 DEF vars, queueVars, calVars, CopiesStep
<1>2. CASE Tick
  BY <1>2 DEF Tick, calVars, CopiesStep
<1>3. CASE Queues
  BY <1>3 DEF Queues, Redrive, CalCommit, CalAck, queueVars, calVars, CopiesStep
<1>4. QED
  BY <1>1, <1>2, <1>3, BoardCopies DEF Next

LEMMA HeldSomewhere ==
    NoJobLost <=> \A j \in Jobs : j \in ingest \/ j \in dlq \/ j \in results \/ j \in committed
BY DEF NoJobLost, Copies

LEMMA InitDurable == Init => DurableInv
<1>1. Init => AcceptedInv /\ NoJobLost
  BY HeldSomewhere DEF Init, AcceptedInv
<1>2. QED
  BY <1>1, InitTInv DEF DurableInv

LEMMA NextDurable == DurableInv /\ [Next]_vars => DurableInv'
<1> SUFFICES ASSUME DurableInv, [Next]_vars PROVE DurableInv'
  OBVIOUS
<1>1. TInv'
  BY NextTInv DEF DurableInv
<1>2. CopiesStep /\ DeletesAccepted
  BY NextCopies, NextDeletes DEF DurableInv
<1>3. AcceptedInv'
  BY <1>2 DEF DurableInv, AcceptedInv, CopiesStep, DeletesAccepted
<1>4. NoJobLost'
  <2>1. \A j \in Jobs : j \in ingest \/ j \in dlq \/ j \in results \/ j \in committed
    BY HeldSomewhere DEF DurableInv
  <2>2. \A j \in Jobs : (j \in ingest \/ j \in dlq \/ j \in results \/ j \in committed)'
    BY <1>2, <2>1 DEF CopiesStep
  <2>3. QED
    BY <2>2 DEF NoJobLost, Copies
<1>5. QED
  BY <1>1, <1>3, <1>4 DEF DurableInv

\* worker.h:3-4: a job is always in at least one durable queue until Cal commits its row.
THEOREM NothingLost == Spec => []NoJobLost
<1>1. Spec => []DurableInv
  BY InitDurable, NextDurable, PTL DEF Spec
<1>2. DurableInv => NoJobLost
  BY DEF DurableInv
<1>3. QED
  BY <1>1, <1>2, PTL

\* The boards, the queues and Cal implement the delivery they promise together.
THEOREM DeliveryImplemented == Spec => ImplementsDelivery
<1>1. Init => Delivery!Init
  BY DEF Init, Delivery!Init, Copies
<1>2. DurableInv /\ [Next]_vars => [Delivery!Next]_[j \in Jobs |-> Copies(j)]
  <2> SUFFICES ASSUME DurableInv, [Next]_vars
               PROVE  Delivery!Next
    OBVIOUS
  <2>1. CopiesStep
    BY NextCopies DEF DurableInv
  <2>2. \A j \in Jobs : Copies(j)' \in SUBSET Delivery!Places
    BY DEF Copies, Delivery!Places
  <2>3. ASSUME NEW j \in Jobs
        PROVE  Delivery!Moves(Copies(j), Copies(j)')
    BY <2>1 DEF CopiesStep, Copies, Delivery!Moves, Delivery!HandedOver
  <2>4. QED
    BY <2>2, <2>3 DEF Delivery!Next
<1>3. Spec => []DurableInv
  BY InitDurable, NextDurable, PTL DEF Spec
<1>4. QED
  BY <1>1, <1>2, <1>3, PTL DEF Spec, ImplementsDelivery, Delivery!Spec

-----------------------------------------------------------------------------
(* A pass is one worker's, and in quiet weather a job comes round once.    *)
(*                                                                         *)
(* What a board believes of a job's visibility (seen) is never more than   *)
(* what SQS will give it, because nobody but the holder of the latest      *)
(* receipt moves a job's clock while it runs, and a receipt is one board's.*)

\* Receives are numbered: what a board holds was received, and by that board alone.
HolderInv ==
    /\ \A b \in Boards : \A r \in Receipt : pool[b][r] # "none" => r[2] <= rcv[r[1]]
    /\ \A b, c \in Boards : \A r \in Receipt :
         pool[b][r] # "none" /\ pool[c][r] # "none" => b = c

\* While a board believes a job of its own hidden, it is, and the receipt is the latest.
SeenInv ==
    \A b \in Boards : \A r \in Receipt :
        pool[b][r] # "none" /\ seen[b][r] > 0 /\ r[1] \in ingest =>
            rcv[r[1]] = r[2] /\ seen[b][r] <= hidden[r[1]]

\* Every job in a pass was hidden for Horizon at least when the pass began.
PassInv ==
    \A b \in Boards : pc[b] = "embed" =>
        /\ lag[b] <= PassTicks
        /\ \A r \in picked[b] : pool[b][r] = "pending" /\ Horizon <= seen[b][r] + lag[b]

\* A board that goes to park, and a parked one, holds nothing and is between two steps.
ParkInv ==
    \A b \in Boards :
        /\ pc[b] = "park" => Held(pool[b]) = {}
        /\ parked[b] => pc[b] = "idle" /\ Held(pool[b]) = {}

PassIInv == TInv /\ HolderInv /\ SeenInv /\ PassInv /\ ParkInv

-----------------------------------------------------------------------------
(* What one step does to the boards that do not take it, and to the pools. *)

SameFor(c) ==
    /\ pool'[c] = pool[c] /\ seen'[c] = seen[c]
    /\ pc'[c] = pc[c] /\ lag'[c] = lag[c] /\ picked'[c] = picked[c]
    /\ parked'[c] = parked[c]

StepOf(b) == BoardStep(b) \/ HealthCheck(b) \/ Crash(b) \/ RequestPark(b) \/ Resume(b)

LEMMA SetPoolFrame ==
    ASSUME PoolTypes, NEW b \in Boards, NEW p, NEW sn, NEW tr, SetPool(b, p, sn, tr)
    PROVE  /\ pool'[b] = p
           /\ \A r \in Receipt : seen'[b][r] = IF p[r] = "none" THEN 0 ELSE sn[r]
           /\ \A c \in Boards \ {b} : pool'[c] = pool[c] /\ seen'[c] = seen[c]
BY DEF SetPool, PoolTypes

LEMMA GotoFrame ==
    ASSUME FlowTypes, NEW b \in Boards, NEW s, Goto(b, s)
    PROVE  /\ pc'[b] = s
           /\ \A c \in Boards \ {b} : pc'[c] = pc[c] /\ lag'[c] = lag[c]
BY DEF Goto, FlowTypes

LEMMA PoolFrame ==
    ASSUME TInv, NEW b \in Boards, StepOf(b)
    PROVE  \A c \in Boards \ {b} : pool'[c] = pool[c] /\ seen'[c] = seen[c]
<1>1. UNCHANGED poolVars \/ \E p, sn, tr : SetPool(b, p, sn, tr)
  BY DEF StepOf, BoardStep, NetBegin, Send, Delete, Receive, ReceiveDone, Extend, PassGood, PassBad,
         PassSkipped, PassEnds, PassCrashes, Crash, Lost, Release, Park, Boot, HealthCheck, RequestPark, Resume
<1>2. QED
  BY <1>1, SetPoolFrame DEF poolVars, TInv, TypeOK

LEMMA FlowFrame ==
    ASSUME TInv, NEW b \in Boards, StepOf(b)
    PROVE  \A c \in Boards \ {b} : pc'[c] = pc[c] /\ lag'[c] = lag[c]
<1>1. \/ UNCHANGED flowVars
      \/ \E s : Goto(b, s)
      \/ \E s : pc' = [pc EXCEPT ![b] = s] /\ lag' = [lag EXCEPT ![b] = 0]
  BY DEF StepOf, BoardStep, NetBegin, Send, Delete, Receive, ReceiveDone, Extend, PassGood, PassBad,
         PassSkipped, PassEnds, PassCrashes, Crash, Lost, Release, Park, Boot, HealthCheck, RequestPark, Resume
<1>2. QED
  BY <1>1, GotoFrame DEF flowVars, TInv, TypeOK, FlowTypes

LEMMA Frame ==
    ASSUME TInv, NEW b \in Boards, StepOf(b)
    PROVE  \A c \in Boards \ {b} : SameFor(c)
<1>1. \/ UNCHANGED picked
      \/ \E P : picked' = [picked EXCEPT ![b] = P]
  BY DEF StepOf, BoardStep, NetBegin, Send, Delete, Receive, ReceiveDone, Extend, PassGood, PassBad,
         PassSkipped, PassEnds, PassCrashes, Crash, Lost, Release, Park, Boot, HealthCheck, RequestPark, Resume,
         passVars
<1>2. \/ UNCHANGED parked
      \/ \E P : parked' = [parked EXCEPT ![b] = P]
  BY DEF StepOf, BoardStep, NetBegin, Send, Delete, Receive, ReceiveDone, Extend, PassGood, PassBad,
         PassSkipped, PassEnds, PassCrashes, Crash, Lost, Release, Park, Boot, HealthCheck, RequestPark, Resume,
         parkVars
<1>3. QED
  BY <1>1, <1>2, PoolFrame, FlowFrame DEF SameFor, TInv, TypeOK, FlowTypes

\* The steps that take nothing new into a pool and leave the clocks and the receive counts alone.
Shrinks ==
    /\ UNCHANGED <<rcv, hidden>> /\ ingest' \subseteq ingest
    /\ \A c \in Boards : \A r \in Receipt :
         pool'[c][r] # "none" => pool[c][r] # "none" /\ seen'[c][r] = seen[c][r]

LEMMA ShrinksKeeps ==
    ASSUME HolderInv, SeenInv, Shrinks
    PROVE  HolderInv' /\ SeenInv'
BY DEF HolderInv, SeenInv, Shrinks

LEMMA OnePoolShrinks ==
    ASSUME PoolTypes, NEW b \in Boards, NEW p, NEW tr, SetPool(b, p, seen[b], tr),
           \A r \in Receipt : p[r] # "none" => pool[b][r] # "none",
           UNCHANGED <<rcv, hidden>>, ingest' \subseteq ingest
    PROVE  Shrinks
BY SetPoolFrame DEF Shrinks

LEMMA MarkHeld ==
    ASSUME NEW p, NEW R, NEW s, s = "none" \/ \A r \in R : p[r] # "none"
    PROVE  \A r \in Receipt : Mark(p, R, s)[r] # "none" => p[r] # "none"
BY DEF Mark

LEMMA DropHeld ==
    ASSUME NEW p
    PROVE  \A r \in Receipt : DropTooBig(p)[r] # "none" => p[r] # "none"
BY MarkHeld DEF DropTooBig

\* In a pass, what was picked is still pending.
LEMMA PassEndsShrinks ==
    ASSUME PoolTypes, NEW b \in Boards, NEW p, NEW badPass, PassEnds(b, p, badPass),
           \A r \in Receipt : p[r] # "none" => pool[b][r] # "none"
    PROVE  Shrinks
<1>1. PICK q : /\ SetPool(b, q, seen[b], tries[b])
               /\ q = p \/ \E short : q = Unembedded(p, InState(p, {"pending"}), short)
  BY DEF PassEnds
<1>2. \A short : \A r \in InState(p, {"pending"}) \ short : p[r] # "none"
  BY DEF InState
<1>3. \A r \in Receipt : q[r] # "none" => p[r] # "none"
  <2>1. CASE q = p
    BY <2>1
  <2>2. ASSUME NEW short, q = Unembedded(p, InState(p, {"pending"}), short)
        PROVE  \A r \in Receipt : q[r] # "none" => p[r] # "none"
    <3>1. q = Mark(p, InState(p, {"pending"}) \ short, "result")
      BY <2>2 DEF Unembedded
    <3>2. QED
      BY <1>2, <3>1, MarkHeld
  <2>3. QED
    BY <1>1, <2>1, <2>2
<1>4. UNCHANGED <<rcv, hidden>> /\ ingest' \subseteq ingest
  BY DEF PassEnds, queueVars
<1>5. QED
  BY <1>1, <1>3, <1>4, OnePoolShrinks

LEMMA BoardShrinks ==
    ASSUME TInv, PassInv, NEW b \in Boards, StepOf(b), ~Receive(b), ~Extend(b), ~Release(b)
    PROVE  Shrinks
<1>1. PoolTypes
  BY DEF TInv, TypeOK
<1>2. ASSUME UNCHANGED <<queueVars, poolVars>>
      PROVE  Shrinks
  BY <1>2 DEF queueVars, poolVars, Shrinks
<1>3. CASE NetBegin(b)
  BY <1>1, <1>2, <1>3, DropHeld, OnePoolShrinks DEF NetBegin, queueVars
<1>4. CASE Send(b)
  <2>1. PICK heard \in SUBSET InState(pool[b], {"result"}) :
          SetPool(b, Mark(pool[b], heard, "delete"), seen[b], tries[b])
    BY <1>4 DEF Send
  <2>2. \A r \in heard : pool[b][r] # "none"
    BY DEF InState
  <2>3. QED
    BY <1>1, <1>4, <2>1, <2>2, MarkHeld, OnePoolShrinks DEF Send, queueVars
<1>5. CASE Delete(b)
  <2>1. PICK R, tr : SetPool(b, Mark(pool[b], R, "none"), seen[b], tr)
    BY <1>5 DEF Delete
  <2>2. UNCHANGED <<rcv, hidden>> /\ ingest' \subseteq ingest
    BY <1>5 DEF Delete
  <2>3. QED
    BY <1>1, <2>1, <2>2, MarkHeld, OnePoolShrinks
<1>6. CASE ReceiveDone(b)
  <2>1. PICK P, p : /\ \A r \in P : pool[b][r] # "none"
                    /\ p = Mark(pool[b], P, "result")
                    /\ SetPool(b, p, seen[b], tries[b]) \/ SetPool(b, DropTooBig(p), seen[b], tries[b])
    BY <1>6 DEF ReceiveDone, InState
  <2>2. \A r \in Receipt : p[r] # "none" => pool[b][r] # "none"
    BY <2>1, MarkHeld
  <2>3. UNCHANGED <<rcv, hidden, ingest>>
    BY <1>6 DEF ReceiveDone, queueVars
  <2>4. QED
    BY <1>1, <2>1, <2>2, <2>3, DropHeld, OnePoolShrinks
<1>7. ASSUME pc[b] = "embed", NEW R \in SUBSET picked[b]
      PROVE  \A r \in Receipt : Mark(pool[b], R, "result")[r] # "none" => pool[b][r] # "none"
  BY <1>7, MarkHeld DEF PassInv
<1>8. CASE PassGood(b)
  <2>1. PICK lost : PassEnds(b, Mark(pool[b], picked[b] \ lost, "result"), lost # {})
    BY <1>8 DEF PassGood
  <2>2. QED
    BY <1>1, <1>7, <1>8, <2>1, PassEndsShrinks DEF PassGood
<1>9. CASE PassBad(b)
  <2>1. PICK short, badPass : PassEnds(b, Mark(pool[b], picked[b] \ short, "result"), badPass)
    BY <1>9 DEF PassBad, Unembedded
  <2>2. QED
    BY <1>1, <1>7, <1>9, <2>1, PassEndsShrinks DEF PassBad
<1>10. CASE PassCrashes(b) \/ Crash(b)
  <2>1. SetPool(b, [r \in Receipt |-> "none"], seen[b], tries[b]) /\ UNCHANGED <<rcv, hidden, ingest>>
    BY <1>10 DEF PassCrashes, Crash, Lost, queueVars
  <2>2. QED
    BY <1>1, <2>1, OnePoolShrinks
<1>11. CASE PassSkipped(b) \/ Park(b) \/ Boot(b) \/ HealthCheck(b) \/ RequestPark(b) \/ Resume(b)
  BY <1>2, <1>11 DEF PassSkipped, Park, Boot, HealthCheck, RequestPark, Resume
<1>12. QED
  BY <1>3, <1>4, <1>5, <1>6, <1>8, <1>9, <1>10, <1>11 DEF StepOf, BoardStep

-----------------------------------------------------------------------------
(* The steps that move a job's clock: a receive, an extension, a release   *)
(* and time itself.                                                        *)

LEMMA ReceiveHolds ==
    ASSUME TInv, HolderInv, SeenInv, NEW b \in Boards, Receive(b)
    PROVE  HolderInv' /\ SeenInv'
<1> DEFINE New(K) == {<<j, rcv[j] + 1>> : j \in K}
           P(K) == [r \in Receipt |-> IF r \in New(K) THEN Verdict(b, r) ELSE pool[b][r]]
           Sn(K) == [r \in Receipt |-> IF r \in New(K) THEN Visibility ELSE seen[b][r]]
<1>1. PICK S \in SUBSET Available, kept \in SUBSET Available :
        /\ kept \subseteq S
        /\ rcv' = [j \in Jobs |-> IF j \in S THEN rcv[j] + 1 ELSE rcv[j]]
        /\ hidden' = [j \in Jobs |-> IF j \in S THEN Visibility ELSE hidden[j]]
        /\ SetPool(b, P(kept), Sn(kept), tries[b])
  BY DEF Receive
<1>2. \A r \in New(kept) : r[1] \in S /\ r[1] \in Jobs /\ r[2] = rcv[r[1]] + 1 /\ r[2] = rcv'[r[1]]
  BY <1>1 DEF Available, TInv, TypeOK, QueueTypes
<1>3. \A r \in New(kept), c \in Boards : r \in Receipt => pool[c][r] = "none"
  BY <1>2 DEF HolderInv, TInv, TypeOK, QueueTypes, Receipt
<1>4. /\ \A r \in Receipt : pool'[b][r] = P(kept)[r]
      /\ \A r \in Receipt : pool'[b][r] # "none" => seen'[b][r] = Sn(kept)[r]
      /\ \A c \in Boards \ {b} : pool'[c] = pool[c] /\ seen'[c] = seen[c]
  BY <1>1, SetPoolFrame DEF TInv, TypeOK
<1>5. \A c \in Boards, r \in Receipt : pool'[c][r] # "none" =>
        \/ c = b /\ r \in New(kept) /\ seen'[b][r] = Visibility
        \/ r \notin New(kept) /\ pool[c][r] # "none" /\ seen'[c][r] = seen[c][r]
  BY <1>3, <1>4
<1> HIDE DEF New, P, Sn
<1>6. \A j \in Jobs : rcv[j] \in Nat /\ rcv'[j] \in Nat /\ rcv[j] <= rcv'[j]
  BY <1>1 DEF TInv, TypeOK, QueueTypes
<1>7. HolderInv'
  <2>1. ASSUME NEW c \in Boards, NEW r \in Receipt, pool'[c][r] # "none"
        PROVE  r[2] <= rcv'[r[1]]
    <3>1. r[1] \in Jobs /\ r[2] \in Nat
      BY DEF Receipt
    <3>2. QED
      BY <1>2, <1>5, <1>6, <2>1, <3>1 DEF HolderInv
  <2>2. ASSUME NEW c \in Boards, NEW d \in Boards, NEW r \in Receipt,
               pool'[c][r] # "none", pool'[d][r] # "none"
        PROVE  c = d
    BY <1>5, <2>2 DEF HolderInv
  <2>3. QED
    BY <2>1, <2>2 DEF HolderInv
<1>8. SeenInv'
  <2> SUFFICES ASSUME NEW c \in Boards, NEW r \in Receipt,
                      pool'[c][r] # "none", seen'[c][r] > 0, r[1] \in ingest'
               PROVE  rcv'[r[1]] = r[2] /\ seen'[c][r] <= hidden'[r[1]]
    BY DEF SeenInv
  <2>1. CASE r \in New(kept)
    BY <1>1, <1>2, <1>5, <2>1, TimeAssumption
  <2>2. CASE r \notin New(kept)
    <3>1. r[1] \in Jobs /\ r[1] \in ingest
      BY DEF Receipt, Receive
    <3>2. rcv[r[1]] = r[2] /\ seen[c][r] > 0 /\ seen[c][r] <= hidden[r[1]]
      BY <1>5, <2>2, <3>1 DEF SeenInv
    <3>3. r[1] \notin S
      BY <1>1, <3>1, <3>2 DEF Available, TInv, TypeOK, QueueTypes, PoolTypes
    <3>4. QED
      BY <1>1, <1>5, <2>2, <3>1, <3>2, <3>3
  <2>3. QED
    BY <2>1, <2>2
<1>9. QED
  BY <1>7, <1>8

LEMMA ExtendHolds ==
    ASSUME TInv, HolderInv, SeenInv, NEW b \in Boards, Extend(b)
    PROVE  HolderInv' /\ SeenInv'
<1> DEFINE W == Expiring(b)
           P(a, d) == Mark(pool[b], {r \in a \ d : pool[b][r] = "pending"}, "none")
           Sn(a, d) == [r \in Receipt |-> IF r \in a \cap d THEN Visibility ELSE seen[b][r]]
<1>1. PICK answered \in SUBSET W, done \in SUBSET {r \in W : InFlight(r)} :
        /\ hidden' = [j \in Jobs |-> IF j \in JobsOf(done) THEN Visibility ELSE hidden[j]]
        /\ SetPool(b, P(answered, done), Sn(answered, done), tries[b])
  BY DEF Extend
<1>2. \A c \in Boards, r \in Receipt : pool'[c][r] # "none" =>
        /\ pool[c][r] # "none"
        /\ seen'[c][r] = seen[c][r] \/ (c = b /\ r \in done /\ seen'[c][r] = Visibility)
  <2>1. /\ \A r \in Receipt : pool'[b][r] = P(answered, done)[r]
        /\ \A r \in Receipt : pool'[b][r] # "none" => seen'[b][r] = Sn(answered, done)[r]
        /\ \A c \in Boards \ {b} : pool'[c] = pool[c] /\ seen'[c] = seen[c]
    <3> HIDE DEF P, Sn
    <3>1. QED
      BY <1>1, SetPoolFrame DEF TInv, TypeOK
  <2>2. \A r \in Receipt : P(answered, done)[r] # "none" => pool[b][r] # "none"
    BY DEF Mark
  <2>3. \A r \in Receipt : Sn(answered, done)[r] = seen[b][r]
                             \/ (r \in done /\ Sn(answered, done)[r] = Visibility)
    OBVIOUS
  <2> HIDE DEF P, Sn
  <2>4. QED
    BY <2>1, <2>2, <2>3
<1>3. UNCHANGED <<rcv, ingest>>
  BY DEF Extend
<1>4. HolderInv'
  BY <1>2, <1>3 DEF HolderInv
<1>5. SeenInv'
  <2> SUFFICES ASSUME NEW c \in Boards, NEW r \in Receipt,
                      pool'[c][r] # "none", seen'[c][r] > 0, r[1] \in ingest'
               PROVE  rcv'[r[1]] = r[2] /\ seen'[c][r] <= hidden'[r[1]]
    BY DEF SeenInv
  <2>1. r[1] \in Jobs /\ seen[c][r] \in 0..Visibility /\ hidden[r[1]] \in 0..Visibility
    BY DEF Receipt, TInv, TypeOK, QueueTypes, PoolTypes
  <2>2. CASE seen'[c][r] = seen[c][r]
    <3>1. rcv[r[1]] = r[2] /\ seen[c][r] <= hidden[r[1]]
      BY <1>2, <1>3, <2>2 DEF SeenInv
    <3>2. hidden'[r[1]] = Visibility \/ hidden'[r[1]] = hidden[r[1]]
      BY <1>1, <2>1
    <3>3. QED
      BY <1>3, <2>1, <2>2, <3>1, <3>2, TimeAssumption
  <2>3. CASE r \in done /\ seen'[c][r] = Visibility
    BY <1>1, <1>3, <2>1, <2>3, TimeAssumption DEF InFlight, JobsOf
  <2>4. QED
    BY <1>2, <2>2, <2>3
<1>6. QED
  BY <1>4, <1>5

\* What a board releases it held the latest receipt of, and forgets.
LEMMA ReleaseHolds ==
    ASSUME TInv, HolderInv, SeenInv, NEW b \in Boards, Release(b)
    PROVE  HolderInv' /\ SeenInv'
<1> DEFINE P == InState(pool[b], {"pending"})
<1>1. PICK freed \in SUBSET {r \in P : InFlight(r)} :
        /\ hidden' = [j \in Jobs |-> IF j \in JobsOf(freed) THEN 0 ELSE hidden[j]]
        /\ SetPool(b, Mark(pool[b], P, "none"), seen[b], tries[b])
  BY DEF Release
<1>2. \A c \in Boards, r \in Receipt : pool'[c][r] # "none" =>
        /\ pool[c][r] # "none" /\ seen'[c][r] = seen[c][r]
        /\ ~(c = b /\ r \in P)
  BY <1>1, SetPoolFrame DEF Mark, TInv, TypeOK
<1>3. UNCHANGED <<rcv, ingest>>
  BY DEF Release
<1>4. HolderInv'
  BY <1>2, <1>3 DEF HolderInv
<1>5. SeenInv'
  <2> SUFFICES ASSUME NEW c \in Boards, NEW r \in Receipt,
                      pool'[c][r] # "none", seen'[c][r] > 0, r[1] \in ingest'
               PROVE  rcv'[r[1]] = r[2] /\ seen'[c][r] <= hidden'[r[1]]
    BY DEF SeenInv
  <2>1. rcv[r[1]] = r[2] /\ seen[c][r] <= hidden[r[1]]
    BY <1>2, <1>3 DEF SeenInv
  <2>2. ASSUME NEW q \in freed, q[1] = r[1]
        PROVE  FALSE
    <3>1. q \in Receipt /\ pool[b][q] = "pending" /\ rcv[q[1]] = q[2]
      BY <1>1 DEF InState, InFlight
    <3>2. q = r
      <4>1. q = <<q[1], q[2]>> /\ r = <<r[1], r[2]>>
        BY <3>1 DEF Receipt
      <4>2. q[1] = r[1] /\ q[2] = r[2]
        BY <2>1, <2>2, <3>1
      <4>3. QED
        BY <4>1, <4>2
    <3>3. c = b
      BY <1>2, <3>1, <3>2 DEF HolderInv
    <3>4. QED
      BY <1>2, <3>1, <3>2, <3>3 DEF InState
  <2>3. r[1] \in Jobs /\ hidden'[r[1]] = hidden[r[1]]
    BY <1>1, <2>2 DEF JobsOf, Receipt
  <2>4. QED
    BY <1>2, <1>3, <2>1, <2>3
<1>6. QED
  BY <1>4, <1>5

LEMMA TickHolds ==
    ASSUME TInv, HolderInv, SeenInv, Tick
    PROVE  HolderInv' /\ SeenInv'
<1>1. HolderInv'
  BY DEF HolderInv, Tick
<1>2. SeenInv'
  BY DEF SeenInv, Tick, Fewer, Receipt, TInv, TypeOK, QueueTypes, PoolTypes
<1>3. QED
  BY <1>1, <1>2

LEMMA NextHolds ==
    ASSUME TInv, HolderInv, SeenInv, PassInv, [Next]_vars
    PROVE  HolderInv' /\ SeenInv'
<1>1. CASE Queues \/ UNCHANGED vars
  <2>1. Shrinks
    BY <1>1 DEF Queues, Redrive, CalCommit, CalAck, vars, queueVars, poolVars, Shrinks
  <2>2. QED
    BY <2>1, ShrinksKeeps
<1>2. ASSUME NEW b \in Boards, StepOf(b)
      PROVE  HolderInv' /\ SeenInv'
  BY <1>2, BoardShrinks, ShrinksKeeps, ReceiveHolds, ExtendHolds, ReleaseHolds
<1>3. QED
  BY <1>1, <1>2, TickHolds DEF Next, StepOf

-----------------------------------------------------------------------------
(* The pass and the park.                                                  *)

LEMMA ExtendStartsPass ==
    ASSUME TInv, NEW b \in Boards, Extend(b), pc'[b] = "embed"
    PROVE  /\ lag'[b] = 0
           /\ \A r \in picked'[b] : pool'[b][r] = "pending" /\ Horizon <= seen'[b][r]
<1> DEFINE W == Expiring(b)
           P(d) == Mark(pool[b], {r \in W \ d : pool[b][r] = "pending"}, "none")
           Sn(d) == [r \in Receipt |-> IF r \in W \cap d THEN Visibility ELSE seen[b][r]]
<1>1. PICK answered \in SUBSET W, done \in SUBSET {r \in W : InFlight(r)} :
        /\ SetPool(b, Mark(pool[b], {r \in answered \ done : pool[b][r] = "pending"}, "none"),
                   [r \in Receipt |-> IF r \in answered \cap done THEN Visibility ELSE seen[b][r]],
                   tries[b])
        /\ \/ \E s \in {"idle", "ready"} : Goto(b, s)
           \/ /\ answered = W
              /\ \E Q \in Plans(Mark(pool[b], {r \in answered \ done : pool[b][r] = "pending"}, "none")) :
                    picked' = [picked EXCEPT ![b] = Q]
              /\ Goto(b, "embed")
  BY DEF Extend
<1>2. ~ \E s \in {"idle", "ready"} : Goto(b, s)
  BY GotoFrame DEF TInv, TypeOK
<1>3. /\ SetPool(b, P(done), Sn(done), tries[b])
      /\ \E Q \in Plans(P(done)) : picked' = [picked EXCEPT ![b] = Q]
      /\ Goto(b, "embed")
  BY <1>1, <1>2
<1>4. picked'[b] \in Plans(P(done))
  BY <1>3 DEF TInv, TypeOK, FlowTypes
<1>5. ASSUME NEW r \in picked'[b]
      PROVE  r \in Receipt /\ P(done)[r] = "pending" /\ Horizon <= Sn(done)[r]
  <2>1. r \in Receipt /\ P(done)[r] = "pending"
    <3> HIDE DEF P
    <3>1. QED
      BY <1>4 DEF Plans, InState
  <2>2. pool[b][r] = "pending" /\ ~(r \in W \ done)
    BY <2>1 DEF Mark
  <2>3. seen[b][r] \in 0..Visibility
    BY <2>1 DEF TInv, TypeOK, PoolTypes
  <2>4. r \notin W => Horizon <= seen[b][r]
    BY <2>1, <2>2, <2>3, TimeAssumption DEF Expiring, Held, InState, PoolStates
  <2>5. QED
    BY <2>1, <2>2, <2>3, <2>4, TimeAssumption
<1>6. lag'[b] = 0
  BY <1>3 DEF Goto, Stage, NetSteps, TInv, TypeOK, FlowTypes
<1> HIDE DEF P, Sn
<1>7. QED
  BY <1>3, <1>5, <1>6, SetPoolFrame DEF TInv, TypeOK

LEMMA OtherEmbed ==
    ASSUME TInv, NEW b \in Boards, StepOf(b), ~Extend(b), pc'[b] = "embed"
    PROVE  SameFor(b) \/ (pc[b] = "embed" /\ UNCHANGED <<pool, seen, pc, lag, picked>>)
<1>1. CASE RequestPark(b) \/ Resume(b) \/ HealthCheck(b)
  BY <1>1 DEF RequestPark, Resume, HealthCheck, poolVars, flowVars, passVars
<1>2. CASE Receive(b)
  BY <1>2 DEF Receive, flowVars
<1>3. CASE Delete(b)
  <2>1. PICK p : Goto(b, AfterHandoff(b, p))
    BY <1>3 DEF Delete
  <2>2. AfterHandoff(b, p) # "embed"
    BY <1>3 DEF AfterHandoff, Delete
  <2>3. QED
    BY <2>1, <2>2, GotoFrame DEF TInv, TypeOK
<1>4. CASE ~RequestPark(b) /\ ~Resume(b) /\ ~HealthCheck(b) /\ ~Receive(b) /\ ~Delete(b)
  <2>1. \E s \in Steps \ {"embed"} : Goto(b, s) \/ pc' = [pc EXCEPT ![b] = s]
    BY <1>4 DEF StepOf, BoardStep, NetBegin, Send, ReceiveDone, PassGood, PassBad, PassSkipped, PassEnds,
                PassCrashes, Crash, Lost, Release, Park, Boot, Steps, NetSteps
  <2>2. QED
    BY <2>1, GotoFrame DEF TInv, TypeOK, FlowTypes
<1>5. QED
  BY <1>1, <1>2, <1>3, <1>4

LEMMA NextPass ==
    ASSUME TInv, PassInv, ParkInv, [Next]_vars
    PROVE  PassInv'
<1>1. CASE Queues \/ UNCHANGED vars
  BY <1>1 DEF Queues, Redrive, CalCommit, CalAck, vars, poolVars, flowVars, passVars, PassInv
<1>2. CASE Tick
  <2> SUFFICES ASSUME NEW b \in Boards, pc'[b] = "embed"
               PROVE  /\ lag'[b] <= PassTicks
                      /\ \A r \in picked'[b] : pool'[b][r] = "pending" /\ Horizon <= seen'[b][r] + lag'[b]
    BY DEF PassInv
  <2>1. pc[b] = "embed" /\ ~parked[b] /\ lag[b] \in Nat
    BY <1>2 DEF Tick, ParkInv, TInv, TypeOK, FlowTypes
  <2>2. lag[b] < PassTicks /\ lag'[b] = lag[b] + 1
    BY <1>2, <2>1 DEF Tick, TicksIn, Stage, NetSteps
  <2>3. ASSUME NEW r \in picked[b]
        PROVE  pool'[b][r] = "pending" /\ Horizon <= seen'[b][r] + lag'[b]
    <3>1. r \in Receipt /\ seen[b][r] \in Nat /\ seen'[b][r] = Fewer(seen[b][r]) /\ pool'[b][r] = pool[b][r]
      BY <1>2 DEF Tick, TInv, TypeOK, FlowTypes, PoolTypes
    <3>2. pool[b][r] = "pending" /\ Horizon <= seen[b][r] + lag[b]
      BY <2>1 DEF PassInv
    <3>3. QED
      BY <2>1, <2>2, <3>1, <3>2, TimeAssumption DEF Fewer
  <2>4. picked' = picked
    BY <1>2 DEF Tick, passVars
  <2>5. lag'[b] <= PassTicks
    BY <2>1, <2>2, TimeAssumption
  <2>6. QED
    BY <2>3, <2>4, <2>5
<1>3. ASSUME NEW b \in Boards, StepOf(b)
      PROVE  PassInv'
  <2>1. ASSUME NEW c \in Boards, SameFor(c), pc'[c] = "embed"
        PROVE  /\ lag'[c] <= PassTicks
               /\ \A r \in picked'[c] : pool'[c][r] = "pending" /\ Horizon <= seen'[c][r] + lag'[c]
    BY <2>1 DEF SameFor, PassInv
  <2>2. ASSUME Extend(b), pc'[b] = "embed"
        PROVE  /\ lag'[b] <= PassTicks
               /\ \A r \in picked'[b] : pool'[b][r] = "pending" /\ Horizon <= seen'[b][r] + lag'[b]
    <3>1. TInv'
      BY <1>3, NextTInv DEF Next, StepOf
    <3>2. \A r \in picked'[b] : seen'[b][r] \in Nat
      BY <3>1 DEF TInv, TypeOK, FlowTypes, PoolTypes
    <3>3. QED
      BY <2>2, <3>2, ExtendStartsPass, TimeAssumption
  <2>3. ASSUME ~Extend(b), pc'[b] = "embed"
        PROVE  /\ lag'[b] <= PassTicks
               /\ \A r \in picked'[b] : pool'[b][r] = "pending" /\ Horizon <= seen'[b][r] + lag'[b]
    BY <1>3, <2>1, <2>3, OtherEmbed DEF PassInv
  <2>4. QED
    BY <1>3, <2>1, <2>2, <2>3, Frame DEF PassInv
<1>4. QED
  BY <1>1, <1>2, <1>3 DEF Next, StepOf

LEMMA NextPark ==
    ASSUME TInv, PassInv, ParkInv, [Next]_vars
    PROVE  ParkInv'
<1>1. CASE Queues \/ Tick \/ UNCHANGED vars
  BY <1>1 DEF Queues, Redrive, CalCommit, CalAck, Tick, vars, poolVars, flowVars, parkVars, ParkInv, Held, InState
<1>2. ASSUME NEW b \in Boards, StepOf(b)
      PROVE  ParkInv'
  <2>1. ASSUME NEW c \in Boards \ {b}
        PROVE  /\ pc'[c] = "park" => Held(pool'[c]) = {}
               /\ parked'[c] => pc'[c] = "idle" /\ Held(pool'[c]) = {}
    BY <1>2, Frame DEF SameFor, ParkInv
  <2>2. /\ pc'[b] = "park" => Held(pool'[b]) = {}
        /\ parked'[b] => pc'[b] = "idle" /\ Held(pool'[b]) = {}
    <3>1. CASE HealthCheck(b) \/ RequestPark(b) \/ Resume(b)
      BY <1>2, <3>1
      DEF HealthCheck, RequestPark, Resume, ParkInv, poolVars, flowVars, parkVars, TInv, TypeOK, FlowTypes
    <3>2. CASE Park(b)
      <4>1. pc'[b] = "idle" /\ pool' = pool /\ pc[b] = "park"
        BY <3>2, GotoFrame DEF Park, poolVars, TInv, TypeOK
      <4>2. QED
        BY <4>1 DEF ParkInv
    <3>3. CASE PassCrashes(b) \/ Crash(b)
      BY <3>3 DEF PassCrashes, Crash, Lost, TInv, TypeOK, FlowTypes
    <3>4. CASE Release(b)
      <4>1. PICK p : /\ SetPool(b, p, seen[b], tries[b])
                     /\ Goto(b, IF CanPark(p) THEN "park" ELSE "keep")
        BY <3>4 DEF Release
      <4>2. pool'[b] = p /\ (pc'[b] = "park" => Held(p) = {}) /\ pc'[b] \in {"park", "keep"}
        BY <4>1, SetPoolFrame, GotoFrame DEF CanPark, TInv, TypeOK
      <4>3. ~parked'[b]
        BY <3>4 DEF Release, ParkInv, parkVars
      <4>4. QED
        BY <4>2, <4>3
    <3>5. CASE Delete(b)
      <4>1. PICK p : Goto(b, AfterHandoff(b, p))
        BY <3>5 DEF Delete
      <4>2. AfterHandoff(b, p) # "park"
        BY <3>5 DEF AfterHandoff, Delete
      <4>3. ~parked'[b]
        BY <3>5 DEF Delete, ParkInv, parkVars
      <4>4. QED
        BY <4>1, <4>2, <4>3, GotoFrame DEF TInv, TypeOK
    <3>6. CASE Receive(b)
      BY <3>6 DEF Receive, ParkInv, parkVars, flowVars
    <3>7. CASE NetBegin(b) \/ Send(b) \/ ReceiveDone(b) \/ Extend(b) \/ PassGood(b) \/ PassBad(b)
               \/ PassSkipped(b) \/ Boot(b)
      <4>1. \E s \in Steps \ {"park"} : Goto(b, s) \/ pc' = [pc EXCEPT ![b] = s]
        BY <3>7 DEF NetBegin, Send, ReceiveDone, Extend, PassGood, PassBad, PassSkipped, PassEnds, Boot,
                    Steps, NetSteps
      <4>2. pc'[b] # "park"
        BY <4>1, GotoFrame DEF TInv, TypeOK, FlowTypes
      <4>3. ~parked[b]
        BY <3>7 DEF NetBegin, Send, ReceiveDone, Extend, PassGood, PassBad, PassSkipped, Boot, ParkInv
      <4>4. parked' = parked
        BY <3>7 DEF NetBegin, Send, ReceiveDone, Extend, PassGood, PassBad, PassSkipped, PassEnds, Boot, parkVars
      <4>5. QED
        BY <4>2, <4>3, <4>4
    <3>8. QED
      BY <1>2, <3>1, <3>2, <3>3, <3>4, <3>5, <3>6, <3>7 DEF StepOf, BoardStep
  <2>3. QED
    BY <2>1, <2>2 DEF ParkInv, Held, InState
<1>3. QED
  BY <1>1, <1>2 DEF Next, StepOf

-----------------------------------------------------------------------------

LEMMA InitPassIInv == Init => PassIInv
<1>1. Init => HolderInv /\ SeenInv /\ PassInv /\ ParkInv
  BY DEF Init, HolderInv, SeenInv, PassInv, ParkInv
<1>2. QED
  BY <1>1, InitTInv DEF PassIInv

LEMMA SpecPassIInv == Spec => []PassIInv
<1>1. PassIInv /\ [Next]_vars => PassIInv'
  BY NextTInv, NextHolds, NextPass, NextPark DEF PassIInv
<1>2. QED
  BY <1>1, InitPassIInv, PTL DEF Spec

\* A job in a pass is hidden from everyone else until the pass is over: what the extension before the
\* pass left it is more than the longest pass.
THEOREM PassIsExclusive == Spec => []ExclusivePass
<1>1. PassIInv => ExclusivePass
  <2> SUFFICES ASSUME PassIInv, NEW b \in Boards, pc[b] = "embed", NEW r \in picked[b], r[1] \in ingest
               PROVE  InFlight(r)
    BY DEF ExclusivePass
  <2>1. r \in Receipt /\ seen[b][r] \in Nat /\ lag[b] \in Nat /\ hidden[r[1]] \in Nat
    BY DEF PassIInv, TInv, TypeOK, FlowTypes, PoolTypes, QueueTypes, Receipt
  <2>2. pool[b][r] = "pending" /\ seen[b][r] > 0
    BY <2>1, TimeAssumption DEF PassIInv, PassInv
  <2>3. QED
    BY <2>1, <2>2 DEF PassIInv, SeenInv, InFlight
<1>2. QED
  BY <1>1, SpecPassIInv, PTL

\* A worker parked for an update holds nothing and starts nothing.
THEOREM ParkedIsEmpty == Spec => []ParkedHoldsNothing
<1>1. PassIInv => ParkedHoldsNothing
  BY DEF PassIInv, ParkInv, ParkedHoldsNothing
<1>2. QED
  BY <1>1, SpecPassIInv, PTL

-----------------------------------------------------------------------------
(* The jobs that crash boards.  A receipt is pending once only, and a      *)
(* board that goes down over it forgets it: every crash of a job uses up   *)
(* one of its deliveries for good.                                         *)

\* The deliveries of job j that can never be in a pass again.
Spent(j) == {n \in 1..(RetriesReceive - 1) :
               n <= rcv[j] /\ \A b \in Boards : pool[b][<<j, n>>] # "pending"}

CrashInv ==
    /\ \A b \in Boards : \A r \in Receipt : pool[b][r] = "pending" => r[2] < RetriesReceive
    /\ \A j \in Jobs : kills[j] <= Cardinality(Spent(j))

\* The only receipts that become pending are new ones, with deliveries left.
Settles ==
    /\ \A j \in Jobs : rcv[j] <= rcv'[j]
    /\ \A c \in Boards : \A r \in Receipt :
         pool'[c][r] = "pending" =>
            pool[c][r] = "pending" \/ (rcv[r[1]] < r[2] /\ r[2] < RetriesReceive)

LEMMA MarkSettles ==
    ASSUME NEW p, NEW R, NEW s, s # "pending"
    PROVE  \A r \in Receipt : Mark(p, R, s)[r] = "pending" => p[r] = "pending"
BY DEF Mark

LEMMA OnePoolSettles ==
    ASSUME TInv, NEW b \in Boards, NEW p, NEW sn, NEW tr, SetPool(b, p, sn, tr), rcv' = rcv,
           \A r \in Receipt : p[r] = "pending" => pool[b][r] = "pending"
    PROVE  Settles
<1>1. \A j \in Jobs : rcv[j] <= rcv[j]
  BY DEF TInv, TypeOK, QueueTypes
<1>2. QED
  BY <1>1, SetPoolFrame DEF Settles, TInv, TypeOK

LEMMA PassEndsSettles ==
    ASSUME TInv, NEW b \in Boards, NEW R, NEW badPass,
           PassEnds(b, Mark(pool[b], R, "result"), badPass)
    PROVE  Settles
<1> DEFINE p == Mark(pool[b], R, "result")
<1>1. PICK q : /\ SetPool(b, q, seen[b], tries[b])
               /\ q = p \/ \E short : q = Mark(p, InState(p, {"pending"}) \ short, "result")
  BY DEF PassEnds, Unembedded
<1>2. \A r \in Receipt : p[r] = "pending" => pool[b][r] = "pending"
  BY MarkSettles
<1> HIDE DEF p
<1>3. \A r \in Receipt : q[r] = "pending" => p[r] = "pending"
  BY <1>1, MarkSettles
<1>4. rcv' = rcv
  BY DEF PassEnds, queueVars
<1>5. QED
  BY <1>1, <1>2, <1>3, <1>4, OnePoolSettles

LEMMA ReceiveSettles ==
    ASSUME TInv, NEW b \in Boards, Receive(b)
    PROVE  Settles
<1>1. PICK S \in SUBSET Available, kept \in SUBSET Available :
        LET new == {<<j, rcv[j] + 1>> : j \in kept}
        IN  /\ rcv' = [j \in Jobs |-> IF j \in S THEN rcv[j] + 1 ELSE rcv[j]]
            /\ SetPool(b, [r \in Receipt |-> IF r \in new THEN Verdict(b, r) ELSE pool[b][r]],
                       [r \in Receipt |-> IF r \in new THEN Visibility ELSE seen[b][r]], tries[b])
  BY DEF Receive
<1> DEFINE New == {<<j, rcv[j] + 1>> : j \in kept}
<1>2. \A j \in Jobs : rcv[j] \in Nat /\ rcv[j] <= rcv'[j]
  BY <1>1 DEF TInv, TypeOK, QueueTypes
<1>3. \A r \in Receipt : pool'[b][r] = IF r \in New THEN Verdict(b, r) ELSE pool[b][r]
  BY <1>1, SetPoolFrame DEF TInv, TypeOK
<1>4. \A r \in New : rcv[r[1]] < r[2]
  BY <1>2 DEF Available, TInv, TypeOK, QueueTypes
<1>5. \A r : Verdict(b, r) = "pending" => r[2] < RetriesReceive
  BY DEF Verdict
<1> HIDE DEF New
<1>6. \A c \in Boards \ {b} : pool'[c] = pool[c]
  BY PoolFrame DEF StepOf, BoardStep
<1>7. QED
  BY <1>2, <1>3, <1>4, <1>5, <1>6 DEF Settles

LEMMA NextSettles ==
    ASSUME TInv, [Next]_vars
    PROVE  Settles
<1>0. \A j \in Jobs : rcv[j] <= rcv[j]
  BY DEF TInv, TypeOK, QueueTypes
<1>1. ASSUME rcv' = rcv, pool' = pool
      PROVE  Settles
  BY <1>0, <1>1 DEF Settles
<1>2. CASE Queues \/ Tick \/ UNCHANGED vars
  BY <1>1, <1>2 DEF Queues, Redrive, CalCommit, CalAck, Tick, vars, poolVars, queueVars
<1>3. ASSUME NEW b \in Boards, StepOf(b)
      PROVE  Settles
  <2>1. CASE NetBegin(b)
    BY <1>1, <2>1, MarkSettles, OnePoolSettles DEF NetBegin, DropTooBig, queueVars, poolVars
  <2>2. CASE Send(b)
    <3>1. PICK heard : SetPool(b, Mark(pool[b], heard, "delete"), seen[b], tries[b]) /\ rcv' = rcv
      BY <2>2 DEF Send, queueVars
    <3>2. QED
      BY <3>1, MarkSettles, OnePoolSettles
  <2>3. CASE Delete(b)
    <3>1. PICK R, tr : SetPool(b, Mark(pool[b], R, "none"), seen[b], tr) /\ rcv' = rcv
      BY <2>3 DEF Delete
    <3>2. QED
      BY <3>1, MarkSettles, OnePoolSettles
  <2>4. CASE ReceiveDone(b)
    <3>1. PICK R, p : /\ p = Mark(pool[b], R, "result")
                      /\ SetPool(b, p, seen[b], tries[b]) \/ SetPool(b, DropTooBig(p), seen[b], tries[b])
      BY <2>4 DEF ReceiveDone
    <3>2. rcv' = rcv
      BY <2>4 DEF ReceiveDone, queueVars
    <3>3. \A r \in Receipt : p[r] = "pending" => pool[b][r] = "pending"
      BY <3>1, MarkSettles
    <3>4. \A r \in Receipt : DropTooBig(p)[r] = "pending" => p[r] = "pending"
      BY MarkSettles DEF DropTooBig
    <3>5. QED
      BY <3>1, <3>2, <3>3, <3>4, OnePoolSettles
  <2>5. CASE Extend(b)
    <3>1. PICK R, sn : SetPool(b, Mark(pool[b], R, "none"), sn, tries[b]) /\ rcv' = rcv
      BY <2>5 DEF Extend
    <3>2. QED
      BY <3>1, MarkSettles, OnePoolSettles
  <2>6. CASE PassGood(b) \/ PassBad(b)
    BY <2>6, PassEndsSettles DEF PassGood, PassBad, Unembedded
  <2>7. CASE PassCrashes(b) \/ Crash(b)
    <3>1. SetPool(b, [r \in Receipt |-> "none"], seen[b], tries[b]) /\ rcv' = rcv
      BY <2>7 DEF PassCrashes, Crash, Lost, queueVars
    <3>2. QED
      BY <3>1, OnePoolSettles
  <2>8. CASE Release(b)
    <3>1. PICK R : SetPool(b, Mark(pool[b], R, "none"), seen[b], tries[b]) /\ rcv' = rcv
      BY <2>8 DEF Release
    <3>2. QED
      BY <3>1, MarkSettles, OnePoolSettles
  <2>9. CASE PassSkipped(b) \/ Park(b) \/ Boot(b) \/ HealthCheck(b) \/ RequestPark(b) \/ Resume(b)
    BY <1>1, <2>9 DEF PassSkipped, Park, Boot, HealthCheck, RequestPark, Resume, queueVars, poolVars
  <2>10. QED
    BY <1>3, <2>1, <2>2, <2>3, <2>4, <2>5, <2>6, <2>7, <2>8, <2>9, ReceiveSettles DEF StepOf, BoardStep
<1>4. QED
  BY <1>2, <1>3 DEF Next, StepOf

LEMMA SpentIsFinite ==
    ASSUME NEW j \in Jobs
    PROVE  IsFiniteSet(Spent(j)) /\ Cardinality(Spent(j)) \in 0..(RetriesReceive - 1)
<1>1. RetriesReceive - 1 \in Nat
  BY CountAssumption
<1>2. IsFiniteSet(1..(RetriesReceive - 1)) /\ Cardinality(1..(RetriesReceive - 1)) = RetriesReceive - 1
  BY <1>1, FS_Interval
<1>3. Spent(j) \in SUBSET (1..(RetriesReceive - 1))
  BY DEF Spent
<1>4. QED
  BY <1>1, <1>2, <1>3, FS_Subset, FS_CardinalityType

LEMMA SpentGrows ==
    ASSUME TInv, TInv', Settles, NEW j \in Jobs
    PROVE  Spent(j) \subseteq Spent(j)'
<1> SUFFICES ASSUME NEW n \in Spent(j)
             PROVE  n \in Spent(j)'
  OBVIOUS
<1>1. /\ n \in 1..(RetriesReceive - 1) /\ n <= rcv[j]
      /\ rcv[j] \in 0..MaxReceives /\ rcv'[j] \in 0..MaxReceives /\ MaxReceives \in Nat
      /\ RetriesReceive \in Nat
  BY CountAssumption DEF Spent, TInv, TypeOK, QueueTypes
<1>2. n <= rcv'[j]
  BY <1>1 DEF Settles
<1>3. <<j, n>> \in Receipt
  BY <1>1 DEF Receipt
<1>4. ASSUME NEW b \in Boards
      PROVE  pool'[b][<<j, n>>] # "pending"
  BY <1>1, <1>3 DEF Settles, Spent
<1>5. QED
  BY <1>1, <1>2, <1>4 DEF Spent

LEMMA CrashSpends ==
    ASSUME PassIInv, PassIInv', Settles, CrashInv, NEW b \in Boards, PassCrashes(b),
           NEW j \in JobsOf(picked[b])
    PROVE  \E n \in Spent(j)' : n \notin Spent(j)
<1>1. PICK r \in picked[b] : r[1] = j
  BY DEF JobsOf
<1>2. r \in Receipt /\ pool[b][r] = "pending" /\ r = <<j, r[2]>> /\ r[2] \in Nat \ {0} /\ j \in Jobs
  BY <1>1 DEF PassCrashes, PassIInv, PassInv, TInv, TypeOK, FlowTypes, Receipt
<1>3. r[2] <= rcv[j] /\ r[2] < RetriesReceive
  BY <1>1, <1>2 DEF PassIInv, HolderInv, CrashInv
<1>4. r[2] \notin Spent(j)
  BY <1>2 DEF Spent
<1>5. rcv' = rcv
  BY DEF PassCrashes, Lost, queueVars
<1>6. \A c \in Boards : pool'[c][r] # "pending"
  <2>1. pool'[b][r] = "none"
    BY <1>2, SetPoolFrame DEF PassCrashes, Lost, PassIInv, TInv, TypeOK
  <2>2. \A c \in Boards \ {b} : pool[c][r] = "none"
    BY <1>2 DEF PassIInv, HolderInv
  <2>3. \A c \in Boards \ {b} : pool'[c] = pool[c]
    BY SetPoolFrame DEF PassCrashes, Lost, PassIInv, TInv, TypeOK
  <2>4. QED
    BY <2>1, <2>2, <2>3
<1>7. r[2] \in 1..(RetriesReceive - 1)
  BY <1>2, <1>3, CountAssumption
<1>8. r[2] \in Spent(j)'
  BY <1>2, <1>3, <1>5, <1>6, <1>7 DEF Spent
<1>9. QED
  BY <1>4, <1>8

\* Only a request to park counts in parks, only a crash in a pass in kills.
LEMMA WhoCounts ==
    ASSUME [Next]_vars
    PROVE  /\ UNCHANGED parks \/ \E b \in Boards : RequestPark(b)
           /\ UNCHANGED kills \/ \E b \in Boards : PassCrashes(b)
<1>1. ASSUME NEW b \in Boards, StepOf(b)
      PROVE  (UNCHANGED parks \/ RequestPark(b)) /\ (UNCHANGED kills \/ PassCrashes(b))
  <2>1. CASE NetBegin(b) \/ Send(b)
    BY <2>1 DEF NetBegin, Send, parkVars
  <2>2. CASE Delete(b) \/ Receive(b)
    BY <2>2 DEF Delete, Receive, parkVars
  <2>3. CASE ReceiveDone(b) \/ Extend(b) \/ Release(b)
    BY <2>3 DEF ReceiveDone, Extend, Release, parkVars
  <2>4. CASE PassGood(b) \/ PassBad(b) \/ PassSkipped(b)
    BY <2>4 DEF PassGood, PassBad, PassSkipped, PassEnds, parkVars
  <2>5. CASE PassCrashes(b)
    BY <2>5 DEF PassCrashes, Lost
  <2>6. CASE Crash(b)
    BY <2>6 DEF Crash, Lost
  <2>7. CASE Park(b) \/ Boot(b) \/ Resume(b)
    BY <2>7 DEF Park, Boot, Resume, parkVars
  <2>8. CASE HealthCheck(b) \/ RequestPark(b)
    BY <2>8 DEF HealthCheck, RequestPark, parkVars
  <2>9. QED
    BY <1>1, <2>1, <2>2, <2>3, <2>4, <2>5, <2>6, <2>7, <2>8 DEF StepOf, BoardStep
<1>2. Queues \/ Tick \/ UNCHANGED vars => UNCHANGED <<parks, kills>>
  BY DEF Queues, Redrive, CalCommit, CalAck, Tick, vars, parkVars
<1>3. QED
  BY <1>1, <1>2 DEF Next, StepOf

LEMMA NextCrash ==
    ASSUME PassIInv, PassIInv', CrashInv, [Next]_vars
    PROVE  CrashInv'
<1>1. TInv /\ TInv' /\ Settles
  BY NextSettles DEF PassIInv
<1>2. ASSUME NEW c \in Boards, NEW r \in Receipt, pool'[c][r] = "pending"
      PROVE  r[2] < RetriesReceive
  BY <1>1, <1>2 DEF Settles, CrashInv
<1>3. ASSUME NEW j \in Jobs
      PROVE  kills'[j] <= Cardinality(Spent(j)')
  <2>1. /\ IsFiniteSet(Spent(j)) /\ IsFiniteSet(Spent(j)')
        /\ Cardinality(Spent(j)) \in Nat /\ Cardinality(Spent(j)') \in Nat
        /\ kills[j] \in Nat /\ kills[j] <= Cardinality(Spent(j))
    <3>1. (IsFiniteSet(Spent(j)) /\ Cardinality(Spent(j)) \in 0..(RetriesReceive - 1))'
      <4>1. Spent(j)' \in SUBSET (1..(RetriesReceive - 1))
        BY DEF Spent
      <4>2. RetriesReceive - 1 \in Nat
        BY CountAssumption
      <4>3. IsFiniteSet(1..(RetriesReceive - 1)) /\ Cardinality(1..(RetriesReceive - 1)) = RetriesReceive - 1
        BY <4>2, FS_Interval
      <4>4. QED
        BY <4>1, <4>2, <4>3, FS_Subset, FS_CardinalityType
    <3>2. QED
      BY <3>1, SpentIsFinite, <1>1 DEF CrashInv, TInv, TypeOK, CountTypes
  <2>2. Spent(j) \subseteq Spent(j)'
    BY <1>1, SpentGrows
  <2>3. Cardinality(Spent(j)) <= Cardinality(Spent(j)')
    BY <2>1, <2>2, FS_Subset
  <2>4. CASE kills'[j] = kills[j]
    BY <2>1, <2>3, <2>4
  <2>5. CASE kills'[j] # kills[j]
    <3>1. PICK b \in Boards : PassCrashes(b)
      BY <2>5, WhoCounts
    <3>2. j \in JobsOf(picked[b]) /\ kills'[j] = kills[j] + 1
      BY <2>5, <3>1 DEF PassCrashes
    <3>3. PICK n \in Spent(j)' : n \notin Spent(j)
      BY <1>1, <3>1, <3>2, CrashSpends
    <3>4. Cardinality(Spent(j) \cup {n}) = Cardinality(Spent(j)) + 1
      BY <2>1, <3>3, FS_AddElement
    <3>5. Cardinality(Spent(j) \cup {n}) <= Cardinality(Spent(j)')
      BY <2>1, <2>2, <3>3, FS_Subset
    <3>6. QED
      BY <2>1, <3>2, <3>4, <3>5
  <2>6. QED
    BY <2>4, <2>5
<1>4. QED
  BY <1>2, <1>3 DEF CrashInv

\* A job that crashes every board it is embedded on does so less than RetriesReceive times, whoever
\* else holds a stale copy of it and however the boards restart: it cannot keep the fleet down.
THEOREM CrashesAreBounded == Spec => []CrashesBounded
<1>1. Init => CrashInv
  <2> SUFFICES ASSUME Init
               PROVE  CrashInv
    OBVIOUS
  <2>1. \A j \in Jobs : kills[j] = 0 /\ Cardinality(Spent(j)) \in 0..(RetriesReceive - 1)
    BY SpentIsFinite DEF Init
  <2>2. QED
    BY <2>1 DEF Init, CrashInv
<1>2. PassIInv /\ PassIInv' /\ CrashInv /\ [Next]_vars => CrashInv'
  BY NextCrash
<1>3. PassIInv /\ CrashInv => CrashesBounded
  <2> SUFFICES ASSUME PassIInv, CrashInv, NEW j \in Jobs
               PROVE  kills[j] < RetriesReceive
    BY DEF CrashesBounded
  <2>1. kills[j] \in Nat /\ kills[j] <= Cardinality(Spent(j)) /\ RetriesReceive \in Nat
    BY CountAssumption DEF PassIInv, TInv, TypeOK, CountTypes, CrashInv
  <2>2. QED
    BY <2>1, SpentIsFinite
<1>4. QED
  BY <1>1, <1>2, <1>3, SpecPassIInv, PTL DEF Spec

-----------------------------------------------------------------------------
(* Quiet weather: nothing has failed, no update has asked for a park and   *)
(* no job has crashed a board.  Every wait, phase and pass is then short   *)
(* enough for the extension of the phase before it, so a job stays with    *)
(* the board that received it until its result is accepted.                *)

Calm == faults = 0 /\ parks = 0 /\ \A j \in Jobs : kills[j] = 0

WellInv ==
    \A b \in Boards :
        /\ ~sick[b] /\ ~parkReq[b] /\ ~parked[b]
        /\ pc[b] \notin {"down", "release", "park"}
        /\ lag[b] <= TicksIn(pc[b])

\* What the wait or the pass before a phase has used of an extension.
Slack(s) == IF Stage(s) # "phase" THEN 0 ELSE IF PassTicks < IdleTicks THEN IdleTicks ELSE PassTicks

\* Everything held was good for Horizon when the wait, or the pass, that led here began.
FreshInv ==
    \A b \in Boards : \A r \in Receipt : pool[b][r] # "none" =>
        r[1] \in ingest /\ Horizon <= seen[b][r] + lag[b] + Slack(pc[b])

\* A job received once is held until its message is deleted.
OnceInv ==
    \A j \in Jobs : Kind[j] \in {"plain", "cal"} =>
        \/ rcv[j] = 0
        \/ rcv[j] = 1 /\ (j \in ingest => \E b \in Boards : pool[b][<<j, 1>>] # "none")

QuietInv == WellInv /\ FreshInv /\ OnceInv
CalmIInv == Calm => QuietInv

LEMMA CalmBefore ==
    ASSUME TInv, [Next]_vars, Calm'
    PROVE  Calm
<1>1. faults \in Nat /\ parks \in Nat /\ kills \in [Jobs -> Nat]
  BY CountAssumption DEF TInv, TypeOK, CountTypes
<1>2. faults' = faults \/ faults' = faults + 1
  <2>1. \A ok : Clean(ok) => faults' = faults \/ faults' = faults + 1
    BY DEF Clean
  <2>2. ASSUME NEW b \in Boards, StepOf(b)
        PROVE  UNCHANGED faults \/ \E ok : Clean(ok)
    <3>1. CASE NetBegin(b) \/ Send(b) \/ Delete(b) \/ Receive(b)
      <4>1. NetBegin(b) => \E ok : Clean(ok)
        BY DEF NetBegin
      <4>2. Send(b) => \E ok : Clean(ok)
        BY DEF Send
      <4>3. Delete(b) => \E ok : Clean(ok)
        BY DEF Delete
      <4>4. Receive(b) => \E ok : Clean(ok)
        BY DEF Receive
      <4>5. QED
        BY <3>1, <4>1, <4>2, <4>3, <4>4
    <3>2. CASE ReceiveDone(b) \/ Extend(b) \/ Release(b)
      BY <3>2 DEF ReceiveDone, Extend, Release
    <3>3. CASE PassGood(b) \/ PassBad(b) \/ PassSkipped(b) \/ Crash(b) \/ Boot(b)
      BY <3>3 DEF PassGood, PassBad, PassSkipped, Crash, Boot
    <3>4. CASE PassCrashes(b) \/ Park(b) \/ HealthCheck(b) \/ RequestPark(b) \/ Resume(b)
      BY <3>4 DEF PassCrashes, Park, HealthCheck, RequestPark, Resume
    <3>5. QED
      BY <2>2, <3>1, <3>2, <3>3, <3>4 DEF StepOf, BoardStep
  <2>3. Queues \/ Tick \/ UNCHANGED vars => UNCHANGED faults
    BY DEF Queues, Redrive, CalCommit, CalAck, Tick, vars
  <2>4. QED
    BY <2>1, <2>2, <2>3 DEF Next, StepOf
<1>3. parks' = parks \/ parks' = parks + 1
  BY WhoCounts DEF RequestPark
<1>4. kills' = kills \/ \A j \in Jobs : kills'[j] = kills[j] \/ kills'[j] = kills[j] + 1
  <2>1. kills' = kills \/ \E b \in Boards : PassCrashes(b)
    BY WhoCounts
  <2>2. QED
    BY <2>1 DEF PassCrashes
<1>5. faults' \in Nat /\ faults' = 0 => faults = 0
  BY <1>1, <1>2
<1>6. parks' = 0 => parks = 0
  BY <1>1, <1>3
<1>7. ASSUME NEW j \in Jobs
      PROVE  kills[j] = 0
  BY <1>1, <1>4 DEF Calm
<1>8. QED
  BY <1>5, <1>6, <1>7, <1>1, <1>2 DEF Calm

\* In quiet weather no outcome is a failing one.
LEMMA CalmClean ==
    ASSUME Calm, Calm', NEW ok, Clean(ok)
    PROVE  ok
BY DEF Calm, Clean

\* What is held is not about to come back to anybody.
LEMMA HeldIsLatest ==
    ASSUME PassIInv, WellInv, FreshInv, NEW b \in Boards, NEW r \in Receipt, pool[b][r] # "none"
    PROVE  /\ r[1] \in Jobs /\ r[1] \in ingest /\ r = <<r[1], r[2]>>
           /\ seen[b][r] > 0 /\ hidden[r[1]] > 0 /\ rcv[r[1]] = r[2] /\ InFlight(r)
<1>1. /\ r[1] \in Jobs /\ r = <<r[1], r[2]>>
      /\ seen[b][r] \in Nat /\ hidden[r[1]] \in Nat /\ lag[b] \in Nat
  BY DEF Receipt, PassIInv, TInv, TypeOK, FlowTypes, PoolTypes, QueueTypes
<1>2. lag[b] + Slack(pc[b]) < Horizon
  BY <1>1, TimeAssumption DEF WellInv, TicksIn, Slack, Stage, NetSteps, PassIInv, TInv, TypeOK, FlowTypes, Steps
<1>3. Slack(pc[b]) \in Nat
  BY TimeAssumption DEF Slack
<1>4. r[1] \in ingest /\ seen[b][r] > 0
  BY <1>1, <1>2, <1>3, TimeAssumption DEF FreshInv
<1>5. rcv[r[1]] = r[2] /\ seen[b][r] <= hidden[r[1]]
  BY <1>4 DEF PassIInv, SeenInv
<1>6. QED
  BY <1>1, <1>4, <1>5 DEF InFlight

\* Two receipts held of one job are one, and one board's.
LEMMA HeldOnce ==
    ASSUME PassIInv, WellInv, FreshInv, NEW b \in Boards, NEW c \in Boards,
           NEW r \in Receipt, NEW q \in Receipt, pool[b][r] # "none", pool[c][q] # "none", r[1] = q[1]
    PROVE  r = q /\ b = c
<1>1. r = q
  BY HeldIsLatest
<1>2. QED
  BY <1>1 DEF PassIInv, HolderInv

LEMMA SlackRange ==
    ASSUME NEW s
    PROVE  /\ Slack(s) \in Nat
           /\ Stage(s) = "phase" => PassTicks <= Slack(s) /\ IdleTicks <= Slack(s)
BY TimeAssumption DEF Slack

\* The steps of a phase, a pass's end included: messages G are deleted, and only those and what could
\* never be handed on leaves the board.
LEMMA PhaseStep ==
    ASSUME PassIInv, QuietInv, NEW b \in Boards, NEW s \in NetSteps \ {"release", "park"}, Goto(b, s),
           NEW G \in SUBSET Receipt, \A r \in G : pool[b][r] # "none",
           rcv' = rcv, ingest' = ingest \ JobsOf(G),
           \A c \in Boards \ {b} : SameFor(c),
           \A r \in Receipt : pool'[b][r] # "none" =>
               pool[b][r] # "none" /\ r \notin G /\ seen'[b][r] = seen[b][r],
           \A r \in Receipt : pool[b][r] # "none" /\ pool'[b][r] = "none" =>
               r \in G \/ Kind[r[1]] = "oversize",
           UNCHANGED <<sick, parkReq, parked>>
    PROVE  QuietInv'
<1> USE DEF QuietInv
<1>1. /\ pc'[b] = s /\ Stage(s) = "phase"
      /\ lag'[b] = (IF Stage(pc[b]) = "phase" THEN lag[b] ELSE 0)
      /\ lag[b] \in Nat
  BY DEF Goto, Stage, PassIInv, TInv, TypeOK, FlowTypes
<1>2. WellInv'
  <2>1. pc'[b] \notin {"down", "release", "park"} /\ lag'[b] <= TicksIn(pc'[b])
    <3>1. pc'[b] \notin {"down", "release", "park"}
      BY <1>1 DEF NetSteps
    <3>2. TicksIn(pc'[b]) = PhaseTicks /\ PhaseTicks \in Nat
      BY <1>1, TimeAssumption DEF TicksIn, Stage, NetSteps
    <3>3. Stage(pc[b]) = "phase" => lag[b] <= PhaseTicks
      BY DEF TicksIn, WellInv, Stage, NetSteps
    <3>4. QED
      BY <1>1, <3>1, <3>2, <3>3
  <2>2. \A c \in Boards \ {b} : pc'[c] = pc[c] /\ lag'[c] = lag[c]
    BY DEF SameFor
  <2>3. QED
    BY <2>1, <2>2 DEF WellInv, TicksIn
<1>3. FreshInv'
  <2> SUFFICES ASSUME NEW c \in Boards, NEW r \in Receipt, pool'[c][r] # "none"
               PROVE  r[1] \in ingest' /\ Horizon <= seen'[c][r] + lag'[c] + Slack(pc'[c])
    BY DEF FreshInv
  <2>1. pool[c][r] # "none" /\ seen'[c][r] = seen[c][r] /\ ~(c = b /\ r \in G)
    BY DEF SameFor
  <2>2. r[1] \in ingest /\ Horizon <= seen[c][r] + lag[c] + Slack(pc[c])
    BY <2>1 DEF FreshInv
  <2>3. r[1] \notin JobsOf(G)
    BY <2>1, HeldOnce DEF JobsOf
  <2>4. CASE c # b
    BY <2>1, <2>2, <2>3, <2>4 DEF SameFor
  <2>5. CASE c = b
    <3>1. seen[b][r] \in Nat
      BY DEF PassIInv, TInv, TypeOK, PoolTypes
    <3>2. CASE Stage(pc[b]) = "phase"
      BY <1>1, <2>1, <2>2, <2>3, <2>5, <3>2 DEF Slack
    <3>3. CASE Stage(pc[b]) # "phase"
      <4>1. lag[b] <= PassTicks \/ lag[b] <= IdleTicks
        BY <3>3 DEF WellInv, TicksIn
      <4>2. Slack(pc[b]) = 0 /\ lag'[b] = 0
        BY <1>1, <3>3 DEF Slack
      <4>3. Slack(pc'[b]) \in Nat /\ PassTicks <= Slack(pc'[b]) /\ IdleTicks <= Slack(pc'[b])
        BY <1>1, SlackRange
      <4>4. QED
        BY <1>1, <2>1, <2>2, <2>3, <2>5, <3>1, <4>1, <4>2, <4>3, TimeAssumption
    <3>4. QED
      BY <3>2, <3>3
  <2>6. QED
    BY <2>4, <2>5
<1>4. OnceInv'
  <2> SUFFICES ASSUME NEW j \in Jobs, Kind[j] \in {"plain", "cal"}, rcv'[j] # 0
               PROVE  rcv'[j] = 1 /\ (j \in ingest' => \E c \in Boards : pool'[c][<<j, 1>>] # "none")
    BY DEF OnceInv
  <2>1. rcv[j] = 1 /\ (j \in ingest => \E c \in Boards : pool[c][<<j, 1>>] # "none")
    BY DEF OnceInv
  <2>2. ASSUME j \in ingest'
        PROVE  \E c \in Boards : pool'[c][<<j, 1>>] # "none"
    <3>1. PICK c \in Boards : pool[c][<<j, 1>>] # "none"
      BY <2>1, <2>2
    <3>2. <<j, 1>> \in Receipt /\ <<j, 1>>[1] = j
      BY CountAssumption DEF Receipt
    <3>3. <<j, 1>> \notin G
      BY <2>2, <3>2 DEF JobsOf
    <3>4. c # b => pool'[c] = pool[c]
      BY DEF SameFor
    <3>5. pool'[c][<<j, 1>>] # "none"
      BY <3>1, <3>2, <3>3, <3>4
    <3>6. QED
      BY <3>5
  <2>3. QED
    BY <2>1, <2>2
<1>5. QED
  BY <1>2, <1>3, <1>4

LEMMA ShiftMarks ==
    ASSUME NEW p, NEW R, NEW s, s # "none", NEW r \in Receipt, p[r] # "none"
    PROVE  Mark(p, R, s)[r] # "none"
BY DEF Mark

LEMMA DropsOversize ==
    ASSUME NEW p, NEW r \in Receipt, p[r] # "none", DropTooBig(p)[r] = "none"
    PROVE  Kind[r[1]] = "oversize"
BY DEF DropTooBig, Mark

\* The steps of a phase that delete nothing.
LEMMA QuietPhaseStep ==
    ASSUME PassIInv, QuietInv, NEW b \in Boards, StepOf(b),
           NEW s \in NetSteps \ {"release", "park"}, Goto(b, s),
           NEW p, SetPool(b, p, seen[b], tries[b]), UNCHANGED <<rcv, ingest>>,
           \A r \in Receipt : p[r] # "none" => pool[b][r] # "none",
           \A r \in Receipt : pool[b][r] # "none" /\ p[r] = "none" => Kind[r[1]] = "oversize",
           UNCHANGED <<sick, parkReq, parked>>
    PROVE  QuietInv'
<1>1. \A c \in Boards \ {b} : SameFor(c)
  BY Frame DEF PassIInv
<1>2. pool'[b] = p /\ \A r \in Receipt : seen'[b][r] = IF p[r] = "none" THEN 0 ELSE seen[b][r]
  BY SetPoolFrame DEF PassIInv, TInv, TypeOK
<1>3. ingest' = ingest \ JobsOf({}) /\ {} \in SUBSET Receipt
  BY DEF JobsOf
<1>4. QED
  BY <1>1, <1>2, <1>3, PhaseStep

LEMMA NetBeginQuiet ==
    ASSUME PassIInv, QuietInv, Calm, Calm', NEW b \in Boards, NetBegin(b)
    PROVE  QuietInv'
<1>1. /\ SetPool(b, DropTooBig(pool[b]), seen[b], tries[b])
      /\ Goto(b, "send1")
      /\ UNCHANGED <<queueVars, healthVars, parkVars>>
  BY CalmClean DEF NetBegin
<1>2. StepOf(b) /\ UNCHANGED <<rcv, ingest, sick, parkReq, parked>>
  BY <1>1 DEF StepOf, BoardStep, queueVars, healthVars, parkVars
<1> DEFINE p == DropTooBig(pool[b])
<1>3. "send1" \in NetSteps \ {"release", "park"}
  BY DEF NetSteps
<1>4. \A r \in Receipt : p[r] # "none" => pool[b][r] # "none"
  BY DropHeld
<1>5. \A r \in Receipt : pool[b][r] # "none" /\ p[r] = "none" => Kind[r[1]] = "oversize"
  BY DropsOversize
<1>6. SetPool(b, p, seen[b], tries[b])
  BY <1>1
<1> HIDE DEF p
<1>7. QED
  BY <1>1, <1>2, <1>3, <1>4, <1>5, <1>6, QuietPhaseStep

LEMMA SendQuiet ==
    ASSUME PassIInv, QuietInv, NEW b \in Boards, Send(b)
    PROVE  QuietInv'
<1>1. PICK heard \in SUBSET InState(pool[b], {"result"}) :
        SetPool(b, Mark(pool[b], heard, "delete"), seen[b], tries[b])
  BY DEF Send
<1>2. PICK s \in {"delete1", "delete2"} : Goto(b, s)
  BY DEF Send
<1>3. StepOf(b) /\ UNCHANGED <<rcv, ingest, sick, parkReq, parked>>
  BY DEF StepOf, BoardStep, Send, queueVars, healthVars, parkVars
<1>4. \A r \in heard : pool[b][r] # "none"
  BY DEF InState
<1>5. QED
  BY <1>1, <1>2, <1>3, <1>4, MarkHeld, ShiftMarks, QuietPhaseStep DEF NetSteps

LEMMA ReceiveDoneQuiet ==
    ASSUME PassIInv, QuietInv, NEW b \in Boards, ReceiveDone(b)
    PROVE  QuietInv'
<1>1. PICK p : /\ p = Mark(pool[b], {}, "result")
               /\ \/ SetPool(b, DropTooBig(p), seen[b], tries[b]) /\ Goto(b, "send2")
                  \/ SetPool(b, p, seen[b], tries[b]) /\ Goto(b, "extend")
  BY DEF ReceiveDone, QuietInv, WellInv
<1>2. StepOf(b) /\ UNCHANGED <<rcv, ingest, sick, parkReq, parked>>
  BY DEF StepOf, BoardStep, ReceiveDone, queueVars, healthVars, parkVars
<1>3. \A r \in Receipt : p[r] = pool[b][r]
  BY <1>1 DEF Mark
<1>4. \A r \in Receipt : DropTooBig(p)[r] # "none" => pool[b][r] # "none"
  BY <1>3, DropHeld
<1>5. \A r \in Receipt : pool[b][r] # "none" /\ DropTooBig(p)[r] = "none" => Kind[r[1]] = "oversize"
  BY <1>3, DropsOversize
<1>6. CASE SetPool(b, DropTooBig(p), seen[b], tries[b]) /\ Goto(b, "send2")
  BY <1>2, <1>4, <1>5, <1>6, QuietPhaseStep DEF NetSteps
<1>7. CASE SetPool(b, p, seen[b], tries[b]) /\ Goto(b, "extend")
  BY <1>2, <1>3, <1>7, QuietPhaseStep DEF NetSteps
<1>8. QED
  BY <1>1, <1>6, <1>7

\* In quiet weather a pass is a good one, with every result built.
LEMMA PassGoodQuiet ==
    ASSUME PassIInv, QuietInv, Calm, Calm', NEW b \in Boards, PassGood(b)
    PROVE  QuietInv'
<1>1. PassEnds(b, Mark(pool[b], picked[b] \ {}, "result"), FALSE)
  BY CalmClean DEF PassGood
<1>2. /\ SetPool(b, Mark(pool[b], picked[b], "result"), seen[b], tries[b])
      /\ Goto(b, "ready")
      /\ UNCHANGED <<queueVars, parkVars>>
      /\ sick' = [sick EXCEPT ![b] = sick[b] \/ FALSE]
  <2>1. picked[b] \ {} = picked[b]
    OBVIOUS
  <2>2. QED
    BY <1>1, <2>1, Zenon DEF PassEnds
<1>3. StepOf(b) /\ UNCHANGED <<rcv, ingest, sick, parkReq, parked>>
  BY <1>2 DEF StepOf, BoardStep, queueVars, parkVars, PassIInv, TInv, TypeOK, HealthTypes
<1>4. \A r \in picked[b] : pool[b][r] # "none"
  BY DEF PassGood, PassIInv, PassInv
<1>5. QED
  BY <1>2, <1>3, <1>4, MarkHeld, ShiftMarks, QuietPhaseStep DEF NetSteps

\* Every message whose result was accepted is deleted, since the receipt is still the latest.
LEMMA DeleteQuiet ==
    ASSUME PassIInv, QuietInv, Calm, Calm', NEW b \in Boards, Delete(b)
    PROVE  QuietInv'
<1> DEFINE S == Deletable(pool[b])
           p(tr) == Mark(pool[b], {r \in S : r \in S \/ tr[r] >= DeleteTries}, "none")
<1>1. PICK tr : /\ ingest' = ingest \ JobsOf({r \in S : r[1] \in ingest /\ rcv[r[1]] = r[2]})
                /\ SetPool(b, p(tr), seen[b], tr)
                /\ Goto(b, AfterHandoff(b, p(tr)))
  <2>1. PICK asked, answered, gone, tr :
          /\ Clean(answered = S /\ gone = {r \in S : r[1] \in ingest /\ rcv[r[1]] = r[2]})
          /\ ingest' = ingest \ JobsOf(gone)
          /\ SetPool(b, Mark(pool[b], {r \in S : r \in answered \/ tr[r] >= DeleteTries}, "none"), seen[b], tr)
          /\ Goto(b, AfterHandoff(b, Mark(pool[b], {r \in S : r \in answered \/ tr[r] >= DeleteTries}, "none")))
    BY DEF Delete
  <2>2. answered = S /\ gone = {r \in S : r[1] \in ingest /\ rcv[r[1]] = r[2]}
    BY <2>1, CalmClean
  <2>3. QED
    BY <2>1, <2>2
<1>2. S \in SUBSET Receipt /\ \A r \in S : pool[b][r] = "delete"
  BY DEF Deletable, InState
<1>3. {r \in S : r[1] \in ingest /\ rcv[r[1]] = r[2]} = S
  BY <1>2, HeldIsLatest DEF QuietInv
<1>4. \A r \in Receipt : pool'[b][r] = IF r \in S THEN "none" ELSE pool[b][r]
  BY <1>1, SetPoolFrame DEF Mark, PassIInv, TInv, TypeOK
<1>5. \A r \in Receipt : pool'[b][r] # "none" => seen'[b][r] = seen[b][r]
  BY <1>1, SetPoolFrame DEF PassIInv, TInv, TypeOK
<1>6. AfterHandoff(b, p(tr)) \in {"extend", "keep", "receive"}
  BY DEF AfterHandoff, Delete, QuietInv, WellInv
<1>7. \A c \in Boards \ {b} : SameFor(c)
  BY Frame DEF StepOf, BoardStep, PassIInv
<1>8. rcv' = rcv /\ UNCHANGED <<sick, parkReq, parked>>
  BY DEF Delete, healthVars, parkVars
<1> HIDE DEF S, p
<1>9. QED
  BY <1>1, <1>2, <1>3, <1>4, <1>5, <1>6, <1>7, <1>8, PhaseStep DEF NetSteps

\* The extension finds everything in flight, so nothing is refused and everything is good for Horizon.
LEMMA ExtendQuiet ==
    ASSUME PassIInv, PassIInv', QuietInv, Calm, Calm', NEW b \in Boards, Extend(b)
    PROVE  QuietInv'
<1> USE DEF QuietInv
<1> DEFINE W == Expiring(b)
           Sn == [r \in Receipt |-> IF r \in W THEN Visibility ELSE seen[b][r]]
<1>1. {r \in W : InFlight(r)} = W
  BY HeldIsLatest DEF Expiring, Held, InState
<1>2. PICK p : /\ p = Mark(pool[b], {}, "none")
               /\ SetPool(b, p, Sn, tries[b])
               /\ \E s \in {"idle", "ready", "embed"} : Goto(b, s)
  <2>1. PICK answered \in SUBSET W, done \in SUBSET {r \in W : InFlight(r)} :
          /\ Clean(answered = W /\ done = {r \in W : InFlight(r)})
          /\ SetPool(b, Mark(pool[b], {r \in answered \ done : pool[b][r] = "pending"}, "none"),
                     [r \in Receipt |-> IF r \in answered \cap done THEN Visibility ELSE seen[b][r]],
                     tries[b])
          /\ \E s \in {"idle", "ready", "embed"} : Goto(b, s)
    BY DEF Extend
  <2>2. answered = W /\ done = W
    BY <1>1, <2>1, CalmClean
  <2>3. answered \cap done = W /\ {r \in answered \ done : pool[b][r] = "pending"} = {}
    BY <2>2
  <2>4. QED
    BY <2>1, <2>3
<1>3. PICK s \in {"idle", "ready", "embed"} : Goto(b, s)
  BY <1>2
<1>4. \A r \in Receipt : pool'[b][r] = pool[b][r] /\ (pool[b][r] # "none" => seen'[b][r] = Sn[r])
  BY <1>2, SetPoolFrame DEF Mark, PassIInv, TInv, TypeOK
<1>5. \A r \in Receipt : pool[b][r] # "none" => Horizon <= seen'[b][r]
  <2> SUFFICES ASSUME NEW r \in Receipt, pool[b][r] # "none"
               PROVE  Horizon <= Sn[r]
    BY <1>4
  <2>1. seen[b][r] \in Nat
    BY DEF PassIInv, TInv, TypeOK, PoolTypes
  <2>2. pool[b][r] \in PoolStates \ {"none"}
    BY DEF PassIInv, TInv, TypeOK, PoolTypes
  <2>3. r \notin W => Horizon <= seen[b][r]
    BY <2>1, <2>2, TimeAssumption DEF Expiring, Held, InState
  <2>4. QED
    BY <2>1, <2>3, TimeAssumption
<1> HIDE DEF W, Sn
<1>6. \A c \in Boards \ {b} : SameFor(c)
  BY Frame DEF StepOf, BoardStep, PassIInv
<1>7. rcv' = rcv /\ ingest' = ingest /\ UNCHANGED <<sick, parkReq, parked>>
  BY DEF Extend, healthVars, parkVars
<1>8. /\ pc'[b] = s /\ pc[b] \in {"extend", "keep"}
      /\ lag'[b] = (IF Stage(s) = "phase" THEN lag[b] ELSE 0)
      /\ lag[b] \in Nat /\ lag'[b] \in Nat
  BY <1>3 DEF Extend, Goto, Stage, NetSteps, PassIInv, TInv, TypeOK, FlowTypes
<1>9. WellInv'
  <2>1. lag'[b] <= TicksIn(pc'[b])
    BY <1>8, TimeAssumption DEF WellInv, TicksIn, Stage, NetSteps
  <2>2. QED
    BY <1>6, <1>7, <1>8, <2>1 DEF WellInv, SameFor
<1>10. FreshInv'
  <2> SUFFICES ASSUME NEW c \in Boards, NEW r \in Receipt, pool'[c][r] # "none"
               PROVE  r[1] \in ingest' /\ Horizon <= seen'[c][r] + lag'[c] + Slack(pc'[c])
    BY DEF FreshInv
  <2>1. CASE c # b
    BY <1>6, <1>7, <2>1 DEF FreshInv, SameFor
  <2>2. CASE c = b
    <3>1. r[1] \in ingest' /\ Horizon <= seen'[b][r]
      BY <1>4, <1>5, <1>7, <2>2 DEF FreshInv
    <3>2. seen'[b][r] \in Nat /\ Slack(pc'[b]) \in Nat
      BY SlackRange DEF PassIInv, TInv, TypeOK, PoolTypes
    <3>3. QED
      BY <1>8, <2>2, <3>1, <3>2, TimeAssumption
  <2>3. QED
    BY <2>1, <2>2
<1>11. OnceInv'
  <2>1. \A j \in Jobs : <<j, 1>> \in Receipt
    BY CountAssumption DEF Receipt
  <2>2. \A c \in Boards, r \in Receipt : pool'[c][r] = pool[c][r]
    BY <1>4, <1>6 DEF SameFor
  <2>3. QED
    BY <1>7, <2>1, <2>2 DEF OnceInv
<1>12. QED
  BY <1>9, <1>10, <1>11

\* What is received is visible, so nobody holds it; everything received is kept.
LEMMA ReceiveQuiet ==
    ASSUME PassIInv, PassIInv', QuietInv, Calm, Calm', NEW b \in Boards, Receive(b)
    PROVE  QuietInv'
<1> USE DEF QuietInv
<1> DEFINE New(K) == {<<j, rcv[j] + 1>> : j \in K}
<1>1. PICK S \in SUBSET Available :
        /\ rcv' = [j \in Jobs |-> IF j \in S THEN rcv[j] + 1 ELSE rcv[j]]
        /\ SetPool(b, [r \in Receipt |-> IF r \in New(S) THEN Verdict(b, r) ELSE pool[b][r]],
                   [r \in Receipt |-> IF r \in New(S) THEN Visibility ELSE seen[b][r]], tries[b])
  <2>1. PICK S \in SUBSET Available, kept \in SUBSET Available :
          /\ Clean(kept = S)
          /\ rcv' = [j \in Jobs |-> IF j \in S THEN rcv[j] + 1 ELSE rcv[j]]
          /\ SetPool(b, [r \in Receipt |-> IF r \in New(kept) THEN Verdict(b, r) ELSE pool[b][r]],
                     [r \in Receipt |-> IF r \in New(kept) THEN Visibility ELSE seen[b][r]], tries[b])
    BY DEF Receive
  <2>2. kept = S
    BY <2>1, CalmClean
  <2>3. QED
    BY <2>1, <2>2
<1>2. /\ \A r \in Receipt : pool'[b][r] = IF r \in New(S) THEN Verdict(b, r) ELSE pool[b][r]
      /\ \A r \in Receipt : pool'[b][r] # "none" =>
           seen'[b][r] = IF r \in New(S) THEN Visibility ELSE seen[b][r]
  BY <1>1, SetPoolFrame DEF PassIInv, TInv, TypeOK
<1>3. ASSUME NEW c \in Boards, NEW r \in Receipt, pool[c][r] # "none"
      PROVE  r \notin New(S) /\ r[1] \notin S
  <2>1. r[1] \notin S
    BY <1>1, <1>3, HeldIsLatest DEF Available
  <2>2. \A q \in New(S) : q[1] \in S
    OBVIOUS
  <2>3. QED
    BY <2>1, <2>2
<1>4. \A r \in New(S) : r[1] \in ingest
  BY DEF Available
<1>5. \A j \in S : <<j, rcv[j] + 1>> \in New(S)
  OBVIOUS
<1> HIDE DEF New
<1>6. \A c \in Boards \ {b} : SameFor(c)
  BY Frame DEF StepOf, BoardStep, PassIInv
<1>7. ingest' = ingest /\ UNCHANGED <<pc, lag, sick, parkReq, parked>>
  BY DEF Receive, flowVars, healthVars, parkVars
<1>8. WellInv'
  BY <1>7 DEF WellInv
<1>9. FreshInv'
  <2> SUFFICES ASSUME NEW c \in Boards, NEW r \in Receipt, pool'[c][r] # "none"
               PROVE  r[1] \in ingest /\ Horizon <= seen'[c][r] + lag[c] + Slack(pc[c])
    BY <1>7 DEF FreshInv
  <2>1. lag[c] \in Nat /\ Slack(pc[c]) \in Nat
    BY SlackRange DEF PassIInv, TInv, TypeOK, FlowTypes
  <2>2. CASE c = b /\ r \in New(S)
    BY <1>2, <1>4, <2>1, <2>2, TimeAssumption
  <2>3. CASE c # b \/ r \notin New(S)
    BY <1>2, <1>6, <2>3 DEF FreshInv, SameFor
  <2>4. QED
    BY <2>2, <2>3
<1>10. OnceInv'
  <2> SUFFICES ASSUME NEW j \in Jobs, Kind[j] \in {"plain", "cal"}, rcv'[j] # 0
               PROVE  rcv'[j] = 1 /\ (j \in ingest => \E c \in Boards : pool'[c][<<j, 1>>] # "none")
    BY <1>7 DEF OnceInv
  <2>1. rcv[j] = 0 \/ (rcv[j] = 1 /\ (j \in ingest => \E c \in Boards : pool[c][<<j, 1>>] # "none"))
    BY DEF OnceInv
  <2>2. <<j, 1>> \in Receipt /\ <<j, 1>>[1] = j
    BY CountAssumption DEF Receipt
  <2>3. CASE j \in S
    <3>1. rcv[j] = 0
      BY <1>3, <2>1, <2>2, <2>3 DEF Available
    <3>2. <<j, 1>> \in New(S) /\ rcv'[j] = 1
      BY <1>1, <1>5, <2>3, <3>1
    <3>3. Verdict(b, <<j, 1>>) # "none"
      BY <2>2 DEF Verdict
    <3>4. QED
      BY <1>2, <2>2, <3>2, <3>3
  <2>4. CASE j \notin S
    <3>1. rcv'[j] = rcv[j]
      BY <1>1, <2>4
    <3>2. ASSUME j \in ingest
          PROVE  \E c \in Boards : pool'[c][<<j, 1>>] # "none"
      <4>1. PICK c \in Boards : pool[c][<<j, 1>>] # "none"
        BY <2>1, <3>1, <3>2
      <4>2. pool'[c][<<j, 1>>] = pool[c][<<j, 1>>]
        BY <1>2, <1>3, <1>6, <2>2, <4>1 DEF SameFor
      <4>3. QED
        BY <4>1, <4>2
    <3>3. QED
      BY <2>1, <3>1, <3>2
  <2>5. QED
    BY <2>3, <2>4
<1>11. QED
  BY <1>8, <1>9, <1>10

LEMMA TickQuiet ==
    ASSUME PassIInv, QuietInv, Tick
    PROVE  QuietInv'
<1> USE DEF QuietInv
<1>1. UNCHANGED <<ingest, rcv, pool, pc, sick, parkReq, parked>>
  BY DEF Tick, healthVars, parkVars
<1>2. \A b \in Boards : lag[b] < TicksIn(pc[b]) /\ lag'[b] = lag[b] + 1 /\ lag[b] \in Nat
  BY DEF Tick, WellInv, PassIInv, TInv, TypeOK, FlowTypes
<1>3. \A s : TicksIn(s) \in Nat
  BY TimeAssumption DEF TicksIn
<1>4. WellInv'
  <2>1. \A b \in Boards : lag'[b] <= TicksIn(pc[b])
    BY <1>2, <1>3
  <2>2. QED
    BY <1>1, <2>1 DEF WellInv
<1>5. FreshInv'
  <2> SUFFICES ASSUME NEW b \in Boards, NEW r \in Receipt, pool[b][r] # "none"
               PROVE  r[1] \in ingest /\ Horizon <= seen'[b][r] + lag'[b] + Slack(pc[b])
    BY <1>1 DEF FreshInv
  <2>1. seen[b][r] \in Nat /\ seen[b][r] > 0 /\ Slack(pc[b]) \in Nat
    BY HeldIsLatest, SlackRange DEF PassIInv, TInv, TypeOK, PoolTypes
  <2>2. seen'[b][r] = seen[b][r] - 1
    BY <2>1 DEF Tick, Fewer
  <2>3. QED
    BY <1>2, <2>1, <2>2, TimeAssumption DEF FreshInv
<1>6. OnceInv'
  BY <1>1 DEF OnceInv
<1>7. QED
  BY <1>4, <1>5, <1>6

\* A message is dead-lettered only while visible, when nobody holds it.
LEMMA QueuesQuiet ==
    ASSUME PassIInv, QuietInv, Queues
    PROVE  QuietInv'
<1> USE DEF QuietInv
<1>1. UNCHANGED <<rcv, pool, seen, pc, lag, sick, parkReq, parked>>
  BY DEF Queues, Redrive, CalCommit, CalAck, queueVars, poolVars, flowVars, healthVars, parkVars
<1>2. ingest' = ingest \/ \E j \in ingest : hidden[j] = 0 /\ ingest' = ingest \ {j}
  BY DEF Queues, Redrive, CalCommit, CalAck, queueVars
<1>3. WellInv'
  BY <1>1 DEF WellInv
<1>4. FreshInv'
  <2> SUFFICES ASSUME NEW b \in Boards, NEW r \in Receipt, pool[b][r] # "none"
               PROVE  r[1] \in ingest' /\ Horizon <= seen[b][r] + lag[b] + Slack(pc[b])
    BY <1>1 DEF FreshInv
  <2>1. r[1] \in ingest /\ hidden[r[1]] > 0 /\ hidden[r[1]] \in Nat
    BY HeldIsLatest DEF PassIInv, TInv, TypeOK, QueueTypes
  <2>2. QED
    BY <1>2, <2>1 DEF FreshInv
<1>5. OnceInv'
  BY <1>1, <1>2 DEF OnceInv
<1>6. QED
  BY <1>3, <1>4, <1>5

LEMMA NextQuiet ==
    ASSUME PassIInv, PassIInv', CalmIInv, [Next]_vars
    PROVE  CalmIInv'
<1> SUFFICES ASSUME Calm'
             PROVE  QuietInv'
  BY DEF CalmIInv
<1>1. Calm /\ QuietInv
  BY CalmBefore DEF CalmIInv, PassIInv
<1>2. CASE UNCHANGED vars
  <2>1. UNCHANGED <<ingest, rcv, pool, seen, pc, lag, sick, parkReq, parked>>
    BY <1>2 DEF vars, queueVars, poolVars, flowVars, healthVars, parkVars
  <2>2. QED
    BY <1>1, <2>1 DEF QuietInv, WellInv, FreshInv, OnceInv
<1>3. ASSUME NEW b \in Boards, StepOf(b)
      PROVE  QuietInv'
  <2>1. ~PassBad(b) /\ ~PassSkipped(b) /\ ~Crash(b)
    <3>1. ~Clean(FALSE)
      BY <1>1, CalmClean
    <3>2. QED
      BY <3>1 DEF PassBad, PassSkipped, Crash
  <2>2. ~PassCrashes(b)
    <3>1. SUFFICES ASSUME PassCrashes(b)
                   PROVE  FALSE
      OBVIOUS
    <3>2. PICK j \in JobsOf(picked[b]) \cap Poison : TRUE
      BY <3>1 DEF PassCrashes
    <3>3. j \in Jobs /\ kills[j] = 0 /\ kills'[j] = 0
      BY <1>1, KindAssumption DEF Calm
    <3>4. kills'[j] = kills[j] + 1
      BY <3>1, <3>2, <3>3 DEF PassCrashes
    <3>5. QED
      BY <3>3, <3>4
  <2>3. ~Release(b) /\ ~Park(b) /\ ~Boot(b) /\ ~Resume(b) /\ ~HealthCheck(b)
    BY <1>1 DEF QuietInv, WellInv, Release, Park, Boot, Resume, HealthCheck
  <2>4. ~RequestPark(b)
    BY <1>1 DEF RequestPark, Calm
  <2>5. QED
    BY <1>1, <1>3, <2>1, <2>2, <2>3, <2>4, NetBeginQuiet, SendQuiet, DeleteQuiet, ReceiveQuiet,
       ReceiveDoneQuiet, ExtendQuiet, PassGoodQuiet DEF StepOf, BoardStep
<1>4. QED
  BY <1>1, <1>2, <1>3, TickQuiet, QueuesQuiet DEF Next, StepOf

LEMMA InitQuiet == Init => CalmIInv
<1> SUFFICES ASSUME Init
             PROVE  QuietInv
  BY DEF CalmIInv
<1>1. WellInv
  BY TimeAssumption DEF Init, WellInv, TicksIn, Stage, NetSteps
<1>2. FreshInv /\ OnceInv
  BY DEF Init, FreshInv, OnceInv
<1>3. QED
  BY <1>1, <1>2 DEF QuietInv

\* While nothing fails, no update parks a board and no job crashes one, no job that can be handed on
\* is ever delivered twice, however many boards share the queue and however slow they are within the
\* longest wait, phase and pass.
THEOREM QuietMeansOnce == Spec => []RedeliveredOnlyAfterTrouble
<1>1. PassIInv /\ PassIInv' /\ CalmIInv /\ [Next]_vars => CalmIInv'
  BY NextQuiet
<1>2. CalmIInv => RedeliveredOnlyAfterTrouble
  <2> SUFFICES ASSUME CalmIInv, Calm, NEW j \in Jobs, Kind[j] \in {"plain", "cal"}
               PROVE  rcv[j] <= 1
    BY DEF Calm, RedeliveredOnlyAfterTrouble
  <2>1. rcv[j] = 0 \/ rcv[j] = 1
    BY DEF CalmIInv, QuietInv, OnceInv
  <2>2. QED
    BY <2>1
<1>3. QED
  BY <1>1, <1>2, InitQuiet, SpecPassIInv, PTL DEF Spec
=============================================================================
