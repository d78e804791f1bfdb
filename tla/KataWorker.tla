------------------------------ MODULE KataWorker ------------------------------
(***************************************************************************)
(* Kata's worker (esp32-embedder/worker/worker.c) and the queues it works  *)
(* between.  Boards receive jobs from the ingest queue, embed some of them *)
(* in passes, hand each job's result to Cal on the results queue, and      *)
(* delete the ingest message only once SQS has accepted the result.        *)
(*                                                                         *)
(* worker_step is cut at its network calls, which is where other boards,   *)
(* SQS's clocks, Cal and the power supply get in.  pc[b] names the call    *)
(* board b is about to make.  The two queues and Cal are not in this       *)
(* repository; they are modelled by what worker.c and sqs.c rely on.       *)
(*                                                                         *)
(* Every failing outcome spends one of MaxFaults: a lost answer, a refused *)
(* entry, an allocation that fails, a bad pass, a loss of power.           *)
(***************************************************************************)
EXTENDS Integers, FiniteSets

CONSTANTS
    Jobs,               \* the messages on the ingest queue
    Boards,             \* the Katas working it
    Kind,               \* Kind[j]: what arrive() makes of job j, see Kinds
    Poison,             \* the jobs that crash the board in any pass they are in
    MaxReceives,        \* the ingest queue's maxReceiveCount
    SoloReceive,        \* WORKER_SOLO_RECEIVE
    RetriesReceive,     \* WORKER_RETRIES_RECEIVE
    BadPasses,          \* WORKER_BAD_PASSES
    DeleteTries,        \* how often a delete that got no answer is tried
    PoolMax,            \* cfg.pool_max
    MaxRounds,          \* WORKER_MAX_RECEIVE
    Visibility,         \* WORKER_VISIBILITY_S, in ticks
    Horizon,            \* WORKER_EXTEND_HORIZON_S, in ticks
    PhaseTicks,         \* the longest network phase, in ticks
    PassTicks,          \* the longest pass
    IdleTicks,          \* the longest wait between steps (WORKER_RETRY_MAX_S)
    MaxFaults, MaxParks \* bounds on failures and on park requests

Kinds == {"plain", "cal", "invalid", "oversize"}

ASSUME KindAssumption == Kind \in [Jobs -> Kinds] /\ Poison \subseteq Jobs
ASSUME CountAssumption ==
    /\ {MaxReceives, SoloReceive, RetriesReceive, BadPasses, DeleteTries} \subseteq Nat \ {0}
    /\ {PoolMax, MaxRounds, MaxFaults, MaxParks} \subseteq Nat
    /\ SoloReceive < RetriesReceive
ASSUME TimeAssumption ==
    /\ {Visibility, Horizon, PhaseTicks, PassTicks, IdleTicks} \subseteq Nat
    /\ Horizon <= Visibility
    /\ 2 * PhaseTicks + PassTicks < Horizon
    /\ 2 * PhaseTicks + IdleTicks < Horizon

VARIABLES
    ingest,     \* the jobs still on the ingest queue
    dlq,        \* the jobs it has dead-lettered
    hidden,     \* hidden[j]: ticks until job j is visible again, 0 when it is
    rcv,        \* rcv[j]: ApproximateReceiveCount
    results,    \* the jobs with a message on the results queue
    committed,  \* the jobs whose row Cal has committed
    pool,       \* pool[b][r]: the state of receipt r in board b's pool
    seen,       \* seen[b][r]: visible_until as board b believes it, in ticks from now
    tries,      \* tries[b][r]: delete_tries
    pc,         \* the call the board makes next
    lag,        \* ticks since the board's phase, pass or wait began
    rounds,     \* receives made in this phase
    picked,     \* the receipts in the pass under way
    sick, bad,  \* sick and bad_in_row
    parkReq, parked,
    kills,      \* history: how many boards job j has crashed
    faults, parks

queueVars  == <<ingest, dlq, hidden, rcv>>
calVars    == <<results, committed>>
poolVars   == <<pool, seen, tries>>
flowVars   == <<pc, lag>>
passVars   == <<rounds, picked>>
healthVars == <<sick, bad>>
parkVars   == <<parkReq, parked, parks>>
vars == <<queueVars, calVars, poolVars, flowVars, passVars, healthVars, parkVars, kills, faults>>

\* A receipt is a job and which of its receives this is: every receive of a message has a handle
\* of its own, and only the latest one still stands for the message.
Receipt == Jobs \X (1..MaxReceives)
JobsOf(R) == {r[1] : r \in R}

PoolStates == {"none", "pending", "result", "delete"}
NetSteps   == {"ready", "send1", "delete1", "release", "park", "keep", "receive",
               "send2", "delete2", "extend"}
Steps      == NetSteps \cup {"idle", "embed", "down"}

QueueTypes ==
    /\ ingest \subseteq Jobs /\ dlq \subseteq Jobs
    /\ hidden \in [Jobs -> 0..Visibility]
    /\ rcv \in [Jobs -> 0..MaxReceives]
    /\ results \subseteq Jobs /\ committed \subseteq Jobs

PoolTypes ==
    /\ pool \in [Boards -> [Receipt -> PoolStates]]
    /\ seen \in [Boards -> [Receipt -> 0..Visibility]]
    /\ tries \in [Boards -> [Receipt -> 0..(DeleteTries - 1)]]

FlowTypes ==
    /\ pc \in [Boards -> Steps]
    /\ lag \in [Boards -> Nat]
    /\ rounds \in [Boards -> 0..MaxRounds]
    /\ picked \in [Boards -> SUBSET Receipt]
    /\ parkReq \in [Boards -> BOOLEAN] /\ parked \in [Boards -> BOOLEAN]

HealthTypes == sick \in [Boards -> BOOLEAN] /\ bad \in [Boards -> 0..BadPasses]

CountTypes == kills \in [Jobs -> Nat] /\ faults \in 0..MaxFaults /\ parks \in 0..MaxParks

TypeOK == QueueTypes /\ PoolTypes /\ FlowTypes /\ HealthTypes /\ CountTypes

Init ==
    /\ ingest = Jobs /\ dlq = {}
    /\ hidden = [j \in Jobs |-> 0]
    /\ rcv = [j \in Jobs |-> 0]
    /\ results = {} /\ committed = {}
    /\ pool = [b \in Boards |-> [r \in Receipt |-> "none"]]
    /\ seen = [b \in Boards |-> [r \in Receipt |-> 0]]
    /\ tries = [b \in Boards |-> [r \in Receipt |-> 0]]
    /\ pc = [b \in Boards |-> "idle"]
    /\ lag = [b \in Boards |-> 0]
    /\ rounds = [b \in Boards |-> 0]
    /\ picked = [b \in Boards |-> {}]
    /\ sick = [b \in Boards |-> FALSE]
    /\ bad = [b \in Boards |-> 0]
    /\ parkReq = [b \in Boards |-> FALSE]
    /\ parked = [b \in Boards |-> FALSE]
    /\ kills = [j \in Jobs |-> 0]
    /\ faults = 0 /\ parks = 0

-----------------------------------------------------------------------------
(* Helpers.                                                                *)

\* The outcome taken is the one without a failure, or it spends a fault.
Clean(ok) == \/ ok /\ UNCHANGED faults
             \/ ~ok /\ faults < MaxFaults /\ faults' = faults + 1

\* The receipts of a pool that are in one of the states S.
InState(p, S) == {r \in Receipt : p[r] \in S}
Held(p) == InState(p, PoolStates \ {"none"})
Mark(p, R, s) == [r \in Receipt |-> IF r \in R THEN s ELSE p[r]]

\* remove_job forgets everything about a job that leaves the pool.
SetPool(b, p, sn, tr) ==
    /\ pool'  = [pool EXCEPT ![b] = p]
    /\ seen'  = [seen EXCEPT ![b] = [r \in Receipt |-> IF p[r] = "none" THEN 0 ELSE sn[r]]]
    /\ tries' = [tries EXCEPT ![b] = [r \in Receipt |-> IF p[r] = "none" THEN 0 ELSE tr[r]]]

\* SQS honours a receipt while it is the job's latest and the job is still hidden.
InFlight(r) == r[1] \in ingest /\ rcv[r[1]] = r[2] /\ hidden[r[1]] > 0

Stage(s) == IF s \in NetSteps THEN "phase" ELSE s
Goto(b, s) ==
    /\ pc'  = [pc EXCEPT ![b] = s]
    /\ lag' = [lag EXCEPT ![b] = IF Stage(s) = "phase" /\ Stage(pc[b]) = "phase" THEN @ ELSE 0]

\* handoff() starts by dropping the results SQS could never take.
DropTooBig(p) == Mark(p, {r \in InState(p, {"result"}) : Kind[r[1]] = "oversize"}, "none")

-----------------------------------------------------------------------------
(* The network phase of worker_step.                                       *)

\* The health check a sick board runs every half hour; one that fails changes nothing but the
\* time of the next.
HealthCheck(b) ==
    /\ pc[b] \in {"idle", "ready"} /\ ~parked[b] /\ ~parkReq[b] /\ sick[b]
    /\ sick' = [sick EXCEPT ![b] = FALSE]
    /\ bad' = [bad EXCEPT ![b] = 0]
    /\ UNCHANGED <<queueVars, calVars, poolVars, flowVars, passVars, parkVars, kills, faults>>

\* A step begins: a parked worker does nothing, a phase that cannot start is a back-off.
NetBegin(b) ==
    /\ pc[b] \in {"idle", "ready"} /\ ~parked[b]
    /\ \E up \in BOOLEAN :
        /\ Clean(up)
        /\ IF up
             THEN /\ SetPool(b, DropTooBig(pool[b]), seen[b], tries[b])
                  /\ Goto(b, "send1")
             ELSE /\ pc' = [pc EXCEPT ![b] = "idle"]
                  /\ lag' = [lag EXCEPT ![b] = 0]
                  /\ UNCHANGED poolVars
    /\ UNCHANGED <<queueVars, calVars, passVars, healthVars, parkVars, kills>>

\* SendMessageBatch, until every result was tried or a call fails: SQS accepts heard \cup unheard,
\* and the worker learns of heard.
Send(b) ==
    /\ pc[b] \in {"send1", "send2"}
    /\ LET S == InState(pool[b], {"result"}) IN
       \E heard \in SUBSET S : \E unheard \in SUBSET (S \ heard) :
        /\ Clean(heard = S)
        /\ results' = results \cup JobsOf(heard \cup unheard)
        /\ SetPool(b, Mark(pool[b], heard, "delete"), seen[b], tries[b])
    /\ Goto(b, IF pc[b] = "send1" THEN "delete1" ELSE "delete2")
    /\ UNCHANGED <<queueVars, committed, passVars, healthVars, parkVars, kills>>

\* What keeps the worker from taking more: results or deletes still to go.
Blocking_AnyHeld(p) == Held(p)
Blocking(p) == InState(p, {"result", "delete"})

\* What worker_step does once handoff() returns.
AfterHandoff(b, p) ==
    CASE pc[b] = "delete2"     -> "extend"
      [] pc[b] = "delete1"     -> IF parkReq[b] THEN "release"
                                  ELSE IF Blocking(p) # {} THEN "keep" ELSE "receive"

\* Only what SQS accepted a result for is deleted.
Deletable_Unsent(p) == InState(p, {"result", "delete"})
Deletable(p) == InState(p, {"delete"})

\* DeleteMessageBatch, until every delete was asked for or a call fails.  An answered entry is done
\* with, even one refused for a stale receipt; one asked for without an answer is tried again next
\* phase, DeleteTries times in all.
Delete(b) ==
    /\ pc[b] \in {"delete1", "delete2"}
    /\ LET S == Deletable(pool[b])
           current == {r \in S : r[1] \in ingest /\ rcv[r[1]] = r[2]} IN
       \E asked \in SUBSET S : \E answered \in SUBSET asked : \E gone \in SUBSET asked :
        LET tr == [r \in Receipt |-> IF r \in asked \ answered THEN tries[b][r] + 1 ELSE tries[b][r]]
            p  == Mark(pool[b], {r \in S : r \in answered \/ tr[r] >= DeleteTries}, "none") IN
        /\ Clean(answered = S /\ gone = current)
        /\ ingest' = ingest \ JobsOf(gone)
        /\ SetPool(b, p, seen[b], tr)
        /\ Goto(b, AfterHandoff(b, p))
    /\ rounds' = [rounds EXCEPT ![b] = 0]
    /\ UNCHANGED <<dlq, hidden, rcv, calVars, picked, healthVars, parkVars, kills>>

\* arrive(): what becomes of a job on arrival.
Verdict_NoRetryLimit(b, r) ==
    CASE Kind[r[1]] = "invalid"                                        -> "none"
      [] Kind[r[1]] = "plain" /\ ~sick[b]                              -> "pending"
      [] OTHER                                                         -> "result"
Verdict(b, r) ==
    CASE Kind[r[1]] = "invalid"                                        -> "none"
      [] Kind[r[1]] = "plain" /\ r[2] < RetriesReceive /\ ~sick[b]     -> "pending"
      [] OTHER                                                         -> "result"

Available == {j \in ingest : hidden[j] = 0 /\ rcv[j] < MaxReceives}

\* top_up asks MaxRounds times at most.
MoreRounds_OneMore(b) == rounds[b] <= MaxRounds
MoreRounds(b) == rounds[b] < MaxRounds

\* One ReceiveMessage of top_up.  The answer may be lost, and memory may run out on any of the
\* messages: SQS counts the receive all the same.
Receive(b) ==
    /\ pc[b] = "receive" /\ MoreRounds(b)
    /\ \E S \in SUBSET Available : \E kept \in SUBSET S :
        LET new == {<<j, rcv[j] + 1>> : j \in kept}
            p   == [r \in Receipt |-> IF r \in new THEN Verdict(b, r) ELSE pool[b][r]] IN
        /\ S # {} /\ Cardinality(S) <= PoolMax - Cardinality(Held(pool[b]))
        /\ Clean(kept = S)
        /\ rcv' = [j \in Jobs |-> IF j \in S THEN rcv[j] + 1 ELSE rcv[j]]
        /\ hidden' = [j \in Jobs |-> IF j \in S THEN Visibility ELSE hidden[j]]
        /\ SetPool(b, p, [r \in Receipt |-> IF r \in new THEN Visibility ELSE seen[b][r]], tries[b])
    /\ rounds' = [rounds EXCEPT ![b] = @ + 1]
    /\ UNCHANGED <<ingest, dlq, calVars, flowVars, picked, healthVars, parkVars, kills>>

\* The top-up ends: enough tokens, no room, nothing more, or a call that failed.  A sick board hands
\* on whatever is still pending, except what it has no memory to build a result for (short).
ReceiveDone(b) ==
    /\ pc[b] = "receive"
    /\ LET P == IF sick[b] THEN InState(pool[b], {"pending"}) ELSE {} IN
       \E short \in SUBSET P :
        LET p == Mark(pool[b], P \ short, "result") IN
        /\ Clean(short = {})
        /\ IF InState(p, {"result"}) # {}
             THEN SetPool(b, DropTooBig(p), seen[b], tries[b]) /\ Goto(b, "send2")
             ELSE SetPool(b, p, seen[b], tries[b]) /\ Goto(b, "extend")
    /\ UNCHANGED <<queueVars, calVars, passVars, healthVars, parkVars, kills>>

\* pass() picks at least one pending job; a job on its second delivery goes alone.
Plans(p) ==
    {P \in SUBSET InState(p, {"pending"}) :
        P # {} /\ \A r \in P : r[2] = SoloReceive => P = {r}}

\* What visibility() extends: every job held that could be visible again before the next phase.
Expiring_Lapsed(b) == {r \in Held(pool[b]) : seen[b][r] = 0}
Expiring_PassOnly(b) == {r \in Held(pool[b]) : seen[b][r] <= PassTicks}
Expiring(b) == {r \in Held(pool[b]) : seen[b][r] < Horizon}

\* visibility(): every held job that could be visible again within Horizon is extended.  A refused
\* pending job leaves the pool; a call without an answer ends the phase in a back-off.  After the
\* top-up's extension ("extend") a pass starts if anything is pending.
Extend(b) ==
    /\ pc[b] \in {"extend", "keep"}
    /\ LET W == Expiring(b)
           inFlight == {r \in W : InFlight(r)} IN
       \E answered \in SUBSET W : \E done \in SUBSET inFlight :
        LET refused == {r \in answered \ done : pool[b][r] = "pending"}
            p == Mark(pool[b], refused, "none")
            sn == [r \in Receipt |-> IF r \in answered \cap done THEN Visibility ELSE seen[b][r]] IN
        /\ Clean(answered = W /\ done = inFlight)
        /\ hidden' = [j \in Jobs |-> IF j \in JobsOf(done) THEN Visibility ELSE hidden[j]]
        /\ SetPool(b, p, sn, tries[b])
        /\ \/ /\ pc[b] = "keep" \/ answered # W
              /\ Goto(b, "idle") /\ UNCHANGED picked
           \/ /\ pc[b] = "extend" /\ answered = W
              /\ sick[b] \/ InState(p, {"pending"}) = {}
              /\ Goto(b, IF Blocking(p) = {} THEN "idle" ELSE "ready")
              /\ UNCHANGED picked
           \/ /\ pc[b] = "extend" /\ answered = W /\ ~sick[b]
              /\ \E P \in Plans(p) : picked' = [picked EXCEPT ![b] = P]
              /\ Goto(b, "embed")
    /\ UNCHANGED <<ingest, dlq, rcv, calVars, rounds, healthVars, parkVars, kills>>

-----------------------------------------------------------------------------
(* The pass.                                                               *)

\* The jobs in R go to Cal unembedded, but for those there is no memory to build a result for.
Unembedded(p, R, short) == Mark(p, R \ short, "result")

\* How a pass leaves the worker: BadPasses bad ones in a row and it is sick, and everything still
\* pending goes to Cal.
PassEnds(b, p, badPass) ==
    LET inRow == IF badPass THEN bad[b] + 1 ELSE 0
        goSick == badPass /\ inRow >= BadPasses
        left == InState(p, {"pending"}) IN
    /\ bad' = [bad EXCEPT ![b] = inRow]
    /\ sick' = [sick EXCEPT ![b] = @ \/ goSick]
    /\ \E short \in SUBSET left :
         SetPool(b, IF goSick THEN Unembedded(p, left, short) ELSE p, seen[b], tries[b])
    /\ picked' = [picked EXCEPT ![b] = {}]
    /\ Goto(b, "ready")
    /\ UNCHANGED <<queueVars, calVars, rounds, parkVars, kills>>

\* Every vector is good; a job whose result cannot be built for want of memory (lost) stays pending,
\* and makes the pass a bad one.
PassGood(b) ==
    /\ pc[b] = "embed" /\ JobsOf(picked[b]) \cap Poison = {}
    /\ \E lost \in SUBSET picked[b] :
        /\ Clean(lost = {})
        /\ PassEnds(b, Mark(pool[b], picked[b] \ lost, "result"), lost # {})

\* A CRC mismatch or a vector out of band: no vector is delivered.
PassBad(b) ==
    /\ pc[b] = "embed"
    /\ Clean(FALSE)
    /\ \E short \in SUBSET picked[b] :
        PassEnds(b, Unembedded(pool[b], picked[b], short), TRUE)

\* No memory for the pass: nothing happened.
PassSkipped(b) ==
    /\ pc[b] = "embed"
    /\ Clean(FALSE)
    /\ picked' = [picked EXCEPT ![b] = {}]
    /\ Goto(b, "ready")
    /\ UNCHANGED <<queueVars, calVars, poolVars, rounds, healthVars, parkVars, kills>>

\* What a reboot leaves of a board: nothing.
Lost(b) ==
    /\ SetPool(b, [r \in Receipt |-> "none"], seen[b], tries[b])
    /\ pc' = [pc EXCEPT ![b] = "down"]
    /\ lag' = [lag EXCEPT ![b] = 0]
    /\ rounds' = [rounds EXCEPT ![b] = 0]
    /\ picked' = [picked EXCEPT ![b] = {}]
    /\ sick' = [sick EXCEPT ![b] = FALSE]
    /\ bad' = [bad EXCEPT ![b] = 0]
    /\ parkReq' = [parkReq EXCEPT ![b] = FALSE]
    /\ parked' = [parked EXCEPT ![b] = FALSE]
    /\ UNCHANGED <<queueVars, calVars, parks>>

PassCrashes(b) ==
    /\ pc[b] = "embed" /\ JobsOf(picked[b]) \cap Poison # {}
    /\ kills' = [j \in Jobs |->
                   IF j \in JobsOf(picked[b]) \cap Poison THEN kills[j] + 1 ELSE kills[j]]
    /\ Lost(b)
    /\ UNCHANGED faults

\* A power cut, a panic, or a watchdog's restart.
Crash(b) ==
    /\ pc[b] # "down"
    /\ Clean(FALSE)
    /\ Lost(b)
    /\ UNCHANGED kills

\* A board whose self-test fails starts sick (worker_set_sick).
Boot(b) ==
    /\ pc[b] = "down"
    /\ Goto(b, "idle")
    /\ \E healthy \in BOOLEAN :
        /\ Clean(healthy)
        /\ sick' = [sick EXCEPT ![b] = ~healthy]
        /\ bad' = [bad EXCEPT ![b] = IF healthy THEN 0 ELSE BadPasses]
    /\ UNCHANGED <<queueVars, calVars, poolVars, passVars, parkVars, kills>>

-----------------------------------------------------------------------------
(* An update's park, from the update's own task.                           *)

RequestPark(b) ==
    /\ pc[b] # "down" /\ ~parkReq[b] /\ parks < MaxParks
    /\ parkReq' = [parkReq EXCEPT ![b] = TRUE]
    /\ parks' = parks + 1
    /\ UNCHANGED <<queueVars, calVars, poolVars, flowVars, passVars, healthVars, parked, kills, faults>>

\* The update gave up: the park took too long, the model was busy, the download failed.
Resume(b) ==
    /\ parkReq[b]
    /\ parkReq' = [parkReq EXCEPT ![b] = FALSE]
    /\ parked' = [parked EXCEPT ![b] = FALSE]
    /\ UNCHANGED <<queueVars, calVars, poolVars, flowVars, passVars, healthVars, parks, kills, faults>>

\* Nothing held, not even a delete still to be made.
CanPark_Undeleted(p) == InState(p, {"pending", "result"}) = {}
CanPark(p) == Held(p) = {}

\* The jobs not embedded yet go back to the queue, visible at once, and leave the pool whatever SQS
\* answers.  Undelivered results keep the worker from parking.
Release(b) ==
    /\ pc[b] = "release"
    /\ LET P == InState(pool[b], {"pending"})
           inFlight == {r \in P : InFlight(r)}
           p == Mark(pool[b], P, "none") IN
       /\ \E freed \in SUBSET inFlight :
            /\ Clean(freed = inFlight)
            /\ hidden' = [j \in Jobs |-> IF j \in JobsOf(freed) THEN 0 ELSE hidden[j]]
       /\ SetPool(b, p, seen[b], tries[b])
       /\ Goto(b, IF CanPark(p) THEN "park" ELSE "keep")
    /\ UNCHANGED <<ingest, dlq, rcv, calVars, passVars, healthVars, parkVars, kills>>

\* The session is closed, then the flag set: in between, the update's task may have given up.
Park(b) ==
    /\ pc[b] = "park"
    /\ parked' = [parked EXCEPT ![b] = TRUE]
    /\ Goto(b, "idle")
    /\ UNCHANGED <<queueVars, calVars, poolVars, passVars, healthVars, parkReq, parks, kills, faults>>

-----------------------------------------------------------------------------
(* SQS and Cal, which are not in this repository, and time.                *)

\* A message received MaxReceives times is dead-lettered instead of being delivered again.
Redrive(j) ==
    /\ j \in ingest /\ hidden[j] = 0 /\ rcv[j] = MaxReceives
    /\ ingest' = ingest \ {j} /\ dlq' = dlq \cup {j}
    /\ UNCHANGED <<hidden, rcv, calVars, poolVars, flowVars, passVars, healthVars, parkVars, kills, faults>>

\* Cal upserts the row, and acknowledges the result only after the commit.
CalCommit(j) ==
    /\ j \in results \ committed
    /\ committed' = committed \cup {j}
    /\ UNCHANGED <<queueVars, results, poolVars, flowVars, passVars, healthVars, parkVars, kills, faults>>

CalAck(j) ==
    /\ j \in results \cap committed
    /\ results' = results \ {j}
    /\ UNCHANGED <<queueVars, committed, poolVars, flowVars, passVars, healthVars, parkVars, kills, faults>>

\* A phase, a pass and a wait each take so many ticks at most; a parked or rebooting board none.
TicksIn(s) == CASE Stage(s) = "phase" -> PhaseTicks
                [] s = "embed"        -> PassTicks
                [] OTHER              -> IdleTicks

Fewer(n) == IF n = 0 THEN 0 ELSE n - 1

Tick ==
    /\ \E j \in Jobs : hidden[j] > 0
    /\ \A b \in Boards : pc[b] = "down" \/ parked[b] \/ lag[b] < TicksIn(pc[b])
    /\ hidden' = [j \in Jobs |-> Fewer(hidden[j])]
    /\ seen' = [b \in Boards |-> [r \in Receipt |-> Fewer(seen[b][r])]]
    /\ lag' = [b \in Boards |-> IF pc[b] = "down" \/ parked[b] THEN lag[b] ELSE lag[b] + 1]
    /\ UNCHANGED <<ingest, dlq, rcv, calVars, pool, tries, pc, passVars, healthVars, parkVars, kills, faults>>

-----------------------------------------------------------------------------

BoardStep(b) ==
    \/ NetBegin(b) \/ Send(b) \/ Delete(b) \/ Receive(b) \/ ReceiveDone(b) \/ Extend(b)
    \/ PassGood(b) \/ PassBad(b) \/ PassSkipped(b) \/ PassCrashes(b)
    \/ Release(b) \/ Park(b) \/ Boot(b)

Queues == \E j \in Jobs : Redrive(j) \/ CalCommit(j) \/ CalAck(j)

Next ==
    \/ \E b \in Boards : BoardStep(b) \/ HealthCheck(b) \/ Crash(b) \/ RequestPark(b) \/ Resume(b)
    \/ Queues
    \/ Tick

Spec == Init /\ [][Next]_vars

(***************************************************************************)
(* A board's task keeps stepping, SQS and Cal keep working and time keeps  *)
(* passing.  A receive is only strongly fair: SQS hands out a visible      *)
(* message to somebody who keeps asking, not at the first request.         *)
(***************************************************************************)
Fairness ==
    /\ \A b \in Boards : WF_vars(BoardStep(b)) /\ SF_vars(Receive(b))
    /\ \A j \in Jobs : WF_vars(Redrive(j)) /\ WF_vars(CalCommit(j)) /\ WF_vars(CalAck(j))
    /\ WF_vars(Tick)

FairSpec == Spec /\ Fairness

-----------------------------------------------------------------------------
(* Properties.                                                             *)

\* The durable places that hold job j.
Copies(j) ==
    (IF j \in ingest THEN {"ingest"} ELSE {}) \cup (IF j \in dlq THEN {"dlq"} ELSE {})
    \cup (IF j \in results THEN {"results"} ELSE {})
    \cup (IF j \in committed THEN {"row"} ELSE {})

Delivery == INSTANCE JobDelivery WITH copies <- [j \in Jobs |-> Copies(j)]

\* worker.h:3-4: a job is always in at least one durable queue until Cal commits its row, through
\* crashes, lost answers, stale receipts, updates and a second board holding the same job.
NoJobLost == \A j \in Jobs : Copies(j) # {}

\* Every step of the boards, the queues and Cal is a step of the delivery they promise together:
\* an ingest message is deleted only after its result was accepted, a row never goes away.
ImplementsDelivery == Delivery!Spec

\* A job in a pass cannot be received by anyone else until the pass is over (README, "Visibility":
\* "so a job can't come back to someone else mid-pass"): the extension before the pass outlasts it,
\* and what could not be extended, or had gone stale, is not in it.
ExclusivePass ==
    \A b \in Boards : pc[b] = "embed" =>
        \A r \in picked[b] : r[1] \in ingest => InFlight(r)

\* Nothing but a failure, a job that crashes boards or an update makes a job come round again: a
\* healthy worker's extensions keep ahead of its own waits and passes.  (A job it can never hand on,
\* "invalid" or "oversize", is meant to come round until it is dead-lettered.)
RedeliveredOnlyAfterTrouble ==
    faults = 0 /\ parks = 0 /\ (\A j \in Jobs : kills[j] = 0) =>
        \A j \in Jobs : Kind[j] \in {"plain", "cal"} => rcv[j] <= 1

\* A job that crashes every board it is embedded on does so once per delivery before its
\* RetriesReceive-th, however the boards restart: it cannot keep the fleet in a crash loop.
CrashesBounded == \A j \in Jobs : kills[j] < RetriesReceive

\* A worker parked for an update holds nothing (README, "Updates": "no job is held through an
\* update"), and starts nothing.
ParkedHoldsNothing ==
    \A b \in Boards : parked[b] => Held(pool[b]) = {} /\ pc[b] \in {"idle", "down"}

\* Every job ends as a row or as a dead letter: boards that fail come back, and every failure that
\* stops a board for good is bounded.
EveryJobSettles == \A j \in Jobs : <>(j \in committed \cup dlq)

\* Every job Kata or Cal can read ends as a row, neither dead-lettered nor stuck: the receives that
\* crashes and lost answers cost it leave enough for it to be handed on unembedded.  (It needs as
\* many spare receives as there are failures.)
EveryReadableJobCommits ==
    \A j \in Jobs : Kind[j] \in {"plain", "cal"} => <>(j \in committed)

\* worker.h:36 and kata_worker.h, "The update failed: back to work": a worker is parked only while
\* an update asks for it.
ParkedOnlyWhenAsked == \A b \in Boards : parked[b] => parkReq[b]
=============================================================================
