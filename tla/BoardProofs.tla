----------------------------- MODULE BoardProofs -----------------------------
(***************************************************************************)
(* What PhaseGate promises for any set of tasks that run phases, that a    *)
(* whole Board, restarts included, keeps to it, and that its watchdogs     *)
(* restart nobody who moves within the limits.                             *)
(***************************************************************************)
EXTENDS Board, TLAPS

InNet(t) == at[t] \in {"net", "begun", "tls"}

\* Who is in a phase has net_mx, who is past the gate's wait has the gate, and a session shows in
\* in_phase: it is what net_begin and metrics look at.
Places ==
    /\ \A t \in Phased : at[t] \in {"out", "wants", "net", "begun", "tls"}
    /\ \A g \in Gated : at[g] \in {"out", "gated", "busy"}
Holders ==
    /\ \A t \in Phased : InNet(t) => netMx = t
    /\ \A g \in Gated : at[g] # "out" => gate = g
Shown == \A t \in Phased : InSession(t) => inPhase
GateInv == GateTypeOK /\ Places /\ Holders /\ Shown /\ NoPostInPhase

LEMMA GateInvInit == GateInit => GateInv
  BY GateAssumption DEF GateInit, GateInv, GateTypeOK, Places, Holders, Shown, NoPostInPhase, InNet,
                        InSession, Tasks, Gated

\* A step of a phase.
LEMMA GateInvPhase ==
  ASSUME GateInv, NEW t \in Phased, Phase(t)
  PROVE  GateInv'
<1> USE GateAssumption DEF GateInv, GateTypeOK, Places, Holders, Shown, NoPostInPhase, InNet, InSession,
                           Goes, Tasks, Gated
<1>1. CASE WantsPhase(t)
  BY <1>1 DEF WantsPhase
<1>2. CASE TakesNet(t)
  BY <1>2 DEF TakesNet
<1>3. CASE PassesGate(t)
  BY <1>3 DEF PassesGate
<1>4. CASE GateWaitRunsOut(t)
  BY <1>4 DEF GateWaitRunsOut
<1>5. CASE PhaseRefused(t)
  BY <1>5 DEF PhaseRefused
<1>6. CASE PhaseRuns(t)
  BY <1>6 DEF PhaseRuns
<1>7. CASE net_end(t)
  BY <1>7 DEF net_end
<1>8. QED
  BY <1>1, <1>2, <1>3, <1>4, <1>5, <1>6, <1>7 DEF Phase, GivesUp

\* Taking and giving back the gate, a reply and a POST.
LEMMA GateInvServe ==
  ASSUME GateInv, \/ \E g \in Gated : Serve(g)
                  \/ Replies \/ Posts
  PROVE  GateInv'
<1> USE GateAssumption DEF GateInv, GateTypeOK, Places, Holders, Shown, NoPostInPhase, InNet, InSession,
                           Goes, Tasks, Gated
<1>1. ASSUME NEW g \in Gated, kata_worker_gate(g)
      PROVE  GateInv'
  BY <1>1 DEF kata_worker_gate
<1>2. ASSUME NEW g \in Gated, kata_worker_ungate(g)
      PROVE  GateInv'
  BY <1>2 DEF kata_worker_ungate
<1>3. CASE Replies
  BY <1>3 DEF Replies
<1>4. CASE Posts
  BY <1>4 DEF Posts
<1>5. QED
  BY <1>1, <1>2, <1>3, <1>4 DEF Serve

LEMMA GateInvStep == GateInv /\ [GateNext]_gateVars => GateInv'
<1> SUFFICES ASSUME GateInv, [GateNext]_gateVars
             PROVE  GateInv'
  OBVIOUS
<1>1. CASE \E t \in Phased : Phase(t)
  BY <1>1, GateInvPhase
<1>2. CASE \E g \in Gated : Serve(g)
  BY <1>2, GateInvServe
<1>3. CASE Replies \/ Posts
  BY <1>3, GateInvServe
<1>4. CASE GateRestarts
  BY <1>4, GateAssumption DEF GateRestarts, GateInv, GateTypeOK, Places, Holders, Shown, NoPostInPhase,
                              InNet, InSession, Tasks, Gated
<1>5. CASE UNCHANGED gateVars
  BY <1>5 DEF gateVars, GateInv, GateTypeOK, Places, Holders, Shown, NoPostInPhase, InNet, InSession
<1>6. QED
  BY <1>1, <1>2, <1>3, <1>4, <1>5 DEF GateNext

LEMMA GateInvHolds == GateSpec => []GateInv
  BY GateInvInit, GateInvStep, PTL DEF GateSpec

\* Whoever is in a session has net_mx, so there is one.
LEMMA OneSessionFollows == GateInv => OneSession
  BY DEF GateInv, Holders, InNet, OneSession, InSession

\* A session begins only by net_begin, which found the gate free.
LEMMA StartsUngated ==
  ASSUME GateInv, [GateNext]_gateVars, gate # Nobody, NEW t \in Phased, InSession(t)'
  PROVE  InSession(t)
<1> USE GateAssumption DEF GateInv, GateTypeOK, InSession, Goes, Tasks, Gated
<1>1. ASSUME NEW s \in Phased, Phase(s)
      PROVE  InSession(t)
  BY <1>1 DEF Phase, GivesUp, WantsPhase, TakesNet, PassesGate, GateWaitRunsOut, PhaseRefused, PhaseRuns, net_end
<1>2. ASSUME NEW g \in Gated, Serve(g)
      PROVE  InSession(t)
  BY <1>2 DEF Serve, kata_worker_gate, kata_worker_ungate
<1>3. CASE Replies \/ Posts
  BY <1>3 DEF Replies, Posts
<1>4. CASE GateRestarts
  BY <1>4 DEF GateRestarts
<1>5. CASE UNCHANGED gateVars
  BY <1>5 DEF gateVars
<1>6. QED
  BY <1>1, <1>2, <1>3, <1>4, <1>5 DEF GateNext

-----------------------------------------------------------------------------
(* The whole board.                                                         *)

\* Every step of a board is a step of the gate, or leaves it alone.
LEMMA BoardStepsGate == [Next]_vars => [GateNext]_gateVars
<1> SUFFICES ASSUME [Next]_vars
             PROVE  [GateNext]_gateVars
  OBVIOUS
<1> USE BoardAssumption DEF GateNext, Phase
<1>1. CASE MainStep
  <2>1. CASE Boots
    BY <2>1 DEF Boots, Resets
  <2>2. CASE net_up \/ Greeted
    BY <2>2 DEF net_up, Greeted
  <2>3. CASE kata_worker_hello \/ Controls
    BY <2>3 DEF kata_worker_hello, Controls, gateVars
  <2>4. CASE SelfTest
    BY <2>4 DEF SelfTest, Panics, Resets
  <2>5. CASE StepBegins \/ Checks
    BY <2>5 DEF StepBegins, Checks, AsksPhase, Panics, Resets
  <2>6. CASE PhaseDone \/ PassDone
    BY <2>6 DEF PhaseDone, PassDone, Panics, Resets
  <2>7. QED
    BY <1>1, <2>1, <2>2, <2>3, <2>4, <2>5, <2>6 DEF MainStep
<1>2. ASSUME NEW t \in Phased, PhaseStep(t)
      PROVE  [GateNext]_gateVars
  BY <1>2 DEF PhaseStep, GivesUp
<1>3. CASE kata_worker_publish \/ Serves
  BY <1>3 DEF kata_worker_publish, Serves
<1>4. CASE Minute \/ watchdog \/ TaskWatchdog
  BY <1>4 DEF Minute, watchdog, TaskWatchdog, Panics, Resets
<1>5. ASSUME NEW t \in Tasks, Hangs(t)
      PROVE  [GateNext]_gateVars
  BY <1>5 DEF Hangs
<1>6. CASE TornTick \/ TimerWedges \/ CardDies \/ Crashes \/ PowerCut
  BY <1>6 DEF TornTick, TimerWedges, CardDies, Crashes, PowerCut, Resets
<1>7. CASE UNCHANGED vars
  BY <1>7 DEF vars, gateVars
<1>8. QED
  BY <1>1, <1>2, <1>3, <1>4, <1>5, <1>6, <1>7 DEF Next

\* A board, its boot, its worker, its watchdogs and its restarts, keeps to PhaseGate (net_begin, net_end
\* and kata_worker_gate are all it touches the two mutexes with).
THEOREM BoardImplementsGate == Spec => GateSpec
<1>1. Init => GateInit
  BY DEF Init
<1>2. QED
  BY <1>1, BoardStepsGate, PTL DEF Spec, GateSpec

\* One TLS session at a time on a board, for any bounds on its time and its failures.
THEOREM BoardOneSession == Spec => []OneSession
  BY BoardImplementsGate, GateInvHolds, OneSessionFollows, PTL

\* No POST overlaps a phase: metrics looks at in_phase once, and keeps the gate until it is done.
THEOREM BoardNoPostInPhase == Spec => []NoPostInPhase
<1>1. GateInv => NoPostInPhase
  BY DEF GateInv
<1>2. QED
  BY <1>1, BoardImplementsGate, GateInvHolds, PTL

\* While statusd or metrics has the gate no phase starts on the board.
THEOREM BoardPhasesStartUngated == Spec => PhasesStartUngated
<1>1. GateInv /\ [GateNext]_gateVars => [gate # Nobody => \A t \in Phased : InSession(t)' => InSession(t)]_gateVars
  <2> SUFFICES ASSUME GateInv, [GateNext]_gateVars
                PROVE  gate # Nobody => \A t \in Phased : InSession(t)' => InSession(t)
    BY DEF gateVars
  <2>1. QED
    BY StartsUngated
<1>2. QED
  BY <1>1, BoardImplementsGate, GateInvHolds, PTL DEF PhasesStartUngated, GateSpec

-----------------------------------------------------------------------------
(* The watchdogs.  A step is a check, the wait for the other task's phase, *)
(* a phase and a pass; a round of the loop is a wait and a step.  While    *)
(* nothing hangs each part keeps to its limit, so the two ages the         *)
(* watchdog looks at are never more than the parts done so far.            *)

Owner == netMx # Nobody => InNet(netMx)

\* A phase asked for in a step is under way or still wanted.
Asked == main = "phase" => at[Main] # "out"

\* What a phase that main asked for has taken so far, the wait for an update's phase included.
Waited == IF InNet(Main) THEN PhaseLimit + netFor
          ELSE IF InNet(Ota) THEN netFor
          ELSE IF at[Ota] = "wants" THEN 0 ELSE PhaseLimit

InTime ==
    /\ main = "loop" => busy <= WaitLimit
    /\ main = "check" => busy <= CheckLimit
    /\ main = "pass" => busy <= PassLimit
    /\ main \notin {"loop", "check", "pass"} => busy = 0
    /\ netMx # Nobody => netFor <= PhaseLimit

\* The longest the step under way can have taken.
InStep == CASE main = "check" -> busy
            [] main = "phase" -> CheckLimit + Waited
            [] main = "ran"   -> CheckLimit + PhaseLimit + PhaseLimit
            [] main = "pass"  -> CheckLimit + PhaseLimit + PhaseLimit + busy
            [] main = "loop"  -> CheckLimit + PhaseLimit + PhaseLimit + PassLimit
            [] OTHER          -> 0
\* The same for the round under way, the wait before the step included.
InRound == CASE main = "loop"  -> busy
             [] main = "check" -> WaitLimit + busy
             [] main = "phase" -> WaitLimit + CheckLimit + Waited
             [] main = "ran"   -> WaitLimit + CheckLimit + PhaseLimit + PhaseLimit
             [] OTHER          -> 0
\* The round that a failure may have cost.
Failed == IF faults = 0 THEN 0 ELSE WaitLimit + CheckLimit + PhaseLimit + PhaseLimit

Ages ==
    /\ sinceTick <= InStep
    /\ stalled <= IF main = "pass" THEN busy ELSE Failed + InRound

ClockTypes ==
    /\ {sinceTick, stalled, busy, netFor, faults} \subseteq Nat
    /\ main \in {"start", "joins", "hello", "greets", "test", "control", "off",
                 "loop", "check", "phase", "ran", "pass"}

Lively == hung = {} /\ faults <= 1
AgeInv == GateInv /\ Owner /\ Asked /\ ClockTypes /\ (Lively => InTime /\ Ages)
AgeRest == Asked /\ ClockTypes /\ (Lively => InTime /\ Ages)

LEMMA Limits ==
  /\ {StallLimit, PhaseLimit, PassLimit, CheckLimit, WaitLimit, MaxFaults, WatchdogLimit, GuardStale} \subseteq Nat
  /\ Main \in Phased /\ Ota \in Phased /\ Main # Ota
BY BoardAssumption

LEMMA OwnerStep ==
  ASSUME GateInv, Owner, [GateNext]_gateVars
  PROVE  Owner'
<1> USE GateAssumption DEF GateInv, GateTypeOK, Places, Holders, InNet, Owner, Goes, Tasks, Gated
<1>1. ASSUME NEW t \in Phased, Phase(t)
      PROVE  Owner'
  BY <1>1 DEF Phase, GivesUp, WantsPhase, TakesNet, PassesGate, GateWaitRunsOut, PhaseRefused, PhaseRuns, net_end
<1>2. ASSUME NEW g \in Gated, Serve(g)
      PROVE  Owner'
  BY <1>2 DEF Serve, kata_worker_gate, kata_worker_ungate
<1>3. CASE Replies \/ Posts
  BY <1>3 DEF Replies, Posts
<1>4. CASE GateRestarts
  BY <1>4 DEF GateRestarts
<1>5. CASE UNCHANGED gateVars
  BY <1>5 DEF gateVars
<1>6. QED
  BY <1>1, <1>2, <1>3, <1>4, <1>5 DEF GateNext

\* A restart starts every count again.
LEMMA ResetAges ==
  ASSUME AgeInv, NEW why, Resets(why), faults' \in Nat
  PROVE  AgeRest'
<1>1. Asked' /\ ClockTypes'
  BY DEF Resets, Asked, ClockTypes
<1>2. InTime'
  BY Limits DEF Resets, GateRestarts, InTime
<1>3. InStep' = 0 /\ Failed' + InRound' \in Nat
  BY Limits DEF Resets, InStep, InRound, Failed
<1>4. sinceTick' = 0 /\ stalled' = 0 /\ main' # "pass"
  BY DEF Resets
<1>5. Ages'
  BY <1>3, <1>4 DEF Ages
<1>6. QED
  BY <1>1, <1>2, <1>5 DEF AgeRest

Counting == {"check", "phase", "ran", "pass"}

\* Before the worker's loop no time is counted, and a failure only allows more of it.
LEMMA BootStepAges ==
  ASSUME AgeInv, ~Running, ClockTypes', main' \notin Counting,
         UNCHANGED <<hung, sinceTick, stalled, busy, netFor, netMx>>,
         faults' = faults \/ faults' = faults + 1
  PROVE  AgeRest'
<1> USE DEF AgeInv, ClockTypes
<1>1. Asked'
  BY DEF Asked, Counting
<1>2. SUFFICES ASSUME Lively'
               PROVE  InTime' /\ Ages'
  BY <1>1 DEF AgeRest
<1>3. Lively
  BY <1>2 DEF Lively
<1>4. busy = 0 /\ (netMx # Nobody => netFor <= PhaseLimit)
  BY <1>3 DEF InTime, Running
<1>5. InTime'
  BY <1>4, Limits DEF InTime
<1>6. InStep = 0 /\ InRound = 0 /\ main # "pass"
  BY DEF InStep, InRound, Running
<1>7. sinceTick = 0 /\ stalled <= Failed
  BY <1>3, <1>6, Limits DEF Ages, Failed
<1>8. InStep' \in Nat /\ InRound' = 0 /\ main' # "pass"
  BY <1>4, Limits DEF InStep, InRound, Counting
<1>9. Failed \in Nat /\ Failed' \in Nat /\ Failed <= Failed'
  BY Limits DEF Failed
<1>10. Ages'
  BY <1>7, <1>8, <1>9 DEF Ages
<1>11. QED
  BY <1>5, <1>10

LEMMA CleanFaults ==
  ASSUME NEW ok, Faulty(ok)
  PROVE  faults' = faults \/ faults' = faults + 1
BY DEF Faulty

LEMMA BootAges ==
  ASSUME AgeInv, Boots \/ net_up \/ kata_worker_hello \/ Greeted \/ SelfTest \/ Controls
  PROVE  AgeRest'
<1> USE DEF AgeInv
<1>1. ASSUME NEW why, Resets(why), UNCHANGED faults
      PROVE  AgeRest'
  BY <1>1, ResetAges DEF ClockTypes
<1>2. ~Running
  BY DEF Boots, net_up, kata_worker_hello, Greeted, SelfTest, Controls, Running
<1>3. \/ \E why : Resets(why) /\ UNCHANGED faults
      \/ /\ UNCHANGED <<hung, sinceTick, stalled, busy, netFor, netMx>>
         /\ main' \in {"joins", "hello", "greets", "test", "loop", "control", "off"}
         /\ faults' = faults \/ faults' = faults + 1
  <2>1. CASE Boots
    BY <2>1, CleanFaults DEF Boots, Clean, gateVars, taskVars, workVars, clockVars, tookVars
  <2>2. CASE net_up \/ Greeted
    BY <2>2, CleanFaults DEF net_up, Greeted, Clean, gateVars, taskVars, workVars, clockVars, tookVars
  <2>3. CASE kata_worker_hello \/ Controls
    BY <2>3, CleanFaults
    DEF kata_worker_hello, Controls, WantsPhase, Clean, gateVars, taskVars, workVars, clockVars, tookVars
  <2>4. CASE SelfTest
    BY <2>4, CleanFaults
    DEF SelfTest, Panics, WorkerStarts, Clean, gateVars, taskVars, workVars, clockVars, tookVars
  <2>5. QED
    BY <2>1, <2>2, <2>3, <2>4
<1>4. QED
  BY <1>1, <1>2, <1>3, BootStepAges DEF ClockTypes, Counting

-----------------------------------------------------------------------------
(* The loop.                                                                *)

LEMMA StepBeginsAges ==
  ASSUME AgeInv, StepBegins
  PROVE  AgeRest'
<1> USE DEF AgeInv, ClockTypes
<1>1. /\ main = "loop" /\ main' \in {"phase", "check"} /\ sinceTick' = 0 /\ busy' = 0
      /\ UNCHANGED <<hung, stalled, netFor, netMx, faults>>
  BY DEF StepBegins, AsksPhase, WantsPhase, gateVars, taskVars, workVars, tookVars
<1>2. main' = "phase" => at'[Main] = "wants" /\ \A t \in Phased \ {Main} : at'[t] = at[t]
  BY <1>1, Limits DEF StepBegins, AsksPhase, WantsPhase, Goes, GateInv, GateTypeOK, Tasks
<1>3. Asked' /\ ClockTypes'
  BY <1>1, <1>2 DEF Asked
<1>4. SUFFICES ASSUME Lively
               PROVE  InTime' /\ Ages'
  BY <1>1, <1>3 DEF AgeRest, Lively
<1>5. busy <= WaitLimit /\ stalled <= Failed + busy /\ (netMx # Nobody => netFor <= PhaseLimit)
  BY <1>1, <1>4 DEF InTime, Ages, InRound
<1>6. InTime'
  BY <1>1, <1>5, Limits DEF InTime
<1>7. Waited' \in Nat
  BY <1>1, Limits DEF Waited
<1>8. InStep' \in Nat /\ InRound' \in Nat /\ WaitLimit <= InRound'
  BY <1>1, <1>7, Limits DEF InStep, InRound
<1>9. Failed' = Failed /\ Failed \in Nat
  BY <1>1, Limits DEF Failed
<1>10. Ages'
  BY <1>1, <1>5, <1>8, <1>9, Limits DEF Ages
<1>11. QED
  BY <1>6, <1>10

LEMMA ChecksAges ==
  ASSUME AgeInv, Checks
  PROVE  AgeRest'
<1> USE DEF AgeInv, ClockTypes
<1>1. CASE card = "dead"
  BY <1>1, ResetAges DEF Checks, Panics
<1>2. CASE card # "dead"
  <2>1. /\ main = "check" /\ main' = "phase" /\ busy' = 0
        /\ UNCHANGED <<hung, sinceTick, stalled, netFor, netMx, faults>>
    BY <1>2 DEF Checks, AsksPhase, WantsPhase, gateVars, taskVars, workVars, tookVars, clockVars
  <2>2. at'[Main] = "wants"
    BY <1>2, Limits DEF Checks, AsksPhase, WantsPhase, Goes, GateInv, GateTypeOK, Tasks
  <2>3. Asked' /\ ClockTypes'
    BY <2>1, <2>2 DEF Asked
  <2>4. SUFFICES ASSUME Lively
                 PROVE  InTime' /\ Ages'
    BY <2>1, <2>3 DEF AgeRest, Lively
  <2>5. /\ busy <= CheckLimit /\ sinceTick <= busy /\ stalled <= Failed + (WaitLimit + busy)
        /\ netMx # Nobody => netFor <= PhaseLimit
    BY <2>1, <2>4 DEF InTime, Ages, InStep, InRound
  <2>6. InTime'
    BY <2>1, <2>5, Limits DEF InTime
  <2>7. Waited' \in Nat
    BY <2>1, Limits DEF Waited
  <2>8. InStep' = CheckLimit + Waited' /\ InRound' = WaitLimit + CheckLimit + Waited'
    BY <2>1 DEF InStep, InRound
  <2>9. Failed' = Failed /\ Failed \in Nat
    BY <2>1, Limits DEF Failed
  <2>10. Ages'
    BY <2>1, <2>5, <2>7, <2>8, <2>9, Limits DEF Ages
  <2>11. QED
    BY <2>6, <2>10
<1>3. QED
  BY <1>1, <1>2

\* A phase that moved nothing on is the one failure a lively board has; what follows is a new round.
LEMMA PhaseDoneAges ==
  ASSUME AgeInv, PhaseDone
  PROVE  AgeRest'
<1> USE DEF AgeInv, ClockTypes
<1>1. PICK on \in BOOLEAN :
        /\ main = "ran" /\ Clean(on) /\ busy' = 0
        /\ stalled' = IF on THEN 0 ELSE stalled
        /\ main' = "loop" \/ (on /\ main' = "pass")
        /\ UNCHANGED <<hung, sinceTick, netFor, netMx>>
  BY DEF PhaseDone, gateVars, taskVars, clockVars
<1>2. faults' = IF on THEN faults ELSE faults + 1
  BY <1>1 DEF Clean, Faulty
<1>3. Asked' /\ ClockTypes'
  BY <1>1, <1>2 DEF Asked
<1>4. SUFFICES ASSUME Lively'
               PROVE  InTime' /\ Ages'
  BY <1>3 DEF AgeRest
<1>5. Lively /\ (~on => faults = 0 /\ faults' = 1)
  BY <1>1, <1>2, <1>4 DEF Lively
<1>6. /\ sinceTick <= CheckLimit + PhaseLimit + PhaseLimit
      /\ stalled <= Failed + (WaitLimit + CheckLimit + PhaseLimit + PhaseLimit)
      /\ netMx # Nobody => netFor <= PhaseLimit
  BY <1>1, <1>5 DEF InTime, Ages, InStep, InRound
<1>7. InTime'
  BY <1>1, <1>6, Limits DEF InTime
<1>8. InStep' \in Nat /\ CheckLimit + PhaseLimit + PhaseLimit <= InStep'
  BY <1>1, Limits DEF InStep
<1>9. main' = "loop" => InRound' = 0
  BY <1>1 DEF InRound
<1>10. Failed' \in Nat
  BY <1>3, Limits DEF Failed
<1>11. ~on => stalled' <= Failed'
  BY <1>1, <1>5, <1>6, Limits DEF Failed
<1>12. Ages'
  BY <1>1, <1>6, <1>8, <1>9, <1>10, <1>11, Limits DEF Ages
<1>13. QED
  BY <1>7, <1>12

LEMMA PassDoneAges ==
  ASSUME AgeInv, PassDone
  PROVE  AgeRest'
<1> USE DEF AgeInv, ClockTypes
<1>1. CASE card = "dead"
  BY <1>1, ResetAges DEF PassDone, Panics
<1>2. CASE card # "dead"
  <2>1. /\ main = "pass" /\ main' = "loop" /\ busy' = 0 /\ stalled' = 0
        /\ UNCHANGED <<hung, sinceTick, netFor, netMx, faults>>
    BY <1>2 DEF PassDone, gateVars, taskVars, clockVars
  <2>2. Asked' /\ ClockTypes'
    BY <2>1 DEF Asked
  <2>3. SUFFICES ASSUME Lively
                 PROVE  InTime' /\ Ages'
    BY <2>1, <2>2 DEF AgeRest, Lively
  <2>4. /\ busy <= PassLimit /\ sinceTick <= CheckLimit + PhaseLimit + PhaseLimit + busy
        /\ netMx # Nobody => netFor <= PhaseLimit
    BY <2>1, <2>3 DEF InTime, Ages, InStep
  <2>5. InTime'
    BY <2>1, <2>4, Limits DEF InTime
  <2>6. InStep' = CheckLimit + PhaseLimit + PhaseLimit + PassLimit /\ InRound' = 0
    BY <2>1 DEF InStep, InRound
  <2>7. Failed' + InRound' \in Nat
    BY <2>1, <2>6, Limits DEF Failed
  <2>8. Ages'
    BY <2>1, <2>4, <2>6, <2>7, Limits DEF Ages
  <2>9. QED
    BY <2>5, <2>8
<1>3. QED
  BY <1>1, <1>2

-----------------------------------------------------------------------------
(* Phases, time and what goes wrong.                                        *)

\* The facts that the steps of a phase use: whose net_mx it is, and where its task is.
LEMMA PhasePlaces ==
  ASSUME AgeInv
  PROVE  /\ at \in [Tasks -> {"out", "wants", "net", "begun", "tls", "gated", "busy"}]
         /\ Main \in Tasks /\ Ota \in Tasks
         /\ \A t \in Phased : InNet(t) <=> netMx = t
         /\ gate \in Gated \cup {Nobody} /\ Gated \subseteq Tasks
         /\ Nobody \notin Phased
BY Limits, GateAssumption DEF AgeInv, GateInv, GateTypeOK, Holders, Owner, Tasks, Gated

\* Nobody is at a reply for longer than a phase waits, while nothing hangs.
LEMMA PhaseStepAges ==
  ASSUME AgeInv, NEW t \in Phased, PhaseStep(t)
  PROVE  AgeRest'
<1> USE DEF AgeInv, ClockTypes
<1>0. t \in Tasks /\ Main \in Tasks
  BY Limits DEF Tasks
<1>1. UNCHANGED <<hung, sinceTick, stalled, busy>>
  BY DEF PhaseStep, taskVars, workVars, clockVars
<1>2. CASE TakesNet(t)
  <2>1. netFor' = 0 /\ UNCHANGED <<main, faults>>
    BY <1>2, PhasePlaces DEF PhaseStep, TakesNet, PassesGate, PhaseRuns, GateWaitRunsOut, PhaseRefused, net_end
  <2>2. netMx = Nobody /\ netMx' = t /\ at[t] = "wants" /\ at' = [at EXCEPT ![t] = "net"]
    BY <1>2 DEF TakesNet, Goes
  <2>3. ~InNet(Main) /\ ~InNet(Ota)
    BY <2>2, PhasePlaces, Limits
  <2>4. Asked' /\ ClockTypes'
    <3>1. at'[Main] # "out" \/ at'[Main] = at[Main]
      BY <1>0, <2>2, PhasePlaces
    <3>2. Asked'
      BY <2>1, <3>1 DEF Asked
    <3>3. ClockTypes'
      BY <1>1, <2>1
    <3>4. QED
      BY <3>2, <3>3
  <2>5. SUFFICES ASSUME Lively
                 PROVE  InTime' /\ Ages'
    BY <1>1, <2>1, <2>4 DEF AgeRest, Lively
  <2>6. InTime /\ Ages
    BY <2>5
  <2>7. InTime'
    BY <1>1, <2>1, <2>6, Limits DEF InTime
  <2>8. Waited' \in Nat /\ Waited \in Nat /\ Waited <= Waited'
    <3>1. CASE t = Main
      <4>1. InNet(Main)'
        BY <2>2, <3>1, PhasePlaces DEF InNet
      <4>2. QED
        BY <2>1, <2>3, <4>1, Limits DEF Waited
    <3>2. CASE t = Ota
      <4>1. InNet(Ota)' /\ ~InNet(Main)'
        BY <2>2, <2>3, <3>2, PhasePlaces, Limits DEF InNet
      <4>2. QED
        BY <2>1, <2>2, <2>3, <3>2, <4>1, Limits DEF Waited
    <3>3. QED
      BY <3>1, <3>2, BoardAssumption
  <2>9. InStep <= InStep' /\ InRound <= InRound' /\ InStep \in Nat /\ InStep' \in Nat
        /\ InRound \in Nat /\ InRound' \in Nat
    BY <1>1, <2>1, <2>8, Limits DEF InStep, InRound
  <2>10. Failed' = Failed /\ Failed \in Nat
    BY <2>1, Limits DEF Failed
  <2>11. Ages'
    BY <1>1, <2>1, <2>6, <2>9, <2>10, Limits DEF Ages
  <2>12. QED
    BY <2>7, <2>11
<1>3. CASE PassesGate(t) \/ PhaseRuns(t)
  <2>1. UNCHANGED <<main, netFor, faults, netMx>>
    <3>1. at[t] \in {"net", "begun"} /\ at'[t] # "out" /\ netMx' = netMx /\ ~GateWaitRunsOut(t)
      BY <1>0, <1>3, PhasePlaces DEF PassesGate, PhaseRuns, GateWaitRunsOut, Goes
    <3>2. ~TakesNet(t) /\ ~PhaseRefused(t) /\ ~net_end(t)
      BY <1>0, <3>1, PhasePlaces DEF TakesNet, PhaseRefused, net_end, Goes
    <3>3. QED
      BY <3>1, <3>2 DEF PhaseStep
  <2>2. \A s \in Phased : InNet(s)' = InNet(s) /\ (s # t => at'[s] = at[s])
    BY <1>3, PhasePlaces DEF PassesGate, PhaseRuns, Goes, InNet, Tasks
  <2>3. InNet(t)
    BY <1>3 DEF PassesGate, PhaseRuns, InNet
  <2>4. InNet(t)'
    BY <2>2, <2>3
  <2>5. Asked' /\ ClockTypes'
    <3>1. at'[Main] # "out" \/ at'[Main] = at[Main]
      BY <2>2, <2>4, Limits DEF InNet
    <3>2. Asked'
      BY <2>1, <3>1 DEF Asked
    <3>3. ClockTypes'
      BY <1>1, <2>1
    <3>4. QED
      BY <3>2, <3>3
  <2>6. Waited' = Waited
    BY <2>1, <2>2, <2>3, PhasePlaces, Limits DEF Waited
  <2>7. InTime' = InTime /\ Ages' = Ages /\ Lively' = Lively
    BY <1>1, <2>1, <2>6 DEF InTime, Ages, InStep, InRound, Failed, Lively
  <2>8. QED
    BY <2>5, <2>7 DEF AgeRest
<1>4. CASE GateWaitRunsOut(t) \/ PhaseRefused(t) \/ net_end(t)
  <2>1. /\ InNet(t) /\ netMx = t /\ netMx' = Nobody
        /\ at' = [at EXCEPT ![t] = "out"]
    BY <1>4, PhasePlaces DEF GateWaitRunsOut, PhaseRefused, net_end, Goes, InNet
  <2>2. /\ netFor' = netFor
        /\ \/ gate \in hung /\ Then(t, "loop") /\ faults' = faults
           \/ Then(t, "loop") /\ faults' = faults + 1
           \/ Then(t, "ran") /\ faults' = faults
    <3>1. at'[t] = "out"
      BY <1>0, <2>1, PhasePlaces
    <3>2. ~TakesNet(t) /\ ~PassesGate(t) /\ ~PhaseRuns(t)
      BY <1>0, <2>1, <3>1, PhasePlaces DEF TakesNet, PassesGate, PhaseRuns, Goes, InNet
    <3>3. QED
      BY <3>2 DEF PhaseStep, Clean, Faulty
  <2>3. \A s \in Phased \ {t} : at'[s] = at[s] /\ ~InNet(s)
    BY <2>1, PhasePlaces
  <2>4. at'[t] = "out"
    BY <2>1, PhasePlaces DEF Tasks
  <2>5. main' \in {main, "loop", "ran"} /\ (main' = "phase" => t # Main)
    BY <2>2 DEF Then
  <2>6. Asked' /\ ClockTypes'
    <3>1. Asked'
      BY <2>3, <2>5, Limits DEF Asked, Then
    <3>2. faults' \in Nat
      BY <2>2
    <3>3. ClockTypes'
      BY <1>1, <2>2, <2>5, <3>2
    <3>4. QED
      BY <3>1, <3>3
  <2>7. SUFFICES ASSUME Lively'
                 PROVE  InTime' /\ Ages'
    BY <2>6 DEF AgeRest
  <2>8. /\ Lively /\ InTime /\ Ages
        /\ \/ Then(t, "loop") /\ faults = 0 /\ faults' = 1
           \/ Then(t, "ran") /\ faults' = faults
    BY <1>1, <2>2, <2>7 DEF Lively
  <2>9. netFor <= PhaseLimit
    BY <2>1, <2>8, PhasePlaces DEF InTime
  <2>10. CASE t = Main /\ main = "phase"
    <3>1. Waited = PhaseLimit + netFor /\ busy = 0
      BY <2>1, <2>8, <2>10 DEF Waited, InTime
    <3>2. /\ sinceTick <= CheckLimit + PhaseLimit + netFor
          /\ stalled <= Failed + (WaitLimit + CheckLimit + PhaseLimit + netFor)
      BY <2>8, <2>10, <3>1, Limits DEF Ages, InStep, InRound
    <3>3. CASE main' = "loop" /\ faults = 0 /\ faults' = 1
      <4>1. InTime'
        BY <1>1, <2>1, <3>1, <3>3, Limits DEF InTime
      <4>2. /\ InStep' = CheckLimit + PhaseLimit + PhaseLimit + PassLimit /\ InRound' = 0
            /\ Failed = 0 /\ Failed' = WaitLimit + CheckLimit + PhaseLimit + PhaseLimit
        BY <1>1, <3>1, <3>3 DEF InStep, InRound, Failed
      <4>3. QED
        BY <1>1, <2>9, <3>2, <3>3, <4>1, <4>2, Limits DEF Ages
    <3>4. CASE main' = "ran" /\ faults' = faults
      <4>1. InTime'
        BY <1>1, <2>1, <3>1, <3>4, Limits DEF InTime
      <4>2. /\ InStep' = CheckLimit + PhaseLimit + PhaseLimit
            /\ InRound' = WaitLimit + CheckLimit + PhaseLimit + PhaseLimit
            /\ Failed' = Failed /\ Failed \in Nat
        BY <3>4, Limits DEF InStep, InRound, Failed
      <4>3. QED
        BY <1>1, <2>9, <3>2, <3>4, <4>1, <4>2, Limits DEF Ages
    <3>5. QED
      BY <2>8, <2>10, <3>3, <3>4 DEF Then
  <2>11. CASE ~(t = Main /\ main = "phase")
    <3>1. main' = main
      BY <2>2, <2>11 DEF Then
    <3>2. InTime'
      BY <1>1, <2>1, <2>8, <3>1 DEF InTime
    <3>3. main = "phase" => Waited \in Nat /\ Waited' \in Nat /\ Waited <= Waited'
      <4>1. SUFFICES ASSUME main = "phase"
                     PROVE  Waited \in Nat /\ Waited' \in Nat /\ Waited <= Waited'
        OBVIOUS
      <4>2. t = Ota /\ ~InNet(Main) /\ InNet(Ota)
        BY <2>1, <2>3, <2>11, <4>1, BoardAssumption
      <4>3. Waited = netFor
        BY <4>2 DEF Waited
      <4>4. ~InNet(Main)' /\ ~InNet(Ota)' /\ at'[Ota] = "out"
        BY <2>3, <2>4, <4>2, Limits DEF InNet
      <4>5. Waited' = PhaseLimit
        BY <4>4 DEF Waited
      <4>6. QED
        BY <2>9, <4>3, <4>5, Limits
    <3>4. /\ InStep <= InStep' /\ InRound <= InRound' /\ InStep \in Nat /\ InStep' \in Nat
          /\ InRound \in Nat /\ InRound' \in Nat
      BY <1>1, <3>1, <3>3, Limits DEF InStep, InRound
    <3>5. Failed \in Nat /\ Failed' \in Nat /\ Failed <= Failed'
      BY <2>8, Limits DEF Failed
    <3>6. QED
      BY <1>1, <2>8, <3>1, <3>2, <3>4, <3>5, Limits DEF Ages
  <2>12. QED
    BY <2>10, <2>11
<1>5. QED
  BY <1>2, <1>3, <1>4 DEF PhaseStep

\* A phase of an update's that is asked for while main waits for its own would be one more to wait for:
\* there is none.
LEMMA PublishAges ==
  ASSUME AgeInv, kata_worker_publish
  PROVE  AgeRest'
<1> USE DEF AgeInv, ClockTypes
<1>1. UNCHANGED <<hung, sinceTick, stalled, busy, netFor, main, faults, netMx>> /\ at[Main] # "wants"
  BY DEF kata_worker_publish, WantsPhase, taskVars, workVars, clockVars, tookVars
<1>2. at' = [at EXCEPT ![Ota] = "wants"]
  BY DEF kata_worker_publish, WantsPhase, Goes
<1>3. at'[Main] = at[Main]
  BY <1>2, PhasePlaces, Limits
<1>4. Asked' /\ ClockTypes'
  BY <1>1, <1>3 DEF Asked
<1>5. main = "phase" => InNet(Main)
  BY <1>1, Limits DEF Asked, GateInv, Places, InNet
<1>6. main = "phase" => Waited' = Waited
  <2>1. InNet(Main)' = InNet(Main)
    BY <1>3 DEF InNet
  <2>2. QED
    BY <1>1, <1>5, <2>1 DEF Waited
<1>7. InTime' = InTime /\ Ages' = Ages /\ Lively' = Lively
  BY <1>1, <1>6 DEF InTime, Ages, InStep, InRound, Failed, Lively
<1>8. QED
  BY <1>4, <1>7 DEF AgeRest

\* What statusd and metrics do with the gate is nothing to main's phases.
LEMMA ServesAges ==
  ASSUME AgeInv, Serves
  PROVE  AgeRest'
<1> USE DEF AgeInv, ClockTypes
<1>1. UNCHANGED <<hung, sinceTick, stalled, busy, netFor, main, faults, netMx>>
  BY DEF Serves, Serve, kata_worker_gate, kata_worker_ungate, Replies, Posts, taskVars, workVars, clockVars, tookVars
<1>2. at'[Main] = at[Main] /\ at'[Ota] = at[Ota]
  BY PhasePlaces, Limits, GateAssumption
  DEF Serves, Serve, kata_worker_gate, kata_worker_ungate, Replies, Posts, Goes, Gated
<1>3. Asked' /\ ClockTypes'
  BY <1>1, <1>2 DEF Asked
<1>4. Waited' = Waited
  BY <1>1, <1>2 DEF Waited, InNet
<1>5. InTime' = InTime /\ Ages' = Ages /\ Lively' = Lively
  BY <1>1, <1>4 DEF InTime, Ages, InStep, InRound, Failed, Lively
<1>6. QED
  BY <1>3, <1>5 DEF AgeRest

\* A minute passes only while nothing is overdue, so each part that is under way has a minute left.
LEMMA MinuteAges ==
  ASSUME AgeInv, Minute
  PROVE  AgeRest'
<1> USE DEF AgeInv, ClockTypes
<1>1. /\ Settled /\ Running
      /\ sinceTick' = IF main = "loop" THEN 0 ELSE Older(sinceTick, WatchdogLimit)
      /\ stalled' = IF held THEN Older(stalled, StallLimit) ELSE 0
      /\ busy' = IF main \in {"loop", "check", "pass"} THEN Older(busy, WaitLimit + CheckLimit + PassLimit) ELSE 0
      /\ netFor' = IF netMx = Nobody THEN 0 ELSE Older(netFor, PhaseLimit)
      /\ UNCHANGED <<netMx, at, main, hung, faults>>
  BY DEF Minute, Ticked, gateVars, taskVars
<1>2. PhaseLimit \in Nat /\ (netFor <= PhaseLimit => Older(netFor, PhaseLimit) = netFor + 1)
  BY Limits DEF Older
<1>3. sinceTick' \in Nat /\ sinceTick' <= sinceTick + 1 /\ stalled' \in Nat /\ stalled' <= stalled + 1
  BY <1>1 DEF Older
<1>4. busy' \in Nat /\ netFor' \in Nat
  BY <1>1 DEF Older
<1>5. Asked' /\ ClockTypes'
  BY <1>1, <1>3, <1>4 DEF Asked
<1>6. SUFFICES ASSUME Lively
               PROVE  InTime' /\ Ages'
  BY <1>1, <1>5 DEF AgeRest, Lively
<1>7. InTime /\ Ages
  BY <1>6
<1>8. /\ main # "ran"
      /\ main = "loop" => busy < WaitLimit
      /\ main = "check" => busy < CheckLimit
      /\ main = "pass" => busy < PassLimit
      /\ \A t \in Phased : /\ at[t] # "net" /\ (InSession(t) => netFor < PhaseLimit)
                           /\ at[t] = "wants" => netMx # Nobody
  BY <1>1, <1>6, Limits DEF Settled, Lively, Up
<1>9. netMx # Nobody => netFor < PhaseLimit /\ netFor' = netFor + 1
  <2>1. SUFFICES ASSUME netMx # Nobody
                 PROVE  netFor < PhaseLimit /\ netFor' = netFor + 1
    OBVIOUS
  <2>2. netMx \in Phased /\ InNet(netMx)
    BY <2>1 DEF Owner, GateInv, GateTypeOK
  <2>3. InSession(netMx)
    BY <1>8, <2>2 DEF InNet, InSession
  <2>4. QED
    BY <1>1, <1>2, <1>8, <2>1, <2>2, <2>3, Limits
<1>10. main \in {"loop", "check", "pass"} => busy' = busy + 1
  BY <1>1, <1>8, Limits DEF Older
<1>11. InTime'
  BY <1>1, <1>8, <1>9, <1>10, Limits DEF InTime
<1>12. Failed' = Failed /\ Failed \in Nat
  BY <1>1, Limits DEF Failed
<1>13. CASE main = "loop"
  <2>1. InStep' \in Nat /\ InRound' = busy + 1 /\ InRound = busy
    BY <1>1, <1>10, <1>13, Limits DEF InStep, InRound
  <2>2. sinceTick' = 0
    BY <1>1, <1>13
  <2>3. QED
    BY <1>1, <1>3, <1>7, <1>11, <1>12, <1>13, <2>1, <2>2, Limits DEF Ages
<1>14. CASE main = "check"
  <2>1. InStep' = busy + 1 /\ InStep = busy /\ InRound' = WaitLimit + (busy + 1) /\ InRound = WaitLimit + busy
    BY <1>1, <1>10, <1>14, Limits DEF InStep, InRound
  <2>2. QED
    BY <1>1, <1>3, <1>7, <1>11, <1>12, <1>14, <2>1, Limits DEF Ages
<1>15. CASE main = "pass"
  <2>1. InStep' = CheckLimit + PhaseLimit + PhaseLimit + (busy + 1) /\ InStep = CheckLimit + PhaseLimit + PhaseLimit + busy
    BY <1>1, <1>10, <1>15, Limits DEF InStep
  <2>2. QED
    BY <1>1, <1>3, <1>7, <1>10, <1>11, <1>15, <2>1, Limits DEF Ages
<1>16. CASE main = "phase"
  <2>1. InNet(Main) \/ (~InNet(Main) /\ InNet(Ota))
    <3>1. SUFFICES ASSUME ~InNet(Main)
                   PROVE  InNet(Ota)
      OBVIOUS
    <3>2. at[Main] = "wants"
      BY <1>16, <3>1, Limits DEF Asked, GateInv, Places, InNet
    <3>3. netMx # Nobody /\ netMx \in {Main, Ota}
      BY <1>8, <3>2, Limits, BoardAssumption DEF GateInv, GateTypeOK
    <3>4. QED
      BY <3>1, <3>3 DEF Owner
  <2>2. netMx # Nobody
    BY <2>1, PhasePlaces, Limits
  <2>3. InNet(Main)' = InNet(Main) /\ InNet(Ota)' = InNet(Ota)
    BY <1>1 DEF InNet
  <2>4. Waited \in Nat /\ Waited' = Waited + 1
    BY <1>9, <2>1, <2>2, <2>3, Limits DEF Waited
  <2>5. /\ InStep' = CheckLimit + (Waited + 1) /\ InStep = CheckLimit + Waited
        /\ InRound' = WaitLimit + CheckLimit + (Waited + 1) /\ InRound = WaitLimit + CheckLimit + Waited
    BY <1>1, <1>16, <2>4 DEF InStep, InRound
  <2>6. QED
    BY <1>1, <1>3, <1>7, <1>11, <1>12, <1>16, <2>4, <2>5, Limits DEF Ages
<1>17. QED
  BY <1>1, <1>8, <1>13, <1>14, <1>15, <1>16 DEF Running

\* Failures that stop nothing, and the timer's own steps, leave the ages alone.
LEMMA OtherAges ==
  ASSUME AgeInv, \/ watchdog \/ TornTick \/ TaskWatchdog \/ CardDies \/ TimerWedges \/ Crashes \/ PowerCut
                 \/ \E t \in Tasks : Hangs(t)
  PROVE  AgeRest'
<1> USE DEF AgeInv, ClockTypes
<1>1. faults' = faults \/ faults' = faults + 1
  BY DEF watchdog, TornTick, TaskWatchdog, CardDies, TimerWedges, Crashes, PowerCut, Hangs, Fault, Panics
<1>2. faults' \in Nat
  BY <1>1
<1>3. \/ \E why : Resets(why)
      \/ /\ UNCHANGED <<sinceTick, stalled, busy, netFor, main, netMx, at>>
         /\ hung \subseteq hung'
  BY DEF watchdog, TornTick, TaskWatchdog, CardDies, TimerWedges, Crashes, PowerCut, Hangs, Panics,
         gateVars, taskVars, workVars, tookVars, clockVars
<1>4. CASE UNCHANGED <<sinceTick, stalled, busy, netFor, main, netMx, at>> /\ hung \subseteq hung'
  <2>1. Asked' /\ ClockTypes'
    BY <1>2, <1>4 DEF Asked
  <2>2. SUFFICES ASSUME Lively'
                 PROVE  InTime' /\ Ages'
    BY <2>1 DEF AgeRest
  <2>3. Lively /\ InTime /\ Ages
    BY <1>1, <1>4, <2>2 DEF Lively
  <2>4. InTime'
    BY <1>4, <2>3 DEF InTime
  <2>5. InStep' = InStep /\ InRound' = InRound /\ Waited \in Nat
    BY <1>4, Limits DEF InStep, InRound, Waited, InNet
  <2>6. Failed \in Nat /\ Failed' \in Nat /\ Failed <= Failed'
    BY <1>1, Limits DEF Failed
  <2>7. InRound \in Nat
    BY <2>5, Limits DEF InRound
  <2>8. Ages'
    BY <1>4, <2>3, <2>5, <2>6, <2>7, Limits DEF Ages
  <2>9. QED
    BY <2>4, <2>8
<1>5. QED
  BY <1>2, <1>3, <1>4, ResetAges

LEMMA AgeInvStep == AgeInv /\ [Next]_vars => AgeInv'
<1> SUFFICES ASSUME AgeInv, [Next]_vars
             PROVE  AgeInv'
  OBVIOUS
<1>1. GateInv' /\ Owner'
  BY BoardStepsGate, GateInvStep, OwnerStep DEF AgeInv
<1>2. AgeRest'
  <2>1. CASE UNCHANGED vars
    BY <2>1 DEF vars, gateVars, bootVars, taskVars, workVars, clockVars, tookVars, AgeRest, AgeInv, Asked,
                ClockTypes, Lively, InTime, Ages, InStep, InRound, Failed, Waited, InNet
  <2>2. QED
    BY <2>1, BootAges, StepBeginsAges, ChecksAges, PhaseDoneAges, PassDoneAges, PhaseStepAges, PublishAges,
       ServesAges, MinuteAges, OtherAges DEF Next, MainStep
<1>3. QED
  BY <1>1, <1>2 DEF AgeInv, AgeRest

LEMMA AgeInvInit == Init => AgeInv
<1> SUFFICES ASSUME Init
             PROVE  AgeInv
  OBVIOUS
<1>1. GateInv /\ Owner
  BY GateInvInit DEF Init, GateInit, Owner
<1>2. Asked /\ ClockTypes /\ InTime
  BY Limits DEF Init, GateInit, Asked, ClockTypes, InTime
<1>3. InStep = 0 /\ Failed + InRound = 0 /\ main # "pass"
  BY DEF Init, InStep, InRound, Failed
<1>4. Ages
  BY <1>3 DEF Init, Ages
<1>5. QED
  BY <1>1, <1>2, <1>4 DEF AgeInv

\* Inside a lively step neither watchdog limit is reached.
LEMMA AgesWithinLimits ==
  ASSUME AgeInv, Lively
  PROVE  sinceTick <= WatchdogLimit /\ stalled <= StallLimit
<1> USE DEF AgeInv, ClockTypes
<1>1. InTime /\ Ages
  OBVIOUS
<1>2. main = "phase" => Waited \in Nat /\ Waited <= PhaseLimit + PhaseLimit
  BY <1>1, PhasePlaces, Limits DEF InTime, Waited
<1>3. InStep \in Nat /\ InStep <= CheckLimit + PhaseLimit + PhaseLimit + PassLimit
  BY <1>1, <1>2, Limits DEF InStep, InTime
<1>4. InRound \in Nat /\ InRound <= WaitLimit + CheckLimit + PhaseLimit + PhaseLimit
  BY <1>1, <1>2, Limits DEF InRound, InTime
<1>5. Failed \in Nat /\ Failed <= WaitLimit + CheckLimit + PhaseLimit + PhaseLimit
  BY Limits DEF Failed
<1>6. sinceTick <= WatchdogLimit
  BY <1>1, <1>3, StepAssumption, Limits DEF Ages
<1>7. stalled <= StallLimit
  BY <1>1, <1>4, <1>5, StallAssumption, Limits DEF Ages, InTime
<1>8. QED
  BY <1>6, <1>7

\* The watchdog restarts no board whose tasks all finish what they are at within their limits, unless
\* more than one thing has failed.
THEOREM WatchdogSparesTheLive == Spec => SparesTheLive
<1>1. AgeInv /\ [Next]_vars =>
        [Running /\ main' = "start" /\ reset' = "software" /\ faults' = faults => hung # {} \/ faults > 1]_vars
  <2> SUFFICES ASSUME AgeInv, Next, Running, main' = "start", reset' = "software", faults' = faults
               PROVE  hung # {} \/ faults > 1
    OBVIOUS
  <2>1. faults \in Nat
    BY DEF AgeInv, ClockTypes
  <2>2. watchdog
    <3>1. ~Boots /\ ~net_up /\ ~kata_worker_hello /\ ~Greeted /\ ~SelfTest /\ ~Controls
      BY DEF Running, Boots, net_up, kata_worker_hello, Greeted, SelfTest, Controls
    <3>2. ~StepBegins /\ ~Checks /\ ~PhaseDone /\ ~PassDone
      BY DEF StepBegins, Checks, PhaseDone, PassDone, AsksPhase, Panics, Resets
    <3>3. \A t \in Phased : ~PhaseStep(t)
      BY DEF PhaseStep, Then, Running
    <3>4. ~kata_worker_publish /\ ~Serves /\ ~Minute /\ ~TaskWatchdog
      BY DEF kata_worker_publish, Serves, Minute, TaskWatchdog, Panics, Resets, Running
    <3>5. ~TornTick /\ ~TimerWedges /\ ~CardDies /\ ~Crashes /\ ~PowerCut /\ \A t \in Tasks : ~Hangs(t)
      BY <2>1 DEF TornTick, TimerWedges, CardDies, Crashes, PowerCut, Hangs, Fault
    <3>6. QED
      BY <3>1, <3>2, <3>3, <3>4, <3>5 DEF Next, MainStep
  <2>3. Restarts
    BY <2>2 DEF watchdog, Running, taskVars
  <2>4. ~Lively
    <3>1. Lively => sinceTick <= WatchdogLimit /\ stalled <= StallLimit
      BY AgesWithinLimits
    <3>2. sinceTick \in Nat /\ stalled \in Nat
      BY DEF AgeInv, ClockTypes
    <3>3. QED
      BY <2>3, <3>1, <3>2, Limits DEF Restarts
  <2>5. QED
    BY <2>1, <2>4 DEF Lively
<1>2. QED
  BY <1>1, AgeInvInit, AgeInvStep, PTL DEF Spec, SparesTheLive
=============================================================================
