------------------------------ MODULE PhaseGate ------------------------------
(***************************************************************************)
(* Who may use a Kata's little internal RAM when (kata_worker.c, statusd.c, *)
(* metrics.c).  A network phase, of the worker's task or of an update's,   *)
(* holds net_mx; it starts under the gate, which statusd holds for a whole *)
(* reply and metrics for a whole POST.  Every wait for the gate is timed.  *)
(*                                                                         *)
(* Left out: what is said in a phase (KataWorker, OtaUpdate) and in a      *)
(* reply, and the counters of requests.                                    *)
(***************************************************************************)
CONSTANTS Phased,           \* the tasks that run phases
          Statusd, Metrics, \* the tasks that take the gate
          Nobody

Gated == {Statusd, Metrics}
Tasks == Phased \cup Gated

ASSUME GateAssumption == /\ Statusd # Metrics /\ Nobody \notin Tasks
                         /\ Phased \cap Gated = {}

VARIABLES netMx, gate, inPhase, at
gateVars == <<netMx, gate, inPhase, at>>

Goes(t, where) == at' = [at EXCEPT ![t] = where]
\* A TLS session may be open.
InSession(t) == at[t] \in {"begun", "tls"}

GateInit == /\ netMx = Nobody /\ gate = Nobody /\ inPhase = FALSE
            /\ at = [t \in Tasks |-> "out"]
\* The chip restarts: neither mutex is anyone's.
GateRestarts == /\ netMx' = Nobody /\ gate' = Nobody /\ inPhase' = FALSE
                /\ at' = [t \in Tasks |-> "out"]

-----------------------------------------------------------------------------
(* A phase: net_begin, the sessions one after the other, net_end.           *)

\* The time is known: wait for whoever has the network.
WantsPhase(t) == /\ at[t] = "out" /\ Goes(t, "wants")
                 /\ UNCHANGED <<netMx, gate, inPhase>>
TakesNet_Anyway(t) == /\ at[t] = "wants" /\ netMx' = t /\ Goes(t, "net") /\ UNCHANGED <<gate, inPhase>>
TakesNet(t) == /\ at[t] = "wants" /\ netMx = Nobody
               /\ netMx' = t /\ Goes(t, "net")
               /\ UNCHANGED <<gate, inPhase>>

\* Taken, in_phase set, and given back.
PassesGate_Anyway(t) == /\ at[t] = "net" /\ inPhase' = TRUE /\ Goes(t, "begun") /\ UNCHANGED <<netMx, gate>>
PassesGate(t) == /\ at[t] = "net" /\ gate = Nobody
                 /\ inPhase' = TRUE /\ Goes(t, "begun")
                 /\ UNCHANGED <<netMx, gate>>
\* Held for GATE_WAIT_MS: this phase is given up.
GateWaitRunsOut(t) == /\ at[t] = "net" /\ gate # Nobody
                      /\ netMx' = Nobody /\ Goes(t, "out")
                      /\ UNCHANGED <<gate, inPhase>>

\* Too little RAM, or no credentials.
PhaseRefused(t) == /\ at[t] = "begun"
                   /\ inPhase' = FALSE /\ netMx' = Nobody /\ Goes(t, "out")
                   /\ UNCHANGED gate
PhaseRuns(t) == at[t] = "begun" /\ Goes(t, "tls") /\ UNCHANGED <<netMx, gate, inPhase>>
\* in_phase is cleared without the gate.
net_end(t) == /\ at[t] = "tls"
              /\ inPhase' = FALSE /\ netMx' = Nobody /\ Goes(t, "out")
              /\ UNCHANGED gate

(* A reply and a POST.                                                      *)

kata_worker_gate(g) == /\ at[g] = "out" /\ gate = Nobody
                       /\ gate' = g /\ Goes(g, "gated")
                       /\ UNCHANGED <<netMx, inPhase>>
\* serve_json: builds and sends, in a phase too; busy is an answer as well.
Replies == /\ at[Statusd] = "gated" /\ Goes(Statusd, "busy")
           /\ UNCHANGED <<netMx, gate, inPhase>>
\* metrics_task: not in a phase.
Posts_Unlooked == at[Metrics] = "gated" /\ Goes(Metrics, "busy") /\ UNCHANGED <<netMx, gate, inPhase>>
Posts == /\ at[Metrics] = "gated" /\ ~inPhase /\ Goes(Metrics, "busy")
         /\ UNCHANGED <<netMx, gate, inPhase>>
\* Also a minute that metrics skips: in a phase, an update, too little RAM.
kata_worker_ungate(g) == /\ at[g] = "busy" \/ (g = Metrics /\ at[g] = "gated")
                         /\ gate' = Nobody /\ Goes(g, "out")
                         /\ UNCHANGED <<netMx, inPhase>>

-----------------------------------------------------------------------------
GivesUp(t) == GateWaitRunsOut(t) \/ PhaseRefused(t)
Phase(t) == WantsPhase(t) \/ TakesNet(t) \/ PassesGate(t) \/ GivesUp(t) \/ PhaseRuns(t) \/ net_end(t)
Serve(g) == kata_worker_gate(g) \/ kata_worker_ungate(g)
GateNext == \/ \E t \in Phased : Phase(t)
            \/ \E g \in Gated : Serve(g)
            \/ Replies \/ Posts \/ GateRestarts

GateSpec == GateInit /\ [][GateNext]_gateVars

-----------------------------------------------------------------------------
GateTypeOK == /\ netMx \in Phased \cup {Nobody} /\ gate \in Gated \cup {Nobody}
              /\ inPhase \in BOOLEAN
              /\ at \in [Tasks -> {"out", "wants", "net", "begun", "tls", "gated", "busy"}]

\* One TLS session at a time, whichever task's phase it is.
\* (kata_worker.h:4: "One TLS session at a time (CHATS-4: internal RAM)".)
OneSession == \A s, t \in Phased : InSession(s) /\ InSession(t) => s = t

\* A POST never overlaps a phase, although metrics looked before it sent.
\* (metrics.c:136: "so the check and the POST can't straddle one".)
NoPostInPhase == at[Metrics] = "busy" => \A t \in Phased : ~InSession(t)

\* While a reply or a POST has the gate, no phase starts; one may end.
\* (kata_worker.h:57: "it can only turn true under the gate".)
PhasesStartUngated ==
    [][gate # Nobody => \A t \in Phased : InSession(t)' => InSession(t)]_gateVars
=============================================================================
