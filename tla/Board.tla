-------------------------------- MODULE Board --------------------------------
(***************************************************************************)
(* A Kata from reset to reset: app_main's boot with the count of crashes,   *)
(* the self-test, the worker's loop with its three watchdogs (full.c,      *)
(* kata_worker.c), on the phases and the gate of PhaseGate.                *)
(*                                                                         *)
(* Time is in minutes, the watchdog's period.  A live task finishes what   *)
(* it is at within the limits below; a hung one never moves again until    *)
(* the chip restarts.  An update (OtaUpdate) is here only as the phases    *)
(* its task runs, and the work (KataWorker) as whether any is held and     *)
(* gets on.                                                                *)
(***************************************************************************)
EXTENDS PhaseGate, Naturals, FiniteSets

CONSTANTS Main, Ota,        \* the tasks that run phases
          CrashLoopN,       \* CRASH_LOOP_N
          WatchdogLimit,    \* WATCHDOG_S
          StallLimit,       \* STALL_RESTART_S
          GuardStale,       \* GUARD_STALE_S
          PhaseLimit, PassLimit, CheckLimit,    \* how long a phase, a pass and a health check take
          WaitLimit,        \* WORKER_RETRY_MAX_S
          MaxFaults

ASSUME BoardAssumption ==
    /\ Phased = {Main, Ota} /\ Main # Ota
    /\ {StallLimit, PhaseLimit, PassLimit, CheckLimit, WaitLimit, MaxFaults} \subseteq Nat
    /\ {CrashLoopN, WatchdogLimit, GuardStale} \subseteq Nat \ {0}
\* A step may have to wait for an update's phase first.
ASSUME StepAssumption == CheckLimit + PhaseLimit + PhaseLimit + PassLimit <= WatchdogLimit
\* Work held through one failed step and the wait after it gets on in the next (5 + 15 minutes twice in
\* the code's 60), and a pass is progress in good time.
ASSUME StallAssumption ==
    /\ WaitLimit + CheckLimit + PhaseLimit + PhaseLimit + WaitLimit + CheckLimit + PhaseLimit + PhaseLimit <= StallLimit
    /\ PassLimit <= StallLimit

VARIABLES
    card, reset, streak,        \* the card, the reset reason, and the count in RTC memory
    main,                       \* where app_main's task is
    model, online, well,        \* model_ready; Wi-Fi is up and prov has what a phase needs; not sick
    timer, guard, hung,         \* the esp_timer task, the guard task, the tasks that hang
    sinceTick, sinceWatchdog,   \* minutes since last_tick_us and last_watchdog_us
    held, stalled,              \* whether work is held, and the minutes since it got on
    busy, netFor,               \* minutes the worker's pass or check, and the phase under way, have taken
    due,                        \* whether watchdog is to run
    faults
bootVars  == <<card, reset, streak>>
modelVars == <<model, online, well>>
taskVars  == <<timer, guard, hung>>
workVars  == <<held, stalled>>
clockVars == <<sinceTick, sinceWatchdog, due>>
tookVars  == <<busy, netFor>>
vars == <<gateVars, bootVars, main, modelVars, taskVars, workVars, clockVars, tookVars, faults>>

Up(t) == t \notin hung
Running == main \in {"loop", "check", "phase", "ran", "pass"}
Faulty(ok) == faults' = IF ok THEN faults ELSE faults + 1 
Clean(ok) == (ok \/ faults < MaxFaults) /\ Faulty(ok)

Init ==
    /\ GateInit /\ main = "start" /\ model = FALSE /\ online = FALSE /\ well = FALSE
    /\ held = FALSE /\ due = FALSE
    /\ timer = "none" /\ guard = "none" /\ hung = {}
    /\ sinceTick = 0 /\ sinceWatchdog = 0 /\ stalled = 0 /\ busy = 0 /\ netFor = 0
    /\ card \in {"good", "dead"} /\ reset = "power" /\ streak = 0 /\ faults = 0

\* The chip restarts: everything in RAM is gone, RTC memory is not.
Resets(why) ==
    /\ GateRestarts /\ main' = "start" /\ reset' = why
    /\ model' = FALSE /\ online' = FALSE /\ well' = FALSE /\ held' = FALSE /\ due' = FALSE
    /\ timer' = "none" /\ guard' = "none" /\ hung' = {}
    /\ sinceTick' = 0 /\ sinceWatchdog' = 0 /\ stalled' = 0 /\ busy' = 0 /\ netFor' = 0
    /\ UNCHANGED card
Panics == Resets("crash") /\ UNCHANGED <<streak, faults>>

-----------------------------------------------------------------------------
(* app_main.                                                                *)

\* The crashes in a row, this one included.
Counted_NotKept == IF reset = "crash" THEN 1 ELSE 0
Counted == IF reset = "crash" THEN streak + 1 ELSE 0
\* The model, unless they are too many.  A dead card aborts model_init.
Boots ==
    /\ main = "start"
    /\ streak' = Counted
    /\ IF streak' >= CrashLoopN
         THEN /\ main' = "joins" /\ model' = FALSE
              /\ UNCHANGED <<gateVars, card, reset, online, well, taskVars, workVars, clockVars, tookVars, faults>>
         ELSE IF card = "dead" THEN Resets("crash") /\ UNCHANGED faults
         ELSE /\ main' = "joins" /\ model' \in BOOLEAN /\ Clean(model')
              /\ UNCHANGED <<gateVars, card, reset, online, well, taskVars, workVars, clockVars, tookVars>>

\* net_up waits 20 s for an address; Fleet, statusd and metrics start only with one.
net_up ==
    /\ main = "joins" /\ main' = "hello"
    /\ online' \in BOOLEAN /\ Clean(online')
    /\ UNCHANGED <<gateVars, bootVars, model, well, taskVars, workVars, clockVars, tookVars>>

\* kata_worker_hello: net_setup, and a phase if the clock is set.
kata_worker_hello ==
    /\ main = "hello"
    /\ \/ online /\ WantsPhase(Main) /\ main' = "greets" /\ UNCHANGED faults
       \/ main' = "test" /\ Clean(~online) /\ UNCHANGED gateVars
    /\ UNCHANGED <<bootVars, modelVars, taskVars, workVars, clockVars, tookVars>>
Greeted == /\ main = "greets" /\ at[Main] = "out" /\ main' = "test"
           /\ UNCHANGED <<gateVars, bootVars, modelVars, taskVars, workVars, clockVars, tookVars, faults>>

\* kata_worker_run: a timer, and a guard that has joined the task watchdog, if both can be made.
WorkerStarts ==
    /\ main' = "loop"
    /\ timer' \in {"alive", "none"} /\ guard' \in {"feeding", "none"}
    /\ Clean(timer' = "alive" /\ guard' = "feeding")
CanWork == model /\ online
\* Its verdict clears the count; then the worker, or the control loop, or nothing.
SelfTest ==
    /\ main = "test"
    /\ IF model /\ card = "dead" THEN Panics
       ELSE /\ well' \in IF model THEN BOOLEAN ELSE {FALSE}
            /\ streak' = IF well' THEN 0 ELSE streak
            /\ \/ CanWork /\ WorkerStarts
               \/ /\ main' = IF online THEN "control" ELSE "off"
                  /\ Clean(~CanWork) /\ UNCHANGED <<timer, guard>>
            /\ UNCHANGED <<gateVars, card, reset, model, online, hung, workVars, clockVars, tookVars>>

\* kata_worker_control_loop: a phase every minute.
Controls == /\ main = "control" /\ WantsPhase(Main)
            /\ UNCHANGED <<bootVars, main, modelVars, taskVars, workVars, clockVars, tookVars, faults>>

-----------------------------------------------------------------------------
(* The worker's loop: last_tick_us, and a step.                             *)

AsksPhase == WantsPhase(Main) /\ main' = "phase"
\* A sick worker checks itself first when the last check is old.
StepBegins ==
    /\ main = "loop" /\ sinceTick' = 0
    /\ \/ AsksPhase
       \/ ~well /\ main' = "check" /\ UNCHANGED gateVars
    /\ busy' = 0
    /\ UNCHANGED <<bootVars, modelVars, taskVars, workVars, sinceWatchdog, due, netFor, faults>>
Checks ==
    /\ main = "check" /\ Up(Main)
    /\ IF card = "dead" THEN Panics
       ELSE /\ well' \in BOOLEAN /\ AsksPhase /\ busy' = 0
            /\ UNCHANGED <<bootVars, model, online, taskVars, workVars, clockVars, netFor, faults>>
\* The phase moved work on, unless SQS would not take it; then no pass.
PhaseDone ==
    /\ main = "ran"
    /\ \E got, on \in BOOLEAN :
        /\ ~on => got /\ held
        /\ Clean(on) /\ held' = got
        /\ stalled' = IF on THEN 0 ELSE stalled
        /\ main' = IF got /\ on /\ well THEN "pass" ELSE "loop"
    /\ busy' = 0
    /\ UNCHANGED <<gateVars, bootVars, modelVars, taskVars, clockVars, netFor>>
PassDone ==
    /\ main = "pass" /\ Up(Main)
    /\ IF card = "dead" THEN Panics
       ELSE /\ main' = "loop" /\ stalled' = 0 /\ busy' = 0
            /\ UNCHANGED <<gateVars, bootVars, modelVars, taskVars, held, clockVars, netFor, faults>>

-----------------------------------------------------------------------------
(* Phases, replies and POSTs, of whichever task.                            *)

\* In the worker's step a phase that ran goes on with the step, one given up ends it.
Then(t, where) == main' = IF t = Main /\ main = "phase" THEN where ELSE main
\* Only a reply to a slow peer is at it for longer than a phase waits.
PhaseStep(t) ==
    /\ Up(t)
    /\ \/ TakesNet(t) /\ netFor' = 0 /\ UNCHANGED <<main, faults>>
       \/ (PassesGate(t) \/ PhaseRuns(t)) /\ UNCHANGED <<main, netFor, faults>>
       \/ GateWaitRunsOut(t) /\ gate \in hung /\ Then(t, "loop") /\ UNCHANGED <<netFor, faults>>
       \/ PhaseRefused(t) /\ Then(t, "loop") /\ Clean(FALSE) /\ UNCHANGED netFor
       \/ net_end(t) /\ Then(t, "ran") /\ UNCHANGED <<netFor, faults>>
    /\ UNCHANGED <<bootVars, modelVars, taskVars, workVars, clockVars, busy>>
\* kata_worker_publish; an update's phases do not follow one another at once.
kata_worker_publish ==
    /\ online /\ main \notin {"start", "joins", "hello"} /\ at[Main] # "wants"
    /\ WantsPhase(Ota)
    /\ UNCHANGED <<bootVars, main, modelVars, taskVars, workVars, clockVars, tookVars, faults>>
Serves ==
    /\ online
    /\ \/ \E g \in Gated : Up(g) /\ Serve(g)
       \/ Replies \/ Posts
    /\ UNCHANGED <<bootVars, main, modelVars, taskVars, workVars, clockVars, tookVars, faults>>

-----------------------------------------------------------------------------
(* Time, and the watchdogs.                                                 *)

\* Nothing a live task finishes in moments, or should have finished by now, is still to do.
Settled ==
    /\ \A t \in Phased : Up(t) => /\ at[t] # "net"
                                  /\ InSession(t) => netFor < PhaseLimit
                                  /\ at[t] = "wants" => netMx # Nobody
    /\ \A g \in Gated : Up(g) => at[g] = "out"
    /\ Up(Main) => /\ main # "ran"
                   /\ main = "loop" => busy < WaitLimit
                   /\ main = "check" => busy < CheckLimit
                   /\ main = "pass" => busy < PassLimit
\* Capped, since only whether they are past their limit counts.
Older(n, limit) == IF n > limit THEN n ELSE n + 1
\* The waits between steps set last_tick_us as they go, a step only when it begins.
Ticked_BySteps == Older(sinceTick, WatchdogLimit)
Ticked == IF main = "loop" THEN 0 ELSE Older(sinceTick, WatchdogLimit)
Minute ==
    /\ Running /\ Settled
    /\ timer = "alive" => ~due
    /\ guard = "feeding" => sinceWatchdog <= GuardStale
    /\ sinceTick' = Ticked
    /\ sinceWatchdog' = Older(sinceWatchdog, GuardStale)
    /\ stalled' = IF held THEN Older(stalled, StallLimit) ELSE 0
    /\ busy' = IF main \in {"loop", "check", "pass"} THEN Older(busy, WaitLimit + CheckLimit + PassLimit) ELSE 0
    /\ netFor' = IF netMx = Nobody THEN 0 ELSE Older(netFor, PhaseLimit)
    /\ due' = TRUE
    /\ UNCHANGED <<gateVars, bootVars, main, modelVars, taskVars, held, faults>>

\* The esp_timer callback, each minute: no step, or no progress, for too long.
Restarts_ByProgress == stalled > StallLimit
Restarts == sinceTick > WatchdogLimit \/ stalled > StallLimit
watchdog ==
    /\ Running /\ timer = "alive" /\ due
    /\ IF Restarts THEN Resets("software") /\ UNCHANGED <<streak, faults>>
       ELSE /\ sinceWatchdog' = 0 /\ due' = FALSE
            /\ UNCHANGED <<gateVars, bootVars, main, modelVars, taskVars, workVars, sinceTick, tookVars, faults>>
\* last_tick_us is 64 bits in two halves: read between the two stores of a tick that carries over, it
\* looks 71 minutes old.  (Or to come: then this check says nothing.)
TornTick == /\ faults < MaxFaults /\ faults' = faults + 1
            /\ main = "loop" /\ Up(Main) /\ timer = "alive" /\ due
            /\ Resets("software") /\ UNCHANGED streak
\* The guard stops feeding once the callback has not run for GuardStale; a minute later: panic.
TaskWatchdog == Running /\ guard = "feeding" /\ sinceWatchdog > GuardStale /\ Panics

-----------------------------------------------------------------------------
(* What goes wrong.                                                         *)

Fault == faults < MaxFaults /\ faults' = faults + 1
\* A session that never answers, a pass that never ends, a peer that reads a reply byte by byte.
Hangs(t) ==
    /\ Fault /\ Up(t)
    /\ InSession(t) \/ (t = Statusd /\ at[t] = "busy") \/ (t = Main /\ main \in {"check", "pass"})
    /\ hung' = hung \cup {t}
    /\ UNCHANGED <<gateVars, bootVars, main, modelVars, timer, guard, workVars, clockVars, tookVars>>
TimerWedges ==
    /\ Fault /\ timer = "alive" /\ timer' = "wedged"
    /\ UNCHANGED <<gateVars, bootVars, main, modelVars, guard, hung, workVars, clockVars, tookVars>>
CardDies ==
    /\ Fault /\ card = "good" /\ card' = "dead"
    /\ UNCHANGED <<gateVars, reset, streak, main, modelVars, taskVars, workVars, clockVars, tookVars>>
Crashes == Fault /\ Resets("crash") /\ UNCHANGED streak
\* RTC memory is garbage afterwards.
PowerCut == Fault /\ Resets("power") /\ streak' \in 0..CrashLoopN

MainStep == \/ Boots \/ net_up \/ kata_worker_hello \/ Greeted \/ SelfTest \/ Controls
            \/ StepBegins \/ Checks \/ PhaseDone \/ PassDone
Next == \/ MainStep
        \/ \E t \in Phased : PhaseStep(t)
        \/ kata_worker_publish \/ Serves
        \/ Minute \/ watchdog \/ TornTick \/ TaskWatchdog
        \/ \E t \in Tasks : Hangs(t)
        \/ TimerWedges \/ CardDies \/ Crashes \/ PowerCut

Spec == Init /\ [][Next]_vars
\* The scheduler runs every task, time passes, requests time out; net_mx wakes its waiters in turn.
FairSpec ==
    /\ Spec /\ WF_vars(MainStep) /\ SF_vars(Minute) /\ WF_vars(watchdog) /\ WF_vars(TaskWatchdog)
    /\ \A t \in Phased : SF_vars(PhaseStep(t))
    /\ WF_vars(Serves /\ gate # Nobody)

-----------------------------------------------------------------------------
\* The watchdogs restart no board that gets on, however its waits, phases and passes add up and
\* whoever it waits for: something hangs, or failures have followed on one another; but for a restart
\* that a torn read makes, itself a failure.
\* (kata_worker.c:50: "no step for this long: restart".)
SparesTheLive ==
    [][Running /\ main' = "start" /\ reset' = "software" /\ faults' = faults => hung # {} \/ faults > 1]_vars

\* A worker that hangs, or waits for a task that hangs in its phase, ends in a restart, unless neither
\* the timer nor the guard is there to see it.
Stuck == Running /\ (~Up(Main) \/ (netMx \in hung))
Watched == timer = "alive" \/ guard = "feeding"
StuckBoardRestarts == Stuck /\ Watched ~> ~Running \/ ~Watched

\* A dead card does not keep the board crashing: in the end it stays up, without the model
\* (full.c:744: "a panic reboots; if it's the card, it would die in model_init every time").
StaysUp == <>[](main # "start")
=============================================================================
