------------------------------- MODULE OtaUpdate -------------------------------
(***************************************************************************)
(* Firmware updates of one board (firmware/full/main/ota.c): Fleet's       *)
(* commands, the download into the spare slot, the restart, the new        *)
(* image's probation, and the reports back to Fleet through the outbox of  *)
(* fleet.c, beside a worker that has to park and a power supply that may   *)
(* go at any point.                                                        *)
(*                                                                         *)
(* Three tasks run: the main task (boot, self-test, then the worker or the *)
(* control loop, with every network phase and so every command), the       *)
(* update's own task, and the esp_timer task with the probation deadline.  *)
(* An action is what one of them does between two points where another     *)
(* can get in.  Waits have timeouts in the code; here a wait may run out   *)
(* at any time.  The bootloader, the flash and SQS are external.           *)
(*                                                                         *)
(* An image is its version; 0 is a slot with no whole image in it.  The    *)
(* NVS key target_slot is left out: an update is always newer than what    *)
(* runs, so the version alone tells which slot is running.                 *)
(***************************************************************************)
EXTENDS Integers, Sequences

CONSTANTS
    Updates,        \* the ota_update commands Fleet sends, each with a URL of its own
    Version,        \* Version[u]: the version update u asks for
    Factory,        \* the version the board starts with
    Bad,            \* the versions whose self-test fails
    OutboxMax,      \* FLEET_OUTBOX
    MaxFaults, MaxCancels

None == "none"
Cancel == "ota_cancel"
Versions == {Version[u] : u \in Updates} \cup {Factory}

ASSUME VersionAssumption ==
    /\ Version \in [Updates -> Nat \ {0}] /\ Factory \in Nat \ {0}
    /\ None \notin Updates /\ Cancel \notin Updates
ASSUME BoundAssumption == OutboxMax \in Nat \ {0} /\ {MaxFaults, MaxCancels} \subseteq Nat

VARIABLES
    \* Flash: survives a power cut.
    image, state, boot,     \* the two slots, their otadata state, the slot to boot
    target,                 \* NVS: the version an install restarted into, 0 when there is none
    \* RAM.
    runs, stage, working,   \* the running slot; how far the main task is; whether the worker runs
    probation, healthy, connected, deadline, keepAt,
    phase, cancel, job, lastUrl, backoff,               \* ota.c's statics
    spawnPending, otaAt, lent,                          \* the update's task
    parkReq, parked, closing,                           \* the worker's flags, as KataWorker has them
    outbox, taken, pub,                                 \* fleet.c's outbox, and the publish under way
    \* Fleet and SQS.
    queue, sent, cancels,   \* the board's command queue; the commands sent
    told,                   \* the outcomes that have reached Fleet
    \* History.
    kept, faults            \* the versions that passed probation; the failures so far

flashVars == <<image, state, boot, target>>
runVars   == <<runs, stage, working>>
probVars  == <<probation, healthy, connected, deadline, keepAt>>
jobVars   == <<phase, cancel, job, lastUrl, backoff>>
taskVars  == <<spawnPending, otaAt, lent>>
parkVars  == <<parkReq, parked, closing>>
boxVars   == <<outbox, taken, pub>>
fleetVars == <<queue, sent, cancels, told>>
vars == <<flashVars, runVars, probVars, jobVars, taskVars, parkVars, boxVars, fleetVars, kept,
          faults>>

Slots == {0, 1}
Other(s) == 1 - s
Running == image[runs]
Spare == Other(runs)

SlotStates == {"blank", "new", "pending", "valid", "bad"}
Publishes == {"no", "sending", "again", "sent", "answered"}
Stages == {"down", "hello", "selftest", "work"}
Phases == {"idle", "waiting", "downloading", "installing"}
OtaSteps == {"none", "start", "park", "lend", "check", "enter", "publish", "download", "write", "verify",
             "lock", "record", "boot", "restart", "unrecord", "fail", "resume", "finish"}

\* The responses that matter to an outcome; every other response is a Note.
Note == <<"note", 0>>
Messages == {Note} \cup ({"complete", "rolled back", "restarting"} \X Versions)

Clean(ok) == IF ok THEN faults' = faults ELSE faults < MaxFaults /\ faults' = faults + 1

TypeOK ==
    /\ image \in [Slots -> Versions \cup {0}] /\ state \in [Slots -> SlotStates] /\ boot \in Slots
    /\ target \in Versions \cup {0}
    /\ runs \in Slots /\ stage \in Stages /\ working \in BOOLEAN
    /\ {probation, healthy, connected} \subseteq BOOLEAN
    /\ deadline \in {"off", "set", "firing"} /\ keepAt \in {"none", "mark", "report"}
    /\ phase \in Phases /\ {cancel, backoff} \subseteq BOOLEAN
    /\ job \in Updates \cup {None} /\ lastUrl \in Updates \cup {None}
    /\ spawnPending \in BOOLEAN /\ otaAt \in OtaSteps /\ lent \in BOOLEAN
    /\ {parkReq, parked, closing} \subseteq BOOLEAN
    /\ outbox \in Seq(Messages) /\ Len(outbox) <= OutboxMax
    /\ taken \in Seq(Messages) /\ pub \in Publishes
    /\ queue \subseteq Updates \cup {Cancel} /\ sent \subseteq Updates /\ cancels \in 0..MaxCancels
    /\ told \subseteq Messages
    /\ kept \subseteq Versions /\ faults \in 0..MaxFaults

Init ==
    /\ image = [s \in Slots |-> IF s = 0 THEN Factory ELSE 0]
    /\ state = [s \in Slots |-> IF s = 0 THEN "valid" ELSE "blank"]
    /\ boot = 0 /\ target = 0
    /\ runs = 0 /\ stage = "down" /\ working = FALSE
    /\ probation = FALSE /\ healthy = FALSE /\ connected = FALSE /\ deadline = "off" /\ keepAt = "none"
    /\ phase = "idle" /\ cancel = FALSE /\ job = None /\ lastUrl = None /\ backoff = FALSE
    /\ spawnPending = FALSE /\ otaAt = "none" /\ lent = FALSE
    /\ parkReq = FALSE /\ parked = FALSE /\ closing = FALSE
    /\ outbox = <<>> /\ taken = <<>> /\ pub = "no"
    /\ queue = {} /\ sent = {} /\ cancels = 0 /\ told = {}
    /\ kept = {Factory} /\ faults = 0

-----------------------------------------------------------------------------
(* Restarts.                                                               *)

\* Everything that is not in flash is gone.
Down ==
    /\ stage' = "down" /\ working' = FALSE
    /\ probation' = FALSE /\ healthy' = FALSE /\ connected' = FALSE /\ deadline' = "off"
    /\ keepAt' = "none"
    /\ phase' = "idle" /\ cancel' = FALSE /\ job' = None /\ lastUrl' = None /\ backoff' = FALSE
    /\ spawnPending' = FALSE /\ otaAt' = "none" /\ lent' = FALSE
    /\ parkReq' = FALSE /\ parked' = FALSE /\ closing' = FALSE
    /\ outbox' = <<>> /\ taken' = <<>> /\ pub' = "no"
    /\ UNCHANGED runs

\* A power cut, a panic or a watchdog, anywhere.  A command that was deleted from the queue and not
\* yet acted on goes with it.
PowerCut ==
    /\ stage # "down" /\ Clean(FALSE) /\ Down
    /\ \E lost \in SUBSET queue :
        /\ pub = "no" => lost = {}
        /\ queue' = queue \ lost
    /\ UNCHANGED <<flashVars, sent, cancels, told, kept>>

\* The bootloader gives a new image one boot: found still pending at the next, it is given up for
\* the other slot.  Then ota_boot.
Boot ==
    LET gaveUp == state[boot] = "pending"
        slot == IF gaveUp THEN Other(boot) ELSE boot
        trial == ~gaveUp /\ state[boot] = "new" IN
    /\ stage = "down"
    /\ state' = [state EXCEPT ![boot] = IF gaveUp THEN "bad" ELSE IF trial THEN "pending" ELSE @]
    /\ boot' = slot /\ runs' = slot
    /\ stage' = "hello"
    /\ probation' = trial
    /\ deadline' = IF trial THEN "set" ELSE "off"
    /\ UNCHANGED <<image, target, working, healthy, connected, keepAt, jobVars, taskVars, parkVars,
                   boxVars, fleetVars, kept, faults>>

\* rollback(): the running image is marked invalid and the board restarts into the other one.
Rollback ==
    /\ state' = [state EXCEPT ![runs] = "bad"]
    /\ boot' = Spare
    /\ Down
    /\ UNCHANGED <<image, target, fleetVars, kept>>

-----------------------------------------------------------------------------
(* The outbox and the network phases.                                      *)

Push(q, m) == Append(IF Len(q) = OutboxMax THEN Tail(q) ELSE q, m)

\* Who may have a network phase open: the main task at boot, in the worker's steps and in the control
\* loop, and the update's task once, when its download starts.
InPhase ==
    \/ stage = "hello"
    \/ (stage = "work" /\ ~parked)
    \/ otaAt = "publish"

\* Nothing holds up the task that runs phases: it is not in maybe_keep(), and has no task to spawn.
Free == keepAt = "none" /\ (spawnPending => working)

\* publish_outbox takes what waits: at the end of a phase, at once after a boot's first, and when
\* commands were answered.
PublishBegins ==
    /\ InPhase /\ Free /\ pub \in {"no", "again", "answered"}
    /\ pub' = "sending"
    /\ taken' = outbox /\ outbox' = <<>>
    /\ UNCHANGED <<flashVars, runVars, probVars, jobVars, taskVars, parkVars, fleetVars, kept, faults>>

\* fleet_put_back: ahead of anything newer, as far as there is room.
PutBack_NoRoom(back) == back \o outbox
PutBack(back) ==
    LET room == OutboxMax - Len(outbox)
        keep == IF Len(back) < room THEN Len(back) ELSE room IN
    SubSeq(back, 1, keep) \o outbox

\* ota_on_connected: on probation, reaching IoT Core is half of what keeps the image (maybe_keep, which
\* then reports); otherwise an install that ended earlier is reported now.
OnConnected_AtOnce == IF probation /\ healthy THEN "mark" ELSE "report"
OnConnected_KeepsOnly == IF probation /\ healthy THEN "mark" ELSE "none"
OnConnected == IF ~probation THEN "report" ELSE IF healthy THEN "mark" ELSE "none"

\* The posts go out in order until one fails, which may have arrived all the same.  The first publish
\* of a boot that gets through is ota_on_connected.
PublishEnds ==
    /\ pub = "sending"
    /\ \E k \in 0..Len(taken) : \E heard \in k..Len(taken) : \E ok \in BOOLEAN :
        /\ ok => k = Len(taken)
        /\ heard <= k + 1
        /\ Clean(ok)
        /\ told' = told \cup {taken[i] : i \in 1..heard}
        /\ IF ok /\ ~connected
             THEN /\ connected' = TRUE /\ pub' = "again"
                  /\ outbox' = Push(outbox, Note)
                  /\ probation' = (probation /\ ~healthy)
                  /\ keepAt' = OnConnected
             ELSE /\ outbox' = PutBack(SubSeq(taken, k + 1, Len(taken))) /\ pub' = "sent"
                  /\ UNCHANGED <<connected, probation, keepAt>>
    /\ taken' = <<>>
    /\ UNCHANGED <<flashVars, runVars, healthy, deadline, jobVars, taskVars, parkVars, queue, sent, cancels,
                   kept>>

\* The phase is over.  If it closed a step that found the park asked for, the worker is now parked,
\* without another look at the request (KataWorker: Release, Park).
NetEnds ==
    /\ pub = "sent" /\ stage # "hello" /\ Free
    /\ pub' = "no"
    /\ parked' = (parked \/ closing) /\ closing' = FALSE
    /\ UNCHANGED <<flashVars, runVars, probVars, jobVars, taskVars, parkReq, outbox, taken, fleetVars,
                   kept, faults>>

\* kata_worker_hello is over; with no network (or no credentials, or no time) it had no phase.
HelloEnds ==
    /\ stage = "hello" /\ pub \in {"no", "sent"} /\ Free
    /\ Clean(pub = "sent")
    /\ stage' = "selftest" /\ pub' = "no"
    /\ UNCHANGED <<flashVars, runs, working, probVars, jobVars, taskVars, parkVars, outbox, taken, fleetVars,
                   kept>>

-----------------------------------------------------------------------------
(* Probation.                                                              *)

\* The self-test, then ota_health and the worker, or the control loop of a board without a model.
\* Its passes wait for a model that is lent to an update.
SelfTest ==
    /\ stage = "selftest" /\ Free /\ ~lent
    /\ \E ready \in BOOLEAN : \E passed \in BOOLEAN :
        /\ passed => ready /\ Running \notin Bad
        /\ Clean(passed \/ Running \in Bad)
        /\ IF probation /\ ~passed
             THEN Rollback
             ELSE /\ stage' = "work" /\ working' = ready
                  /\ healthy' = passed
                  /\ probation' = (probation /\ ~connected)
                  /\ keepAt' = IF probation /\ connected THEN "mark" ELSE "none"
                  /\ UNCHANGED <<flashVars, runs, connected, deadline, jobVars, taskVars, parkVars, boxVars,
                                 fleetVars, kept>>

\* maybe_keep after its lock: the deadline is stopped, unless it is already firing, and the image kept.
MarkValid ==
    /\ keepAt = "mark"
    /\ deadline' = IF deadline = "set" THEN "off" ELSE deadline
    /\ state' = [state EXCEPT ![runs] = "valid"]
    /\ kept' = kept \cup {Running}
    /\ keepAt' = "report"
    /\ UNCHANGED <<image, boot, target, runVars, probation, healthy, connected, jobVars, taskVars, parkVars,
                   boxVars, fleetVars, faults>>

\* report_outcome: the record of the install is erased once the outcome is in the outbox.
Report ==
    /\ keepAt = "report"
    /\ keepAt' = "none"
    /\ IF target = 0
         THEN UNCHANGED <<outbox, target, faults>>
         ELSE \E queued \in BOOLEAN :
                /\ Clean(queued)
                /\ IF queued
                     THEN /\ outbox' = Push(outbox, <<IF target = Running THEN "complete" ELSE "rolled back",
                                                      target>>)
                          /\ target' = 0
                     ELSE UNCHANGED <<outbox, target>>
    /\ UNCHANGED <<image, state, boot, runVars, probation, healthy, connected, deadline, jobVars, taskVars,
                   parkVars, taken, pub, fleetVars, kept>>

\* verify_deadline_fire, in the esp_timer task: it looks under the lock and rolls back after it.
DeadlineLooks ==
    /\ deadline = "set"
    /\ deadline' = IF probation THEN "firing" ELSE "off"
    /\ UNCHANGED <<flashVars, runVars, probation, healthy, connected, keepAt, jobVars, taskVars, parkVars,
                   boxVars, fleetVars, kept, faults>>

DeadlineRollsBack == deadline = "firing" /\ Rollback /\ UNCHANGED faults

-----------------------------------------------------------------------------
(* Commands.                                                               *)

SendUpdate(u) ==
    /\ u \notin sent
    /\ sent' = sent \cup {u} /\ queue' = queue \cup {u}
    /\ UNCHANGED <<flashVars, runVars, probVars, jobVars, taskVars, parkVars, boxVars, cancels, told,
                   kept, faults>>

SendCancel ==
    /\ cancels < MaxCancels
    /\ cancels' = cancels + 1 /\ queue' = queue \cup {Cancel}
    /\ UNCHANGED <<flashVars, runVars, probVars, jobVars, taskVars, parkVars, boxVars, sent, told,
                   kept, faults>>

\* run_commands acts on a command that was received and deleted in this phase, after its publish; one
\* whose delete failed comes again.  (Between the deadline's look and its rollback, microseconds,
\* nothing comes in from the network.)
Takes(c) ==
    /\ c \in queue
    /\ InPhase /\ Free /\ pub \in {"sent", "answered"} /\ pub' = "answered" /\ deadline # "firing"
    /\ \E deleted \in BOOLEAN :
        /\ Clean(deleted)
        /\ queue' = IF deleted THEN queue \ {c} ELSE queue

\* A redelivery of the last URL is ignored; a version that is no newer, and anything while an update
\* runs, on probation or in the back-off, is refused.
Repeated(u) == u = lastUrl
Startable(u) == Version[u] > Running /\ phase = "idle" /\ ~probation /\ ~backoff

StartUpdate(u) ==
    /\ Takes(u) /\ ~Repeated(u) /\ Startable(u)
    /\ phase' = "waiting" /\ cancel' = FALSE
    /\ job' = u /\ lastUrl' = u
    /\ spawnPending' = TRUE
    /\ parkReq' = working
    /\ UNCHANGED <<flashVars, runVars, probVars, backoff, otaAt, lent, parked, closing, outbox, taken, sent, cancels,
                   told, kept>>

RefuseUpdate(u) ==
    /\ Takes(u) /\ (Repeated(u) \/ ~Startable(u))
    /\ outbox' = IF Repeated(u) THEN outbox ELSE Push(outbox, Note)
    /\ UNCHANGED <<flashVars, runVars, probVars, jobVars, taskVars, parkVars, taken, sent, cancels, told,
                   kept>>

\* cancel_update: the task of a running update answers, unless it is too late for it.
Cancellable_TooLate == phase # "idle"
Cancellable == phase \in {"waiting", "downloading"}

CancelUpdate ==
    /\ Takes(Cancel)
    /\ cancel' = (cancel \/ Cancellable)
    /\ outbox' = IF Cancellable THEN outbox ELSE Push(outbox, Note)
    /\ UNCHANGED <<flashVars, runVars, probVars, phase, job, lastUrl, backoff, taskVars, parkVars, taken,
                   sent, cancels, told, kept>>

BackoffEnds ==
    /\ backoff
    /\ backoff' = FALSE
    /\ UNCHANGED <<flashVars, runVars, probVars, phase, cancel, job, lastUrl, taskVars, parkVars, boxVars,
                   fleetVars, kept, faults>>

-----------------------------------------------------------------------------
(* The worker's part, and the update's task.                               *)

\* A step of the worker that finds the park asked for hands its jobs back and closes its phase.
WorkerCloses ==
    /\ stage = "work" /\ working /\ parkReq /\ ~parked /\ ~closing /\ Free /\ pub = "no"
    /\ closing' = TRUE
    /\ UNCHANGED <<flashVars, runVars, probVars, jobVars, taskVars, parkReq, parked, boxVars, fleetVars,
                   kept, faults>>

\* finish(), once the worker and the model are back.
Finished_StillBusy == cancel' = FALSE /\ job' = None /\ UNCHANGED phase
Finished == phase' = "idle" /\ cancel' = FALSE /\ job' = None

\* kata_worker_resume.
Resumed_StillAsked == parked' = FALSE /\ UNCHANGED <<parkReq, closing>>
Resumed == parkReq' = FALSE /\ parked' = FALSE /\ UNCHANGED closing

\* spawn(): once the worker has parked or has taken too long to, or at once when there is none.
Spawn ==
    /\ stage # "down" /\ spawnPending /\ ~closing /\ keepAt = "none"
    /\ working => pub = "no"
    /\ spawnPending' = FALSE
    /\ \E made \in BOOLEAN :
        /\ Clean(made)
        /\ IF made
             THEN otaAt' = "start" /\ UNCHANGED <<phase, cancel, job, parkVars, outbox>>
             ELSE /\ Finished /\ Resumed
                  /\ outbox' = Push(outbox, Note)
                  /\ UNCHANGED otaAt
    /\ UNCHANGED <<flashVars, runVars, probVars, lastUrl, backoff, lent, taken, pub, fleetVars, kept>>

\* What the update's task leaves alone in most of its steps.
OtaFrame == UNCHANGED <<runVars, probVars, job, lastUrl, spawnPending, closing, taken, pub, fleetVars, kept>>

OtaTo(step) == otaAt' = step

\* kata_worker_park asks again, and waits.
OtaParks ==
    /\ \/ otaAt = "start" /\ OtaTo("park") /\ parkReq' = (parkReq \/ working)
       \/ otaAt = "park" /\ OtaTo(IF parked \/ ~working THEN "lend" ELSE "fail") /\ UNCHANGED parkReq
    /\ UNCHANGED <<flashVars, phase, cancel, backoff, lent, parked, outbox, faults>>
    /\ OtaFrame

\* model_lend, every 5 s until it is cancelled or time is up.
OtaLends ==
    /\ otaAt = "lend"
    /\ \/ ~cancel /\ lent' = TRUE /\ OtaTo("check")
       \/ OtaTo("fail") /\ UNCHANGED lent
    /\ UNCHANGED <<flashVars, phase, cancel, backoff, parkReq, parked, outbox, faults>>
    /\ OtaFrame

OtaChecks ==
    /\ otaAt = "check" /\ OtaTo(IF cancel THEN "fail" ELSE "enter")
    /\ UNCHANGED <<flashVars, phase, cancel, backoff, lent, parkReq, parked, outbox, faults>>
    /\ OtaFrame

OtaEnters ==
    /\ otaAt = "enter" /\ OtaTo("publish")
    /\ phase' = IF cancel THEN phase ELSE "downloading"
    /\ outbox' = Push(outbox, Note)
    /\ UNCHANGED <<flashVars, cancel, backoff, lent, parkReq, parked, faults>>
    /\ OtaFrame

\* kata_worker_publish is over.
OtaPublished ==
    /\ otaAt = "publish" /\ pub = "no" /\ keepAt = "none" /\ OtaTo("download")
    /\ UNCHANGED <<flashVars, phase, cancel, backoff, lent, parkReq, parked, outbox, faults>>
    /\ OtaFrame

\* esp_ota_begin erases the spare slot; everything before it may fail and leave the slot alone.
OtaBegins ==
    /\ otaAt = "download"
    /\ \E began \in BOOLEAN :
        /\ Clean(began)
        /\ OtaTo(IF began THEN "write" ELSE "fail")
        /\ image' = IF began THEN [image EXCEPT ![Spare] = 0] ELSE image
    /\ UNCHANGED <<state, boot, target, phase, cancel, backoff, lent, parkReq, parked, outbox>>
    /\ OtaFrame

\* What arrives may be cut short, damaged, or another image than the one asked for.
OtaWrites ==
    /\ otaAt = "write"
    /\ \/ OtaTo("fail") /\ (cancel \/ faults < MaxFaults) /\ Clean(cancel) /\ UNCHANGED image
       \/ \E got \in Versions \cup {0} :
            /\ Clean(got = Version[job])
            /\ image' = [image EXCEPT ![Spare] = got]
            /\ OtaTo("verify")
    /\ UNCHANGED <<state, boot, target, phase, cancel, backoff, lent, parkReq, parked, outbox>>
    /\ OtaFrame

\* The checks at the end of download(): the SHA-256, the image itself, its version, no downgrade.
Accepted_AnyImage == Version[job] > Running
Accepted == image[Spare] = Version[job] /\ Version[job] > Running

OtaVerifies ==
    /\ otaAt = "verify" /\ OtaTo(IF Accepted THEN "lock" ELSE "fail")
    /\ UNCHANGED <<flashVars, phase, cancel, backoff, lent, parkReq, parked, outbox, faults>>
    /\ OtaFrame

OtaLocks ==
    /\ otaAt = "lock" /\ OtaTo(IF cancel THEN "fail" ELSE "record")
    /\ phase' = IF cancel THEN phase ELSE "installing"
    /\ UNCHANGED <<flashVars, cancel, backoff, lent, parkReq, parked, outbox, faults>>
    /\ OtaFrame

OtaRecords ==
    /\ otaAt = "record"
    /\ \E set \in BOOLEAN :
        /\ Clean(set)
        /\ target' = IF set THEN Version[job] ELSE target
        /\ OtaTo(IF set THEN "boot" ELSE "unrecord")
    /\ UNCHANGED <<image, state, boot, phase, cancel, backoff, lent, parkReq, parked, outbox>>
    /\ OtaFrame

\* esp_ota_set_boot_partition, then the last progress message and RESTART_DELAY_MS for it.
OtaBoots ==
    /\ otaAt = "boot"
    /\ \E set \in BOOLEAN :
        /\ Clean(set)
        /\ IF set
             THEN /\ boot' = Spare /\ state' = [state EXCEPT ![Spare] = "new"]
                  /\ outbox' = Push(outbox, <<"restarting", Version[job]>>)
                  /\ OtaTo("restart")
             ELSE OtaTo("unrecord") /\ UNCHANGED <<boot, state, outbox>>
    /\ UNCHANGED <<image, target, phase, cancel, backoff, lent, parkReq, parked>>
    /\ OtaFrame

OtaRestarts ==
    /\ otaAt = "restart" /\ Down
    /\ UNCHANGED <<flashVars, fleetVars, kept, faults>>

OtaUnrecords ==
    /\ otaAt = "unrecord" /\ OtaTo("fail")
    /\ target' = 0
    /\ UNCHANGED <<image, state, boot, phase, cancel, backoff, lent, parkReq, parked, outbox, faults>>
    /\ OtaFrame

\* A failed or cancelled update gives the model back (or restarts, when its memory cannot be had), ...
OtaFails ==
    /\ otaAt = "fail"
    /\ \/ OtaTo("resume") /\ lent' = FALSE
          /\ UNCHANGED <<flashVars, phase, cancel, backoff, parkReq, parked, outbox, faults>>
          /\ OtaFrame
       \/ lent /\ Clean(FALSE) /\ Down /\ UNCHANGED <<flashVars, fleetVars, kept>>

\* ... the worker its queue, and Fleet the reason; ...
OtaResumes ==
    /\ otaAt = "resume" /\ OtaTo("finish")
    /\ Resumed
    /\ backoff' = TRUE
    /\ outbox' = Push(outbox, Note)
    /\ UNCHANGED <<flashVars, runVars, probVars, phase, cancel, job, lastUrl, spawnPending, lent, taken, pub,
                   fleetVars, kept, faults>>

\* ... and only then lets the next update in.
OtaFinishes ==
    /\ otaAt = "finish" /\ OtaTo("none")
    /\ Finished
    /\ UNCHANGED <<flashVars, runVars, probVars, lastUrl, backoff, spawnPending, lent, parkVars, boxVars,
                   fleetVars, kept, faults>>

OtaStep ==
    \/ OtaParks \/ OtaLends \/ OtaChecks \/ OtaEnters \/ OtaPublished \/ OtaBegins \/ OtaWrites
    \/ OtaVerifies \/ OtaLocks \/ OtaRecords \/ OtaBoots \/ OtaRestarts \/ OtaUnrecords \/ OtaFails
    \/ OtaResumes \/ OtaFinishes

-----------------------------------------------------------------------------

Next ==
    \/ PowerCut \/ Boot
    \/ PublishBegins \/ PublishEnds \/ NetEnds \/ HelloEnds
    \/ SelfTest \/ MarkValid \/ Report \/ DeadlineLooks \/ DeadlineRollsBack
    \/ \E u \in Updates : SendUpdate(u) \/ StartUpdate(u) \/ RefuseUpdate(u)
    \/ SendCancel \/ CancelUpdate \/ BackoffEnds
    \/ WorkerCloses \/ Spawn
    \/ OtaStep

Spec == Init /\ [][Next]_vars

(***************************************************************************)
(* The board boots when it has power, and its tasks keep running.  The     *)
(* publish, the spawn and the update's task are strongly fair: phases      *)
(* begin again and again, and net_mx goes to the task that waits for it.   *)
(***************************************************************************)
Fairness ==
    /\ WF_vars(Boot) /\ WF_vars(PublishEnds) /\ WF_vars(NetEnds) /\ WF_vars(HelloEnds)
    /\ WF_vars(SelfTest) /\ WF_vars(MarkValid) /\ WF_vars(Report) /\ WF_vars(DeadlineRollsBack)
    /\ SF_vars(PublishBegins) /\ SF_vars(WorkerCloses) /\ SF_vars(Spawn) /\ SF_vars(OtaStep)

FairSpec == Spec /\ Fairness

-----------------------------------------------------------------------------
(* Properties.                                                             *)

\* Slot s holds an image that passed probation, and is not marked otherwise.
Proven(s) == image[s] \in kept /\ state[s] = "valid"

\* Whatever happens, the power included, the board has an image that passed probation (or the one it
\* came with) and can boot it: the slot it boots holds that image, or a whole new image on trial with
\* the proven one in the other slot, untouched.
AlwaysRecovers ==
    \/ Proven(boot)
    \/ image[boot] # 0 /\ state[boot] \in {"new", "pending"} /\ Proven(Other(boot))

\* The update's task, the worker and the model are all given back before the next update is let in,
\* on every way out of an update (ota.c, finish: "from then on a command may start the next one").
IdleHoldsNothing ==
    phase = "idle" => otaAt = "none" /\ ~spawnPending /\ ~lent /\ ~parkReq

\* An update whose cancellation was accepted is never installed: the cancel and the install meet under
\* the lock.
CancelledIsNotInstalled == cancel => phase # "installing" /\ otaAt \notin {"record", "boot", "restart"}

\* ota_complete is only ever sent for an image that passed its self-test and reached IoT Core.
CompleteIsProven ==
    \A v \in Versions : <<"complete", v>> \in told => v \in kept

\* Every update ends: in a restart, or with its reason given and the board back to work.
UpdatesEnd == phase # "idle" ~> phase = "idle"

\* Unless something fails, Fleet hears how every install ended: the outcome outlives the restarts it is
\* about.  (Except when a worker is left parked, and when the deadline fires between an image's being
\* kept and its timer's being stopped: see README, Findings.)
LeftParked == parked /\ ~parkReq
KeptUndone(v) == v \in kept /\ \E s \in Slots : image[s] = v /\ state[s] = "bad"

OutcomeIsTold ==
    \A v \in Versions :
        otaAt = "restart" /\ job # None /\ Version[job] = v ~>
            \/ {<<"complete", v>>, <<"rolled back", v>>} \cap told # {}
            \/ faults > 0 \/ LeftParked \/ KeptUndone(v)

\* ota.c:35: the restart waits "for the last progress message to reach IoT Core first".
RestartIsAnnounced ==
    [][otaAt = "restart" /\ stage' = "down" => <<"restarting", Version[job]>> \in told]_vars
=============================================================================
