# claude-chats: verification

TLA+ models of claude-chats, the TLC runs that check them on small instances,
and the theorems TLAPS proves about them for every instance.

The repository has two halves. One captures every Claude Code conversation on
one machine and stores it, searchable, in Postgres (`hook/`, `facts/`, `mcp/`,
`scripts/`). The other moves the embedding of its messages onto a fleet of ESP32
boards, the Katas (`esp32-embedder/`). Each half is built around one promise:

* capture "must not be able to fail": a message the hook has seen is never lost;
* a job is "always in at least one durable queue" until its row is committed.

Everything modelled here is about those promises, and about what keeps them
alive: titles, vectors, retries, updates, restarts.

## Inventory

| Component | State | Operations | Hard because | What makes it correct | Here |
|---|---|---|---|---|---|
| Capture hook, `hook/hook/record.py` | none of its own: reads the transcript, writes the outbox and the fallback file | one transaction per run: append new rows, carry titles, queue a tombstone again | its snapshot may be stale; SQLite may be unavailable; a drain works on the same rows | a captured message is never lost; the current title gets through | `Outbox` |
| Outbox drain, `hook/hook/drain.py` | the lock, a copy of a batch | look, lock, read, write a session, mark, mark failed, stop | two drains; hooks change rows under it; dies between Postgres and SQLite; poisoned rows | tombstone only what is stored; nothing starves | `Outbox` |
| Fallback replay, `hook/hook/replay_fallback.py` | a copy of the file | read, insert, archive | hooks append to the file meanwhile | what is archived was replayed | `Outbox` |
| Image archive, `hook/hook/images.py` | staging directory, share | stage, flush | two moves per image; a share that hangs or is not mounted | an image is staged or flushed, with its sidecar | not modelled |
| Embedding backfill, `hook/hook/backfill.py` | the set that failed | select, embed, update, reindex | text that can never be embedded | ends, and fills what can be filled | not modelled |
| Facts service, `facts/service.py` | progress per conversation, facts | extract an exchange, record a failure, give up, embed | open exchanges, retries, messages that arrive late | every exchange is extracted once or given up on | not modelled |
| Kata worker, `esp32-embedder/worker/` | the job pool, its clocks, health, park flags | network phase (send, delete, receive, extend), pass, park, reboot | several boards on one queue; lost answers; jobs that crash a board; an update in another task | no job lost, no job embedded by two boards, no crash loop | `KataWorker` |
| SQS and Cal (not in this repository) | queues, receive counts, visibility; rows | deliver, hide, redrive; commit, acknowledge | at-least-once delivery, stale receipts | as above | `KataWorker`, external |
| Board runtime, `firmware/full/main/kata_worker.c`, `full.c`, `statusd.c`, `metrics.c` | the network and the gate, the watchdogs' clocks, the count of crashes | boot, phases of two tasks, replies and POSTs, step, watchdog, guard | RAM for one TLS session; timed waits that add up; whatever hangs hides behind what goes on; a dead card | one session at a time; a stuck board restarts, a working one does not; no crash loop | `PhaseGate`, `Board` |
| Fleet commands, `fleet.c`, `otacmd/` | reply outbox, chunks received | respond, take, put back, dispatch, collect a URL's chunks | two tasks, a bounded outbox, chunks that repeat, come late, or belong to another URL | what is answered is published, within the bound; an update is of one version | outbox in `OtaUpdate`, commands in `FleetCommands` |
| Firmware update, `ota.c` | slots, update task, probation | start, download, check, install, confirm, roll back, cancel | power cuts at any point, cancel against finish | the board always has an image that boots; what is taken is given back; Fleet hears the outcome | `OtaUpdate` |
| Model and card pipeline, `full.c` | two reader tasks, request slots, bounce buffers, CRCs | issue, wait, read, copy, check, use, abort; lend and take back | slots and buffers reused under a reader; data used before its CRC is known | a unit is computed from its own sections; a vector handed on is of intact data | `CardReader` |
| Self-test, `full.c` | counts of what was wrong | run each test, judge, say whether healthy | what is not recorded is compared only roughly, and a cosine may be no number | healthy means every test ran and was good | `SelfTest` |
| Batch planner, `worker/batch.c` | none | plan a pass | limits on tokens and segments | what is planned fits the model; the oldest always goes | `Packing` |
| Reading messages, `worker/worker.c`, `prep.c`, `tok/`, `age.c`, `kw.c` | none | open, parse, decrypt, canonical text, tokens | must agree with Cal, with Ollama, with age, to the byte | what Kata passes on Cal can read; the tokens are Ollama's; a damaged file does not open | `JobText`, `Tokenizer`, `AgeFile`, `Encodings` |
| Credentials and SQS calls, `worker/creds.c`, `worker/sqs.c` | cached credentials | refresh, send, receive, delete, extend | answers that are lost, partial or wrong | nothing counts as done that AWS does not say is done | `AwsCalls` |
| Status server, `statusd.c`, `httpreq.c`, `prov.c` | the allow list | accept, read a head, answer | lists that cannot be read, heads in pieces | a list that is broken does not widen | `StatusServer`, `PhaseGate` |
| Backup and restore, `scripts/backup.sh`, `convmem-archive.sh`, `restore.sh` | months of archive, a dump | dump, copy, prune, restore | what arrives while it runs | archives and dump hold every row | not modelled |
| MCP server, legacy ingest server, SigV4, results and metrics lines, installers and schema, facts evaluation, infrastructure | see below | | | | not modelled |

How they interact: the hook and the drains share the SQLite outbox and nothing
else; the drain (or, with several machines, a forwarder that is not in this
repository) is the only writer of messages in Postgres; the facts service, the
backfill and the MCP server read what it wrote. A Kata's worker meets the other
boards only through SQS; its update task meets it through two flags, and the
board's tasks through queues and the gate.

## Modules

| Module | What it is |
|---|---|
| `SafeCapture` | abstract: a message goes from said to captured to stored, and never back |
| `Outbox`, `MCOutbox` | hooks, drains and the replay on one outbox |
| `OutboxProofs` | types, durability, refinement of `SafeCapture`, titles |
| `JobDelivery` | abstract: what may happen to the durable copies of a job |
| `KataWorker`, `MCKataWorker` | boards, queues, Cal and time |
| `KataWorkerProofs` | types, durability, refinement of `JobDelivery`, exclusive passes, empty parked boards, bounded crashes, no needless redelivery |
| `OtaUpdate`, `MCOtaUpdate` | one board's updates: commands, task, slots, probation, reports |
| `OtaUpdateProofs` | types, recovery, what an update holds, cancels, honest reports |
| `CardReader`, `MCCardReader` | one pass over the model on the card: three tasks, slots, buffers |
| `CardReaderProofs` | slots, the reads in flight, and the data they bring |
| `PhaseGate` | abstract: who of a board's tasks may use the network when |
| `Board`, `MCBoard` | a board from reset to reset: boot, loop, watchdogs, on `PhaseGate`'s phases |
| `BoardProofs` | refinement of `PhaseGate`, the gate's invariants, and what the watchdogs spare |
| `FleetCommands` | Fleet's commands, and the chunks of a long URL |
| `SelfTest` | the boot's tests and what healthy means |
| `Tokenizer`, `AgeFile`, `Encodings`, `Packing` | pure parts, each with a reference definition |
| `AwsCalls`, `JobText`, `StatusServer` | what is believed of what comes from outside |
| `Outside` | one input of any kind, and what each part must make of it |
| `CodecProofs` | theorems about `AwsCalls`, `JobText`, `StatusServer`, `AgeFile`, `SelfTest` and `FleetCommands` |
| `ContentProofs` | theorems about `Packing`, `Encodings` and `Tokenizer` |
| `SequenceLemmas` | induction and folds, for the two before |
| `MCCodecs` | the small inputs of all the above for TLC |

### `Outbox` and the code

An action is one SQLite or Postgres transaction, or one read whose result is
used later; between two actions any other process may run, fail or die.

* **Hook.** `HookReads` is `main` up to the snapshot (transcript, title).
  `HookCommits` is the whole of `_append_to_outbox` with `_carry_titles`, and
  `_start_drain` when the outbox changed. `HookFallsBack` is `_write_fallback`
  after any exception, with as many of the lines as got written; with none of
  them it is a hook that was killed.
* **Drain.** `DrainLooks`, `DrainWaits`, `DrainReads`, `DrainConnects`,
  `DrainWrites`, `DrainMarks`, `DrainCloses` follow `drain`, `_drain_locked` and
  `_drain_pass`; `read` is the copy of the titles `_mark_sent` compares with.
  `DrainDies` covers a kill, a SQLite error, and a lost connection, where the
  `pg.rollback()` of the exception handler raises in turn and ends the drain; a
  commit that was under way may have happened.
* **Replay.** `ReplayReads`, `ReplayInserts`, `ReplayArchives`, `ReplayDies`.
* **Postgres** is `pgMessage` (absent, text, text with a vector) and `pgTitle`.

Abstractions: `conversation_name` and `ai_title` are one title, since every
statement treats them alike; text is there or blank; the fallback file is a
sequence of writes, each a set of messages with the title they were written
with; `attempts` saturates at `MaxAttempts`, which only makes rows that failed
that often equal, and must exceed the failures a good row can have
(`MaxFaults`); `said` and `title` are Claude Code's transcript.

### `KataWorker` and the code

An action is one network call of `worker_step`, one pass, or one step of the
update's task. `pc[b]` names the next call. A receipt is a pair of a job and the
number of its receive: SQS honours only the latest, while the job is hidden.

* `NetBegin`, `Send`, `Delete`, `AfterHandoff`: `worker_step` and `handoff`, twice
  per phase. `Receive`, `Verdict`, `ReceiveDone`: `top_up` and `arrive`.
  `Extend`: `visibility`, and the decision to start a pass. `PassGood`,
  `PassBad`, `PassSkipped`, `PassCrashes`: `pass`, `unembedded`, `go_sick`.
* `HealthCheck`, `Crash`, `Boot`: the sick board's check, any loss of power,
  panic or watchdog restart, and the self-test that may leave a board sick.
* `RequestPark`, `Resume`, `Release`, `Park`: an update's park from its own task.
* `Redrive`, `CalCommit`, `CalAck`, `Tick`: SQS, Cal and time, from what
  `sqs.c` and `worker.c` rely on.

Time is in ticks. A phase takes `PhaseTicks` at most, a pass `PassTicks`, a wait
`IdleTicks`; `TimeAssumption` states what `worker.h` chooses its constants for:
`WORKER_EXTEND_HORIZON_S` outlasts a phase, a pass and the next phase, and is no
longer than the visibility. Left out: status JSON and counters, token and byte
budgets (a receive may stop anywhere below `PoolMax`), decryption (a constant
verdict per job; `JobText` has `arrive` itself), the doubling of the back-off,
and the stall clock, which is in `Board`.

### `OtaUpdate` and the code

Three tasks of one board: the main task (`app_main`, then `worker_step` or
`kata_worker_control_loop`), the update's task (`ota_task`, its step in
`otaAt`) and the esp_timer task with the probation deadline. An action is what
one of them does between two points where another can get in, so `ota.c`'s lock
is the atomicity of `OtaEnters`, `OtaLocks`, `CancelUpdate` and `StartUpdate`.

* **Restarts.** `PowerCut` may happen anywhere and takes all that is in RAM;
  `Boot` is the bootloader's choice of slot followed by `ota_boot`; `Rollback` is
  `rollback`. The flash is `image`, `state`, `boot` and `target` (NVS).
* **A phase** (`kata_worker.c`, `net_end`) is `PublishBegins` and `PublishEnds`, which
  is `publish_outbox` with `fleet_take`, `fleet_put_back` and, once per boot,
  `ota_on_connected` and a second publish; then `Takes`, a command received and
  deleted before the publish and run after it; a further publish when commands
  were run; and `NetEnds`. `HelloEnds` closes the phase before the self-test.
* **Probation.** `SelfTest` (with `ota_health`), `MarkValid` and `Report` (`maybe_keep`
  after its lock), `DeadlineLooks` and `DeadlineRollsBack` (`verify_deadline_fire`).
* **An update.** `StartUpdate`, `Spawn`, then the `Ota...` actions in the order of
  `ota_task`: park, lend the model, publish, erase, write, verify, mark as
  installing, record, switch the boot slot, restart; or fail, give the model
  back, resume the worker, finish. `WorkerCloses` and `NetEnds` are
  `worker_step`'s park, seen from the update; `KataWorker` has its inside.

Abstractions: an image is its version, 0 an erased or damaged slot; the checks of
`download` (hash, signature, project, version) are one comparison, `Accepted`;
messages that do not bear on an outcome are one value, `Note`; waits with a
time-out may run out at any time; the back-off's length is left out. The status
document is left out with its topic.

### `CardReader` and the code

Three tasks: the pass (`embed_in`, `pass_fwd`, `issue`, `wait_unit`, `rd`, `wait_rd`),
`sd_task` and `cp_task`, a step being what one of them does between two points
where another can get in. `plan` is the pass's list of units; reads of unit
`u + 1` are queued before unit `u` is computed. `model_lend` and `model_reclaim`
are an update that borrows the buffers.

Abstractions: memory holds chunks (which part of which section, intact or not); a
CRC is the sequence of chunks it has seen; a read with its paced retries ends
intact, corrupt, or in `abort()`. The arithmetic (`kernels.inc`) is left out: a
unit is "computed" when its buffers are as the plan says.

### `PhaseGate`, `Board` and the code

* **`PhaseGate`** is `net_begin` and `net_end` (`net_mx`, the gate, `in_phase`), statusd's
  reply and metrics' POST. `at[t]` is where a task is.
* **`Board`** is `app_main` (`Boots`, `net_up`, `kata_worker_hello`, `SelfTest`), the loop of
  `kata_worker_run` (`StepBegins`, `Checks`, a phase, `PhaseDone`, `PassDone`), the control
  loop of a board without a model, and the three watchdogs: `watchdog` (the
  esp_timer callback), the guard, and the task watchdog it feeds. `Resets` is any
  restart; what is in RTC memory survives it, but not a power cut.
* Time is in minutes, the timer's period. A live task finishes within the limits
  `PhaseLimit`, `PassLimit`, `CheckLimit`, `WaitLimit`, of which `StepAssumption` states that a
  whole step, with another task's phase before its own, stays within
  `WATCHDOG_S`, and `StallAssumption` that two waits and steps of which the first fails
  stay within `STALL_RESTART_S` (5 and 15 minutes, twice, in 60); a hung task never moves again until the chip restarts.
* Faults: a hang in a session, a reply, a check or a pass; a timer callback that
  wedges; a card that dies; a crash; a power cut; refused phases, failed starts;
  and `TornTick`, a read of the 64-bit `last_tick_us` between its two stores.
* A board whose network is not up within 20 s of boot goes "off" and stays so,
  as in `full.c:804`.

### `FleetCommands` and the code

`take_some` receives and deletes commands in a phase, `run_commands` acts on them after
it, and `ota_cmd_parse` is the whole of `otacmd/ota_cmd.c`: simple commands, an update
in one piece, and `chunk()` with its set of chunks that goes stale, starts again,
overflows or is complete. Commands may come again, late, mixed, mangled, and in
any order; a restart forgets what was taken. The clock is a `uint32_t` of
milliseconds that wraps. Left out: JSON itself and the text of replies.

### The pure parts

Each module translates the code and then states what it should be without
reading like it.

* **`Tokenizer`** (`prep.c`, `tok/tok.c`): NULs, truncation, the two forms of the vocab,
  words, the greedy match, the limit on ids. The reference names the words as
  maximal runs and their tokens as the longest ones that spell them.
* **`AgeFile`** (`age.c`): header, stanzas, MAC, STREAM, with ideal cryptography: a
  sealed cell knows its key, chunk and place. The reference: only the sealed
  file opens, and it opens to its text.
* **`Encodings`** (`kw.c`): base64 and dates, against their inverses and the calendar.
* **`Packing`** (`batch.c`, `worker.c`'s `pass`, `full.c`'s `set_segs`): planner and model agree.
* **`AwsCalls`** (`creds.c`, `sqs.c`): the one refill of the credentials, every answer of
  SQS, with MD5 as the body itself.
* **`JobText`** (`worker.c`): `parse_strict`, `open_job`, `arrive`; a field is the kind of JSON value
  in it. Cal's reading, which is not in this repository, is external.
* **`StatusServer`** (`prov.c`, `httpreq.c`, `statusd.c`): the list, the peer, the request.
* **`SelfTest`** (`full.c`): a test at a time, the counts, the verdict and `healthy`.

`Outside` has one `input`, of some kind, and says of each kind what must come of it.
`MCCodecs` puts it, `FleetCommands` and `SelfTest` into one state machine: its initial
states choose one small input, or Fleet's commands, or a self-test; only the last
two take steps. Its `FilesAreUnforged` makes sure that every damaged file is a case of
`OpensWhole`.

## Runs

A failing outcome of any action spends one of `MaxFaults`, so a bound of two is
every pair of failures at every pair of places.

| Run | Instance | Question |
|---|---|---|
| `OutboxCapture` | 2 messages, 2 hooks, 2 drains, 1 replay, 2 failures | is a captured message safe until it is stored; is every queued row whole; do vectors stay |
| `OutboxDelivers` | 3 messages (the first of a session that is always rejected, the last said mid-turn), 2 renames, batches of 1, 1 failure | once all of a session is delivered, is its title the current one; is what is not rejected delivered |
| `OutboxReplay` | 1 message | finding 1 |
| `KataWorkerUpdate` | 1 board, 2 jobs of which 1 crashes it, 1 update, 1 failure | nothing lost, no crash loop, a parked board holds nothing |
| `KataWorkerBoards` | 2 boards, 2 jobs, 1 failure | exclusive passes, no needless redelivery, refinement of `JobDelivery` |
| `KataWorkerSettles` | 1 board, a job that always crashes it, a job whose result SQS can never take, 1 failure | every job ends as a row or a dead letter, the readable one as a row |
| `KataWorkerResume` | 1 board, 1 job, 1 update | finding 2 |
| `OtaUpdate` | 1 update (its image may fail its self-test), 1 cancel, an outbox of 2, 2 failures | can the board always boot a proven image; does an update end and give back what it took; is an accepted cancel final; is `ota_complete` true; does Fleet hear the outcome of one that nothing disturbed |
| `OtaRestart` | 1 update, no failure | finding 3 |
| `CardReader` | 2 layers, 2 matrices of 2 blocks, 2 passes, 1 failure (a corrupt read, a dead card, buffers that cannot be had back) | are slots and buffers free when taken; is a unit computed from its own sections; is a vector of intact data; are the tasks idle between passes; does a pass end |
| `Board` | the limits in minutes, 2 failures of any kind, a card that may be dead from the start | one session at a time; is only a stuck board restarted, and always; does a crash loop end |
| `Codecs` | `MCCodecs`' inputs: texts of 4 items of 11, files of 6 bytes in chunks of 2 with every run of cells lost or doubled, 4 bytes, 4 jobs, answers of 2 entries, messages with 2 fields changed; 6 URLs; 4 tests | is each pure part what its reference says; is an update of one version; does healthy mean good, NaNs apart |

Why the bounds are enough: the conflicts are between two processes of a kind
(two hooks, two drains, two boards) about one or two items, and the hazards need
one failure or two; two renames are what it takes for an old title to overtake a
new one; three messages and batches of one give a poisoned row, a good row
behind it and one more. `MaxReceives = 4` leaves a receive beyond
`RetriesReceive = 3`, and 5 in `KataWorkerSettles` leaves one more for its failure:
a crash or a lost answer costs a receive, and with none to spare a readable job
can be dead-lettered. `OutboxDelivers` has one hook at a time: Claude Code runs a
session's hooks one after the other, and of two that overlap the later may
commit the older title until the next one runs. It has one drain, since it is
`OutboxCapture` that asks what two of them do to each other.

In `OtaUpdate` a power cut is one of the failures, so two of them put a cut into
the install and another into the trial that follows; an outbox of two instead of
`FLEET_OUTBOX` (16) makes it overflow.

In `CardReader` two units' reads are in flight at a time, so a matrix of two blocks
and the next one's first meet in the slots (`NREQ` is 12 for the code's 32,
which the proofs show to be enough) and in both parities of the buffers; a
second pass begins on what the first left. In `Board` the minutes keep the order of the code's limits (a step below `WATCHDOG_S`, `WATCHDOG_S` below
`STALL_RESTART_S`), and two failures are a hang and the failure of what should see
it. In `Codecs` texts of four items hold a word that matches half way and then
fails; files of three chunks have a first, a middle and a last; a clock that
wraps at 6 wraps while a set of chunks (`MaxAge = 2`) is collected. `MaxCommands = 1` is
no restriction there: the next command may be taken before time passes.

`CHECK_DEADLOCK FALSE` is set where the system really may stop: in `KataWorkerUpdate`,
`KataWorkerResume` and the `Ota` runs a board parked by the race of the second
finding; in `CardReader` a board that aborted, or whose passes are used up; in
`Board` a board that is off; in `Codecs` an input, which takes no step.

### Fairness

* `Outbox`: weak fairness of each drain's steps. launchd or systemd starts a
  drain on a timer, so one that is off starts again; a running process keeps
  going; a waiting one gets the lock or leaves. Nothing is assumed of sessions,
  hooks or replays.
* `KataWorker`: weak fairness of a board's step, of SQS, Cal and time, because
  the worker's task loops for ever; strong fairness of `Receive` alone, because
  SQS gives a visible message to somebody who keeps asking, not to the first to
  ask. Nothing is assumed of updates, crashes or health checks.
* `OtaUpdate`: a board with power boots, and its tasks keep running: weak fairness
  of the main task's steps and of the deadline's rollback; strong fairness of
  the publish, of the spawn and of the update's task, which wait for each
  other's phases (`net_mx`, `ota_spawn_due`) and get their turn between them.
  Nothing is assumed of Fleet, of the power, or of how soon a wait runs out.
* `CardReader`: weak fairness of the pass, of `sd_task` and of `cp_task`: three tasks of a
  scheduler, each blocked only on the others. Nothing is assumed of updates.
* `Board`: weak fairness of the main task's steps, of the timer's callback and of the
  guard; strong fairness of each task's phase, because `net_mx` wakes its waiters in
  turn, and of time, which passes whenever every live task has done what it could;
  weak fairness of replies and POSTs while they hold the gate. A hung task has no
  enabled step, so nothing is assumed of it.
* `Codecs` has safety properties only.

## Theorems

All are for any number of messages, sessions, hooks, drains, jobs and boards, any
layers and sizes of matrices, and any durations and bounds satisfying the modules' named assumptions.

* **`OutboxProofs!TypeCorrect`**: types, among them that a drain at work holds
  the lock.
* **`QueuedRowsAreWhole`**, **`VectorsSurvive`**, **`CaptureImplemented`** rest on
  `SafeInv`: a tombstone stands for a stored message; a drain's batch is rows of
  the outbox; between the commit and the mark, what it is about to mark is
  stored. None of these is in the properties, and without them a drain that
  marks could not be told from one that loses. The lemma of each action shows
  `Safely`, what a step may do to any message; refinement then follows from
  `Safely` without looking at actions.
* **`TitlesSettle`** has three hypotheses, and none of them can be dropped: names are
  always new (`AlwaysNew`: a session renamed back finds its newest row as it was
  last sent and queues nothing), a session's hooks take turns (`TakeTurns`: of two
  that overlap the later may commit the older title), and no replay is running
  (its rows carry the title they were written with). It rests on `TitleInv`: a title
  only gets older on its way from the transcript through the hook, the rows and
  the drain's copy to Postgres (`Downstream`, `HookAhead`); every row that waits
  carries the title captured last (`WaitingIsCurrent`); what a drain holds of one
  session was read alike and still waits (`ReadAlike`). So when `DrainMarks` finds a
  row as it was read, what was written is the title captured last, and a hook that
  queues nothing found the newest row carrying it. The property alone says
  nothing of a session with rows that wait.
* **`KataWorkerProofs!TypeCorrect`**: types, with `HealthInv` (a board that has
  counted enough bad passes is sick) to bound the count.
* **`NothingLost`**, **`DeliveryImplemented`** rest on `DurableInv`: types, and
  `AcceptedInv`, that a receipt marked for deletion belongs to a job whose result
  is on the results queue or committed.
* **`PassIsExclusive`** rests on `PassIInv`: the board's own
  clock `seen` never runs past what SQS holds (`SeenInv`), what is held longest
  still has the horizon less the time since the phase began (`HolderInv`), and
  so a pass ends before its jobs are visible (`PassInv`).
* **`ParkedIsEmpty`** rests on the same invariant's `ParkInv`.
* **`CrashesAreBounded`** rests on `CrashInv`: the times a job has crashed a board are at
  most its deliveries that can never be in a pass again (`Spent`). A crash spends
  the one it was running, since the board comes back without it and only a
  new delivery becomes pending (`Settles`); and no pass takes a job on its last.
* **`QuietMeansOnce`** rests on `QuietInv`: until something fails, all that a board holds was
  good for the horizon when its wait or pass began (`FreshInv`), so the
  extension of the next phase finds it in flight, and a job received once stays
  with its board until its message is deleted (`OnceInv`).
* **`OtaUpdateProofs!BoardRecovers`** rests on `FlashInv`: while the running image may
  still be rolled back the other slot is proven (`TrialHasFallback`); an image
  that is not on trial is proven itself (`ProvenUnlessOnTrial`), which is why its
  spare slot may be erased; what is about to be booted is still what was checked
  (`CheckedBeforeInstall`). `AlwaysRecovers` alone says nothing about the slot an
  update is about to erase.
* **`UpdateGivesBack`**, **`CancelStopsInstall`** rest on `ControlInv`: one update at a
  time, what its steps hold, and that no update runs during a trial.
* **`CompleteIsHonest`**, **`Types`** rest on `BoxInv`: no message in the outbox, on its
  way or delivered claims an image complete that was not kept.
* **`BoardProofs!BoardImplementsGate`**: every step of a board, restarts and hangs
  included, is a step of `PhaseGate` or a stutter. **`BoardOneSession`**,
  **`BoardNoPostInPhase`**, **`BoardPhasesStartUngated`** follow from it and `GateInv`: who is
  between `TakesNet` and the end of a phase is whom `net_mx` names; who is at a reply
  or a POST is whom the gate names; a session shows in `in_phase`. The last is what
  makes metrics' one look at `in_phase` enough. **`WatchdogSparesTheLive`** rests on `AgeInv`:
  what the two clocks show, the time since the last step and since the last
  progress, is at most what the step (`InStep`) and the round (`InRound`) under
  way may have taken, plus one round that a failure has cost.
* **`CardReaderProofs!SlotsStayFree`**, **`IdleWhenLent`** rest on `FlowInv`. Requests get numbers as
  `rd` hands out slots; those in flight are the last ones, and the tasks hold them in
  order: `cp`, its queue, `sd`, the queue of slots (`NumberInv`). The pass keeps no more
  going than the reads of the unit it waits for and of the next (`AheadInv`): at
  most 12 (`IssueFits`). So twelve slots are enough, which `SlotAssumption` asks for;
  the code has 32 (`full.c:156`). And a pass never leaves before the last read
  has landed (`NothingFlies`), also where it gives up and waits for one read only.
* **`UnitsComputeWithTheirOwn`**, **`GoodVectorsAreIntact`** rest on `DataInv` beside it. Chunks
  pass through the bounce buffers in card order (`PipeInv`), and a slot still holds
  what `issue` put there (`ReqsInv`). Whatever has landed is where the pass will look
  for it, this unit's and the earlier ones' it still needs (`LandInv`, `Past`): no two
  reads in flight share a buffer (`DstsDiffer`), and none lands in one that is in use.
  Until a mismatch is counted, what has been checked is intact; and if a block that is
  not was used before its matrix's CRC was complete, that CRC still accumulates it
  and is still to be compared (`PassSound`), before the pass ends because the last unit
  is the last block of its matrix (`LastUnit`). Two matrices' CRCs share no
  accumulator in a window of two units (`WindowAccs`). The two properties alone say
  nothing of reads that are still coming, nor of data that is used unchecked.
* **`FleetUpdateOfOneVersion`** assumes that no silence of Fleet's lasts until the
  32-bit clock of milliseconds (49 days) hides a stale set's age
  (`MaxAge + MaxSilence < Wrap`), and rests on two facts about the set being
  collected: all its chunks are of one version and count and sit at their places
  (`Collects`), and the clock tells how long ago it was begun (`Ages`).
* **`SelfTestHealthyMeans`** rests on `StInv`: the counters are those of the tests that
  ran, and the least cosine is that of the unrecorded ones. It is what holds of healthy:
  vectors whose cosine is no number stand apart, as the code does not keep its comment there (the end of Findings).
* **`OutsideIsBelieved`** is `OutsideIsChecked` for answers, lists, messages, requests and limits
  of any size; its parts are **`SendsMeanStored`**, **`DeletesMeanListed`**, **`ReceivesIntact`**,
  **`CredentialsGood`**, **`MessagesStrictAsCal`** and **`PeersOnly`**. Of what comes from outside it
  supposes that it has the fields the code reads, of the margins that `UseMargin` (60 s) is
  not more than `RefreshMargin` (600 s). `ReceivesIntact` follows the messages of an
  answer one by one (`WholeFrom`): which of the first n were kept, and where they stood.
* **`FilesOpenWhole`** is for texts, chunks, tags and headers of any size. `Unforged` is the ideal
  cryptography: what is under the file key was made by the forwarder; a stanza that opens for
  this identity holds that key; nothing in a chunk is taken for the nonce. `HeaderGood` is what the
  forwarder writes: at most `MaxStanzas` stanzas, all well formed, this identity's with the key.
  What opens has at its places the cells of what was sealed, slice for slice, and no more of
  them, since a slice that is the last says so; so nothing is lost from the end.

The other pure parts compute by recursion over data, and their theorems are inductions over it.
The library's induction theorems take the predicate as a parameter, which no prover here can
instantiate, so `SequenceLemmas` derives from the well-foundedness of strict inclusion that a set of
naturals has a least member, from it induction for sets of naturals (`InductionTo`), and that a fold is the
last of a function's values, each a step from the one before (`FoldRuns`).

* **`PassesFit`**: pools of any length and messages up to the model's context, with a segment for each of
  the `PendMax` jobs that `pass` looks at (256 and 64, `kernels.inc:42`, `worker.c:520`). The
  plan is followed job by job: what is picked is in order and within the limit; what is not picked
  did not fit, then or ever after.
* **`EncodingsReadBack`**: any bytes, any base64, any times, in any year. Its parts are
  **`BytesAreReadBack`** and **`OnlyCanonical`**, a quad of characters and its three bytes at a
  time, and **`DatesAreReadBack`**, which takes a year apart into era, century, four years and year, from March.
* **`TokensSpelt`**: any text, any limit of two ids or more (the two are [CLS] and [SEP]), any vocab without empty tokens
  (`VocabGood`) and any Unicode tables, as long as no special token's text is also a single character and
  what they map to is in their range (`TextGood`). The greedy match's ids are a spelling in the
  longest tokens, and there is no other, so a word is unknown only when there is none (`GreedySpells`,
  `WordIsSpelt`); a text's words are where its
  characters begin them (`TextSplit`); and `Reads`, item by item, has given out the ids of the words that have ended and
  holds the one that has not (`ReadStep`).

Only model-checked: liveness (`AcceptedIsDelivered`, `EveryJobSettles`, `EveryReadableJobCommits`,
`UpdatesEnd`, `OutcomeIsTold`, `PassesEnd`, `StuckBoardRestarts`, `StaysUp`), which needs ENABLED and fairness and is out
of the prover's reach. Every invariant that a run checks, and every action property, is also a theorem's.

## Findings

Each is a run TLC shows violated; `PROJECT.json` quotes the lines.

1. `OutboxReplay`: lines a hook appends while the fallback file is being
   replayed are archived without having been replayed.
2. `KataWorkerResume`: an update that gives up while the worker closes its
   session leaves the worker parked with nobody asking for it.

3. `OtaRestart`: the two seconds before a restart are "for the last progress
   message to reach IoT Core first", but nothing publishes the outbox in them.

`OutcomeIsTold` holds with two exceptions, which its formula names: the race of
the second finding, and a deadline that looks at `on_probation` just before
`maybe_keep` clears it and rolls back just after (`ota.c:124`): the image is kept and
rolled back, and what became of it may never be told.

Weaker differences met on the way, which no run is kept for:

* `replay_fallback.py:93` keeps each message's first line, and so the oldest
  title, when the file holds several writes of one session.
* `record.py:666` takes the newest row's title for the one Postgres has; after an
  older row is delivered behind a newer one, a session renamed back keeps the
  title in between (`OutboxDelivers` renames to new titles only).
* `worker.h:16`: after the second hand-off of a phase a pass does start with a
  result undelivered; the result is sent in the next phase.
* `worker.c:524`: jobs pooled beside one that crashes the board twice are sent to
  Cal unembedded with it.
* `creds.h:38`, "-1 = failed (c keeps whatever it had)": an answer that parses but is
  as good as expired replaces what was cached, and then fails (`creds.c:71`).
  `CredsGood` states what does hold.
* `worker.c:150`, "So Kata is at least as strict" as Cal: `integer()` takes `1.0`, `1e0` and
  `01`, which serde refuses, so the job is deleted and its result dead-lettered.
  `StrictAsCal` exempts numbers written so; the forwarder writes none. (The JSON
  parser also takes raw control characters in strings.)
* `full.c:629`, "NOT VERIFIED counts as healthy only if every unrecorded vector is within
  HEALTH_MIN_COS of Ollama": the code does not keep this of a vector of NaNs. Its cosine
  compares false with everything, so it leaves `st_min_cos` as it was (`full.c:605`), and a
  board whose unrecorded vectors are all NaNs is healthy. `HealthyMeans` does not count such
  a vector as good and leaves the case apart: it is of all the other vectors.
* `full.c:736`: a sick board's `model_health` compares with the recorded CRCs, where 0 is
  "not recorded": in a build without them such a board never gets well.
* `full.c:804`: a board whose network takes more than 20 s at boot has no worker and
  no control loop until it is restarted by hand; no watchdog runs yet.
* `last_tick_us` is 64 bits on a 32-bit core: read between its two stores as the low
  half carries over (every 71.6 minutes) it makes the watchdog restart a live
  board. `TornTick` is that step, and `SparesTheLive` exempts it alone.
* `ota_cmd.c:133`: a chunk says only version and count, so a second URL of the same
  version and count lends its parts to the first; and a sha256 that is refused half
  way leaves its start over the one already there (`ota_cmd.c:77`). The download's
  own checks then refuse the image.
* `full.c:375`: the rows of the embedding table are read without a CRC; `CardReader`'s
  `GoodMeansIntact` is about the sections that have one.

## Not modelled

* **Image archive** (`images.py`): best effort beside the outbox; what it loses is an
  image of a message, never the message, and every flush goes through its
  directory again.
* **Embedding backfill**: one loop of select, embed and update in one process under
  a lock; `Outbox` leaves it the rows it is for.
* **Facts service**: its progress is one Postgres transaction per exchange; the rest
  is prompts and a language model's answers.
* **Backup and restore**, **installers and schema**: shell around restic, `pg_dump` and psql,
  and idempotent scripts, most of whose lines are arguments and exit codes.
* **MCP server**, **legacy ingest server**: queries and one upsert per request, without
  state of their own.
* **Infrastructure**: declarative stacks; what the code relies on in them is in
  `KataWorker`'s external part.
* On the board: signing (`sigv4.c`), the text of results and metrics lines and of the
  status document, heap and core-voltage watching, the kernels' arithmetic, the
  Unicode tables (`tok_tables.h`, data), and the throwaway programs that measured the
  card and the kernels (`layer0.c`, `bench.c`).

What would come next: the facts service's progress against messages that arrive
late; and the archive's two moves.
