-------------------------------- MODULE Outbox --------------------------------
(***************************************************************************)
(* Capture and delivery on one machine: the hook appends a transcript's    *)
(* messages to the SQLite outbox (hook/hook/record.py), drains carry them  *)
(* to Postgres (hook/hook/drain.py), and the hook's fallback file is       *)
(* replayed into the outbox by hand (hook/hook/replay_fallback.py).        *)
(*                                                                         *)
(* Each SQLite or Postgres transaction is one action, and so is each read  *)
(* a process acts on later.  A hook's snapshot of the transcript, a        *)
(* drain's copy of a batch and a replay's copy of the file may all be out  *)
(* of date by the time they are used.                                      *)
(*                                                                         *)
(* A session has one title here: conversation_name and ai_title are        *)
(* carried, compared and stored alike.  A message's text is there or       *)
(* blanked; a message's transcript text never changes.  Every failure      *)
(* spends one of MaxFaults.                                                *)
(***************************************************************************)
EXTENDS Integers, Sequences, FiniteSets

CONSTANTS
    NumMessages,        \* the messages are 1..NumMessages, in transcript order
    Sessions,
    SessionOf,          \* SessionOf[m]: the session message m is said in
    SeqNum,             \* SeqNum[m]: sequence_num; a mid-turn message shares its predecessor's
    Titles,             \* the titles a session can be given
    NoTitle,            \* None
    Renames,            \* the triples <<s, t, u>> such that session s, called t, may be renamed to u
    Rejected,           \* the sessions Postgres rejects every time
    Hooks, Drains,      \* processes
    BatchSize,          \* BATCH_SIZE
    MaxAttempts,        \* attempts counts no further than this
    MaxFaults, MaxReplays

Messages == 1..NumMessages
None == "none"

ASSUME NumAssumption ==
    /\ {NumMessages, MaxAttempts, MaxFaults, MaxReplays} \subseteq Nat
    /\ BatchSize \in Nat \ {0}
ASSUME SessionAssumption ==
    /\ SessionOf \in [Messages -> Sessions] /\ SeqNum \in [Messages -> Nat]
    /\ None \notin Sessions /\ Rejected \subseteq Sessions
    /\ \A m, n \in Messages : SessionOf[m] = SessionOf[n] /\ m < n => SeqNum[m] <= SeqNum[n]
ASSUME TitleAssumption == NoTitle \notin Titles /\ None \notin Drains

VARIABLES
    said, title,            \* the transcripts: messages said so far, title[s]
    rowState, rowTitle, rowText, attempts, rowId,    \* the outbox, by message
    fallback,               \* the fallback file: what each failing hook appended
    archived,               \* the messages with a line in an archived fallback file
    pgMessage, pgTitle,     \* Postgres: messages and conversations
    hookSession, snap, snapTitle,           \* the hooks that are running
    drainAt, lock, batch, read, group, through,  \* the drains
    replayAt,               \* how much of the file the replay has read, 0 when none is running
    replayed,               \* whether it has put them into the outbox
    caught,                 \* history: the title of session s captured last
    faults, replays

transcriptVars == <<said, title>>
outboxVars   == <<rowState, rowTitle, rowText, attempts, rowId>>
fileVars     == <<fallback, archived>>
pgVars       == <<pgMessage, pgTitle>>
hookVars     == <<hookSession, snap, snapTitle>>
batchVars    == <<batch, read, group, through>>
drainVars    == <<drainAt, lock, batchVars>>
replayVars   == <<replayAt, replayed, replays>>
vars == <<transcriptVars, outboxVars, fileVars, pgVars, hookVars, drainVars, replayVars, caught, faults>>

RowStates == {"absent", "pending", "sent"}
AnyTitle == Titles \cup {NoTitle}
DrainSteps == {"off", "look", "wait", "open", "connect", "write", "mark", "again", "close"}
Write == [msgs : SUBSET Messages, title : AnyTitle]

TranscriptTypes == said \subseteq Messages /\ title \in [Sessions -> AnyTitle]

OutboxTypes ==
    /\ rowState \in [Messages -> RowStates]
    /\ rowTitle \in [Messages -> AnyTitle]
    /\ rowText \in [Messages -> BOOLEAN]
    /\ attempts \in [Messages -> 0..MaxAttempts]
    /\ rowId \in [Messages -> Nat]

FileTypes ==
    /\ fallback \in Seq(Write) /\ archived \subseteq Messages
    /\ replayAt \in 0..Len(fallback) /\ replayed \in BOOLEAN

PgTypes ==
    /\ pgMessage \in [Messages -> {"absent", "text", "vector"}]
    /\ pgTitle \in [Sessions -> AnyTitle]

HookTypes ==
    /\ hookSession \in [Hooks -> Sessions \cup {None}]
    /\ snap \in [Hooks -> SUBSET Messages] /\ snapTitle \in [Hooks -> AnyTitle]

\* Among the types: a drain at work holds the lock, so there is only one.
DrainTypes ==
    /\ drainAt \in [Drains -> DrainSteps]
    /\ lock \in Drains \cup {None}
    /\ batch \in [Drains -> SUBSET Messages]
    /\ read \in [Drains -> [Messages -> AnyTitle]]
    /\ group \in [Drains -> Sessions \cup {None}]
    /\ through \in [Drains -> BOOLEAN]
    /\ \A d \in Drains : drainAt[d] \notin {"off", "look", "wait"} => lock = d

CountTypes ==
    /\ caught \in [Sessions -> AnyTitle]
    /\ faults \in 0..MaxFaults /\ replays \in 0..MaxReplays

TypeOK ==
    TranscriptTypes /\ OutboxTypes /\ FileTypes /\ PgTypes /\ HookTypes /\ DrainTypes /\ CountTypes

Init ==
    /\ said = {} /\ title = [s \in Sessions |-> NoTitle]
    /\ rowState = [m \in Messages |-> "absent"]
    /\ rowTitle = [m \in Messages |-> NoTitle]
    /\ rowText = [m \in Messages |-> FALSE]
    /\ attempts = [m \in Messages |-> 0]
    /\ rowId = [m \in Messages |-> 0]
    /\ fallback = <<>> /\ archived = {}
    /\ pgMessage = [m \in Messages |-> "absent"]
    /\ pgTitle = [s \in Sessions |-> NoTitle]
    /\ hookSession = [h \in Hooks |-> None]
    /\ snap = [h \in Hooks |-> {}] /\ snapTitle = [h \in Hooks |-> NoTitle]
    /\ drainAt = [d \in Drains |-> "off"] /\ lock = None
    /\ batch = [d \in Drains |-> {}]
    /\ read = [d \in Drains |-> [m \in Messages |-> NoTitle]]
    /\ group = [d \in Drains |-> None]
    /\ through = [d \in Drains |-> FALSE]
    /\ replayAt = 0 /\ replayed = FALSE
    /\ caught = [s \in Sessions |-> NoTitle]
    /\ faults = 0 /\ replays = 0

-----------------------------------------------------------------------------
(* Helpers.                                                                *)

\* The outcome taken is the one without a failure, or it spends a fault.
Clean(ok) == \/ ok /\ UNCHANGED faults
             \/ ~ok /\ faults < MaxFaults /\ faults' = faults + 1

In(s) == {m \in Messages : SessionOf[m] = s}
Rows(S) == {m \in S : rowState[m] # "absent"}
Pending(S) == {m \in S : rowState[m] = "pending"}
Coalesce(t, u) == IF t # NoTitle THEN t ELSE u
More(n) == IF n < MaxAttempts THEN n + 1 ELSE n

-----------------------------------------------------------------------------
(* The session.                                                            *)

Say(m) ==
    /\ m \notin said /\ \A n \in In(SessionOf[m]) : n < m => n \in said
    /\ said' = said \cup {m}
    /\ UNCHANGED <<title, outboxVars, fileVars, pgVars, hookVars, drainVars, replayVars, caught, faults>>

Rename(s) ==
    /\ \E t \in Titles : <<s, title[s], t>> \in Renames /\ title' = [title EXCEPT ![s] = t]
    /\ UNCHANGED <<said, outboxVars, fileVars, pgVars, hookVars, drainVars, replayVars, caught, faults>>

-----------------------------------------------------------------------------
(* The hook.                                                               *)

\* It reads the whole transcript, every time.
HookReads(h, s) ==
    /\ hookSession[h] = None
    /\ said \cap In(s) # {} \/ title[s] # NoTitle
    /\ hookSession' = [hookSession EXCEPT ![h] = s]
    /\ snap' = [snap EXCEPT ![h] = said \cap In(s)]
    /\ snapTitle' = [snapTitle EXCEPT ![h] = title[s]]
    /\ UNCHANGED <<transcriptVars, outboxVars, fileVars, pgVars, drainVars, replayVars, caught, faults>>

HookEnds(h) ==
    /\ hookSession' = [hookSession EXCEPT ![h] = None]
    /\ snap' = [snap EXCEPT ![h] = {}]
    /\ snapTitle' = [snapTitle EXCEPT ![h] = NoTitle]

\* _start_drain, after a commit that changed anything; the drain may fail to start.
StartDrain(changed) ==
    \/ ~changed /\ UNCHANGED drainAt /\ UNCHANGED faults
    \/ /\ changed
       /\ Clean(TRUE)
       /\ \/ \E d \in Drains : drainAt[d] = "off" /\ drainAt' = [drainAt EXCEPT ![d] = "look"]
          \/ (\A d \in Drains : drainAt[d] # "off") /\ UNCHANGED drainAt
    \/ changed /\ Clean(FALSE) /\ UNCHANGED drainAt

\* INSERT OR IGNORE, in transcript order: a row that is there already, sent or not, is left alone.
Inserted(new) ==
    [m \in Messages |-> IF m \in new
                          THEN Cardinality(Rows(Messages)) + Cardinality({n \in new : n <= m})
                          ELSE rowId[m]]

\* The row _carry_titles queues again when nothing of the session is pending: the newest one, if
\* what it last carried is not the title t.
Newest(R) ==
    {m \in R : \A n \in R : SeqNum[n] < SeqNum[m] \/ (SeqNum[n] = SeqNum[m] /\ rowId[n] <= rowId[m])}
Requeued(R, known, t) == {m \in Newest(R) \cap known : rowTitle[m] # t}

\* A queued row gets its text back from the transcript.
Refilled_Blank(R, text) == text
Refilled(R, text) == [m \in Messages |-> IF m \in R THEN TRUE ELSE text[m]]

\* One transaction: append the new rows, then see that the title reaches the database, on whatever
\* is pending or on the newest row.
HookCommits(h) ==
    /\ hookSession[h] # None
    /\ LET s     == hookSession[h]
           t     == snapTitle[h]
           new   == {m \in snap[h] : rowState[m] = "absent"}
           onto  == IF t = NoTitle THEN {} ELSE Pending(In(s)) \cup new
           again == IF t = NoTitle \/ onto # {} THEN {} ELSE Requeued(Rows(In(s)), snap[h], t) IN
       /\ rowState' = [m \in Messages |-> IF m \in new \cup again THEN "pending" ELSE rowState[m]]
       /\ rowTitle' = [m \in Messages |-> IF m \in new \cup onto \cup again THEN t ELSE rowTitle[m]]
       /\ rowText' = Refilled(again, [m \in Messages |-> m \in new \/ rowText[m]])
       /\ attempts' = [m \in Messages |-> IF m \in new \cup again THEN 0 ELSE attempts[m]]
       /\ rowId' = Inserted(new)
       /\ caught' = [caught EXCEPT ![s] = Coalesce(t, @)]
       /\ StartDrain(new \cup onto \cup again # {})
    /\ HookEnds(h)
    /\ UNCHANGED <<transcriptVars, fileVars, pgVars, lock, batchVars, replayVars>>

\* SQLite is unavailable: the whole snapshot goes to the fallback file, or as much of it as the disk
\* takes; nothing at all when the hook is killed, or the fallback fails as well.
HookFallsBack(h) ==
    /\ hookSession[h] # None
    /\ Clean(FALSE)
    /\ \E P \in SUBSET snap[h] :
        /\ \A m \in P, n \in snap[h] : n < m => n \in P
        /\ fallback' = IF P = {} THEN fallback
                       ELSE Append(fallback, [msgs |-> P, title |-> snapTitle[h]])
        /\ caught' = IF P = {} THEN caught
                     ELSE [caught EXCEPT ![hookSession[h]] = Coalesce(snapTitle[h], @)]
    /\ HookEnds(h)
    /\ UNCHANGED <<transcriptVars, outboxVars, archived, pgVars, drainVars, replayVars>>

-----------------------------------------------------------------------------
(* The drain.                                                              *)

DrainTo(d, step) == drainAt' = [drainAt EXCEPT ![d] = step]

\* launchd or systemd starts one on a timer.
DrainStarts(d) ==
    /\ drainAt[d] = "off"
    /\ DrainTo(d, "look")
    /\ UNCHANGED <<transcriptVars, outboxVars, fileVars, pgVars, hookVars, lock, batchVars, replayVars,
                   caught, faults>>

\* _anything_pending, which says yes when it cannot tell.
DrainLooks(d) ==
    /\ drainAt[d] = "look"
    /\ \E seen \in BOOLEAN :
        /\ Clean(seen = (Pending(Messages) # {})) /\ (~seen => Pending(Messages) = {})
        /\ DrainTo(d, IF seen THEN "wait" ELSE "off")
    /\ UNCHANGED <<transcriptVars, outboxVars, fileVars, pgVars, hookVars, lock, batchVars, replayVars,
                   caught>>

\* One drain works at a time; the others wait for a while, then leave it to that one.
Free_NotAsked == TRUE
Free == lock = None

DrainWaits(d) ==
    /\ drainAt[d] = "wait"
    /\ \/ Free /\ lock' = d /\ DrainTo(d, "open")
       \/ lock # None /\ DrainTo(d, "off") /\ UNCHANGED lock
    /\ UNCHANGED <<transcriptVars, outboxVars, fileVars, pgVars, hookVars, batchVars, replayVars, caught,
                   faults>>

\* The order of _pending: rows that have failed least first.
Before_Id(m, n) == rowId[m] < rowId[n]
Before(m, n) == attempts[m] < attempts[n] \/ (attempts[m] = attempts[n] /\ rowId[m] < rowId[n])

NextBatch(B) ==
    LET P == Pending(Messages) IN
    /\ B \subseteq P
    /\ Cardinality(B) = IF Cardinality(P) < BatchSize THEN Cardinality(P) ELSE BatchSize
    /\ \A m \in B, n \in P \ B : Before(m, n)

\* The next batch is read, once the drain has the lock and again after each pass that got anything
\* through.  Postgres is connected to after the first one, and only if there is one.
DrainReads(d) ==
    /\ drainAt[d] \in {"open", "again"}
    /\ \E B \in SUBSET Messages :
        /\ NextBatch(B)
        /\ batch' = [batch EXCEPT ![d] = B]
        /\ DrainTo(d, IF B = {} THEN "close" ELSE IF drainAt[d] = "open" THEN "connect" ELSE "write")
    /\ read' = [read EXCEPT ![d] = rowTitle]
    /\ through' = [through EXCEPT ![d] = FALSE]
    /\ UNCHANGED <<transcriptVars, outboxVars, fileVars, pgVars, hookVars, lock, group, replayVars, caught,
                   faults>>

Failed(S) == attempts' = [m \in Messages |-> IF m \in S THEN More(attempts[m]) ELSE attempts[m]]

DrainConnects(d) ==
    /\ drainAt[d] = "connect"
    /\ \/ Clean(TRUE) /\ DrainTo(d, "write") /\ UNCHANGED <<attempts, batch>>
       \/ /\ Clean(FALSE) /\ DrainTo(d, "close")
          /\ Failed(batch[d]) /\ batch' = [batch EXCEPT ![d] = {}]
    /\ UNCHANGED <<transcriptVars, rowState, rowTitle, rowText, rowId, fileVars, pgVars, hookVars, lock,
                   read, group, through, replayVars, caught>>

\* The name _write_session takes from the rows G: the last one among them that is not None.
LastTitle(d, G) ==
    LET named == {m \in G : read[d][m] # NoTitle} IN
    IF named = {} THEN {NoTitle}
    ELSE {read[d][m] : m \in {m \in named : \A n \in named : n = m \/ Before(n, m)}}

\* The upsert keeps a vector that is there; without one the row waits for the backfill.
Upserted_Overwrites(old, fresh) == IF fresh THEN "vector" ELSE "text"
Upserted(old, fresh) == IF fresh \/ old = "vector" THEN "vector" ELSE "text"

\* One session's transaction commits.  Embedding may fail for any message, and is not asked for where
\* Postgres has a vector already.
Commits(d, s) ==
    LET G == batch[d] \cap In(s)
        live == {m \in G : rowText[m]} IN
    /\ \E t \in LastTitle(d, G) : pgTitle' = [pgTitle EXCEPT ![s] = Coalesce(t, @)]
    /\ \E embedded \in SUBSET {m \in live : pgMessage[m] # "vector"} :
        pgMessage' = [m \in Messages |-> IF m \in live THEN Upserted(pgMessage[m], m \in embedded)
                                         ELSE pgMessage[m]]

\* What follows a session's turn: the next session, or the pass is over, and there is another one
\* if anything got through.
NextTurn(d, s, got) ==
    LET left == batch[d] \ In(s) IN
    /\ batch' = [batch EXCEPT ![d] = left]
    /\ through' = [through EXCEPT ![d] = @ \/ got]
    /\ DrainTo(d, IF left # {} THEN "write" ELSE IF through[d] \/ got THEN "again" ELSE "close")

\* A session is written, or rejected and its rows sent to the back of the queue.
DrainWrites(d) ==
    /\ drainAt[d] = "write"
    /\ \E s \in {SessionOf[m] : m \in batch[d]} :
        \/ /\ s \notin Rejected /\ Clean(TRUE)
           /\ Commits(d, s)
           /\ group' = [group EXCEPT ![d] = s]
           /\ DrainTo(d, "mark")
           /\ UNCHANGED <<attempts, batch, through>>
        \/ /\ Clean(s \in Rejected)
           /\ Failed(batch[d] \cap In(s))
           /\ NextTurn(d, s, FALSE)
           /\ UNCHANGED <<pgVars, group>>
    /\ UNCHANGED <<transcriptVars, rowState, rowTitle, rowText, rowId, fileVars, hookVars, lock, read,
                   replayVars, caught>>

\* _mark_sent turns into tombstones the rows that are still as they were written.
Marked_Session(d) == Pending(In(group[d]))
Marked_Unguarded(d) == Pending(batch[d] \cap In(group[d]))
Marked(d) == {m \in Pending(batch[d] \cap In(group[d])) : rowTitle[m] = read[d][m]}

DrainMarks(d) ==
    /\ drainAt[d] = "mark"
    /\ rowState' = [m \in Messages |-> IF m \in Marked(d) THEN "sent" ELSE rowState[m]]
    /\ rowText' = [m \in Messages |-> rowText[m] /\ m \notin Marked(d)]
    /\ NextTurn(d, group[d], TRUE)
    /\ group' = [group EXCEPT ![d] = None]
    /\ UNCHANGED <<transcriptVars, rowTitle, attempts, rowId, fileVars, pgVars, hookVars, lock, read,
                   replayVars, caught, faults>>

DrainEnds(d) ==
    /\ DrainTo(d, "off")
    /\ lock' = IF lock = d THEN None ELSE lock
    /\ batch' = [batch EXCEPT ![d] = {}]
    /\ group' = [group EXCEPT ![d] = None]
    /\ UNCHANGED <<read, through>>

DrainCloses(d) ==
    /\ drainAt[d] = "close"
    /\ DrainEnds(d)
    /\ UNCHANGED <<transcriptVars, outboxVars, fileVars, pgVars, hookVars, replayVars, caught, faults>>

\* The drain is killed, SQLite refuses it, or the connection is lost, which the rollback trips over
\* as well.  A transaction under way may have been committed all the same.  The system frees the lock.
DrainDies(d) ==
    /\ drainAt[d] # "off"
    /\ Clean(FALSE)
    /\ \/ UNCHANGED pgVars
       \/ /\ drainAt[d] = "write"
          /\ \E s \in {SessionOf[m] : m \in batch[d]} \ Rejected : Commits(d, s)
    /\ DrainEnds(d)
    /\ UNCHANGED <<transcriptVars, outboxVars, fileVars, hookVars, replayVars, caught>>

-----------------------------------------------------------------------------
(* The replay.                                                             *)

ReplayReads ==
    /\ replayAt = 0 /\ fallback # <<>> /\ replays < MaxReplays
    /\ replayAt' = Len(fallback) /\ replayed' = FALSE
    /\ replays' = replays + 1
    /\ UNCHANGED <<transcriptVars, outboxVars, fileVars, pgVars, hookVars, drainVars, caught, faults>>

\* first[m] is the write with message m's first line: INSERT OR IGNORE ignores its others.
FirstLines(first) ==
    \A m \in DOMAIN first :
        m \in fallback[first[m]].msgs /\ \A i \in 1..(first[m] - 1) : m \notin fallback[i].msgs

ReplayInserts ==
    /\ replayAt # 0 /\ ~replayed
    /\ LET new == {m \in UNION {fallback[i].msgs : i \in 1..replayAt} : rowState[m] = "absent"} IN
       \E first \in [new -> 1..replayAt] :
        LET upTo(m) == {n \in new : first[n] < first[m] \/ (first[n] = first[m] /\ n <= m)} IN
        /\ FirstLines(first)
        /\ rowState' = [m \in Messages |-> IF m \in new THEN "pending" ELSE rowState[m]]
        /\ rowTitle' = [m \in Messages |-> IF m \in new THEN fallback[first[m]].title ELSE rowTitle[m]]
        /\ rowText' = [m \in Messages |-> m \in new \/ rowText[m]]
        /\ rowId' = [m \in Messages |->
                       IF m \in new THEN Cardinality(Rows(Messages)) + Cardinality(upTo(m)) ELSE rowId[m]]
    /\ replayed' = TRUE
    /\ UNCHANGED <<transcriptVars, attempts, fileVars, pgVars, hookVars, drainVars, replayAt, replays,
                   caught, faults>>

\* The file is renamed, whatever has been appended to it since.
ReplayArchives ==
    /\ replayed
    /\ archived' = archived \cup UNION {fallback[i].msgs : i \in 1..Len(fallback)}
    /\ fallback' = <<>>
    /\ replayAt' = 0 /\ replayed' = FALSE
    /\ UNCHANGED <<transcriptVars, outboxVars, pgVars, hookVars, drainVars, replays, caught, faults>>

ReplayDies ==
    /\ replayAt # 0
    /\ Clean(FALSE)
    /\ replayAt' = 0 /\ replayed' = FALSE
    /\ UNCHANGED <<transcriptVars, outboxVars, fileVars, pgVars, hookVars, drainVars, replays, caught>>

-----------------------------------------------------------------------------

DrainStep(d) ==
    \/ DrainStarts(d) \/ DrainLooks(d) \/ DrainWaits(d) \/ DrainReads(d) \/ DrainConnects(d)
    \/ DrainWrites(d) \/ DrainMarks(d) \/ DrainCloses(d)

HookStep(h) == (\E s \in Sessions : HookReads(h, s)) \/ HookCommits(h) \/ HookFallsBack(h)

Next ==
    \/ \E m \in Messages : Say(m)
    \/ \E s \in Sessions : Rename(s)
    \/ \E h \in Hooks : HookStep(h)
    \/ \E d \in Drains : DrainStep(d) \/ DrainDies(d)
    \/ ReplayReads \/ ReplayInserts \/ ReplayArchives \/ ReplayDies

Spec == Init /\ [][Next]_vars

\* The timer keeps starting drains, and a running drain keeps going.
FairSpec == Spec /\ \A d \in Drains : WF_vars(DrainStep(d))

-----------------------------------------------------------------------------
(* Properties.                                                             *)

InFile == UNION {fallback[i].msgs : i \in 1..Len(fallback)}

\* How far a message has come, in the terms of SafeCapture.
Stage(m) ==
    IF pgMessage[m] # "absent" THEN "stored"
    ELSE IF (rowState[m] = "pending" /\ rowText[m]) \/ m \in InFile \cup archived THEN "captured"
    ELSE "said"

Capture == INSTANCE SafeCapture WITH stage <- [m \in Messages |-> Stage(m)]

\* The design's promise: once a hook has put a message into the outbox or the fallback file, it
\* stays there with its text until Postgres has committed it, through crashes, rows changed under a
\* drain, lost connections and replays.
ImplementsCapture == Capture!Spec

\* record.py:673-675: a row that is to be delivered (again) has its text, or delivering it would
\* erase the message where it is stored.
QueuedRowsHaveText == \A m \in Messages : rowState[m] = "pending" => rowText[m]

\* drain.py:151-152: a message delivered a second time keeps the vector it has, even when the text
\* cannot be embedded this time.
VectorsAreKept == [][\A m \in Messages : pgMessage[m] = "vector" => pgMessage'[m] = "vector"]_vars

\* Nothing of session s is still to be delivered, and nobody is at work on it.
Settled(s) ==
    /\ Pending(In(s)) = {} /\ InFile \cap In(s) = {} /\ replayAt = 0
    /\ \A h \in Hooks : hookSession[h] # s
    /\ \A d \in Drains : group[d] # s

\* "Make sure the session's current titles reach the database" (record.py:640): once everything of a
\* session is delivered, the title captured last is the one in Postgres.
SettledTitleIsCurrent ==
    \A s \in Sessions : Settled(s) /\ Rows(In(s)) # {} => pgTitle[s] = caught[s]

\* drain.py:80-93: rows that fail every time do not keep others from being delivered.
AcceptedIsDelivered ==
    \A m \in Messages : SessionOf[m] \notin Rejected =>
        (rowState[m] = "pending" ~> pgMessage[m] # "absent")

\* replay_fallback.py:6-7, "This puts it back into the outbox once the problem is fixed": a file that
\* has been archived as replayed has no line that was not.
ArchivedIsReplayed == archived \subseteq Rows(Messages)
=============================================================================
