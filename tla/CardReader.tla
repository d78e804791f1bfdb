----------------------------- MODULE CardReader -----------------------------
(***************************************************************************)
(* How a Kata reads the model off its SD card during a pass (full.c).      *)
(* Three tasks share memory: the pass queues reads two units ahead of its  *)
(* arithmetic, "sd" fills two bounce buffers, "cp" copies each chunk to its *)
(* destination and accumulates CRCs.  An update may borrow the buffers     *)
(* between passes.                                                         *)
(*                                                                         *)
(* Abstractions: memory holds chunks (which part of which section, intact  *)
(* or not); a CRC is the sequence of the chunks it has seen, so it matches *)
(* exactly when they are the section's, in order and intact; a read of the *)
(* card with its paced retries gives intact sectors, corrupt ones, or ends *)
(* in abort(), which restarts the board.  MaxPasses and MaxFaults bound    *)
(* the passes and the corrupt or failed reads.                             *)
(***************************************************************************)
EXTENDS Integers, FiniteSets, Sequences, SequencesExt

CONSTANTS Layers,       \* n_layer
          Blocks,       \* [0..5 -> blocks of HALF bytes a matrix takes]
          BlockChunks,  \* bounce buffers a block takes
          NREQ,         \* request slots
          ChunkQueue,   \* length of cq
          MaxPasses, MaxFaults

Matrices == 0..5

ASSUME CardAssumption ==
    /\ Layers \in Nat \ {0}
    /\ Blocks \in [Matrices -> Nat \ {0}]
    /\ {BlockChunks, NREQ, ChunkQueue} \subseteq Nat \ {0}
    /\ {MaxPasses, MaxFaults} \subseteq Nat
\* Two units queue 4 + 3 + 1 and 3 + 1 reads at most.
ASSUME SlotAssumption == NREQ >= 12

VARIABLES
    \* the pass, and who else wants its buffers
    pc, unit, todo, awaited, crc0, mx, up,
    \* requests: the slots, their semaphores, the queue of slots, the next slot
    reqs, done, rq, reqNext,
    \* the sd task, the bounce buffers, the chunk queue, the cp task
    sd, bfree, bounce, cq, cp,
    \* memory, CRCs in progress, mismatches
    buf, acc, crcBad,
    \* bounds; whether the last pass computed with corrupt data, its result
    passes, faults, tainted, result

passVars == <<pc, unit, todo, awaited, crc0>>
reqVars == <<reqs, done, rq, reqNext>>
readerVars == <<sd, bfree, bounce, cq, cp>>
memVars == <<buf, acc, crcBad>>
history == <<passes, faults, tainted, result>>
vars == <<passVars, mx, up, reqVars, readerVars, memVars, history>>

None == "none"
Slots == 0..(NREQ - 1)
Half == {0, 1}

-----------------------------------------------------------------------------
(* The plan: the pass as a list of units, in layer, matrix, block order.    *)

UnitSet == UNION {{<<li, mi, j>> : j \in 0..(Blocks[mi] - 1)} :
                     li \in 0..(Layers - 1), mi \in Matrices}
Before(s, t) == \/ s[1] < t[1]
                \/ s[1] = t[1] /\ s[2] < t[2]
                \/ s[1] = t[1] /\ s[2] = t[2] /\ s[3] < t[3]
plan == [n \in 1..Cardinality(UnitSet) |->
            CHOOSE t \in UnitSet : Cardinality({s \in UnitSet : Before(s, t)}) = n - 1]
NUnits == Len(plan)
Layer(u) == plan[u + 1][1]
Matrix(u) == plan[u + 1][2]
Block(u) == plan[u + 1][3]
Parity(u) == u % 2
MatrixParity(u) == (Layer(u) * 6 + Matrix(u)) % 2
LastBlock(u) == Block(u) = Blocks[Matrix(u)] - 1

\* A chunk of memory, as read from the card.
Chunk(sec, k, ok) == [sec |-> sec, k |-> k, ok |-> ok]
Intact(sec, n) == [k \in 1..n |-> Chunk(sec, k, TRUE)]

\* What is read where.  kept: the pass waits for it; own: a CRC of its own.
Read(sec, dst) == [sec |-> sec, dst |-> dst, chunks |-> 1, acc |-> <<"own">>,
                   reset |-> TRUE, verify |-> TRUE]
Norms(u) == [i \in 1..4 |-> Read(<<"norm", Layer(u), i>>, <<"nrm", Layer(u) % 2, i>>)]
Small(u, kind) == Read(<<kind, Layer(u), Matrix(u)>>, <<kind, MatrixParity(u)>>)
Weights(u) == [sec |-> <<"wq", Layer(u), Matrix(u), Block(u)>>,
               dst |-> <<"stage", Parity(u)>>, chunks |-> BlockChunks,
               acc |-> <<"wq", MatrixParity(u)>>, reset |-> Block(u) = 0,
               verify |-> LastBlock(u)]

Queue(u, r, kept, first) == [u |-> u, r |-> r, kept |-> kept, first |-> first]
\* issue(u): the reads of unit u, in order.
issue(u) ==
    (IF Matrix(u) = 0 /\ Block(u) = 0
     THEN [i \in 1..4 |-> Queue(u, Norms(u)[i], TRUE, i = 1)] ELSE <<>>)
    \o (IF Block(u) = 0
        THEN <<Queue(u, Small(u, "ws"), FALSE, Matrix(u) # 0),
               Queue(u, Small(u, "b"), FALSE, FALSE),
               Queue(u, Small(u, "wo"), TRUE, FALSE)>> ELSE <<>>)
    \o <<Queue(u, Weights(u), TRUE, Block(u) # 0)>>
IssueIfAny(u) == IF u < NUnits THEN issue(u) ELSE <<>>

\* The CRC a finished section must have.
Want(r) ==
    IF r.acc = <<"own">> THEN Intact(r.sec, r.chunks)
    ELSE [n \in 1..(Blocks[r.sec[3]] * BlockChunks) |->
            Chunk(<<"wq", r.sec[2], r.sec[3], (n - 1) \div BlockChunks>>,
                  ((n - 1) % BlockChunks) + 1, TRUE)]

\* The buffers unit u's arithmetic reads, and what they should hold.
Needs(u) ==
    LET small(kind) == {[dst |-> <<kind, MatrixParity(u)>>, n |-> 1,
                         sec |-> <<kind, Layer(u), Matrix(u)>>]}
        norm(S) == {[dst |-> <<"nrm", Layer(u) % 2, i>>, n |-> 1,
                     sec |-> <<"norm", Layer(u), i>>] : i \in S}
    IN  {[dst |-> <<"stage", Parity(u)>>, n |-> BlockChunks, sec |-> Weights(u).sec]}
        \cup small("ws") \cup small("b") \cup small("wo")
        \cup (IF LastBlock(u) /\ Matrix(u) = 3 THEN norm({1, 2}) ELSE {})
        \cup (IF LastBlock(u) /\ Matrix(u) = 5 THEN norm({3, 4}) ELSE {})

Buffers == {<<k, p>> : k \in {"stage", "ws", "b", "wo"}, p \in Half}
             \cup {<<"nrm", p, i>> : p \in Half, i \in 1..4}
Accs == {<<"own">>} \cup {<<"wq", p>> : p \in Half}
Nothing == Chunk(<<>>, 0, TRUE)
NoTask == [slot |-> NREQ, dst |-> <<>>, k |-> 0, bi |-> 0, first |-> FALSE,
           last |-> FALSE, copied |-> FALSE]
NoRead == [sec |-> <<>>, dst |-> <<>>, chunks |-> 1, acc |-> <<"own">>,
           reset |-> TRUE, verify |-> TRUE]

-----------------------------------------------------------------------------
\* reader_start and model_init: everything allocated and idle.
Init ==
    /\ pc = "idle" /\ unit = 0 /\ todo = <<>> /\ awaited = [h \in Half |-> <<>>]
    /\ crc0 = 0 /\ mx = "free" /\ up = TRUE
    /\ reqs = [s \in Slots |-> NoRead] /\ done = [s \in Slots |-> FALSE]
    /\ rq = <<>> /\ reqNext = 0
    /\ sd = [slot |-> NREQ, r |-> NoRead, k |-> 0, bi |-> 0]
    /\ bfree = [h \in Half |-> TRUE] /\ bounce = [h \in Half |-> Nothing]
    /\ cq = <<>> /\ cp = NoTask
    /\ buf = [d \in Buffers |-> [n \in 1..BlockChunks |-> Nothing]]
    /\ acc = [a \in Accs |-> <<>>] /\ crcBad = 0
    /\ passes = 0 /\ faults = 0 /\ tainted = FALSE /\ result = "none"

(* The pass: model_embed, pass_fwd.                                         *)

\* model_pass_begin; an update that has the model makes it wait.
PassBegins ==
    /\ up /\ pc = "idle" /\ mx = "free" /\ passes < MaxPasses
    /\ pc' = "embed" /\ mx' = "pass" /\ passes' = passes + 1
    /\ crc0' = crcBad /\ tainted' = FALSE /\ result' = "none"
    /\ UNCHANGED <<unit, todo, awaited, up, reqVars, readerVars, memVars, faults>>

\* One unit further ahead than there are buffers for.
Embeds_ThreeUnits ==
    /\ up /\ pc = "embed"
    /\ bounce' = [bounce EXCEPT ![0] = Chunk(<<"embedding">>, 1, TRUE)]
    /\ pc' = "issue" /\ unit' = 0 /\ todo' = issue(0) \o IssueIfAny(1) \o IssueIfAny(2)
    /\ UNCHANGED <<awaited, crc0, mx, up, reqVars, sd, bfree, cq, cp, memVars, history>>
\* embed_in reads through abounce[0] itself, without asking for it; then the
\* first two units are issued.
Embeds ==
    /\ up /\ pc = "embed"
    /\ bounce' = [bounce EXCEPT ![0] = Chunk(<<"embedding">>, 1, TRUE)]
    /\ pc' = "issue" /\ unit' = 0 /\ todo' = issue(0) \o IssueIfAny(1)
    /\ UNCHANGED <<awaited, crc0, mx, up, reqVars, sd, bfree, cq, cp, memVars, history>>

\* rd: the next slot, whoever has it.
rd ==
    /\ up /\ pc = "issue" /\ todo # <<>> /\ Len(rq) < NREQ
    /\ LET q == Head(todo)
           slot == reqNext % NREQ
           p == Parity(q.u)
       IN  /\ done' = [done EXCEPT ![slot] = FALSE]
           /\ reqs' = [reqs EXCEPT ![slot] = q.r]
           /\ rq' = Append(rq, slot)
           /\ awaited' = [awaited EXCEPT ![p] = (IF q.first THEN <<>> ELSE @)
                              \o (IF q.kept THEN <<slot>> ELSE <<>>)]
    /\ reqNext' = reqNext + 1
    /\ todo' = Tail(todo)
    /\ UNCHANGED <<pc, unit, crc0, mx, up, readerVars, memVars, history>>

Issued ==
    /\ up /\ pc = "issue" /\ todo = <<>>
    /\ pc' = "wait"
    /\ UNCHANGED <<unit, todo, awaited, crc0, mx, up, reqVars, readerVars, memVars, history>>

\* A wait with a time-out.
wait_rd_TimesOut ==
    /\ up /\ pc = "wait" /\ awaited[Parity(unit)] # <<>>
    /\ done' = [done EXCEPT ![Head(awaited[Parity(unit)])] = FALSE]
    /\ awaited' = [awaited EXCEPT ![Parity(unit)] = Tail(@)]
    /\ UNCHANGED <<pc, unit, todo, crc0, mx, up, reqs, rq, reqNext, readerVars, memVars, history>>
\* wait_rd, for each request of the unit that was kept.
wait_rd ==
    /\ up /\ pc = "wait" /\ awaited[Parity(unit)] # <<>>
    /\ LET slot == Head(awaited[Parity(unit)])
       IN  done[slot] /\ done' = [done EXCEPT ![slot] = FALSE]
    /\ awaited' = [awaited EXCEPT ![Parity(unit)] = Tail(@)]
    /\ UNCHANGED <<pc, unit, todo, crc0, mx, up, reqs, rq, reqNext, readerVars, memVars, history>>

\* A mismatch ends the pass; otherwise the unit is computed.
Checks ==
    /\ up /\ pc = "wait" /\ awaited[Parity(unit)] = <<>>
    /\ pc' = IF crcBad # crc0 THEN "abort" ELSE "compute"
    /\ LET stale == \E n \in Needs(unit), k \in 1..BlockChunks :
                       k <= n.n /\ buf[n.dst][k] # Chunk(n.sec, k, TRUE)
       IN  tainted' = (tainted \/ (crcBad = crc0 /\ stale))
    /\ UNCHANGED <<unit, todo, awaited, crc0, mx, up, reqVars, readerVars, memVars,
                   passes, faults, result>>

PassEnds(r) ==
    /\ result' = r /\ pc' = "idle" /\ mx' = "free"
    /\ UNCHANGED <<todo, crc0, up, reqs, rq, reqNext, readerVars, memVars, passes, faults, tainted>>

\* A pass that ends without waiting for what it has queued.
Aborts_AtOnce ==
    /\ up /\ pc = "abort"
    /\ PassEnds("bad") /\ UNCHANGED <<unit, awaited, done>>
\* The next unit's reads have been issued too; the last one's end is enough.
Aborts ==
    /\ up /\ pc = "abort"
    /\ LET next == awaited[1 - Parity(unit)]
       IN  IF unit + 1 < NUnits /\ next # <<>>
           THEN done[Last(next)] /\ done' = [done EXCEPT ![Last(next)] = FALSE]
           ELSE UNCHANGED done
    /\ PassEnds("bad") /\ UNCHANGED <<unit, awaited>>

\* The arithmetic of a unit, and on to the next one, or to the vectors.
ComputesUnit ==
    /\ up /\ pc = "compute" /\ unit + 1 < NUnits
    /\ pc' = "issue" /\ unit' = unit + 1 /\ todo' = IssueIfAny(unit + 2)
    /\ UNCHANGED <<awaited, crc0, mx, up, reqVars, readerVars, memVars, history>>

Embedded ==
    /\ up /\ pc = "compute" /\ unit + 1 = NUnits
    /\ PassEnds(IF crcBad # crc0 THEN "bad" ELSE "good")
    /\ UNCHANGED <<unit, awaited, done>>

(* An update borrows the buffers between passes.                            *)

model_lend ==
    /\ up /\ mx = "free" /\ mx' = "update"
    /\ UNCHANGED <<passVars, up, reqVars, readerVars, memVars, history>>

\* The buffers may not be had again: then the board restarts.
model_reclaim ==
    /\ up /\ mx = "update"
    /\ \E ok \in BOOLEAN :
          /\ ~ok => faults < MaxFaults
          /\ faults' = IF ok THEN faults ELSE faults + 1
          /\ up' = ok
    /\ mx' = "free"
    /\ UNCHANGED <<passVars, reqVars, readerVars, memVars, passes, tainted, result>>

(* The sd task.                                                             *)

SdIdle == sd.slot = NREQ
SdTakes ==
    /\ up /\ SdIdle /\ rq # <<>>
    /\ sd' = [sd EXCEPT !.slot = Head(rq), !.r = reqs[Head(rq)], !.k = 1]
    /\ rq' = Tail(rq)
    /\ UNCHANGED <<passVars, mx, up, reqs, done, reqNext, bfree, bounce, cq, cp, memVars, history>>

\* One chunk into a bounce buffer; a card that stays dead ends in abort().
SdReads ==
    /\ up /\ ~SdIdle /\ bfree[sd.bi] /\ Len(cq) < ChunkQueue
    /\ \E outcome \in {"intact", "corrupt", "dead"} :
          /\ outcome # "intact" => faults < MaxFaults
          /\ faults' = IF outcome = "intact" THEN faults ELSE faults + 1
          /\ up' = (outcome # "dead")
          /\ bounce' = [bounce EXCEPT ![sd.bi] =
                            Chunk(sd.r.sec, sd.k, outcome = "intact")]
    /\ bfree' = [bfree EXCEPT ![sd.bi] = FALSE]
    /\ LET last == sd.k = sd.r.chunks
       IN  /\ cq' = Append(cq, [slot |-> sd.slot, dst |-> sd.r.dst, k |-> sd.k, bi |-> sd.bi,
                                first |-> sd.k = 1, last |-> last, copied |-> FALSE])
           /\ sd' = IF last THEN [slot |-> NREQ, r |-> NoRead, k |-> 0, bi |-> 1 - sd.bi]
                    ELSE [sd EXCEPT !.k = @ + 1, !.bi = 1 - @]
    /\ UNCHANGED <<passVars, mx, reqVars, cp, memVars, passes, tainted, result>>

(* The cp task.                                                             *)

CpIdle == cp.slot = NREQ
CpTakes ==
    /\ up /\ CpIdle /\ cq # <<>>
    /\ cp' = Head(cq) /\ cq' = Tail(cq)
    /\ UNCHANGED <<passVars, mx, up, reqVars, sd, bfree, bounce, memVars, history>>

\* The last chunk's bounce buffer is not given back.
CpCopies_KeepsLast ==
    /\ up /\ ~CpIdle /\ ~cp.copied
    /\ LET r == reqs[cp.slot]
           data == bounce[cp.bi]
       IN  /\ acc' = [acc EXCEPT ![r.acc] =
                          Append(IF cp.first /\ r.reset THEN <<>> ELSE @, data)]
           /\ buf' = [buf EXCEPT ![cp.dst][cp.k] = data]
    /\ bfree' = [bfree EXCEPT ![cp.bi] = ~cp.last]
    /\ cp' = IF cp.last THEN [cp EXCEPT !.copied = TRUE] ELSE NoTask
    /\ UNCHANGED <<passVars, mx, up, reqVars, sd, bounce, cq, crcBad, history>>
\* The CRC and the copy, and the bounce buffer is free again.
CpCopies ==
    /\ up /\ ~CpIdle /\ ~cp.copied
    /\ LET r == reqs[cp.slot]
           data == bounce[cp.bi]
       IN  /\ acc' = [acc EXCEPT ![r.acc] =
                          Append(IF cp.first /\ r.reset THEN <<>> ELSE @, data)]
           /\ buf' = [buf EXCEPT ![cp.dst][cp.k] = data]
    /\ bfree' = [bfree EXCEPT ![cp.bi] = TRUE]
    /\ cp' = IF cp.last THEN [cp EXCEPT !.copied = TRUE] ELSE NoTask
    /\ UNCHANGED <<passVars, mx, up, reqVars, sd, bounce, cq, crcBad, history>>

\* Only sections read in one piece are checked.
CpCompletes_WholeOnly ==
    /\ up /\ ~CpIdle /\ cp.copied
    /\ LET r == reqs[cp.slot]
       IN  crcBad' = IF r.reset /\ r.verify /\ acc[r.acc] # Want(r) THEN crcBad + 1 ELSE crcBad
    /\ done' = [done EXCEPT ![cp.slot] = TRUE]
    /\ cp' = NoTask
    /\ UNCHANGED <<passVars, mx, up, reqs, rq, reqNext, sd, bfree, bounce, cq, buf, acc, history>>
\* The request's last chunk: check, then tell whoever waits.
CpCompletes ==
    /\ up /\ ~CpIdle /\ cp.copied
    /\ LET r == reqs[cp.slot]
       IN  crcBad' = IF r.verify /\ acc[r.acc] # Want(r) THEN crcBad + 1 ELSE crcBad
    /\ done' = [done EXCEPT ![cp.slot] = TRUE]
    /\ cp' = NoTask
    /\ UNCHANGED <<passVars, mx, up, reqs, rq, reqNext, sd, bfree, bounce, cq, buf, acc, history>>

-----------------------------------------------------------------------------
Pass == PassBegins \/ Embeds \/ rd \/ Issued \/ wait_rd \/ Checks \/ Aborts
          \/ ComputesUnit \/ Embedded
sd_task == SdTakes \/ SdReads
cp_task == CpTakes \/ CpCopies \/ CpCompletes
Next == Pass \/ sd_task \/ cp_task \/ model_lend \/ model_reclaim

Spec == Init /\ [][Next]_vars
\* The board's tasks run; nothing is assumed of updates.
FairSpec == Spec /\ WF_vars(Pass) /\ WF_vars(sd_task) /\ WF_vars(cp_task)

-----------------------------------------------------------------------------
ReaderIdle == rq = <<>> /\ SdIdle /\ cq = <<>> /\ CpIdle

\* A slot is taken again only once its last request has landed: nothing
\* overwrites a request that sd or cp still has to look at.
\* (rd, full.c:210: the next of NREQ slots, without asking.)
SlotsAreFree ==
    pc = "issue" /\ todo # <<>> =>
        LET slot == reqNext % NREQ
        IN  /\ \A n \in 1..Len(rq) : rq[n] # slot
            /\ sd.slot # slot /\ cp.slot # slot
            /\ \A n \in 1..Len(cq) : cq[n].slot # slot

\* While a unit is computed, every buffer it uses holds that unit's sections,
\* although the next unit's reads land meanwhile.  (issue, pass_fwd.)
ComputesWithItsOwn ==
    pc = "compute" /\ up =>
        \A n \in Needs(unit), k \in 1..BlockChunks :
            k <= n.n => buf[n.dst][k].sec = n.sec /\ buf[n.dst][k].k = k

\* Vectors are handed on only if no corrupt or stale byte went into them,
\* although a block is used before its matrix's CRC is complete.
\* (full.c:510: "a mismatch in the last unit's reads".)
GoodMeansIntact == result = "good" => ~tainted

\* When the pass ends, or an update has the buffers, the tasks are idle: they
\* never touch a bounce buffer that embed_in uses or that was given away.
\* (full.c:463: "Every read a pass queued has completed by the time it ends".)
IdleBetweenPasses == up /\ (pc \in {"idle", "embed"} \/ mx = "update") => ReaderIdle

\* A pass ends, whatever the card does.
PassesEnd == pc = "embed" ~> pc = "idle" \/ ~up
=============================================================================
