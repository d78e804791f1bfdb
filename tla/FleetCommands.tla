--------------------------- MODULE FleetCommands ---------------------------
(***************************************************************************)
(* Fleet's commands on a Kata (otacmd/ota_cmd.c, and kata_worker.c's and   *)
(* ota.c's ends of it): taken off their queue in a phase, acted on after   *)
(* it, and the chunks of a long URL put together.  SQS repeats, loses      *)
(* nothing, and hands them over in any order.                              *)
(*                                                                         *)
(* Left out: JSON itself, the text of replies, what an update then does    *)
(* (OtaUpdate).                                                            *)
(***************************************************************************)
EXTENDS Integers, Sequences, FiniteSetsExt

CONSTANTS Updates,      \* URLs Fleet sends in chunks: [version, sha, sizes, clean, valid]
          NoSha,        \* an update without a sha256
          MaxChunks,    \* OTA_MAX_CHUNKS
          UrlMax,       \* OTA_URL_MAX
          MaxAge,       \* OTA_CHUNKS_MAX_AGE_MS
          Wrap,         \* where the uint32_t clock of milliseconds wraps
          MaxSilence,   \* bound: the longest time without a command
          MaxCommands   \* MAX_COMMANDS

ASSUME FleetCommandsAssumption ==
    /\ MaxChunks \in Nat \ {0} /\ UrlMax \in Nat /\ MaxAge \in Nat /\ Wrap \in Nat \ {0}
    /\ MaxSilence \in Nat
    /\ \A u \in Updates : /\ u.sizes \in Seq(Nat) /\ Len(u.sizes) \in 1..MaxChunks
                          /\ u.clean \in BOOLEAN /\ u.valid \in BOOLEAN

Nothing == "none"
Spoilt == "part of one sha256, part of another"
Slots == 0..MaxChunks - 1
\* Part k of u's URL, and its size.
Parts == {p \in [of : Updates, at : Slots] : p.at < Len(p.of.sizes)}
Size(p) == p.of.sizes[p.at + 1]

\* What Fleet may send.  The sha256 rides on the last chunk; one may be no sha256.
Chunks == [command : {"url_chunk"}, part : Parts, mangled : BOOLEAN]
Simple == [command : {"get_version", "ping", "ota_cancel", "unknown", "not JSON", "bad chunk"}]
Single == [command : {"ota_update"}, of : Updates, mangled : BOOLEAN]
Commands == Chunks \cup Simple \cup Single

VARIABLES pending,  \* kata_worker.c: taken and deleted, not acted on yet
          chunks,   \* ota_chunks
          now, out, \* the clock; the last command's outcome (ota_cmd)
          held, silent  \* history: how long the set is being collected; since when no command came
cmdVars == <<pending, chunks, now, out, held, silent>>

NoChunks == [total |-> 0, version |-> Nothing, sha |-> NoSha,
             chunk |-> <<>>, started |-> 0]
CmdInit == /\ pending = <<>> /\ chunks = NoChunks /\ now = 0
           /\ out = [kind |-> Nothing] /\ held = 0 /\ silent = 0

-----------------------------------------------------------------------------
(* Putting a URL together.                                                  *)

\* A set that has not completed in time is freed by whatever comes next.  (2^32 ms: 49 days.)
Stale == chunks.total > 0 /\ (now - chunks.started) % Wrap > MaxAge
Live == IF Stale THEN NoChunks ELSE chunks

\* A chunk of another update (count or version) starts again.
StartsAgain_OnCount(u) == Live.total # Len(u.sizes)
StartsAgain(u) == Live.total # Len(u.sizes) \/ Live.version # u.version
Begun(u) == IF StartsAgain(u)
              THEN [NoChunks EXCEPT !.total = Len(u.sizes), !.version = u.version, !.started = now]
              ELSE Live
Held(u) == IF StartsAgain(u) THEN 0 ELSE held

Stored(c) == MapThenSumSet(LAMBDA k : Size(c.chunk[k]), DOMAIN c.chunk)
Replaced(c, p) == IF p.at \in DOMAIN c.chunk THEN Size(c.chunk[p.at]) ELSE 0
Fits(c, p) == Stored(c) - Replaced(c, p) + Size(p) < UrlMax
CarriesSha(p) == p.at = Len(p.of.sizes) - 1
With(c, p) == [c EXCEPT !.chunk = [k \in DOMAIN @ \cup {p.at} |-> IF k = p.at THEN p ELSE @[k]],
                        !.sha = IF CarriesSha(p) /\ p.of.sha # NoSha THEN p.of.sha ELSE @]
Whole(c) == 0..c.total - 1 \subseteq DOMAIN c.chunk

Fails == [kind |-> "error"]
Update(version, sha, url, age) == [kind |-> "update", version |-> version, sha |-> sha,
                                     url |-> url, held |-> age]
\* All here: the URL, checked like a single ota_update's.
Assembled(c, u) ==
    IF (\A k \in 0..c.total - 1 : c.chunk[k].of.clean) /\ u.valid /\ c.sha # NoSha
      THEN Update(c.version, c.sha, [k \in 0..c.total - 1 |-> c.chunk[k]], Held(u))
      ELSE Fails

\* parse_sha256 writes as it reads: a wrong digit leaves its start over the sha256 already there.
Mangles(c) == {c, [c EXCEPT !.sha = IF @ = NoSha THEN NoSha ELSE Spoilt]}
\* chunk(): a set is freed when it is too long, when memory is out, and when it is whole.
Chunk(p, mangled, oom) ==
    LET u == p.of
        c == Begun(u)
        w == With(c, p) IN
    \/ /\ ~Fits(c, p)
       /\ chunks' = NoChunks /\ out' = Fails /\ held' = 0
    \/ /\ Fits(c, p) /\ mangled /\ CarriesSha(p)
       /\ chunks' \in Mangles(c) /\ out' = Fails /\ held' = Held(u)
    \/ /\ Fits(c, p) /\ ~(mangled /\ CarriesSha(p))
       /\ IF oom THEN chunks' = NoChunks /\ out' = Fails /\ held' = 0
          ELSE IF Whole(w) THEN chunks' = NoChunks /\ out' = Assembled(w, u) /\ held' = 0
          ELSE chunks' = w /\ out' = [kind |-> "chunk"] /\ held' = Held(u)

\* make_update(), for a URL in one piece, which may be too long for out->url.
Length(u) == MapThenSumSet(LAMBDA k : u.sizes[k], DOMAIN u.sizes)
Made(u, mangled) == IF ~mangled /\ u.clean /\ Length(u) < UrlMax /\ u.valid /\ u.sha # NoSha
                      THEN Update(u.version, u.sha, [k \in 0..Len(u.sizes) - 1 |-> [of |-> u, at |-> k]], 0)
                      ELSE Fails

\* Anything else, which leaves a live set as it is.
Other(outcome) == /\ chunks' = Live /\ out' = outcome
                  /\ held' = IF Live.total = 0 THEN 0 ELSE held

ota_cmd_parse(m) ==
    \/ m.command = "url_chunk" /\ \E oom \in BOOLEAN : Chunk(m.part, m.mangled, oom)
    \/ /\ m.command = "ota_update"
       /\ chunks' = NoChunks /\ out' = Made(m.of, m.mangled) /\ held' = 0
    \/ /\ m.command = "ota_cancel"
       /\ chunks' = NoChunks /\ out' = [kind |-> "cancel"] /\ held' = 0
    \/ m.command \in {"get_version", "ping"} /\ Other([kind |-> m.command])
    \/ m.command \in {"unknown", "not JSON", "bad chunk"} /\ Other(Fails)

-----------------------------------------------------------------------------
\* take_some: received and deleted, on the phase's session.
take_some(m) == /\ Len(pending) < MaxCommands
                /\ pending' = Append(pending, m)
                /\ UNCHANGED <<chunks, now, out, held, silent>>
\* run_commands: after the session, in the order received, through ota_handle_command.
run_commands == /\ pending # <<>>
                /\ pending' = Tail(pending) /\ silent' = 0
                /\ ota_cmd_parse(Head(pending))
                /\ UNCHANGED now
\* The milliseconds of esp_timer, as a uint32_t.
Passes == /\ silent < MaxSilence
          /\ now' = (now + 1) % Wrap /\ silent' = silent + 1
          /\ held' = IF chunks.total > 0 THEN held + 1 ELSE 0
          /\ UNCHANGED <<pending, chunks, out>>
\* A restart: commands taken and chunks collected were only in RAM.
Reboots == /\ pending' = <<>> /\ chunks' = NoChunks /\ now' = 0
           /\ out' = [kind |-> Nothing] /\ held' = 0 /\ silent' = 0

CmdNext == \/ \E m \in Commands : take_some(m)
           \/ run_commands \/ Passes \/ Reboots
CmdSpec == CmdInit /\ [][CmdNext]_cmdVars

-----------------------------------------------------------------------------
\* An update that was put together from chunks is of one version and one count, each part in its
\* place, with a sha256 Fleet sent for that version (or one spoilt by a later chunk's that was refused),
\* and its first chunk is no older than MaxAge.  (A second URL of the same version and count may lend it
\* parts: nothing in a chunk tells them apart.)
\* (ota_cmd.c:133: "A chunk from a different update (count or version) starts again".)
UpdateOfOneVersion ==
    out.kind = "update" =>
        /\ \E u \in Updates : u.version = out.version /\ out.sha \in {u.sha, Spoilt} /\ out.sha # NoSha
        /\ \A k \in DOMAIN out.url : /\ out.url[k].at = k /\ out.url[k].of.version = out.version
                                    /\ DOMAIN out.url = 0..Len(out.url[k].of.sizes) - 1
        /\ out.held <= MaxAge
=============================================================================
