------------------------------ MODULE MCCodecs ------------------------------
(***************************************************************************)
(* What comes to Kata from outside, over small inputs: one input for the   *)
(* pure parts, or commands, or the boot's self-test.                       *)
(***************************************************************************)
EXTENDS FleetCommands, SelfTest, Outside, TLC
CONSTANTS MaxText, MaxCells, MaxLength, MaxJobs

-----------------------------------------------------------------------------
(* Fleet: a version in two parts, its URL signed again, the same version in *)
(* three parts, another version, and one that is too long.                  *)
Url(version, sha, sizes, clean, valid) ==
    [version |-> version, sha |-> sha, sizes |-> sizes, clean |-> clean, valid |-> valid]
TwoVersions == {Url("1.0.1", "sha1", <<1, 1>>, TRUE, TRUE), Url("1.0.1", "sha1", <<1, 2>>, TRUE, TRUE),
                Url("1.0.1", "sha1", <<1, 1, 1>>, TRUE, TRUE), Url("1.0.2", "sha2", <<1, 1>>, TRUE, TRUE),
                Url("1.0.3", "sha3", <<4, 3>>, TRUE, TRUE), Url("1.0.4", "none", <<1>>, FALSE, TRUE)}

-----------------------------------------------------------------------------
(* A small vocab, with a duplicate, and characters of every class.          *)
Word(s) == [form |-> "word", str |-> s]
SubWord(s) == [form |-> "piece", str |-> s]
Special(s) == [form |-> "special", str |-> <<s>>]
SmallVocab == <<Special("[UNK]"), Special("[CLS]"), Special("[SEP]"), Word(<<"a">>), Word(<<"a", "b">>),
                SubWord(<<"b", "a">>), SubWord(<<"a">>), SubWord(<<"b">>), Word(<<".">>),
                Word(<<"b", "b", "a">>), Word(<<"a">>), Word(<<"e">>)>>
CodePoints == {"a", "b", "A", "e'", "e", "~", " ", ".", "U+FFFD", "U+1FFFFF", "\\", "0"}
ClassOf == [c \in CodePoints |-> CASE c = " " -> "ws" [] c = "~" -> "drop" [] c \in {".", "\\"} -> "split"
                                   [] OTHER -> "keep"]
NfdOf == [c \in CodePoints |-> IF c = "e'" THEN "e" ELSE c]
LowerOf == [c \in CodePoints |-> IF c = "A" THEN "a" ELSE c]
SpecialTokens == {"[UNK]", "[SEP]"}
TooHighPoints == {"U+1FFFFF"}
SomeLimits == {2, 4, 8}
Items == {"a", "b", "A", "e'", "~", " ", ".", "bad byte", "NUL", "[UNK]", "U+1FFFFF"}
Texts == [kind : {"text"}, content : UNION {[1..n -> Items] : n \in 0..MaxText}]

-----------------------------------------------------------------------------
(* Sealed files, and what storage may make of them.                         *)
Ours == Stanza("X25519", "Kata", "key")
Cals == Stanza("X25519", "Cal", "key")
Grease == Stanza("grease", "nobody", "other key")
Headers == {<<Ours>>, <<Cals, Ours>>, <<Grease, Ours, Cals>>, <<Cals>>, <<Grease>>,
            <<Stanza("scrypt", "a passphrase", "key")>>}
Sealed(n, stanzas) == Seal([i \in 1..n |-> i], stanzas, "key", "nonce")
\* Cells i to j lost, or there twice.
Cut(s, i, j) == SubSeq(s, 1, i - 1) \o SubSeq(s, j + 1, Len(s))
Twice(s, i, j) == SubSeq(s, 1, j) \o SubSeq(s, i, Len(s))
Damaged(f) ==
    LET p == f.payload
        st == f.stanzas
        places == {<<i, j>> \in (1..Len(p)) \X (1..Len(p)) : i <= j}
    IN {f} \cup {[f EXCEPT !.payload = Cut(p, ij[1], ij[2])] : ij \in places}
           \cup {[f EXCEPT !.payload = Twice(p, ij[1], ij[2])] : ij \in places}
           \cup {[f EXCEPT !.stanzas = Cut(st, i, i)] : i \in DOMAIN st}
           \cup {[f EXCEPT !.stanzas = Twice(st, i, i)] : i \in DOMAIN st}
           \cup {[f EXCEPT !.stanzas[i].shaped = FALSE] : i \in DOMAIN st}
           \cup {[f EXCEPT !.stanzas[i].formed = FALSE] : i \in DOMAIN st}
           \cup {[f EXCEPT !.stanzas[i].to = "Cal"] : i \in DOMAIN st}
           \cup {[f EXCEPT !.intro = FALSE], [f EXCEPT !.end = FALSE], [f EXCEPT !.mac.key = "other key"]}
Files == UNION {{[kind |-> "file", text |-> [i \in 1..n |-> i], stanzas |-> h, key |-> "key", nonce |-> "nonce", file |-> f]
                   : f \in Damaged(Sealed(n, h))} : <<n, h>> \in (0..MaxCells) \X Headers}
\* None of them is forged, so each is a case of OpensWhole.
ASSUME FilesAreUnforged == \A f \in Files : Unforged(Seal(f.text, f.stanzas, f.key, f.nonce), f.key, f.file)

-----------------------------------------------------------------------------
(* Bytes, base64 and times at their edges; pools of jobs.                   *)
SomeBytes == [kind : {"bytes"}, bytes : UNION {[1..n -> {0, 1, 63, 64, 128, 255}] : n \in 0..MaxLength}]
Base64 == [kind : {"base64"}, in : UNION {[1..n -> {0, 1, 4, 16, 63, 64, 65}] : n \in 0..4}]
Times == [kind : {"time"}, y : {1970, 1999, 2000, 2026, 2027, 2028, 2100}, m : 1..12, d : {1, 2, 27, 28, 29, 30, 31},
          h : {0, 23}, mi : {0, 59}, s : {0, 59, 60}, zone : {"Z", "+00:00"}]

Pools == [kind : {"pool"}, target : {1, 6, 8, 12},
          pend : UNION {[1..n -> [n_ids : {2, 3, 6, 8}, solo : BOOLEAN]] : n \in 1..MaxJobs}]

-----------------------------------------------------------------------------
(* AWS's answers: lists that leave out, repeat and change, and calls that fail. *)
Token == [token |-> "token", expires |-> 9]
Outcomes == {<<200, TRUE, TRUE>>, <<500, TRUE, TRUE>>, <<-1, TRUE, FALSE>>, <<200, FALSE, TRUE>>, <<200, TRUE, FALSE>>}
Entries == [id : -1..2, md5 : {"x", "y", "none"}]
Upto(S, n) == UNION {[1..k -> S] : k \in 0..n}
Answers == {[kind |-> "answer", status |-> o[1], memory |-> o[2], json |-> o[3], successful |-> l]
              : o \in Outcomes, l \in Upto(Entries, 2)}
Sendings == Upto([body : {"x", "y"}, len : {1, 2}], 2) \cup {[i \in 1..3 |-> [body |-> "x", len |-> 1]]}
Stores == UNION {[d -> {"x", "y"}] : d \in SUBSET {0, 1}}
Messages == [fields : BOOLEAN, memory : {TRUE}, md5 : {"x", "none"}, body : {"x", "y"}]
Receives == {[kind |-> "messages", status |-> o[1], memory |-> o[2], json |-> o[3], messages |-> l]
               : o \in Outcomes, l \in Upto(Messages, 3)}
Providers == [kind : {"credentials"}, had : {NoCreds} \cup [token : {"old"}, expires : 0..5], now : 0..4,
              provisioned : BOOLEAN, status : {200, 403, -1}, fields : BOOLEAN, token : {"new", "none"}, expires : 0..7]

SomeCalls == [creds |-> {NoCreds, Token}, sendings |-> Sendings, stores |-> Stores, counts |-> 0..3,
              deletions |-> SUBSET {0, 1}]

-----------------------------------------------------------------------------
(* Messages: a good one with a few fields changed, and everything that may  *)
(* go wrong with it.                                                        *)
Text(good, changes) == changes @@ good @@ [shallow |-> TRUE, alone |-> TRUE, object |-> TRUE, unique |-> TRUE, memory |-> TRUE]
GoodEnvelope == [k \in EnvelopeFields |-> IF k = "v" THEN "integer" ELSE IF k = "sig" THEN "absent" ELSE "string"]
GoodJob == [k \in JobFields |-> IF k = "sequence_num" THEN "integer" ELSE "string"]
Changed(f) == {[f EXCEPT ![k[1]] = v[1], ![k[2]] = v[2]] : k \in (DOMAIN f) \X (DOMAIN f), v \in Kinds \X Kinds}
Flags == {[x \in {} |-> TRUE]} \cup {f :> FALSE : f \in {"shallow", "alone", "object", "unique", "memory"}}
S3s == {[is |-> k, unique |-> TRUE, bucket |-> "string", key |-> "string"] : k \in {"absent", "null", "object", "other"}}
       \cup {[is |-> "object", unique |-> u, bucket |-> b, key |-> "string"] : u \in BOOLEAN, b \in {"string", "null"}}
Envelopes == {Text([is |-> f, s3 |-> s, uuid_fits |-> u], c)
                : f \in Changed(GoodEnvelope), s \in S3s, u \in BOOLEAN, c \in Flags}
AJob(f, same, role, c) == Text([is |-> f, same_uuid |-> same, known_role |-> role, tokenises |-> TRUE], c)
JobTexts == {AJob(f, TRUE, TRUE, c) : f \in Changed(GoodJob), c \in Flags}
            \cup {AJob(GoodJob, s, r, c) : s, r \in BOOLEAN, c \in Flags \cup {"tokenises" :> FALSE}}
AnEnvelope == Text([is |-> GoodEnvelope, s3 |-> [is |-> "absent", unique |-> TRUE, bucket |-> "absent", key |-> "absent"],
                    uuid_fits |-> TRUE], [x \in {} |-> TRUE])
Arrival(e, j, a) == [kind |-> "message", env |-> e, job |-> j, age |-> a,
                     retries |-> FALSE, long |-> FALSE, sick |-> FALSE, identity |-> TRUE]
Arrivals == {Arrival(e, AJob(GoodJob, TRUE, TRUE, [x \in {} |-> TRUE]), "ok") : e \in Envelopes}
            \cup {Arrival(AnEnvelope, j, "ok") : j \in JobTexts}
            \cup {t @@ Arrival(AnEnvelope, AJob(GoodJob, TRUE, TRUE, [x \in {} |-> TRUE]), a)
                     : t \in [{"retries", "long", "sick", "identity"} -> BOOLEAN], a \in {"ok", "no memory", "fails"}}

-----------------------------------------------------------------------------
(* Peers of the status server, on the board's network and off it.           *)
NoAddress == [net |-> 0, host |-> 1]
Offline == [net |-> 0, host |-> 0]
Addresses == [net : {1, 2}, host : {1, 2}]
Lists == {[key |-> k, text |-> [chars |-> 0, items |-> <<>>]] : k \in {"absent", "unreadable", "there"}}
         \cup {[key |-> "there", text |-> [chars |-> 9, items |-> l]]
                  : l \in Upto({[net |-> 1, host |-> 1], [net |-> 2, host |-> 2]}, 3) \cup {<<NoAddress>>}}
         \cup {[key |-> "there", text |-> [chars |-> 9, items |-> <<[net |-> 1, host |-> 2], NoAddress>>]]}
Heads == [size : {2, 3, 4}, control : {FALSE}, three_parts : BOOLEAN, version : {TRUE}, method : {"GET", "POST"},
          target : {"/json", "/", "no_path"}]
Requests == [kind : {"request"}, nvs : Lists, peer : Addresses, self : Addresses \cup {Offline},
             mask : BOOLEAN, head : Heads, arrived : {0, 2, 4}, serves : BOOLEAN]

Inputs == Texts \cup Files \cup SomeBytes \cup Base64 \cup Times \cup Pools
          \cup Answers \cup Receives \cup Providers \cup Arrivals \cup Requests

-----------------------------------------------------------------------------
MCInit == /\ CmdInit /\ StInit
          /\ input \in Inputs \cup {[kind |-> "commands"], [kind |-> "self-test"]}
          /\ input.kind # "self-test" => to_run = {} /\ crc_bad = 0
MCNext == \/ input.kind = "commands" /\ CmdNext /\ UNCHANGED <<input, stVars>>
          \/ input.kind = "self-test" /\ StNext /\ UNCHANGED <<input, cmdVars>>
MCSpec == MCInit /\ [][MCNext]_<<cmdVars, stVars, input>>
=============================================================================
