------------------------------ MODULE JobText ------------------------------
(***************************************************************************)
(* What Kata makes of a message that arrives (worker/worker.c: strict      *)
(* JSON, open_job, arrive), and what Cal can read of it afterwards.        *)
(*                                                                         *)
(* A field is the kind of JSON value it holds.  An "integer" is one in the *)
(* field's range; a "whole" is such a number written as serde reads none:  *)
(* 1.0, 1e0 or 01.  Left out: JSON's grammar, decryption (AgeFile), tokens *)
(* (Tokenizer).                                                            *)
(***************************************************************************)
EXTENDS Integers

Kinds == {"absent", "null", "string", "integer", "whole", "other"}
EnvelopeFields == {"v", "message_uuid", "ciphertext", "sig_key", "sig"}
JobFields == {"project_path", "git_branch", "name", "ai_title", "host", "author", "tool_name", "model",
              "session_id", "message_uuid", "role", "content", "created_at", "sequence_num"}

-----------------------------------------------------------------------------
(* Strict JSON.                                                             *)

\* Not too deep, nothing after the value, an object, no key twice.
parse_strict(t) == t.shallow /\ t.alone /\ t.object /\ t.unique
opt_string(f) == f \in {"absent", "null", "string"}
req_string(f) == f = "string"
integer(f) == f \in {"integer", "whole"}

envelope_fields_ok(e) ==
    /\ integer(e.is["v"]) /\ req_string(e.is["message_uuid"])
    /\ \A k \in {"ciphertext", "sig_key", "sig"} : opt_string(e.is[k])
    /\ \/ e.s3.is \in {"absent", "null"}
       \/ e.s3.is = "object" /\ e.s3.unique /\ req_string(e.s3.bucket) /\ req_string(e.s3.key)

Opt == {"project_path", "git_branch", "name", "ai_title", "host", "author", "tool_name", "model"}
NotNull == {"project_path", "git_branch", "host", "author"}
job_fields_ok_Nulls(j) ==
    /\ \A k \in Opt : opt_string(j.is[k])
    /\ \A k \in {"session_id", "message_uuid", "role", "content", "created_at"} : req_string(j.is[k])
    /\ integer(j.is["sequence_num"])
job_fields_ok(j) ==
    /\ \A k \in Opt : opt_string(j.is[k])
    /\ \A k \in NotNull : j.is[k] # "null"
    /\ \A k \in {"session_id", "message_uuid", "role", "content", "created_at"} : req_string(j.is[k])
    /\ integer(j.is["sequence_num"])

-----------------------------------------------------------------------------
(* What becomes of a message.                                               *)

\* open_job: -2 when memory ran out, -1 when it is no job for this envelope.
open_job(j) ==
    IF ~j.memory THEN -2
    ELSE IF ~parse_strict(j) \/ ~job_fields_ok(j) \/ ~j.same_uuid \/ ~j.known_role THEN -1
    ELSE IF ~j.tokenises THEN -2 ELSE 0

Kept(reason) == [verdict |-> "KEEP", reason |-> reason]
Embeds == Kept("none")
Later == [verdict |-> "LATER", reason |-> "none"]
Drop == [verdict |-> "DROP", reason |-> "none"]

\* age: what decryption said: "ok", "no memory" or "fails".
Opened(m) == IF m.age = "no memory" THEN Later
             ELSE IF m.age = "fails" THEN Kept("decrypt failed")
             ELSE IF open_job(m.job) = -2 THEN Later
             ELSE IF open_job(m.job) = -1 THEN Kept("decrypt failed") ELSE Embeds
arrive(m) ==
    LET e == m.env
        ct == e.is["ciphertext"] = "string"
    IN IF e.shallow /\ ~e.memory THEN Later
       ELSE IF ~parse_strict(e) \/ ~envelope_fields_ok(e) \/ ~e.uuid_fits THEN Drop
       ELSE IF ~ct /\ e.s3.is = "object" THEN Kept("claim check")
       ELSE IF m.retries THEN Kept("retries")
       ELSE IF m.long THEN Kept("too long")
       ELSE IF m.sick THEN Kept("kata unhealthy")
       ELSE IF ~ct \/ ~m.identity THEN Kept("decrypt failed")
       ELSE Opened(m)

-----------------------------------------------------------------------------
(* Cal, which reads the same text with serde.                               *)

\* Missing fields of an Option are None, those with a default are theirs; a key twice is an error.
CalReadsText(t) == t.alone /\ t.object /\ t.unique
CalReadsEnvelope(e) ==
    /\ CalReadsText(e) /\ e.is["v"] = "integer" /\ e.is["message_uuid"] = "string"
    /\ {e.is["ciphertext"], e.is["sig_key"], e.is["sig"]} \cap {"integer", "whole", "other"} = {}
    /\ e.s3.is # "other" /\ (e.s3.is = "object" => e.s3.unique /\ {e.s3.bucket, e.s3.key} = {"string"})
CalReadsJob(j) ==
    /\ CalReadsText(j) /\ j.is["sequence_num"] = "integer"
    /\ \A k \in JobFields \ {"sequence_num"} : j.is[k] \notin {"integer", "whole", "other"}
    /\ \A k \in JobFields \ {"sequence_num"} : j.is[k] = "null" => k \in {"name", "ai_title", "tool_name", "model"}
    /\ \A k \in {"session_id", "message_uuid", "role", "content", "created_at"} : j.is[k] # "absent"

\* What Kata passes on, Cal reads: the envelope of every result, and the job of every embedded one,
\* which is also the envelope's own.  So no result ends in the results' dead-letter queue after its
\* job was deleted, unless a forwarder wrote a whole number as no integer.  And Kata
\* puts off a message only for want of memory or because its text gave no tokens: anything else is
\* settled now.
\* (worker.c:150: "So Kata is at least as strict"; worker.c:178, integer(), looks at the value alone.)
PlainNumbers(m) == m.env.is["v"] # "whole" /\ m.job.is["sequence_num"] # "whole"
StrictAsCal(m) ==
    LET r == arrive(m) IN
    /\ r.verdict = "KEEP" /\ PlainNumbers(m) => CalReadsEnvelope(m.env)
    /\ r = Embeds /\ PlainNumbers(m) => CalReadsJob(m.job)
    /\ r = Embeds => m.job.same_uuid /\ m.job.known_role /\ m.age = "ok"
    /\ r = Later => ~m.env.memory \/ m.age = "no memory" \/ ~m.job.memory \/ ~m.job.tokenises
=============================================================================
