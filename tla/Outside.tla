------------------------------- MODULE Outside -------------------------------
(***************************************************************************)
(* What comes to Kata from outside, and what it makes of it: AWS's answers *)
(* (AwsCalls), the messages SQS brings (JobText), the peers of the status  *)
(* server (StatusServer), sealed files (AgeFile), bytes and times          *)
(* (Encodings), pools of jobs (Packing) and texts (Tokenizer).  One input, *)
(* of a kind, is read by the part that is for it.                          *)
(***************************************************************************)
EXTENDS AwsCalls, JobText, StatusServer, AgeFile, Encodings, Packing, Tokenizer

CONSTANTS Limits,  \* numbers of ids that texts are cut to
          Asked    \* the calls an answer may be to, and what SQS may have done
VARIABLE input     \* what has come

-----------------------------------------------------------------------------
\* The ids of a text are those of its words, each spelt in the longest tokens of the vocab.
\* (tok.h:1: "gives the same ids as Ollama".)
TokensSpell == input.kind = "text" => \A max_ids \in Limits : SpellsTokens(input.content, max_ids)

\* A file that is not forged opens as what was sealed, whole, or not at all.
\* (age.c:1: "Follows the spec (age-encryption.org/v1) and the reference implementation's strictness".)
OpensWhole == input.kind = "file" =>
    LET sealed == Seal(input.text, input.stanzas, input.key, input.nonce) IN
    Unforged(sealed, input.key, input.file) => OpensOnlyWhole(sealed, input.text, input.file)

\* Bytes, base64 and times are read back as they were written (b64_encode, b64_decode, kw_parse_iso8601,
\* kw_amz_date).
ReadsBack ==
    /\ input.kind = "bytes" => BytesReadBack(input.bytes)
    /\ input.kind = "base64" => CanonicalOnly(input.in)
    /\ input.kind = "time" => DatesReadBack([f \in DOMAIN input \ {"kind"} |-> input[f]])

\* What the worker plans for a pass the model takes, and no job is passed over without need.
\* (worker.c:524: "The oldest always goes; a job on its second delivery goes alone".)
PassFits == input.kind = "pool" => FillsPass(input.pend, input.target)

\* What comes from outside is believed only as far as it was checked: answers of AWS, messages, peers.
\* An answer is one to any call of Asked: with any of its credentials, to the sending of any of its lists
\* of bodies, to the deletion of any of its numbers of receipts, or for any number of messages, whatever
\* SQS has really stored and deleted.
\* (sqs.h:7: "Integrity: a received body is checked against its MD5OfBody, and a sent one".)
OutsideIsChecked ==
    /\ input.kind = "answer" => \A c \in Asked.creds :
         /\ \A sent \in Asked.sendings, stored \in Asked.stores : SentMeansStored(c, sent, stored, input)
         /\ \A n \in Asked.counts, deleted \in Asked.deletions : DeletedMeansListed(c, n, deleted, input)
    /\ input.kind = "messages" => \A c \in Asked.creds, max \in Asked.counts : ReceivedIntact(c, max, input)
    /\ input.kind = "credentials" => CredsGood(input.had, input.now, input.provisioned, input)
    /\ input.kind = "message" => StrictAsCal(input)
    /\ input.kind = "request" =>
         LET i == input IN
         /\ OnlyPeers(i.nvs, i.peer, i.self, i.mask, i.head, i.arrived, i.serves)
         /\ StatusIsAskedFor(httpreq_parse_allow(status_allow(i.nvs)), i.peer, i.self, i.mask,
                             i.head, i.arrived, i.serves)
=============================================================================
