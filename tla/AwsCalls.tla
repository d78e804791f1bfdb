------------------------------ MODULE AwsCalls ------------------------------
(***************************************************************************)
(* What Kata believes of AWS's answers: the credentials provider's         *)
(* (worker/creds.c) and SQS's (worker/sqs.c), over the transports of       *)
(* kata_worker.c.  An answer may be lost, cut short or an error, leave     *)
(* entries out, repeat them, or name one twice.                            *)
(*                                                                         *)
(* The MD5 of a body is written as the body itself; an entry's id is what  *)
(* atoi makes of it.  Left out: signing, JSON, URLs, the texts of errors.  *)
(***************************************************************************)
EXTENDS Integers, Sequences, SequencesExt

CONSTANTS None,           \* no token, no MD5
          RefreshMargin,  \* CREDS_REFRESH_S
          UseMargin,      \* what fetched credentials must still be good for: 60 s
          MaxBatch,       \* SQS_MAX_BATCH
          MaxBytes,       \* SQS_MAX_BATCH_BYTES
          MaxReceive      \* SQS's limit on a receive

-----------------------------------------------------------------------------
(* The credentials: a token and until when.                                 *)

NoCreds == [token |-> None, expires |-> 0]
creds_fresh(c, now, margin) == c.token # None /\ c.expires > now + margin

\* Every field there, and a time that can be read; else the old ones stay.
Parses(a) == a.fields /\ a.token # None /\ a.expires > 0
creds_parse(c, a) == IF Parses(a) THEN [token |-> a.token, expires |-> a.expires] ELSE c

\* Asked of the provider only when the cached ones are running out.
Refreshed_Unlooked(c, now, a) == Parses(a)
Refreshed(c, now, a) == Parses(a) /\ creds_fresh(creds_parse(c, a), now, UseMargin)
creds_refresh(c, now, provisioned, a) ==
    IF creds_fresh(c, now, RefreshMargin) THEN [rc |-> 0, creds |-> c]
    ELSE IF ~provisioned \/ a.status # 200 THEN [rc |-> -1, creds |-> c]
    ELSE [rc |-> IF Refreshed(c, now, a) THEN 1 ELSE -1, creds |-> creds_parse(c, a)]

-----------------------------------------------------------------------------
(* A call of SQS.                                                           *)

\* call(): memory for both ends, something to sign with, HTTP 200, and JSON.
Answered(c, a) == a.memory /\ c.token # None /\ a.status = 200 /\ a.json

\* sqs_receive: the messages that are whole, up to what was asked.
Clamped(max) == IF max < 1 THEN 1 ELSE IF max > MaxReceive THEN MaxReceive ELSE max
Intact(m) == m.fields /\ m.memory /\ m.md5 \in {None, m.body}
Received(got, m, max) == IF Len(got) < Clamped(max) /\ Intact(m) THEN Append(got, m) ELSE got
sqs_receive(c, max, a) ==
    IF ~Answered(c, a) THEN [rc |-> -1, msgs |-> <<>>]
    ELSE [rc |-> 0, msgs |-> FoldLeft(LAMBDA got, m : Received(got, m, max), <<>>, a.messages)]

\* batch_outcome: entry i is done if the answer lists it, and for a body if its MD5 is ours.
Listed_Unlooked(i, body, a) == \E e \in Range(a.successful) : e.id = i
Listed(i, body, a) == \E e \in Range(a.successful) : e.id = i /\ e.md5 = body
Bytes(sent) == FoldLeft(LAMBDA n, s : n + s.len, 0, sent)
InLimits(sent) == Len(sent) \in 1..MaxBatch /\ Bytes(sent) <= MaxBytes
sqs_send_batch(c, sent, a) ==
    [rc |-> IF InLimits(sent) /\ Answered(c, a) THEN 0 ELSE -1,
     ok |-> [i \in 0..Len(sent) - 1 |-> InLimits(sent) /\ Answered(c, a) /\ Listed(i, sent[i + 1].body, a)]]
\* sqs_delete_batch and sqs_visibility_batch.
receipt_batch(c, n, a) ==
    [rc |-> IF n \in 1..MaxBatch /\ Answered(c, a) THEN 0 ELSE -1,
     ok |-> [i \in 0..n - 1 |-> n \in 1..MaxBatch /\ Answered(c, a)
                                  /\ \E e \in Range(a.successful) : e.id = i]]

-----------------------------------------------------------------------------
\* What SQS lists is what it has done: stored says which entries, and as which body.
Honest(stored, a) == \A e \in Range(a.successful) : e.id \in DOMAIN stored /\ e.md5 = stored[e.id]

\* A result counts as handed over, so that its job may be deleted, only when SQS has stored that body
\* as it is; when nothing came back none does; and what SQS did store and list is not sent again.
\* (sqs.h:67: "which SQS accepted (and whose MD5 matched)".)
SentMeansStored(c, sent, stored, a) ==
    LET r == sqs_send_batch(c, sent, a) IN
    Honest(stored, a) =>
        /\ \A i \in DOMAIN r.ok : r.ok[i] => i \in DOMAIN stored /\ stored[i] = sent[i + 1].body
        /\ r.rc = -1 => \A i \in DOMAIN r.ok : ~r.ok[i]
        /\ \A i \in DOMAIN r.ok : /\ r.rc = 0 /\ i \in DOMAIN stored /\ stored[i] = sent[i + 1].body
                                  /\ \E e \in Range(a.successful) : e.id = i
                                  => r.ok[i]

\* A job counts as deleted, or as hidden for longer, only when SQS says so of it.
DeletedMeansListed(c, n, deleted, a) ==
    LET r == receipt_batch(c, n, a) IN
    (\A e \in Range(a.successful) : e.id \in deleted) => {i \in DOMAIN r.ok : r.ok[i]} \subseteq deleted

\* What is received is whole and in order, no more of it than the pool has room for, and nothing whole
\* is passed over for what comes after it.
ReceivedIntact(c, max, a) ==
    LET got == sqs_receive(c, max, a).msgs IN
    /\ max \in 1..MaxReceive => Len(got) <= max
    /\ \A k \in DOMAIN got : got[k].md5 \in {None, got[k].body}
    /\ \E at \in [DOMAIN got -> DOMAIN a.messages] :
         /\ \A j, k \in DOMAIN got : j < k => at[j] < at[k]
         /\ \A k \in DOMAIN got : got[k] = a.messages[at[k]]
         /\ \A i \in DOMAIN a.messages : Answered(c, a) /\ Intact(a.messages[i]) =>
              \/ i \in Range(at)
              \/ Len(got) = Clamped(max) /\ \A k \in DOMAIN got : at[k] < i

\* A phase goes on only with credentials that are good for a while; failed ones are the old ones, or
\* fetched ones that are as good as expired.
CredsGood(c, now, provisioned, a) ==
    LET r == creds_refresh(c, now, provisioned, a) IN
    /\ r.rc # -1 => creds_fresh(r.creds, now, UseMargin)
    /\ r.rc = -1 /\ r.creds # c => r.creds.token # None /\ r.creds.expires <= now + UseMargin
=============================================================================
