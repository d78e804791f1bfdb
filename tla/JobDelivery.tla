----------------------------- MODULE JobDelivery -----------------------------
(***************************************************************************)
(* What the embedding pipeline promises about a job, whoever carries it    *)
(* and whatever fails (esp32-embedder/worker/worker.h): a job is always in *)
(* at least one durable place until Cal commits its row.                   *)
(*                                                                         *)
(* copies[j] is the set of durable places that hold job j: the ingest      *)
(* queue, its dead-letter queue, the results queue, or a committed row.    *)
(* The boards' memory is not a durable place and does not appear here.     *)
(***************************************************************************)
CONSTANT Jobs

VARIABLE copies

Places == {"ingest", "dlq", "results", "row"}

Init == copies = [j \in Jobs |-> {"ingest"}]

\* A result for the job was accepted: only now may its ingest message go.
HandedOver(c) == "results" \in c \/ "row" \in c

\* What one step may do to the copies of one job.
Moves(c, d) ==
    \/ d = c
    \/ d = c \cup {"results"}                                   \* a result is accepted
    \/ HandedOver(c) /\ d = c \ {"ingest"}                      \* the ingest job is deleted
    \/ "ingest" \in c /\ d = (c \ {"ingest"}) \cup {"dlq"}      \* too many receives
    \/ "results" \in c /\ d = c \cup {"row"}                    \* Cal commits
    \/ "row" \in c /\ d = c \ {"results"}                       \* then acknowledges

\* SQS's calls are batches, so one step may move several jobs.
Next ==
    /\ copies' \in [Jobs -> SUBSET Places]
    /\ \A j \in Jobs : Moves(copies[j], copies'[j])

Spec == Init /\ [][Next]_copies

NeverLost == \A j \in Jobs : copies[j] # {}
=============================================================================
