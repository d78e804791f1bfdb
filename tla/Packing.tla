------------------------------ MODULE Packing ------------------------------
(***************************************************************************)
(* What goes into one pass: the batch planner's choice of pending jobs     *)
(* (worker/batch.c, worker.c's pass) and the model's layout of it (full.c).*)
(***************************************************************************)
EXTENDS Integers, Sequences, SequencesExt

CONSTANTS MaxTok,   \* PREP_MAX_TOKENS, and MAXTOK of the model
          MaxSeg,   \* MAXSEG
          PendMax   \* how many pending jobs pass() looks at

\* A job's length as pass() gives it to the planner: one on its second delivery never fits beside others.
PlanLen(j) == IF j.solo THEN MaxTok + 1 ELSE j.n_ids

Sum(lens) == FoldLeft(LAMBDA a, b : a + b, 0, lens)
\* batch_plan: the oldest, then in order whatever still fits, until there is enough.
Takes_Anyway(len, total, cap, target) == total < target /\ total < cap
Takes(len, total, cap, target) == total < target /\ total < cap /\ len <= cap - total
batch_plan(len, cap, target) ==
    FoldLeft(LAMBDA picked, i : IF i = 1 \/ Takes(len[i], Sum([k \in DOMAIN picked |-> len[picked[k]]]), cap, target)
                                  THEN Append(picked, i) ELSE picked,
             <<>>, [i \in DOMAIN len |-> i])

\* pass(): the jobs of the next pass.
Pass(pend, target) ==
    LET n == IF Len(pend) < PendMax THEN Len(pend) ELSE PendMax IN
    IF n = 0 THEN <<>> ELSE IF pend[1].solo THEN <<1>>
    ELSE batch_plan([k \in 1..n |-> PlanLen(pend[k])], MaxTok, target)

\* set_segs: where each message starts; <<>> when the pass is refused.
set_segs(len) ==
    IF Len(len) \notin 1..MaxSeg \/ \E s \in DOMAIN len : len[s] < 1 \/ Sum(SubSeq(len, 1, s)) > MaxTok
      THEN <<>> ELSE [s \in 1..Len(len) + 1 |-> Sum(SubSeq(len, 1, s - 1))]

\* The model refuses no pass the worker plans; the oldest job is always in it; a job on its second
\* delivery is alone in it; and no job that would have fitted was passed over while there was room.
\* (worker.c:524: "The oldest always goes; a job on its second delivery goes alone".)
FillsPass(pend, target) ==
    LET pass == Pass(pend, target)
        lens == [k \in DOMAIN pass |-> pend[pass[k]].n_ids]
    IN pend # <<>> =>
         /\ pass[1] = 1 /\ set_segs(lens) # <<>>
         /\ (\E k \in DOMAIN pass : pend[pass[k]].solo) => Len(pass) = 1
         /\ Sum(lens) < target /\ ~pend[1].solo =>
              \A i \in 1..Len(pend) :
                i \notin Range(pass) /\ ~pend[i].solo /\ i <= PendMax => pend[i].n_ids + Sum(lens) > MaxTok
=============================================================================
