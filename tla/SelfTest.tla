------------------------------ MODULE SelfTest ------------------------------
(***************************************************************************)
(* The self-test at boot (firmware/full/main/full.c), which decides        *)
(* whether a new image is kept: each test text through the model, its      *)
(* vector compared bit for bit with a recorded CRC, or, where none is      *)
(* recorded, by its cosine with Ollama's.                                  *)
(*                                                                         *)
(* A cosine may be no number (NaN), which C compares as neither less nor   *)
(* more.  Left out: the model (CardReader), what is printed.               *)
(***************************************************************************)
EXTENDS Integers

CONSTANTS Tests,        \* 0..N_SELFTEST - 1: short texts, then long ones
          Recorded,     \* those whose SELFTEST_CRC is not 0
          Cosines, NaN, \* what cosv may return
          MinCos,       \* HEALTH_MIN_COS
          TopCos        \* where st_min_cos starts: above every cosine

ASSUME SelfTestAssumption ==
    /\ Recorded \subseteq Tests /\ Cosines \subseteq Int /\ NaN \notin Int
    /\ MinCos \in Int /\ TopCos \in Int /\ MinCos < TopCos

VARIABLES to_run,       \* the tests still to come (mxtest.bin may hold fewer, and in it each comes once)
          st_fail, st_new, st_done, st_min_cos, tok_bad,
          crc_bad,      \* blocks and tensors that did not match their CRC
          vector        \* history: what each test that ran gave
stVars == <<to_run, st_fail, st_new, st_done, st_min_cos, tok_bad, crc_bad, vector>>

Vectors == [exact : BOOLEAN, cos : Cosines \cup {NaN}]
StInit == /\ to_run \in SUBSET Tests
          /\ st_fail = 0 /\ st_new = 0 /\ st_done = {} /\ st_min_cos = TopCos
          /\ tok_bad = 0 /\ crc_bad \in {0, 1} /\ vector = [i \in {} |-> 0]

Less(c, limit) == c # NaN /\ c < limit

\* selftest(): the vector of test i.
Judge_AlsoRecorded(i, v) == st_min_cos' = IF Less(v.cos, st_min_cos) THEN v.cos ELSE st_min_cos
Judge(i, v) == st_min_cos' = IF i \notin Recorded /\ Less(v.cos, st_min_cos) THEN v.cos ELSE st_min_cos
selftest(i, v) ==
    /\ st_done' = st_done \cup {i} /\ vector' = [k \in st_done \cup {i} |-> IF k = i THEN v ELSE vector[k]]
    /\ st_new' = IF i \notin Recorded THEN st_new + 1 ELSE st_new
    /\ st_fail' = IF i \in Recorded /\ ~v.exact THEN st_fail + 1 ELSE st_fail
    /\ Judge(i, v)
\* selftest_run, a test at a time (in any order: it is of no matter): the text is tokenised as on the host, or the test is not run.
Runs(i) == /\ i \in to_run /\ to_run' = to_run \ {i}
           /\ \E v \in Vectors, bad \in {0, 1} :
                selftest(i, v) /\ crc_bad' = crc_bad + bad
           /\ UNCHANGED tok_bad
Differs(i) == /\ i \in to_run /\ to_run' = to_run \ {i}
              /\ tok_bad' = tok_bad + 1
              /\ UNCHANGED <<st_fail, st_new, st_done, st_min_cos, crc_bad, vector>>
StNext == \E i \in Tests : Runs(i) \/ Differs(i)
StSpec == StInit /\ [][StNext]_stVars

-----------------------------------------------------------------------------
\* verdict() and healthy(), as they would be now.
verdict == IF st_fail > 0 \/ Tests \ st_done # {} \/ crc_bad > 0 \/ tok_bad > 0 THEN "FAILED"
           ELSE IF st_new > 0 THEN "NOT VERIFIED" ELSE "PASSED"
healthy == verdict = "PASSED" \/ (verdict = "NOT VERIFIED" /\ st_min_cos >= MinCos)

\* Within HEALTH_MIN_COS of Ollama, which no NaN is.
Close(i) == vector[i].cos # NaN /\ vector[i].cos >= MinCos
Good(i) == IF i \in Recorded THEN vector[i].exact ELSE Close(i)
\* The unrecorded vectors whose cosine is no number.
NoNumber == {i \in DOMAIN vector \ Recorded : vector[i].cos = NaN}
\* Every test ran, on the tokens the host has, with no CRC wrong on the card.
AllRan == Tests \subseteq st_done /\ tok_bad = 0 /\ crc_bad = 0

\* A board is called healthy only when all ran and every vector that can be judged is good:
\* bit-exact, or, with no CRC recorded, within the least cosine.  And it is called healthy whenever that
\* holds of every vector.
\* An unrecorded vector whose cosine is no number stands apart: it is not good, as full.c:629 has it
\* ("only if every unrecorded vector is within HEALTH_MIN_COS of Ollama"), and yet the code may call the
\* board healthy with it, since a NaN leaves st_min_cos as it is.  Of that case this says nothing.
\* (full.c:610: "FAILED if any vector is wrong, any test didn't run, or any CRC or tokeniser check failed".)
HealthyMeans == /\ healthy => AllRan /\ \A i \in Tests \ NoNumber : Good(i)
                /\ AllRan /\ (\A i \in Tests : Good(i)) => healthy
=============================================================================
