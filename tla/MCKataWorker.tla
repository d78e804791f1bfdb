---------------------------- MODULE MCKataWorker ----------------------------
(***************************************************************************)
(* Instances of KataWorker for TLC: which job is of which kind.            *)
(***************************************************************************)
EXTENDS KataWorker, TLC

CONSTANTS j1, j2

AllPlain == [j \in Jobs |-> "plain"]
OnePlain == [j \in Jobs |-> IF j = j1 THEN "plain" ELSE "cal"]
OneInvalid == [j \in Jobs |-> IF j = j1 THEN "plain" ELSE "invalid"]
OneOversize == [j \in Jobs |-> IF j = j1 THEN "plain" ELSE "oversize"]

BoardSymmetry == Permutations(Boards)
JobSymmetry == Permutations(Jobs) \cup Permutations(Boards)
=============================================================================
