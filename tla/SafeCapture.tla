----------------------------- MODULE SafeCapture -----------------------------
(***************************************************************************)
(* What capture and delivery promise together (hook/hook/record.py, whose  *)
(* "whole point" is that "capture must not be able to fail"): a message    *)
(* that has been captured stays captured until it is stored, and a stored  *)
(* message stays stored.  A step may move many messages at once, because   *)
(* the hook, the drain and the replay all write whole batches.             *)
(***************************************************************************)
CONSTANT Messages

VARIABLE stage      \* stage[m]: how far message m has come

Stages == {"said", "captured", "stored"}

Init == stage = [m \in Messages |-> "said"]

\* A message moves forward or not at all.
Moves(a, b) == b = a \/ <<a, b>> \in {<<"said", "captured">>, <<"captured", "stored">>}

Next ==
    /\ stage' \in [Messages -> Stages]
    /\ \A m \in Messages : Moves(stage[m], stage'[m])

Spec == Init /\ [][Next]_stage

\* Every captured message is stored in the end.
Delivered == \A m \in Messages : stage[m] = "captured" ~> stage[m] = "stored"
=============================================================================
