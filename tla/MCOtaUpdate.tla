----------------------------- MODULE MCOtaUpdate -----------------------------
(***************************************************************************)
(* Instances of OtaUpdate for TLC: what each update command asks for.      *)
(***************************************************************************)
EXTENDS OtaUpdate

CONSTANTS u1, u2

\* What the updates ask for; any image may fail its self-test, as a fault, none does always.
AsksFor == [u \in Updates |-> IF u = u1 THEN 2 ELSE 3]
NoneBad == {}
=============================================================================
