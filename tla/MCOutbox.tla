------------------------------ MODULE MCOutbox ------------------------------
(***************************************************************************)
(* Instances of Outbox for TLC: who says what, and how sessions are        *)
(* renamed.                                                                *)
(***************************************************************************)
EXTENDS Outbox, TLC

CONSTANTS s1, s2

\* All messages are session s1's, but the first is s2's.
FirstIsOthers == [m \in Messages |-> IF m = 1 THEN s2 ELSE s1]
AllOfOne == [m \in Messages |-> s1]

\* The last message is said mid-turn and shares its predecessor's number.
Numbered == [m \in Messages |-> m]
MidTurn == [m \in Messages |-> IF m = NumMessages /\ m > 1 THEN m - 1 ELSE m]

OneName == {<<s, 0, 1>> : s \in Sessions}
\* An old title can only overtake a new one in a session that is renamed twice.
NewNames == {<<s1, 0, 1>>, <<s1, 1, 2>>}

HookSymmetry == Permutations(Hooks) \cup Permutations(Drains)
=============================================================================
