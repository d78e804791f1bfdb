---------------------------- MODULE MCCardReader ----------------------------
(* A small model: the matrices that take several blocks on the board take two. *)
EXTENDS CardReader

MCBlocks == [mi \in Matrices |-> IF mi \in {1, 4} THEN 2 ELSE 1]
=============================================================================
