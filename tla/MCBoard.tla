------------------------------ MODULE MCBoard ------------------------------
(***************************************************************************)
(* Board with its four tasks for TLC.                                      *)
(***************************************************************************)
EXTENDS Board

PhasedTasks == {Main, Ota}
=============================================================================
