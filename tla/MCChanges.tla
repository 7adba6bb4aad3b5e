----------------------------- MODULE MCChanges ------------------------------
(* Instances of Changes for TLC.                                           *)
EXTENDS ChangesLog

CONSTANTS op1, op2, op3

(* Each change comes in on a node of its own.                              *)
HomeApart == [op \in Ops |-> CASE op = op1 -> 1 [] op = op2 -> 2 [] OTHER -> 3]
=============================================================================
