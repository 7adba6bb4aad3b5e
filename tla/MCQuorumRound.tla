--------------------------- MODULE MCQuorumRound ----------------------------
(* One vote counter in a cluster of N nodes.                               *)
EXTENDS QuorumRound
=============================================================================
