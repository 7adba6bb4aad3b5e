------------------------------- MODULE MCAway -------------------------------
(* Instances of Away for TLC.                                              *)
EXTENDS Away
=============================================================================
