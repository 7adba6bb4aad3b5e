------------------------------- MODULE MCSync -------------------------------
(* Sync for TLC: see the cfg files.                                        *)
EXTENDS Sync
=============================================================================
