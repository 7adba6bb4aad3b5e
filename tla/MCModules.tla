------------------------------ MODULE MCModules -----------------------------
(* Modules for TLC: see the cfg file.                                      *)
EXTENDS Modules
=============================================================================
