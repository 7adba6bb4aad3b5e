----------------------------- MODULE MCArchive ------------------------------
(* Archive for TLC: see the cfg file.                                      *)
EXTENDS Archive
=============================================================================
