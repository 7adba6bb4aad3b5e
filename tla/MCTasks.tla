------------------------------ MODULE MCTasks -------------------------------
(* Tasks for TLC: see the cfg file.                                        *)
EXTENDS Tasks
=============================================================================
