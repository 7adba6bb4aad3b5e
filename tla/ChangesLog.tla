----------------------------- MODULE ChangesLog -----------------------------
(***************************************************************************)
(* The change protocol (Changes) as an implementation of one replicated    *)
(* history of changes (ReplicatedLog).  The history is what any node has   *)
(* applied: a change is in it from the moment its master runs it.          *)
(***************************************************************************)
EXTENDS Changes

History == UNION {log[n] : n \in Nodes}

Promise == INSTANCE ReplicatedLog WITH
             history <- History, seen <- log, Ids <- FirstId + 1 .. MaxId

(* Every step of the nodes is a step of the replicated log or none: no     *)
(* node ever runs a change of its own, as master, before it has applied    *)
(* all that the cluster has run under lower ids (changes__loop), no node   *)
(* applies changes in another order or leaves one out that exists          *)
(* (LoopGap), and a change is run for the first time with a higher id than *)
(* everything before, by its own master, once, while its client waits.     *)
ImplementsLog == Promise!LogSpec
=============================================================================
