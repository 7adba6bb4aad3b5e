--------------------------- MODULE ReplicatedLog ----------------------------
(***************************************************************************)
(* What a cluster of ThingsDB nodes promises about changes: there is one   *)
(* history of changes, every node applies it in its order and leaves       *)
(* nothing out, a change enters it on a node that has applied all of it,   *)
(* and the client is told "ok" at that moment.  A client that is told      *)
(* "error" knows that its change is not in the history and never will be.  *)
(***************************************************************************)
EXTENDS Naturals

CONSTANTS
  Nodes,
  Ops,    \* the changes clients ask for
  Home,   \* the node each change is sent to
  Ids     \* change ids

VARIABLES
  history,  \* the changes of the cluster, [id, op]
  seen,     \* per node: the part of the history that it has applied
  reply     \* per change: what the client knows

logVars == <<history, seen, reply>>

LogInit ==
  /\ history = {}
  /\ seen = [n \in Nodes |-> {}]
  /\ reply = [op \in Ops |-> "unsent"]

(* A client asks for op, or its node refuses it or fails.                  *)
Ask(op) ==
  /\ reply[op] = "unsent"
  /\ reply' = [reply EXCEPT ![op] = "waiting"]
  /\ UNCHANGED <<history, seen>>

Fail(op) ==
  /\ reply[op] \in {"unsent", "waiting"}
  /\ reply' = [reply EXCEPT ![op] = "error"]
  /\ UNCHANGED <<history, seen>>

(* The node that was asked adds op behind everything there is.             *)
Commit(op) ==
  LET n == Home[op] IN
  /\ reply[op] = "waiting"
  /\ seen[n] = history
  /\ \E id \in Ids :
       /\ \A c \in history : c.id < id
       /\ history' = history \cup {[id |-> id, op |-> op]}
  /\ seen' = [seen EXCEPT ![n] = history']
  /\ reply' = [reply EXCEPT ![op] = "ok"]

(* A node applies the first change of the history that it has not.         *)
Apply(n) ==
  /\ \E c \in history \ seen[n] :
       /\ \A d \in history \ seen[n] : c.id <= d.id
       /\ seen' = [seen EXCEPT ![n] = @ \cup {c}]
  /\ UNCHANGED <<history, reply>>

LogNext ==
  \/ \E op \in Ops : Ask(op) \/ Commit(op) \/ Fail(op)
  \/ \E n \in Nodes : Apply(n)

LogSpec == LogInit /\ [][LogNext]_logVars
=============================================================================
