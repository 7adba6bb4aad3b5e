---------------------------- MODULE QuorumRound -----------------------------
(***************************************************************************)
(* The life of one vote counter: it is made, requests go out to the nodes  *)
(* that can be reached, every request comes back exactly once (an answer,  *)
(* an error, a timeout or a cancellation: ti/req.c), and the counter is    *)
(* freed by ti_quorum_go.  Which answer comes back, and in which order, is *)
(* left open, so this module says what the counter promises to every       *)
(* component that uses it.                                                 *)
(***************************************************************************)
EXTENDS TiQuorum

CONSTANTS
  N,            \* number of nodes in the cluster, the asking node included
  MinReachable  \* what ti_nodes_quorum returns: half of the nodes

ASSUME NAssumption == N \in Nat \ {0}
ASSUME MinReachableAssumption == MinReachable \in Nat /\ MinReachable < N

VARIABLES
  q,        \* the counter
  armed,    \* the callback is still set (cb_ is not NULL)
  waiting,  \* how many requests have not come back yet
  errors,   \* how many nodes were not reached or did not answer
  calls,    \* how many times the callback was called
  verdict,  \* what the callback was told
  freed     \* the counter is freed

vars == <<q, armed, waiting, errors, calls, verdict, freed>>

(* ti_quorum_go on the counter r.                                          *)
Go(r) ==
  LET v == IF armed THEN QuorumGo(r) ELSE "none" IN
  /\ q' = r
  /\ armed' = (armed /\ v = "none")
  /\ calls' = IF v = "none" THEN calls ELSE calls + 1
  /\ verdict' = IF v = "none" THEN verdict ELSE v
  /\ freed' = AllAnswered(r)

(* The counter of a node that could not reach k of the others, before the  *)
(* first ti_quorum_go.  The same loop is in changes__req_change_id and in  *)
(* away__req_away_id.                                                      *)
Init ==
  \E k \in 0 .. (N - 1) :
    LET r == ShrinkBy(QuorumNew(N, MinReachable), k)
        v == QuorumGo(r)
    IN  /\ q = r
        /\ waiting = N - 1 - k
        /\ errors = k
        /\ armed = (v = "none")
        /\ calls = IF v = "none" THEN 0 ELSE 1
        /\ verdict = v
        /\ freed = AllAnswered(r)

(* A request comes back (ti_quorum_req_cb).                                *)
Answer(tp, n, lower) ==
  /\ waiting > 0
  /\ waiting' = waiting - 1
  /\ errors' = IF tp = "error" THEN errors + 1 ELSE errors
  /\ Go(CountAnswer(q, tp, n, lower))

Next ==
  \/ Answer("accept", 0, FALSE)
  \/ Answer("reject", 0, FALSE)
  \/ Answer("error", 0, FALSE)
  \/ \E n \in 0 .. (N - 1), lower \in BOOLEAN : Answer("collision", n, lower)

(* Every request comes back: it has a timer (ti_req_create).               *)
Spec == Init /\ [][Next]_vars /\ WF_vars(Next)
-----------------------------------------------------------------------------
TypeOK ==
  /\ q \in QuorumRecords
  /\ armed \in BOOLEAN
  /\ waiting \in 0 .. (N - 1)
  /\ errors \in 0 .. (N - 1)
  /\ calls \in Nat
  /\ verdict \in Verdicts
  /\ freed \in BOOLEAN

(* The counter is freed exactly when no request is out any more: a late    *)
(* answer never reaches freed memory, and no counter is leaked.  In        *)
(* ti_quorum_go the decision to free is made from the counts alone, so     *)
(* this relates the counts, which errors shrink, to the requests on their  *)
(* way.                                                                    *)
FreedWhenIdle == freed <=> (waiting = 0)

(* The callback is called once, and never after the counter is freed       *)
(* without it: a change is not left without a verdict and does not get two.*)
CalledOnce ==
  /\ calls = IF armed THEN 0 ELSE 1
  /\ freed => calls = 1

(* A winner holds more than half of the nodes that take part (itself       *)
(* included), or every answer is in, no more nodes rejected than accepted, *)
(* and a tie was broken by the collisions.  In either case the nodes it    *)
(* could ask were a quorum when it won, so two nodes that reached the same *)
(* nodes cannot both win early.                                            *)
WinIsJustified ==
  verdict = "win" =>
     \/ 2 * (q.accepted + 1) > q.requests + 1
     \/ freed /\ q.accepted = q.rejected /\ q.collisions > q.diff_requests
     \/ freed /\ q.accepted > q.rejected /\ q.diff_requests >= 0

(* The node gives up before all answers are in only when the requests left *)
(* cannot bring it to the threshold any more, or too few nodes are left.   *)
LoseIsHopeless ==
  [][(verdict = "none" /\ verdict' = "lose" /\ ~freed') =>
       \/ q'.requests < q'.quorum
       \/ q'.requests - q'.rejected < q'.accept_threshold]_vars

(* Every question is decided.                                              *)
Decided == <>(verdict # "none" /\ freed)
=============================================================================
