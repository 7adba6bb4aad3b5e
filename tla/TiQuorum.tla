------------------------------ MODULE TiQuorum ----------------------------
(***************************************************************************)
(* The vote counter of ThingsDB (ti/quorum.c, ti/quorum.h).  A node that   *)
(* asks the other nodes for permission (a change id, or to go away) keeps  *)
(* one counter per question.  The counter is a record, and every function  *)
(* of the source is an operator on that record, so the same definitions    *)
(* serve the modules of every component that asks such a question.         *)
(*                                                                         *)
(* The counters are uint8_t in the source; a cluster has at most 64 nodes  *)
(* (NODES__MAX), so they never wrap and are natural numbers here.          *)
(***************************************************************************)
EXTENDS Integers

(* What a request comes back with.  "error" stands for every other answer: *)
(* an error package, a timeout, a cancelled or a failed write.             *)
Answers == {"accept", "reject", "collision", "error"}

Verdicts == {"none", "win", "lose"}

QuorumRecords ==
  [accepted: Nat, rejected: Nat, collisions: Nat, requests: Nat, quorum: Nat,
   accept_threshold: Nat, diff_requests: Int, win_collision: BOOLEAN]

(* Mutant: the threshold is taken after the decrement.                     *)
ShrinkOneLate(q) ==
  LET r == IF q.requests = 0 THEN 0 ELSE q.requests - 1
  IN  [q EXCEPT !.accept_threshold = r \div 2, !.requests = r]

(* The threshold is taken from the old number of requests, which still     *)
(* counts the node that is asking.                                         *)
ShrinkOne(q) ==
  [q EXCEPT !.accept_threshold = q.requests \div 2,
            !.requests = IF q.requests = 0 THEN 0 ELSE q.requests - 1]

QuorumNew(n, quorum) ==
  ShrinkOne([accepted |-> 0, rejected |-> 0, collisions |-> 0,
             requests |-> n, quorum |-> quorum, accept_threshold |-> 0,
             diff_requests |-> 0, win_collision |-> TRUE])

(* k calls of ShrinkOne in a row, for the k nodes no request is sent to.   *)
ShrinkBy(q, k) ==
  IF k = 0 THEN q
  ELSE [q EXCEPT !.accept_threshold = (q.requests - k + 1) \div 2,
                 !.requests = q.requests - k]

(* Mutant: a failed request is taken off twice.                            *)
CountAnswerTwice(q, tp, n, lower) ==
  CASE tp = "accept" -> [q EXCEPT !.accepted = @ + 1]
    [] tp = "reject" -> [q EXCEPT !.rejected = @ + 1]
    [] tp = "collision" -> [q EXCEPT !.collisions = @ + 1]
    [] tp = "error" -> ShrinkBy(q, 2)

(* Mutant: a rejection is taken off instead of added.                      *)
CountAnswerOff(q, tp, n, lower) ==
  CASE tp = "accept" -> [q EXCEPT !.accepted = @ + 1]
    [] tp = "reject" -> [q EXCEPT !.rejected = @ - 1]
    [] tp = "collision" -> [q EXCEPT !.collisions = @ + 1]
    [] tp = "error" -> ShrinkOne(q)

(* One answer is counted.  A collision carries n, the number of requests   *)
(* the other asker started with, and lower tells that the other asker has  *)
(* the lower node id.                                                      *)
CountAnswer(q, tp, n, lower) ==
  CASE tp = "accept" -> [q EXCEPT !.accepted = @ + 1]
    [] tp = "reject" -> [q EXCEPT !.rejected = @ + 1]
    [] tp = "collision" ->
         [q EXCEPT
            !.collisions = @ + 1,
            !.diff_requests = @ + (IF q.requests > n THEN 1
                                   ELSE IF q.requests < n THEN -1 ELSE 0),
            !.win_collision = @ /\ ~(q.requests = n /\ lower)]
    [] tp = "error" -> ShrinkOne(q)

(* Mutant: off by one, the last answer is still waited for.                *)
AllAnsweredStrict(q) == q.accepted + q.rejected + q.collisions > q.requests

(* No answer is outstanding: the counter is freed after this one.          *)
AllAnswered(q) == q.accepted + q.rejected + q.collisions >= q.requests

(* The verdict ti_quorum_go can give before every answer is in.            *)
EarlyVerdict(q) ==
  CASE q.requests < q.quorum -> "lose"
    [] q.requests >= q.quorum /\ q.accepted = q.accept_threshold -> "win"
    [] /\ q.requests >= q.quorum
       /\ q.accepted # q.accept_threshold
       /\ q.rejected + (q.requests % 2) > q.accept_threshold -> "lose"
    [] OTHER -> "none"

(* Mutant: a tie wins.                                                     *)
FinalVerdictTie(q) == IF q.accepted >= q.rejected THEN "win" ELSE "lose"

(* The verdict when every answer is in and none was given before.          *)
FinalVerdict(q) ==
  LET won == IF q.diff_requests < 0 THEN FALSE
             ELSE IF /\ q.collisions > q.diff_requests
                     /\ q.accepted = q.rejected
                  THEN q.win_collision
                  ELSE q.accepted > q.rejected
  IN  IF won THEN "win" ELSE "lose"

(* Mutant: no verdict when the last answer leaves it open.                 *)
QuorumGoEarlyOnly(q) == EarlyVerdict(q)

(* What the callback is told by this call of ti_quorum_go, "none" when it  *)
(* is not called.  To be used only while the callback is still set.        *)
QuorumGo(q) ==
  IF EarlyVerdict(q) # "none" THEN EarlyVerdict(q)
  ELSE IF AllAnswered(q) THEN FinalVerdict(q) ELSE "none"
=============================================================================
