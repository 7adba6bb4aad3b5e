------------------------------ MODULE Changes -------------------------------
(***************************************************************************)
(* How a cluster of ThingsDB nodes orders and applies changes              *)
(* (ti/changes.c, ti/change.c, and the node handlers of ti/nodes.c).       *)
(*                                                                         *)
(* A client sends a change to a node, its master.  The master takes the    *)
(* next change id, asks the other nodes to accept that id and, when its    *)
(* vote counter (TiQuorum) says so, runs the change when its turn comes,   *)
(* answers the client and sends the result to the others as a change       *)
(* package, which they apply when its turn comes.  A master that loses an  *)
(* id tries again with a higher one.  Each node applies ids in order and,  *)
(* when an id does not show up, asks another node for it once and in the   *)
(* end goes on without it.                                                 *)
(*                                                                         *)
(* Every node is READY here: a node that is away, synchronizing or         *)
(* restarted is the subject of other modules.  What a change does to the   *)
(* data is left out, except for which change was applied under which id.   *)
(***************************************************************************)
EXTENDS TiQuorum, Sequences, SequencesExt, FiniteSets

CONSTANTS
  Nodes,   \* the node ids
  Ops,     \* the changes clients ask for
  Home,    \* the node each change is sent to
  Faults,  \* what may go wrong: see the actions that mention it
  Fragile, \* the pairs of nodes whose connection may break
  MaxId    \* bound on the change ids (uint64_t in the source)

FaultKinds == {"request", "kill", "gap"}

ASSUME NodesAssumption == Nodes \subseteq Nat /\ IsFiniteSet(Nodes) /\ Nodes # {}
ASSUME HomeAssumption == Home \in [Ops -> Nodes]
ASSUME FaultsAssumption == Faults \subseteq FaultKinds
ASSUME FragileAssumption == Fragile \subseteq SUBSET Nodes
ASSUME MaxIdAssumption == MaxId \in Nat

VARIABLES
  ccid,            \* per node: the last committed change id
  next_change_id,  \* per node: the next id to propose or to accept
  skipped_ids,     \* per node: ids below next_change_id nobody asked for yet
  queue,           \* per node: changes to apply, sorted by id
  rounds,          \* per node: the vote counters still waiting for answers
  req_id,          \* per node: the last missing id that was asked for
  chan,            \* per pair of nodes: packages on their way, in order
  links,           \* the pairs of nodes that are connected
  reply,           \* per change: what the client knows
  log,             \* per node: the changes that were applied, with their id
  votes            \* history, per node: which node was given which id

vars == <<ccid, next_change_id, skipped_ids, queue, rounds, req_id, chan,
          links, reply, log, votes>>

(* The initial change (ti_build) has id 1 and is committed on every node.  *)
FirstId == 1

Replies == {"unsent", "waiting", "ok", "error"}

QueueEntry ==
  [id: Nat, op: Ops, tp: {"master", "cpkg"}, ready: BOOLEAN, requests: Nat]

Round == [id: Nat, op: Ops, q: QuorumRecords, wait: SUBSET Nodes]

Message ==
  [tp: {"req"}, id: Nat] \cup
  [tp: {"res"}, id: Nat, answer: {"accept", "reject", "collision"}, n: Nat] \cup
  [tp: {"cpkg"}, id: Nat, op: Ops] \cup
  [tp: {"missing"}, id: Nat]

Init ==
  /\ ccid = [n \in Nodes |-> FirstId]
  /\ next_change_id = [n \in Nodes |-> FirstId + 1]
  /\ skipped_ids = [n \in Nodes |-> {}]
  /\ queue = [n \in Nodes |-> <<>>]
  /\ rounds = [n \in Nodes |-> {}]
  /\ req_id = [n \in Nodes |-> 0]
  /\ chan = [p \in Nodes \X Nodes |-> <<>>]
  /\ links = {p \in SUBSET Nodes : Cardinality(p) = 2}
  /\ reply = [op \in Ops |-> "unsent"]
  /\ log = [n \in Nodes |-> {}]
  /\ votes = [n \in Nodes |-> {}]
-----------------------------------------------------------------------------
(* The other nodes n is connected to.                                      *)
Peers(n) == {m \in Nodes \ {n} : {n, m} \in links}

(* ti_nodes_quorum: with two nodes, one is enough when the other is gone.  *)
NodesQuorum(n) ==
  IF Cardinality(Nodes) = 2 /\ Peers(n) = {} THEN 0
  ELSE Cardinality(Nodes) \div 2

HasQuorum(n) == Cardinality(Peers(n)) >= NodesQuorum(n)

(* Put msg behind what is on its way from n to each node of S.             *)
Send(ch, n, S, msg) ==
  [p \in Nodes \X Nodes |->
     IF p[1] = n /\ p[2] \in S THEN Append(ch[p], msg) ELSE ch[p]]

Receive(m, n) == [chan EXCEPT ![<<m, n>>] = Tail(@)]

HeadIs(m, n, tp) == chan[<<m, n>>] # <<>> /\ Head(chan[<<m, n>>]).tp = tp

(* changes__push: before the first greater id.  The queue is sorted, so    *)
(* that is behind the ids that are not greater.                            *)
Push(s, c) ==
  InsertAt(s, Cardinality({i \in 1 .. Len(s) : s[i].id <= c.id}) + 1, c)

(* The queue without what is at the places At (queue_rmval takes one out   *)
(* if it is there).                                                        *)
Without(s, At) == IF At = {} THEN s ELSE RemoveAt(s, CHOOSE i \in At : TRUE)

(* Where the change op is, of which this node is the master.               *)
MasterAt(s, op) == {i \in 1 .. Len(s) : s[i].tp = "master" /\ s[i].op = op}

IdAt(s, id) == {i \in 1 .. Len(s) : s[i].id = id}

-----------------------------------------------------------------------------
(* changes__req_change_id: node n takes the next id for op and asks its    *)
(* peers to accept it.  rest is the queue without op, ch the channels.     *)
(* Nothing is lost at once: the callers have checked that n has a quorum.  *)
ReqChangeId(n, op, rest, ch, others) ==
  LET id == next_change_id[n]
      q == ShrinkBy(QuorumNew(Cardinality(Nodes), NodesQuorum(n)),
                    Cardinality(Nodes) - 1 - Cardinality(Peers(n)))
      won == QuorumGo(q) = "win"
  IN  /\ id <= MaxId
      /\ next_change_id' = [next_change_id EXCEPT ![n] = id + 1]
      /\ queue' = [queue EXCEPT ![n] =
           Push(rest, [id |-> id, op |-> op, tp |-> "master", ready |-> won,
                       requests |-> q.requests])]
      /\ rounds' = [rounds EXCEPT ![n] =
           IF won THEN others
           ELSE others \cup {[id |-> id, op |-> op, q |-> q, wait |-> Peers(n)]}]
      /\ chan' = Send(ch, n, Peers(n), [tp |-> "req", id |-> id])
      /\ votes' = [votes EXCEPT ![n] = @ \cup {[id |-> id, for |-> n]}]

(* A client sends op (ti_changes_create_new_change).                       *)
CreateNewChange(op) ==
  LET n == Home[op] IN
  /\ reply[op] = "unsent"
  /\ \/ /\ HasQuorum(n)
        /\ reply' = [reply EXCEPT ![op] = "waiting"]
        /\ ReqChangeId(n, op, queue[n], chan, rounds[n])
        /\ UNCHANGED <<ccid, skipped_ids, req_id, links, log>>
     \/ /\ ~HasQuorum(n)
        /\ reply' = [reply EXCEPT ![op] = "error"]
        /\ UNCHANGED <<ccid, next_change_id, skipped_ids, queue, rounds,
                       req_id, chan, links, log, votes>>

(* Mutant: an id that is ahead is accepted without moving the next id.     *)
AcceptIdNoBump(n, id) ==
  [answer |-> IF id >= next_change_id[n] THEN "accept" ELSE "reject",
   n |-> 0, next |-> next_change_id[n], skipped |-> skipped_ids[n]]

(* ti_changes_accept_id on node n: the answer, the new next id and the new *)
(* skipped ids.  Only ids above ccid stay skipped, and the list is cleaned *)
(* only when it is looked at.                                              *)
AcceptId(n, id) ==
  LET next == next_change_id[n]
      queued == IdAt(queue[n], id)
      open == {i \in skipped_ids[n] : i > ccid[n]}
  IN  CASE id >= next ->
             [answer |-> "accept", n |-> 0, next |-> id + 1,
              skipped |-> skipped_ids[n] \cup (next .. id - 1)]
        [] id < next /\ queued # {} ->
             LET c == queue[n][CHOOSE i \in queued : TRUE]
             IN  [answer |-> IF c.tp = "master" THEN "collision" ELSE "reject",
                  n |-> c.requests, next |-> next, skipped |-> skipped_ids[n]]
        [] id < next /\ queued = {} ->
             [answer |-> IF id \in open THEN "accept" ELSE "reject",
              n |-> 0, next |-> next, skipped |-> open \ {id}]

(* Node n answers the id that node m asks for (nodes__on_req_change_id).   *)
OnReqChangeId(m, n) ==
  /\ HeadIs(m, n, "req")
  /\ LET id == Head(chan[<<m, n>>]).id
         r == AcceptId(n, id)
     IN  /\ next_change_id' = [next_change_id EXCEPT ![n] = r.next]
         /\ skipped_ids' = [skipped_ids EXCEPT ![n] = r.skipped]
         /\ chan' = Send(Receive(m, n), n, {m},
                         [tp |-> "res", id |-> id, answer |-> r.answer, n |-> r.n])
         /\ votes' = IF r.answer = "accept"
                     THEN [votes EXCEPT ![n] = @ \cup {[id |-> id, for |-> m]}]
                     ELSE votes
  /\ UNCHANGED <<ccid, queue, rounds, req_id, links, reply, log>>

(* Mutant: the client is answered when the id is won, not when the change  *)
(* was run.                                                                *)
OnWinAnswers(n, r, ch) ==
  /\ rounds' = [rounds EXCEPT ![n] = @ \ {r}]
  /\ reply' = [reply EXCEPT ![r.op] = "ok"]
  /\ queue' = [queue EXCEPT ![n] =
       [i \in DOMAIN @ |-> IF i \in MasterAt(@, r.op)
                           THEN [@[i] EXCEPT !.ready = TRUE] ELSE @[i]]]
  /\ chan' = ch
  /\ UNCHANGED <<next_change_id, votes>>

(* changes__on_req_change_id, accepted: the change is ready, if it is      *)
(* still in the queue.                                                     *)
OnWin(n, r, ch) ==
  /\ rounds' = [rounds EXCEPT ![n] = @ \ {r}]
  /\ queue' = [queue EXCEPT ![n] =
       [i \in DOMAIN @ |-> IF i \in MasterAt(@, r.op)
                           THEN [@[i] EXCEPT !.ready = TRUE] ELSE @[i]]]
  /\ chan' = ch
  /\ UNCHANGED <<next_change_id, reply, votes>>

(* Mutant: the change is not taken out of the queue before it is put in    *)
(* again.                                                                  *)
OnLoseKeeps(n, r, ch) ==
  \/ /\ HasQuorum(n)
     /\ ReqChangeId(n, r.op, queue[n], ch, rounds[n] \ {r})
     /\ UNCHANGED reply
  \/ /\ ~HasQuorum(n)
     /\ rounds' = [rounds EXCEPT ![n] = @ \ {r}]
     /\ reply' = [reply EXCEPT ![r.op] = "error"]
     /\ chan' = ch
     /\ UNCHANGED <<next_change_id, queue, votes>>

(* Mutant: a change that lost is not tried again.                          *)
OnLoseForgets(n, r, ch) ==
  /\ rounds' = [rounds EXCEPT ![n] = @ \ {r}]
  /\ queue' = [queue EXCEPT ![n] = Without(@, MasterAt(@, r.op))]
  /\ chan' = ch
  /\ UNCHANGED <<next_change_id, reply, votes>>

(* changes__on_req_change_id, not accepted: the change leaves the queue    *)
(* (if it is still there) and is tried with the next id, unless the quorum *)
(* is gone by now (changes__new_id).                                       *)
OnLose(n, r, ch) ==
  LET rest == Without(queue[n], MasterAt(queue[n], r.op)) IN
  \/ /\ HasQuorum(n)
     /\ ReqChangeId(n, r.op, rest, ch, rounds[n] \ {r})
     /\ UNCHANGED reply
  \/ /\ ~HasQuorum(n)
     /\ rounds' = [rounds EXCEPT ![n] = @ \ {r}]
     /\ queue' = [queue EXCEPT ![n] = rest]
     /\ reply' = [reply EXCEPT ![r.op] = "error"]
     /\ chan' = ch
     /\ UNCHANGED <<next_change_id, votes>>

(* The vote counter of round r becomes q now that node m was heard of, or  *)
(* given up on; ch are the channels (ti_quorum_req_cb, ti_quorum_go).  A   *)
(* round with a verdict has no effect any more and is forgotten.           *)
QuorumStep(n, r, m, q, ch) ==
  \/ /\ QuorumGo(q) = "none"
     /\ rounds' = [rounds EXCEPT ![n] =
                     (@ \ {r}) \cup {[r EXCEPT !.q = q, !.wait = @ \ {m}]}]
     /\ chan' = ch
     /\ UNCHANGED <<next_change_id, queue, reply, votes>>
  \/ QuorumGo(q) = "win" /\ OnWin(n, r, ch)
  \/ QuorumGo(q) = "lose" /\ OnLose(n, r, ch)

(* An answer reaches the node that asked.  An answer to a request that was *)
(* given up on, or whose round has its verdict, is dropped.                *)
OnResponse(m, n) ==
  /\ HeadIs(m, n, "res")
  /\ LET a == Head(chan[<<m, n>>])
         mine == {r \in rounds[n] : r.id = a.id /\ m \in r.wait}
     IN  \/ \E r \in mine :
              QuorumStep(n, r, m, CountAnswer(r.q, a.answer, a.n, m < n),
                         Receive(m, n))
         \/ /\ mine = {}
            /\ chan' = Receive(m, n)
            /\ UNCHANGED <<next_change_id, queue, rounds, reply, votes>>
  /\ UNCHANGED <<ccid, skipped_ids, req_id, links, log>>

(* The request of n to m is lost with its connection, or times out.        *)
RequestFails(n, m) ==
  /\ \E r \in rounds[n] :
       /\ m \in r.wait
       /\ \/ "request" \in Faults
          \/ {n, m} \notin links
          \/ /\ ~\E i \in 1 .. Len(chan[<<n, m>>]) :
                   chan[<<n, m>>][i] = [tp |-> "req", id |-> r.id]
             /\ ~\E i \in 1 .. Len(chan[<<m, n>>]) :
                   /\ chan[<<m, n>>][i].tp = "res"
                   /\ chan[<<m, n>>][i].id = r.id
       /\ QuorumStep(n, r, m, CountAnswer(r.q, "error", 0, FALSE), chan)
  /\ UNCHANGED <<ccid, skipped_ids, req_id, links, log>>

(* Mutant: a change that is committed already is queued once more.         *)
AddChangeAgain(m, n) ==
  /\ HeadIs(m, n, "cpkg")
  /\ chan' = Receive(m, n)
  /\ LET c == Head(chan[<<m, n>>])
         at == IdAt(queue[n], c.id)
     IN  /\ next_change_id' = [next_change_id EXCEPT ![n] =
                IF c.id >= @ THEN c.id + 1 ELSE @]
         /\ queue' = [queue EXCEPT ![n] =
                IF \A i \in at : ~@[i].ready
                THEN Push(Without(@, at), [id |-> c.id, op |-> c.op, tp |-> "cpkg",
                                           ready |-> TRUE, requests |-> 0])
                ELSE @]
  /\ UNCHANGED <<ccid, skipped_ids, rounds, req_id, links, reply, log, votes>>

(* A change package arrives (ti_changes_add_change).  The change of a      *)
(* master that has no verdict for this id yet makes way; one that has won  *)
(* stays.                                                                  *)
AddChange(m, n) ==
  /\ HeadIs(m, n, "cpkg")
  /\ chan' = Receive(m, n)
  /\ LET c == Head(chan[<<m, n>>])
         fresh == c.id > ccid[n]
         taken == \E i \in IdAt(queue[n], c.id) : queue[n][i].ready
         rest == Without(queue[n], IdAt(queue[n], c.id))
     IN  /\ next_change_id' = [next_change_id EXCEPT ![n] =
                IF fresh /\ c.id >= @ THEN c.id + 1 ELSE @]
         /\ queue' = [queue EXCEPT ![n] =
                IF fresh /\ ~taken
                THEN Push(rest, [id |-> c.id, op |-> c.op, tp |-> "cpkg",
                                 ready |-> TRUE, requests |-> 0])
                ELSE @]
  /\ UNCHANGED <<ccid, skipped_ids, rounds, req_id, links, reply, log, votes>>
-----------------------------------------------------------------------------
(* The change loop: changes__loop looks at the first change of the queue,  *)
(* again and again.  Each action below is one turn of its loop.            *)

(* Mutant: the master does not send its change to the others.              *)
RunFirstSilent(n, c) ==
  /\ ccid' = [ccid EXCEPT ![n] = c.id]
  /\ log' = [log EXCEPT ![n] = @ \cup {[id |-> c.id, op |-> c.op]}]
  /\ queue' = [queue EXCEPT ![n] = Tail(@)]
  /\ reply' = IF c.tp = "master" THEN [reply EXCEPT ![c.op] = "ok"] ELSE reply
  /\ UNCHANGED chan

(* Run the first change c of the queue of n: as master it is run, stored,  *)
(* sent to the peers and answered (ti_query_run, query__change_handle); a  *)
(* change package is applied and stored (ti_change_run, ti_archive_push).  *)
RunFirst(n, c) ==
  /\ ccid' = [ccid EXCEPT ![n] = c.id]
  /\ log' = [log EXCEPT ![n] = @ \cup {[id |-> c.id, op |-> c.op]}]
  /\ queue' = [queue EXCEPT ![n] = Tail(@)]
  /\ IF c.tp = "master"
     THEN /\ chan' = Send(chan, n, Peers(n), [tp |-> "cpkg", id |-> c.id, op |-> c.op])
          /\ reply' = [reply EXCEPT ![c.op] = "ok"]
     ELSE UNCHANGED <<chan, reply>>

(* The first change is the next one, and ready.                            *)
LoopProcess(n) ==
  /\ queue[n] # <<>>
  /\ Head(queue[n]).id = ccid[n] + 1
  /\ Head(queue[n]).ready
  /\ RunFirst(n, Head(queue[n]))
  /\ UNCHANGED <<next_change_id, skipped_ids, rounds, req_id, links, votes>>

(* The first change is the next one but has no verdict, 21 seconds after   *)
(* it was made: it is dropped and the client is told nothing.              *)
LoopKill(n) ==
  /\ "kill" \in Faults
  /\ queue[n] # <<>>
  /\ Head(queue[n]).id = ccid[n] + 1
  /\ ~Head(queue[n]).ready
  /\ queue' = [queue EXCEPT ![n] = Tail(@)]
  /\ UNCHANGED <<ccid, next_change_id, skipped_ids, rounds, req_id, chan,
                 links, reply, log, votes>>

Gap(n) == queue[n] # <<>> /\ Head(queue[n]).id > ccid[n] + 1

(* Six seconds into a gap, one connected node is asked for the missing     *)
(* change, once (ti_change_missing).                                       *)
LoopMissing(n) ==
  /\ Gap(n)
  /\ req_id[n] # ccid[n] + 1
  /\ \E m \in Peers(n) :
       chan' = Send(chan, n, {m}, [tp |-> "missing", id |-> ccid[n] + 1])
  /\ req_id' = [req_id EXCEPT ![n] = ccid[n] + 1]
  /\ UNCHANGED <<ccid, next_change_id, skipped_ids, queue, rounds, links,
                 reply, log, votes>>

(* The change with this id can still reach node n.                         *)
OnItsWay(n, id) ==
  \/ \E m \in Nodes : IdAt(queue[m], id) # {}
  \/ \E m \in Nodes : \E i \in 1 .. Len(chan[<<m, n>>]) :
       chan[<<m, n>>][i].tp = "cpkg" /\ chan[<<m, n>>][i].id = id
  \/ \E m \in Nodes : \E i \in 1 .. Len(chan[<<n, m>>]) :
       chan[<<n, m>>][i] = [tp |-> "missing", id |-> id]

(* Forty-two seconds into a gap the missing id is given up, and the first  *)
(* change is run in the same turn when it is the next one now.  Unless     *)
(* "gap" is among the faults, 42 seconds are enough for a change that is   *)
(* on its way to arrive.                                                   *)
LoopGap(n) ==
  /\ Gap(n)
  /\ req_id[n] = ccid[n] + 1 \/ Peers(n) = {}
  /\ "gap" \in Faults \/ ~OnItsWay(n, ccid[n] + 1)
  /\ LET c == Head(queue[n]) IN
     \/ /\ c.id = ccid[n] + 2 /\ c.ready
        /\ RunFirst(n, c)
     \/ /\ c.id > ccid[n] + 2 \/ ~c.ready
        /\ ccid' = [ccid EXCEPT ![n] = @ + 1]
        /\ UNCHANGED <<queue, log, chan, reply>>
  /\ UNCHANGED <<next_change_id, skipped_ids, rounds, req_id, links, votes>>

(* A node is asked for a missing change (nodes__on_missing_change): it     *)
(* answers when it has applied it, and is silent otherwise.  The source    *)
(* looks in the archive queue (ti_archive_get_change), from which changes  *)
(* go in away mode only: with no node away, it holds all of log[n].        *)
OnMissingChange(m, n) ==
  /\ HeadIs(m, n, "missing")
  /\ LET id == Head(chan[<<m, n>>]).id
         known == {e \in log[n] : e.id = id}
     IN  \/ /\ known = {}
            /\ chan' = Receive(m, n)
         \/ \E e \in known :
              chan' = Send(Receive(m, n), n, {m},
                           [tp |-> "cpkg", id |-> id, op |-> e.op])
  /\ UNCHANGED <<ccid, next_change_id, skipped_ids, queue, rounds, req_id,
                 links, reply, log, votes>>

(* A connection breaks: what is on its way in both directions is lost.     *)
LinkDown(p) ==
  /\ p \in Fragile
  /\ p \in links
  /\ links' = links \ {p}
  /\ chan' = [d \in Nodes \X Nodes |-> IF {d[1], d[2]} = p THEN <<>> ELSE chan[d]]
  /\ UNCHANGED <<ccid, next_change_id, skipped_ids, queue, rounds, req_id,
                 reply, log, votes>>

(* The nodes connect again; both were READY all the time, so nothing is    *)
(* synchronized.                                                           *)
LinkUp(p) ==
  /\ p \notin links
  /\ links' = links \cup {p}
  /\ UNCHANGED <<ccid, next_change_id, skipped_ids, queue, rounds, req_id,
                 chan, reply, log, votes>>

NodeStep(n) ==
  \/ LoopProcess(n) \/ LoopKill(n) \/ LoopMissing(n) \/ LoopGap(n)

PackageStep(m, n) ==
  \/ OnReqChangeId(m, n) \/ OnResponse(m, n) \/ AddChange(m, n)
  \/ OnMissingChange(m, n) \/ RequestFails(m, n)

Next ==
  \/ \E op \in Ops : CreateNewChange(op)
  \/ \E n \in Nodes : NodeStep(n)
  \/ \E m, n \in Nodes : PackageStep(m, n)
  \/ \E p \in {d \in SUBSET Nodes : Cardinality(d) = 2} : LinkDown(p) \/ LinkUp(p)

Spec == Init /\ [][Next]_vars

(* The event loop of every node keeps running: it handles what arrives     *)
(* and goes on with the change loop, which triggers itself while the queue *)
(* is not empty; requests have a timer.                                    *)
Fairness ==
  /\ \A n \in Nodes : WF_vars(NodeStep(n))
  /\ \A m, n \in Nodes : WF_vars(PackageStep(m, n))

FairSpec == Spec /\ Fairness
-----------------------------------------------------------------------------
TypeOK ==
  /\ ccid \in [Nodes -> Nat]
  /\ next_change_id \in [Nodes -> Nat]
  /\ skipped_ids \in [Nodes -> SUBSET Nat]
  /\ queue \in [Nodes -> Seq(QueueEntry)]
  /\ rounds \in [Nodes -> SUBSET Round]
  /\ req_id \in [Nodes -> Nat]
  /\ chan \in [Nodes \X Nodes -> Seq(Message)]
  /\ links \subseteq SUBSET Nodes
  /\ reply \in [Ops -> Replies]
  /\ log \in [Nodes -> SUBSET [id: Nat, op: Ops]]
  /\ votes \in [Nodes -> SUBSET [id: Nat, for: Nodes]]

(* The ids of the queue go up, start above the last committed id and stay *)
(* below the next id to propose: the change loop, which only looks at the  *)
(* first change, meets every change in its turn and never has to drop one  *)
(* as "already committed", and no node proposes an id it has queued.       *)
IdsInOrder ==
  \A n \in Nodes :
    /\ ccid[n] < next_change_id[n]
    /\ \A i \in 1 .. Len(queue[n]) :
         /\ ccid[n] < queue[n][i].id /\ queue[n][i].id < next_change_id[n]
         /\ \A j \in 1 .. i - 1 : queue[n][j].id < queue[n][i].id

(* A node gives an id to one node only, itself included, whatever it       *)
(* skipped, queued or lost in between (ti_changes_accept_id,               *)
(* changes__req_change_id).                                                *)
NoDoubleVote ==
  \A n \in Nodes : \A v, w \in votes[n] : v.id = w.id => v.for = w.for

(* What nodes have applied, or will apply as its master, under an id.      *)
Claims ==
  (UNION {log[n] : n \in Nodes}) \cup
  {[id |-> c.id, op |-> c.op] :
     c \in {d \in UNION {{queue[n][i] : i \in 1 .. Len(queue[n])} : n \in Nodes} :
             d.ready}}

(* No two changes ever win, or are applied under, the same id.             *)
OneChangePerId == \A c, d \in Claims : c.id = d.id => c.op = d.op

(* A change that lost an id and was tried again is applied under one id.   *)
OneIdPerChange == \A c, d \in Claims : c.op = d.op => c.id = d.id

(* A client that is told its change is done can read it on the node that   *)
(* told so, and a client that is told it failed knows that no node has it  *)
(* or will get it.                                                         *)
RepliesAreTrue ==
  \A op \in Ops :
    /\ reply[op] = "ok" => \E e \in log[Home[op]] : e.op = op
    /\ reply[op] = "error" => ~\E c \in Claims : c.op = op

(* Every client is answered.                                               *)
Answered == \A op \in Ops : reply[op] = "waiting" ~> reply[op] \in {"ok", "error"}

(* Every node gets every change that was applied anywhere.                 *)
Converges ==
  \A n \in Nodes, op \in Ops :
    (reply[op] = "ok") ~> (\E e \in log[n] : e.op = op)
=============================================================================
