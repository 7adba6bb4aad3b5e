-------------------------------- MODULE Away --------------------------------
(***************************************************************************)
(* Taking turns in away mode (ti/away.c).  A node in away mode writes its  *)
(* archive, collects garbage and makes backups, and answers no queries     *)
(* meanwhile, so the nodes must not do this at the same time.  A node that *)
(* has a reason asks the others (one TiQuorum vote), tells them it goes    *)
(* away soon, waits, goes away, and comes back.  A node that accepted      *)
(* blocks other requests for a while (AWAY__BLOCK_TIME).                   *)
(*                                                                         *)
(* A node does not go away before it has applied the changes in its queue, *)
(* nor does it come back before that, or while another node synchronizes   *)
(* with it.  What that node gets is in Sync; here it is on the list of the *)
(* away node, is served, and is done.                                      *)
(*                                                                         *)
(* Time passes in ticks (Tick), and the constants give the timers of the   *)
(* source in ticks.  What makes a node want to go away is left open; the   *)
(* futures that it waits for (they are cancelled after a minute), shutting *)
(* down (TI_FLAG_SIGNAL) and going on without synchronizing when no node   *)
(* is READY (ti_nodes_ignore_sync) are left out.                           *)
(***************************************************************************)
EXTENDS TiQuorum, Sequences, FiniteSets

CONSTANTS
  Nodes,      \* the node ids, at least two
  Askers,     \* the nodes that may have a reason to go away
  Fragile,    \* the pairs of nodes whose connection may break
  Starting,   \* the nodes that have just started, and synchronize
  Busy,       \* the nodes that changes reach
  BlockTime,  \* AWAY__BLOCK_TIME: how long a node that accepted blocks others
  SoonTimer,  \* AWAY__SOON_TIMER: the least time between winning and going
  SleepBase,  \* the time between two tries of the node whose turn it is
  SleepStep   \* what is added to it for every node that goes first

ASSUME AwayNodesAssumption ==
  Nodes \subseteq Nat \ {0} /\ IsFiniteSet(Nodes) /\ Cardinality(Nodes) >= 2
ASSUME AskersAssumption == Askers \subseteq Nodes
ASSUME FragileAssumption == Fragile \subseteq SUBSET Nodes
ASSUME StartingAssumption == Starting \subseteq Nodes /\ Busy \subseteq Nodes
ASSUME TimersAssumption ==
  {BlockTime, SoonTimer, SleepBase, SleepStep} \subseteq Nat \ {0}

VARIABLES
  away,          \* per node: away->status (INIT and ACCEPTED_INIT precede the start)
  away_node_id,  \* per node: the node it thinks is away or will be
  status,        \* per node: its own node status
  known,         \* per pair <<n, m>>: the status of m as n knows it
  vote,          \* per node: the vote counter and the nodes not heard of
  sleep,         \* per node: ticks between two times its trigger timer fires
  due,           \* per node: ticks until its trigger timer fires
  waiter,        \* per node: ticks left of its waiter timer
  chan,          \* per pair: packages on their way, in order
  changes,       \* the nodes with changes in their queue
  asked,         \* per node: the node it asked to be synchronized by
  syncers,       \* per node: the nodes on its list (away->syncers)
  flags,         \* per node: those whose stream is marked as synchronizing
  served         \* per node: those whose synchronization is going on

session == <<changes, asked, syncers, flags, served>>
vars == <<away, away_node_id, status, known, vote, sleep, due, waiter, chan, session>>

AwayStatuses == {"IDLE", "ACCEPTED", "REQ_AWAY", "WAITING", "WORKING", "SYNCING"}
Statuses == {"OFFLINE", "SYNCHRONIZING", "READY", "AWAY_SOON", "AWAY"}
Pairs == {p \in Nodes \X Nodes : p[1] # p[2]}
FirstStatus(n) == IF n \in Starting THEN "SYNCHRONIZING" ELSE "READY"
First(S) == CHOOSE n \in S : \A m \in S : n <= m

(* All nodes have started (ti_away_start) and are connected.  At its start *)
(* a node is alone, so it takes every turn to be its own.                  *)
Init ==
  /\ away = [n \in Nodes |-> "IDLE"]
  /\ away_node_id = [n \in Nodes |-> First(Nodes)]
  /\ status = [n \in Nodes |-> FirstStatus(n)]
  /\ known = [p \in Pairs |-> FirstStatus(p[2])]
  /\ vote = [n \in Nodes |-> {}]
  /\ sleep = [n \in Nodes |-> SleepBase]
  /\ due \in [Nodes -> 1 .. SleepBase]
  /\ waiter = [n \in Nodes |-> 0]
  /\ chan = [p \in Pairs |-> <<>>]
  /\ changes = {}
  /\ asked = [n \in Nodes |-> {}] /\ syncers = [n \in Nodes |-> {}]
  /\ flags = [n \in Nodes |-> {}] /\ served = [n \in Nodes |-> {}]
-----------------------------------------------------------------------------
Peers(n) == {m \in Nodes \ {n} : known[<<n, m>>] # "OFFLINE"}

(* ti_nodes_quorum and ti_nodes_has_quorum, as in Changes.                 *)
NodesQuorum(n) ==
  IF Cardinality(Nodes) = 2 /\ Peers(n) = {} THEN 0 ELSE Cardinality(Nodes) \div 2
HasQuorum(n) == Cardinality(Peers(n)) >= NodesQuorum(n)

(* The nodes that n knows to be away or to go away soon, itself included.  *)
AwayOrSoon(n) ==
  {m \in Nodes : (IF m = n THEN status[n] ELSE known[<<n, m>>]) \in {"AWAY", "AWAY_SOON"}}

(* The place of n among the nodes.                                         *)
Idx(n) == Cardinality({m \in Nodes : m < n})

(* away__update_sleep: the first READY node after the away node a has its  *)
(* turn, and n sleeps longer the further it is behind that node.           *)
UpdateSleep(n, a, kn) ==
  LET N == Cardinality(Nodes)
      at(m) == (Idx(m) - Idx(a) - 1 + N) % N
      turn == {m \in Nodes : m = n \/ kn[<<n, m>>] = "READY"}
      next == CHOOSE m \in turn : \A k \in turn : at(m) <= at(k)
  IN  SleepBase + (at(n) - at(next)) * SleepStep

(* ti_away_set_away_node_id on node n, where kn are the known statuses.    *)
SetAwayNode(n, a, kn) ==
  /\ away_node_id' = [away_node_id EXCEPT ![n] = a]
  /\ sleep' = IF a = away_node_id[n] THEN sleep
              ELSE [sleep EXCEPT ![n] = UpdateSleep(n, a, kn)]

Send(ch, n, S, msg) ==
  [p \in Pairs |-> IF p[1] = n /\ p[2] \in S THEN Append(ch[p], msg) ELSE ch[p]]

Receive(m, n) == [chan EXCEPT ![<<m, n>>] = Tail(@)]

HeadIs(m, n, tp) == chan[<<m, n>>] # <<>> /\ Head(chan[<<m, n>>]).tp = tp

(* ti_set_and_broadcast_node_status, with ch the channels.                 *)
Broadcast(n, s, ch) ==
  /\ status' = [status EXCEPT ![n] = s]
  /\ chan' = Send(ch, n, Peers(n), [tp |-> "status", status |-> s])

(* The verdict of the vote of n (away__on_req_away_id), or what is left of *)
(* the vote when there is none; ch are the channels.                       *)
OnVote(n, q, wait, ch) ==
  \/ /\ QuorumGo(q) = "none"
     /\ vote' = [vote EXCEPT ![n] = {[q |-> q, wait |-> wait]}]
     /\ away' = [away EXCEPT ![n] = "REQ_AWAY"]
     /\ chan' = ch
     /\ UNCHANGED <<away_node_id, status, sleep, waiter>>
  \/ /\ QuorumGo(q) = "win"
     /\ vote' = [vote EXCEPT ![n] = {}]
     /\ away' = [away EXCEPT ![n] = "WAITING"]
     /\ waiter' = [waiter EXCEPT ![n] = SoonTimer]
     /\ SetAwayNode(n, n, known)
     /\ Broadcast(n, "AWAY_SOON", ch)
  \/ /\ QuorumGo(q) = "lose"
     /\ vote' = [vote EXCEPT ![n] = {}]
     /\ away' = [away EXCEPT ![n] = "IDLE"]
     /\ chan' = ch
     /\ UNCHANGED <<away_node_id, status, sleep, waiter>>

(* The trigger timer of n fires and starts again (away__trigger_cb): n has *)
(* no reason to go away or is busy, another node is away, or n asks the    *)
(* nodes it can reach (away__req_away_id).                                 *)
Trigger(n) ==
  /\ due[n] = 0
  /\ due' = [due EXCEPT ![n] = sleep[n]]
  /\ \/ UNCHANGED <<away, away_node_id, status, vote, sleep, waiter, chan>>
     \/ /\ n \in Askers
        /\ away[n] = "IDLE" /\ status[n] = "READY"
        /\ AwayOrSoon(n) # {}
        /\ SetAwayNode(n, First(AwayOrSoon(n)), known)
        /\ UNCHANGED <<away, status, vote, waiter, chan>>
     \/ /\ n \in Askers
        /\ away[n] = "IDLE" /\ status[n] = "READY"
        /\ AwayOrSoon(n) = {}
        /\ HasQuorum(n)
        /\ OnVote(n, ShrinkBy(QuorumNew(Cardinality(Nodes), NodesQuorum(n)),
                              Cardinality(Nodes) - 1 - Cardinality(Peers(n))),
                  Peers(n), Send(chan, n, Peers(n), [tp |-> "req"]))
  /\ UNCHANGED <<known, session>>

(* Mutant: every request is accepted.                                      *)
AcceptAll(n, m, pending) == "accept"

(* The end of ti_away_accept: only the node that is expected to go.        *)
Accept(n, m, pending) == IF pending = m THEN "accept" ELSE "reject"

(* n is asked by m (nodes__on_req_away, ti_away_accept).                   *)
OnReqAway(m, n) ==
  /\ HeadIs(m, n, "req")
  /\ LET said == IF away[n] = "ACCEPTED" THEN AwayOrSoon(n) ELSE {n}
         pending == IF said = {} THEN away_node_id[n] ELSE First(said)
         answer(a) == Send(Receive(m, n), n, {m}, [tp |-> "res", answer |-> a])
     IN  \/ /\ away[n] = "IDLE"
            /\ away' = [away EXCEPT ![n] = "ACCEPTED"]
            /\ waiter' = [waiter EXCEPT ![n] = BlockTime]
            /\ SetAwayNode(n, m, known)
            /\ chan' = answer("accept")
         \/ /\ away[n] # "IDLE"
            /\ SetAwayNode(n, pending, known)
            /\ chan' = answer(Accept(n, m, pending))
            /\ UNCHANGED <<away, waiter>>
  /\ UNCHANGED <<status, known, vote, due, session>>

(* The answer of m reaches n; once the vote is decided it is dropped       *)
(* (ti_quorum_req_cb).                                                     *)
OnResAway(m, n) ==
  /\ HeadIs(m, n, "res")
  /\ \/ \E v \in vote[n] :
          OnVote(n, CountAnswer(v.q, Head(chan[<<m, n>>]).answer, 0, FALSE),
                 v.wait \ {m}, Receive(m, n))
     \/ /\ vote[n] = {}
        /\ chan' = Receive(m, n)
        /\ UNCHANGED <<away, away_node_id, status, vote, sleep, waiter>>
  /\ UNCHANGED <<known, due, session>>

(* The connection to m is gone, and the request of n with it.              *)
RequestFails(m, n) ==
  /\ \E v \in vote[n] :
       /\ m \in v.wait
       /\ known[<<n, m>>] = "OFFLINE"
       /\ OnVote(n, CountAnswer(v.q, "error", 0, FALSE), v.wait \ {m}, chan)
  /\ UNCHANGED <<known, due, session>>

(* n hears of the status of m (nodes__on_info, ti_node_status_from_unp).   *)
OnStatus(m, n) ==
  /\ HeadIs(m, n, "status")
  /\ LET s == Head(chan[<<m, n>>]).status IN
     /\ known' = [known EXCEPT ![<<n, m>>] = s]
     /\ SetAwayNode(n, IF s = "AWAY" THEN m ELSE away_node_id[n], known')
  /\ chan' = Receive(m, n)
  /\ UNCHANGED <<away, status, vote, due, waiter, session>>

(* Time passes.  What is on its way arrives within a tick, and a timer     *)
(* that runs out fires before the next.                                    *)
Tick ==
  /\ \A p \in Pairs : chan[p] = <<>>
  /\ \A n \in Nodes :
       vote[n] = {} /\ due[n] > 0 /\ (away[n] = "ACCEPTED" => waiter[n] > 0)
  /\ due' = [n \in Nodes |-> due[n] - 1]
  /\ waiter' = [n \in Nodes |-> IF waiter[n] > 0 THEN waiter[n] - 1 ELSE 0]
  /\ UNCHANGED <<away, away_node_id, status, known, vote, sleep, chan, session>>

(* The block timer of n fires (away__accept_cb, away__accept_close_cb).    *)
BlockEnds(n) ==
  /\ away[n] = "ACCEPTED" /\ waiter[n] = 0
  /\ away' = [away EXCEPT ![n] = "IDLE"]
  /\ UNCHANGED <<away_node_id, status, known, vote, sleep, due, waiter, chan, session>>

(* No change is pending any more (away__waiter_pre_cb,                     *)
(* away__waiter_pre_close_cb).                                             *)
GoAway(n) ==
  /\ away[n] = "WAITING" /\ waiter[n] = 0 /\ n \notin changes
  /\ away' = [away EXCEPT ![n] = "WORKING"]
  /\ Broadcast(n, "AWAY", chan)
  /\ UNCHANGED <<away_node_id, known, vote, sleep, due, waiter, session>>

(* The work is done (away__work, away__work_finish).                       *)
WorkFinish(n) ==
  /\ away[n] = "WORKING"
  /\ away' = [away EXCEPT ![n] = "SYNCING"]
  /\ UNCHANGED <<away_node_id, status, known, vote, sleep, due, waiter, chan, session>>

(* The node looks after its work whether it can come back                  *)
(* (away__waiter_after_cb): it stays while it has changes to apply, and    *)
(* while there are nodes on its list.  Those are served, once              *)
(* (away__syncers): not when their stream is marked already.               *)
Serve(n) ==
  LET new == syncers[n] \ flags[n] IN
  /\ away[n] = "SYNCING" /\ n \notin changes
  /\ new # {}
  /\ flags' = [flags EXCEPT ![n] = @ \cup new]
  /\ served' = [served EXCEPT ![n] = @ \cup new]
  /\ UNCHANGED <<away, away_node_id, status, known, vote, sleep, due, waiter, chan,
                 changes, asked, syncers>>

(* Mutant: the node does not become READY again.                           *)
ComeBackAway(n) ==
  /\ away[n] = "SYNCING" /\ n \notin changes /\ syncers[n] = {}
  /\ away' = [away EXCEPT ![n] = "IDLE"]
  /\ UNCHANGED <<away_node_id, status, known, vote, sleep, due, waiter, chan, session>>

(* It comes back (away__waiter_after_close_cb, away__done).                *)
ComeBack(n) ==
  /\ away[n] = "SYNCING" /\ n \notin changes /\ syncers[n] = {}
  /\ away' = [away EXCEPT ![n] = "IDLE"]
  /\ Broadcast(n, "READY", chan)
  /\ UNCHANGED <<away_node_id, known, vote, sleep, due, waiter, session>>
-----------------------------------------------------------------------------
(* Changes reach n, and are applied (changes__loop); the away thread holds *)
(* the lock while it works.                                                *)
ChangesArrive(n) ==
  /\ n \in Busy \ changes
  /\ changes' = changes \cup {n}
  /\ UNCHANGED <<away, away_node_id, status, known, vote, sleep, due, waiter, chan,
                 asked, syncers, flags, served>>

RunChanges(n) ==
  /\ n \in changes /\ away[n] # "WORKING"
  /\ changes' = changes \ {n}
  /\ UNCHANGED <<away, away_node_id, status, known, vote, sleep, due, waiter, chan,
                 asked, syncers, flags, served>>

(* A node that synchronizes looks for one that is away or will be, and     *)
(* asks it once, until it finds another or none                            *)
(* (sync__find_away_node_cb).  That node puts it on its list, if it is     *)
(* still away (nodes__on_req_sync, ti_away_syncer).                        *)
FindAwayNode(m) ==
  LET found == IF AwayOrSoon(m) = {} THEN {} ELSE {First(AwayOrSoon(m))} IN
  /\ status[m] = "SYNCHRONIZING"
  /\ asked[m] # found
  /\ asked' = [asked EXCEPT ![m] = found]
  /\ syncers' = [n \in Nodes |->
       IF n \in found /\ status[n] \in {"AWAY_SOON", "AWAY"} THEN syncers[n] \cup {m}
       ELSE syncers[n]]
  /\ UNCHANGED <<away, away_node_id, status, known, vote, sleep, due, waiter, chan,
                 changes, flags, served>>

(* The synchronization of m by n ends well (syncevents__done_cb,           *)
(* ti_away_syncer_done; nodes__on_req_syncedone).                          *)
SyncEnds(m, n) ==
  /\ m \in served[n] /\ status[m] = "SYNCHRONIZING"
  /\ served' = [served EXCEPT ![n] = @ \ {m}]
  /\ syncers' = [syncers EXCEPT ![n] = @ \ {m}]
  /\ flags' = [flags EXCEPT ![n] = @ \ {m}]
  /\ Broadcast(m, "READY", chan)
  /\ UNCHANGED <<away, away_node_id, known, vote, sleep, due, waiter, changes, asked>>

(* One of its requests fails, or is refused by an m that is READY: m is    *)
(* taken off the list, but its stream keeps the mark                       *)
(* (ti_stream_stop_listeners), unless it was the last request.             *)
SyncFails(m, n) ==
  /\ m \in served[n]
  /\ served' = [served EXCEPT ![n] = @ \ {m}]
  /\ syncers' = [syncers EXCEPT ![n] = @ \ {m}]
  /\ flags' \in {flags, [flags EXCEPT ![n] = @ \ {m}]}
  /\ UNCHANGED <<away, away_node_id, status, known, vote, sleep, due, waiter, chan,
                 changes, asked>>

(* S without those at the other end of the connection p.                   *)
Cut(S, p) == [n \in Nodes |-> S[n] \ {m \in Nodes : {m, n} = {p[1], p[2]}}]

(* A connection breaks, and what is on its way is lost; with the stream go *)
(* its mark and its place on the list.                                     *)
LinkDown(p) ==
  /\ {p[1], p[2]} \in Fragile
  /\ known[p] # "OFFLINE"
  /\ known' = [d \in Pairs |-> IF {d[1], d[2]} = {p[1], p[2]} THEN "OFFLINE" ELSE known[d]]
  /\ chan' = [d \in Pairs |-> IF {d[1], d[2]} = {p[1], p[2]} THEN <<>> ELSE chan[d]]
  /\ syncers' = Cut(syncers, p) /\ flags' = Cut(flags, p) /\ served' = Cut(served, p)
  /\ UNCHANGED <<away, away_node_id, status, vote, sleep, due, waiter, changes, asked>>

(* The nodes connect again and tell each other their status; requests that *)
(* were open have failed by then.                                          *)
LinkUp(p) ==
  /\ known[p] = "OFFLINE"
  /\ \A v \in vote[p[1]] : p[2] \notin v.wait
  /\ \A v \in vote[p[2]] : p[1] \notin v.wait
  /\ known' = [d \in Pairs |-> IF {d[1], d[2]} = {p[1], p[2]} THEN status[d[2]] ELSE known[d]]
  /\ UNCHANGED <<away, away_node_id, status, vote, sleep, due, waiter, chan, session>>

NodeStep(n) == BlockEnds(n) \/ GoAway(n) \/ WorkFinish(n) \/ Serve(n) \/ ComeBack(n)
SyncStep(m, n) == SyncEnds(m, n) \/ SyncFails(m, n)
PackageStep(m, n) ==
  OnReqAway(m, n) \/ OnResAway(m, n) \/ OnStatus(m, n) \/ RequestFails(m, n)

Next ==
  \/ Tick
  \/ \E n \in Nodes : Trigger(n) \/ NodeStep(n)
  \/ \E n \in Nodes : ChangesArrive(n) \/ RunChanges(n) \/ FindAwayNode(n)
  \/ \E p \in Pairs : PackageStep(p[1], p[2]) \/ SyncStep(p[1], p[2])
  \/ \E p \in Pairs : LinkDown(p) \/ LinkUp(p)

Spec == Init /\ [][Next]_vars

(* Timers fire, packages are handled, the work ends, the changes in the    *)
(* queue are applied, and a synchronization ends or one of its requests    *)
(* fails.                                                                  *)
Fairness ==
  /\ WF_vars(Tick)
  /\ \A n \in Nodes : WF_vars(Trigger(n)) /\ WF_vars(NodeStep(n))
  /\ \A n \in Nodes : WF_vars(RunChanges(n)) /\ WF_vars(FindAwayNode(n))
  /\ \A p \in Pairs : WF_vars(PackageStep(p[1], p[2])) /\ WF_vars(SyncStep(p[1], p[2]))

FairSpec == Spec /\ Fairness
-----------------------------------------------------------------------------
TypeOK ==
  /\ away \in [Nodes -> AwayStatuses]
  /\ away_node_id \in [Nodes -> Nodes]
  /\ status \in [Nodes -> Statuses \ {"OFFLINE"}]
  /\ known \in [Pairs -> Statuses]
  /\ vote \in [Nodes -> SUBSET [q: QuorumRecords, wait: SUBSET Nodes]]
  /\ sleep \in [Nodes -> SleepBase .. SleepBase + SleepStep * (Cardinality(Nodes) - 1)]
  /\ due \in [Nodes -> 0 .. SleepBase + SleepStep * (Cardinality(Nodes) - 1)]
  /\ waiter \in [Nodes -> (0 .. BlockTime) \cup (0 .. SoonTimer)]
  /\ chan \in [Pairs -> Seq([tp: {"req"}] \cup [tp: {"res"}, answer: Answers] \cup
                            [tp: {"status"}, status: Statuses])]
  /\ changes \subseteq Nodes
  /\ {asked, syncers, flags, served} \subseteq [Nodes -> SUBSET Nodes]

(* Whatever turns the votes take, one node stays READY to answer queries.  *)
(* Two of three can be away, or on their way, at once.                     *)
SomeNodeReady == \E n \in Nodes : status[n] = "READY"

(* A node on the list of n whose stream kept its mark from a               *)
(* synchronization that failed: it is not served.                          *)
Stale(n) == syncers[n] \cap (flags[n] \ served[n]) # {}

Home(n) == away[n] = "IDLE" /\ status[n] \in {"READY", "SYNCHRONIZING"}

(* The connection of n to a node that synchronizes breaks.                 *)
Interrupted(n) ==
  \E m \in Nodes \ {n} : status[m] = "SYNCHRONIZING" /\ LinkDown(<<m, n>>)

(* A node that asks gets its verdict and a node that goes away comes back, *)
(* whatever happens to its connections and to the nodes that synchronize   *)
(* with it.  What keeps it for good is changes that are in its queue again *)
(* and again when it looks, a node that asks again and again because its   *)
(* connection breaks, or a stale mark.                                     *)
ComesBack ==
  \A n \in Nodes : \/ []<>Home(n)
                   \/ []<>(n \in changes)
                   \/ []<><<Interrupted(n)>>_vars
                   \/ <>[]Stale(n)
=============================================================================
