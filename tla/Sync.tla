-------------------------------- MODULE Sync --------------------------------
(***************************************************************************)
(* How a node that was down, or that is new, catches up with the others    *)
(* (ti/sync.c, ti/syncfull.c, ti/syncarchive.c, ti/syncevents.c, and the   *)
(* server side in ti/away.c).                                              *)
(*                                                                         *)
(* Two nodes of a cluster: S synchronizes, and A is the node it finds in   *)
(* away mode.  S asks A for the changes behind its last committed one.  A, *)
(* when its work is done, sends its full store if its archive starts too   *)
(* late, then its archive files, then the changes in its archive queue,    *)
(* one request after the other, and stays away until that is done.  The    *)
(* rest of the cluster goes on making changes, which reach A and S as      *)
(* change packages meanwhile.                                              *)
(*                                                                         *)
(* Ids are without gaps here (Archive and Changes have gaps), the work of  *)
(* the away node is one step (Archive has its steps) and who goes away is  *)
(* left open (Away).  A itself does not fail.                              *)
(***************************************************************************)
EXTENDS Naturals, Sequences, FiniteSets, FiniteSetsExt

CONSTANTS
  Starts,     \* the last change that S may have at first; 0: it has nothing
  Faults,     \* what may go wrong: see the actions that mention it
  MaxFaults,  \* bound on how often something goes wrong
  MaxId       \* bound on the change ids

SyncFaults == {"link", "crash", "mixed", "part"}

ASSUME StartsAssumption == Starts \subseteq 0 .. MaxId /\ Starts # {}
ASSUME SyncFaultsAssumption == Faults \subseteq SyncFaults
ASSUME SyncBoundsAssumption == MaxFaults \in Nat /\ MaxId \in Nat \ {0}

VARIABLES
  made,     \* the changes that the cluster made are 1 .. made
  \* The away node A.
  away,     \* READY, SOON, WORKING (the lock is held) or SYNCING
  queueA,   \* changes to apply (the ids above ccidA that reached A)
  ccidA,    \* its last committed change id
  scidA,    \* its last stored change id
  stored,   \* the last change in its full store
  archA,    \* its archive files, [first, last]
  memA,     \* its archive queue
  syncers,  \* the first id that S asked for, if A has it on its list
  flag,     \* TI_STREAM_FLAG_SYNCHRONIZING of the stream to S
  open,     \* the request that A waits for
  \* The node S.
  status,   \* DOWN, SYNC or READY
  asked,    \* sync_->node is A
  ccid,     \* its last committed change id
  scid,     \* its last stored change id
  data,     \* the changes that its data show
  queue,    \* changes to apply, with whether they may pass over ids before them
  store,    \* its store on disk: the change id, the changes in it, is it whole
  arch,     \* its archive files: [first, last, ids]
  \* In between.
  link,     \* A and S are connected
  ask,      \* a sync request on its way to A
  toS, toA, \* sync packages on their way, in order
  cast,     \* change packages on their way to S
  faults    \* how often something went wrong

memory == <<asked, ccid, scid, data, queue>>
disk == <<store, arch>>
server == <<away, queueA, ccidA, scidA, stored, archA, memA>>
session == <<syncers, flag, open>>
net == <<link, ask, toS, toA, cast>>
vars == <<made, server, session, status, memory, disk, net, faults>>

Ids == 1 .. MaxId
Store(n, d, w) == [ccid |-> n, data |-> d, whole |-> w]
Request(tp, first, last, k) == [tp |-> tp, first |-> first, last |-> last, k |-> k]

(* S has stored all it has, and A has its full store and everything behind *)
(* it, and possibly some before it, in its archive.                        *)
Init ==
  /\ \E n \in Starts :
       /\ ccid = n /\ scid = n /\ data = 1 .. n
       /\ store = Store(n, 1 .. n, n > 0)
  /\ made \in 1 .. MaxId - 1 /\ ccid <= made
  /\ ccidA = made /\ stored \in 1 .. made
  /\ \E from \in 1 .. stored + 1 :
       /\ scidA \in stored .. made
       /\ archA = IF from <= scidA THEN {[first |-> from, last |-> scidA]} ELSE {}
       /\ memA = scidA + 1 .. made
  /\ away = "READY" /\ queueA = {}
  /\ syncers = {} /\ flag = FALSE /\ open = {}
  /\ status = "SYNC" /\ asked = FALSE
  /\ queue = {} /\ arch = {}
  /\ link = TRUE /\ ask = {} /\ toS = <<>> /\ toA = <<>> /\ cast = {}
  /\ faults = 0
-----------------------------------------------------------------------------
(* The cluster makes a change; it is sent to S when S is not down          *)
(* (ti_nodes_write_rpkg).                                                  *)
Make ==
  /\ made < MaxId
  /\ made' = made + 1
  /\ queueA' = queueA \cup {made + 1}
  /\ cast' = IF status = "DOWN" THEN cast ELSE cast \cup {made + 1}
  /\ UNCHANGED <<away, ccidA, scidA, stored, archA, memA, session, status,
                 memory, disk, link, ask, toS, toA, faults>>

(* A applies the next change (changes__loop); the away thread keeps the    *)
(* lock while it works.                                                    *)
CommitA ==
  /\ away # "WORKING"
  /\ ccidA + 1 \in queueA
  /\ ccidA' = ccidA + 1
  /\ queueA' = queueA \ {ccidA + 1}
  /\ memA' = memA \cup {ccidA + 1}
  /\ UNCHANGED <<made, away, scidA, stored, archA, session, status, memory,
                 disk, net, faults>>

(* A goes away soon: a node that synchronizes is a reason                  *)
(* (away__trigger_cb, ti_nodes_require_sync).  Its trigger fires every 2.5 *)
(* seconds at most, and S looks every second, so S has seen A come back.   *)
GoSoon ==
  /\ away = "READY" /\ status = "SYNC" /\ link /\ ~asked
  /\ away' = "SOON"
  /\ UNCHANGED <<made, queueA, ccidA, scidA, stored, archA, memA, session,
                 status, memory, disk, net, faults>>

(* Ten seconds later A has no changes left and goes away                   *)
(* (away__waiter_pre_cb).  S looks for an away node every second, so it    *)
(* has asked by then if it is connected.                                   *)
GoAway ==
  /\ away = "SOON" /\ queueA = {}
  /\ (status = "SYNC" /\ link) => (asked /\ ask = {})
  /\ away' = "WORKING"
  /\ UNCHANGED <<made, queueA, ccidA, scidA, stored, archA, memA, session,
                 status, memory, disk, net, faults>>

(* away__work, away__work_finish: a full store may be due, the archive     *)
(* queue becomes a file, files that no node needs go (ti_archive_to_disk). *)
WorkFinish ==
  /\ away = "WORKING"
  /\ away' = "SYNCING"
  /\ stored' \in IF memA = {} THEN {stored} ELSE {stored, ccidA}
  /\ scidA' = IF memA = {} THEN scidA ELSE Max(memA)
  /\ memA' = {}
  /\ archA' = {f \in archA \cup (IF memA = {} THEN {}
                                 ELSE {[first |-> Min(memA), last |-> Max(memA)]}) :
                 f.last > Min({stored', scidA', scid})}
  /\ UNCHANGED <<made, queueA, ccidA, session, status, memory, disk, net, faults>>
-----------------------------------------------------------------------------
(* What A sends.                                                           *)

(* ti_archive_get_first_change_id.                                         *)
FirstArchived == {f.first : f \in archA} \cup memA

(* Mutant: the last change of the full store is looked for in the archive. *)
FullSyncStrict(id) == (\A i \in FirstArchived : id < i) /\ id < stored

(* away__syncers: is the full store sent?                                  *)
FullSync(id) == (\A i \in FirstArchived : id < i) /\ id <= stored

(* ti_syncevents_init, ti_syncevents_done.                                 *)
EventsFrom(id) ==
  LET rest == {i \in memA : i >= id}
  IN  IF rest = {} THEN Request("edone", 0, 0, 0)
      ELSE Request("epart", Min(rest), Min(rest), 0)

(* ti_syncarchive_init: the file with this change or the closest behind    *)
(* it; otherwise none is left.                                             *)
Behind(id) == {f \in archA : f.last >= id}
FileFrom(id) ==
  CHOOSE f \in Behind(id) : \A g \in Behind(id) : f.first <= g.first
ArchiveFrom(id, none) ==
  IF Behind(id) = {} THEN none
  ELSE Request("apart", FileFrom(id).first, FileFrom(id).last, 1)

Ask(r) == open' = {r} /\ toS' = Append(toS, r)

(* Mutant: S is served before A has applied its changes.                   *)
ServeEarly ==
  /\ away = "SYNCING"
  /\ ~flag
  /\ \E first \in syncers :
       /\ flag' = TRUE
       /\ Ask(IF FullSync(first) THEN Request("fpart", 0, 0, 1)
              ELSE ArchiveFrom(first, EventsFrom(first)))
  /\ UNCHANGED <<made, server, syncers, status, memory, disk, link, ask, toA,
                 cast, faults>>

(* away__waiter_after_cb: when all changes are applied, S is served if it  *)
(* asked, unless the stream has the flag that this was started already.    *)
Serve ==
  /\ away = "SYNCING" /\ queueA = {}
  /\ ~flag
  /\ \E first \in syncers :
       /\ flag' = TRUE
       /\ Ask(IF FullSync(first) THEN Request("fpart", 0, 0, 1)
              ELSE ArchiveFrom(first, EventsFrom(first)))
  /\ UNCHANGED <<made, server, syncers, status, memory, disk, link, ask, toA,
                 cast, faults>>

(* Nobody asked, or those that did are served (away__done).                *)
ComeBack ==
  /\ away = "SYNCING" /\ queueA = {} /\ syncers = {}
  /\ away' = "READY"
  /\ UNCHANGED <<made, queueA, ccidA, scidA, stored, archA, memA, session,
                 status, memory, disk, net, faults>>

(* The request after r, given the answer of S: syncfull__push_cb,          *)
(* syncfull__done_cb, syncarchive__push_cb, syncarchive__done_cb,          *)
(* syncevents__push_cb.                                                    *)
Following(r, next) ==
  CASE r.tp = "fpart" -> IF r.k < 3 THEN [r EXCEPT !.k = @ + 1]
                         ELSE Request("fdone", 0, 0, 0)
    [] r.tp = "fdone" -> ArchiveFrom(stored + 1, EventsFrom(stored + 1))
    [] r.tp = "apart" -> IF r.k < 2 THEN [r EXCEPT !.k = 2]
                         ELSE ArchiveFrom(r.last + 1, Request("adone", 0, 0, 0))
    [] r.tp = "adone" -> EventsFrom(scidA + 1)
    [] r.tp = "epart" -> EventsFrom(next)

IsPart(r) == r.tp \in {"fpart", "apart", "epart"}

(* The request r of A has its answer, or failed.  When a part failed, the  *)
(* stream is taken off the list (ti_stream_stop_listeners), and keeps its  *)
(* flag; when the end of a phase is not confirmed, A goes on.              *)
Answered(r, ok, next) ==
  \/ /\ r.tp = "edone"                \* syncevents__done_cb
     /\ syncers' = {} /\ flag' = FALSE /\ open' = {}
     /\ UNCHANGED toS
  \/ /\ r.tp # "edone" /\ IsPart(r) /\ ~ok
     /\ syncers' = {} /\ open' = {}
     /\ UNCHANGED <<flag, toS>>
  \/ /\ r.tp # "edone" /\ (ok \/ ~IsPart(r))
     /\ Ask(Following(r, next))
     /\ UNCHANGED <<syncers, flag>>

(* An answer reaches A.  One that A does not wait for any more is dropped. *)
(* In the time a package takes to S and back A has applied the changes     *)
(* that had reached it.                                                    *)
OnResponse ==
  /\ toA # <<>> /\ queueA = {}
  /\ toA' = Tail(toA)
  /\ LET m == Head(toA) IN
     \/ open = {m.req} /\ Answered(m.req, m.ok, m.next)
     \/ open # {m.req} /\ UNCHANGED <<session, toS>>
  /\ UNCHANGED <<made, server, status, memory, disk, link, ask, cast, faults>>

(* A request of A times out.                                               *)
RequestFails ==
  /\ "part" \in Faults /\ faults < MaxFaults
  /\ faults' = faults + 1
  /\ \E r \in open : Answered(r, FALSE, 0)
  /\ UNCHANGED <<made, server, status, memory, disk, link, ask, toA, cast>>
-----------------------------------------------------------------------------
(* The node S.                                                             *)

(* changes__loop: the first change is dropped when it is committed, and    *)
(* run when it is the next one or may pass over the ids before it.         *)
First(q) == CHOOSE d \in q : \A e \in q : d.id <= e.id
Runnable == queue # {} /\ (First(queue).id <= ccid + 1 \/ First(queue).gap)

(* Mutant: S remembers for good that it has asked.                         *)
FindAwayNodeOnce ==
  /\ status = "SYNC" /\ link /\ away # "READY" /\ ~asked /\ ~Runnable
  /\ asked' = TRUE
  /\ ask' = {ccid + 1}
  /\ UNCHANGED <<made, server, session, status, ccid, scid, data, queue, disk,
                 link, toS, toA, cast, faults>>

(* sync__find_away_node_cb: an away node is asked once; when it is gone or *)
(* back, S may ask again.  The timer fires every second and an away round  *)
(* takes ten: S has applied by then the changes that it can apply.         *)
FindAwayNode ==
  /\ status = "SYNC"
  /\ \/ /\ link /\ away # "READY" /\ ~asked /\ ~Runnable
        /\ asked' = TRUE
        /\ ask' = {ccid + 1}
     \/ /\ asked /\ (~link \/ away = "READY")
        /\ asked' = FALSE
        /\ UNCHANGED ask
  /\ UNCHANGED <<made, server, session, status, ccid, scid, data, queue, disk,
                 link, toS, toA, cast, faults>>

(* A gets the request (nodes__on_req_sync, ti_away_syncer); it refuses     *)
(* when it is not away, and S only logs that.                              *)
OnReqSync ==
  /\ \E first \in ask : syncers' = IF away = "READY" THEN syncers ELSE {first}
  /\ ask' = {}
  /\ UNCHANGED <<made, server, flag, open, status, memory, disk, link, toS,
                 toA, cast, faults>>

(* ti_changes_set_next_missing_id.                                         *)
NextMissing(id) ==
  LET from == Max({id, ccid})
      queued == {c.id : c \in queue}
  IN  Min({i \in from + 1 .. MaxId + 1 : i \notin queued})

(* ti_changes_add_change: the first package with an id stays, with the     *)
(* flags of both: a change of the cluster that a synchronization brings    *)
(* again may then pass over the ids before it.                             *)
Add(q, cs) ==
  LET new == {c \in cs : c.id > ccid}
      flagged(d) == d.gap \/ \E c \in new : c.id = d.id /\ c.gap
  IN  {[id |-> d.id, gap |-> flagged(d)] : d \in q}
        \cup {c \in new : \A d \in q : d.id # c.id}

(* ti_archive_load: the changes in the archive files that S does not have  *)
(* stored, files up to the last committed id left out.                     *)
Loadable(n, m) == {i \in UNION {f.ids : f \in {g \in arch : g.last > n}} : i > m}

(* The parts of the full store are the root files, with the change id, and *)
(* the files of the collections, of which the first makes an empty         *)
(* directory (ti_syncfull_on_part).                                        *)
OnFullPart(r) ==
  /\ store' = CASE r.k = 1 -> [store EXCEPT !.ccid = stored]
                [] r.k = 2 -> [store EXCEPT !.data = {}, !.whole = FALSE]
                [] r.k = 3 -> [store EXCEPT !.data = 1 .. stored, !.whole = TRUE]
  /\ UNCHANGED <<arch, ccid, scid, data, queue, status>>

(* Mutant: the id behind the full store is taken for its last.             *)
OnFullDoneNext(r) ==
  /\ ccid' = store.ccid + 1 /\ scid' = store.ccid /\ data' = store.data
  /\ UNCHANGED <<disk, queue, status>>

(* nodes__on_req_syncfdone: the store is loaded (ti_store_restore).        *)
OnFullDone(r) ==
  /\ ccid' = store.ccid /\ scid' = store.ccid /\ data' = store.data
  /\ UNCHANGED <<disk, queue, status>>

(* ti_syncarchive_on_part: the first part makes the file anew.             *)
OnArchivePart(r) ==
  /\ \E ids \in IF r.k = 1 THEN {r.first .. n : n \in r.first .. r.last}
                ELSE {r.first .. r.last} :
       arch' = {f \in arch : <<f.first, f.last>> # <<r.first, r.last>>}
                 \cup {[first |-> r.first, last |-> r.last, ids |-> ids]}
  /\ UNCHANGED <<store, ccid, scid, data, queue, status>>

(* nodes__on_req_syncadone: the files are loaded (ti_archive_load).        *)
OnArchiveDone(r) ==
  LET new == Loadable(ccid, scid) IN
  /\ scid' = Max(new \cup {scid})
  /\ queue' = Add(queue, {[id |-> i, gap |-> TRUE] : i \in new})
  /\ UNCHANGED <<disk, ccid, data, status>>

(* ti_syncevents_on_part.                                                  *)
OnEventPart(r) ==
  /\ queue' = Add(queue, {[id |-> r.first, gap |-> TRUE]})
  /\ UNCHANGED <<disk, ccid, scid, data, status>>

(* nodes__on_req_syncedone.                                                *)
OnEventDone(r) ==
  /\ status' = "READY"
  /\ UNCHANGED <<disk, ccid, scid, data, queue>>

(* S handles the next package of A (nodes__on_req_syncpart and the ones    *)
(* above) and answers it; it refuses when it does not synchronize.         *)
OnSyncPart ==
  /\ toS # <<>> /\ status # "DOWN"
  /\ toS' = Tail(toS)
  /\ LET r == Head(toS)
         reply(ok, next) == toA' = Append(toA, [req |-> r, ok |-> ok, next |-> next])
     IN  \/ /\ status = "SYNC"
            /\ CASE r.tp = "fpart" -> OnFullPart(r)
                 [] r.tp = "fdone" -> OnFullDone(r)
                 [] r.tp = "apart" -> OnArchivePart(r)
                 [] r.tp = "adone" -> OnArchiveDone(r)
                 [] r.tp = "epart" -> OnEventPart(r)
                 [] r.tp = "edone" -> OnEventDone(r)
            /\ reply(TRUE, IF r.tp = "epart" THEN NextMissing(r.first) ELSE 0)
         \/ /\ status = "READY"
            /\ reply(FALSE, 0)
            /\ UNCHANGED <<status, disk, ccid, scid, data, queue>>
  /\ UNCHANGED <<made, server, session, asked, link, ask, cast, faults>>

(* A change package reaches S (ti_changes_on_change).                      *)
OnChange ==
  /\ status # "DOWN"
  /\ \E i \in cast :
       /\ cast' = cast \ {i}
       /\ queue' = Add(queue, {[id |-> i, gap |-> FALSE]})
  /\ UNCHANGED <<made, server, session, status, asked, ccid, scid, data, disk,
                 link, ask, toS, toA, faults>>

(* changes__loop on S.                                                     *)
Loop ==
  /\ status # "DOWN"
  /\ Runnable
  /\ LET c == First(queue) IN
     /\ queue' = queue \ {c}
     /\ ccid' = Max({c.id, ccid})
     /\ data' = IF c.id > ccid THEN data \cup {c.id} ELSE data
  /\ UNCHANGED <<made, server, session, status, asked, scid, disk, net, faults>>
-----------------------------------------------------------------------------
(* Faults.                                                                 *)

Disconnect ==
  /\ link' = FALSE
  /\ ask' = {} /\ toS' = <<>> /\ toA' = <<>>
  /\ syncers' = {} /\ flag' = FALSE /\ open' = {}

(* The connection between A and S breaks: the requests of A are cancelled  *)
(* and with the stream its flag and its place on the list are gone.        *)
LinkDown ==
  /\ "link" \in Faults /\ faults < MaxFaults
  /\ link
  /\ faults' = faults + 1
  /\ Disconnect
  /\ UNCHANGED <<made, server, status, memory, disk, cast>>

LinkUp ==
  /\ ~link /\ status # "DOWN"
  /\ link' = TRUE
  /\ UNCHANGED <<made, server, session, status, memory, disk, ask, toS, toA,
                 cast, faults>>

(* A part of a full store overwrites the one that S had.                   *)
Overwrites == store.whole /\ store.data # 1 .. store.ccid

(* S dies.  Unless "mixed" is among the faults, not in the midst of a full *)
(* store that overwrites the one it had.                                   *)
Crash ==
  /\ "crash" \in Faults /\ faults < MaxFaults
  /\ status # "DOWN"
  /\ Overwrites => "mixed" \in Faults
  /\ faults' = faults + 1
  /\ status' = "DOWN"
  /\ Disconnect
  /\ cast' = {}
  /\ UNCHANGED <<made, server, memory, disk>>

(* S starts and loads its store and its archive (ti_store_restore,         *)
(* ti_archive_load).  By the time it is connected all that was sent before *)
(* has arrived.                                                            *)
Restart ==
  /\ status = "DOWN" /\ store.whole
  /\ status' = "SYNC" /\ asked' = FALSE
  /\ LET new == Loadable(store.ccid, store.ccid) IN
     /\ scid' = Max(new \cup {store.ccid})
     /\ ccid' = Max(new \cup {store.ccid})
     /\ data' = store.data \cup new
  /\ queue' = {}
  /\ UNCHANGED <<made, server, session, disk, net, faults>>

(* S cannot load its store and is started with nothing (ti_rebuild).       *)
Rebuild ==
  /\ status = "DOWN" /\ ~store.whole
  /\ status' = "SYNC" /\ asked' = FALSE
  /\ store' = Store(0, {}, FALSE) /\ arch' = {}
  /\ ccid' = 0 /\ scid' = 0 /\ data' = {} /\ queue' = {}
  /\ UNCHANGED <<made, server, session, net, faults>>

StepA == CommitA \/ GoSoon \/ GoAway \/ WorkFinish \/ Serve \/ ComeBack \/ OnResponse
StepS ==
  FindAwayNode \/ OnSyncPart \/ OnChange \/ Loop \/ LinkUp \/ Restart \/ Rebuild

Next ==
  \/ Make \/ StepA \/ OnReqSync \/ StepS
  \/ RequestFails \/ LinkDown \/ Crash

Spec == Init /\ [][Next]_vars

(* The nodes keep running: timers fire and packages are handled.           *)
Fairness == WF_vars(StepA) /\ WF_vars(StepS) /\ WF_vars(OnReqSync)

FairSpec == Spec /\ Fairness
-----------------------------------------------------------------------------
Requests ==
  [tp: {"fpart", "fdone", "apart", "adone", "epart", "edone"},
   first: 0 .. MaxId, last: 0 .. MaxId, k: 0 .. 3]

TypeOK ==
  /\ {made, ccidA, scidA, stored} \subseteq Ids
  /\ {ccid, scid} \subseteq 0 .. MaxId
  /\ away \in {"READY", "SOON", "WORKING", "SYNCING"}
  /\ status \in {"DOWN", "SYNC", "READY"}
  /\ queueA \cup memA \cup data \cup cast \subseteq Ids
  /\ archA \subseteq [first: Ids, last: Ids]
  /\ arch \subseteq [first: Ids, last: Ids, ids: SUBSET Ids]
  /\ store \in [ccid: 0 .. MaxId, data: SUBSET Ids, whole: BOOLEAN]
  /\ queue \subseteq [id: Ids, gap: BOOLEAN]
  /\ syncers \cup ask \subseteq Ids \cup {MaxId + 1}
  /\ open \subseteq Requests
  /\ toS \in Seq(Requests)
  /\ toA \in Seq([req: Requests, ok: BOOLEAN, next: 0 .. MaxId + 1])
  /\ {flag, asked, link} \subseteq BOOLEAN
  /\ faults \in 0 .. MaxFaults

(* S never passes over a change: the parts of a synchronization may do so  *)
(* (TI_CPKG_FLAG_ALLOW_GAP), and change packages of other nodes arrive in  *)
(* between.                                                                *)
NoHole == status # "DOWN" => data = 1 .. ccid

(* When S says it is READY it has every change the cluster ever made, or   *)
(* has it in its queue or on its way to it: nothing will be sent again.    *)
ReadyIsComplete ==
  status = "READY" => 1 .. made \subseteq data \cup {c.id : c \in queue} \cup cast

(* After the last of finitely many faults S gets READY with all changes,   *)
(* and the node that served it answers queries again.                      *)
CatchesUp == <>[](status = "READY" /\ away = "READY" /\ data = 1 .. made)

(* A stream that still has the flag of a synchronization that has failed.  *)
StaleFlag == flag /\ open = {}

(* S catches up unless a part of its synchronization timed out while the   *)
(* connection stayed: nothing but a stream with a stale flag stands in the *)
(* way, neither the archive files that A removed meanwhile, nor a fault    *)
(* half way, nor changes that A and S still have to apply.                 *)
CatchesUpUnlessStale == CatchesUp \/ <>[]StaleFlag
=============================================================================
