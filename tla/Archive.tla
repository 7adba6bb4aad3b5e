------------------------------ MODULE Archive -------------------------------
(***************************************************************************)
(* What one node keeps on disk (ti/archive.c, ti/archfile.c, ti/store.c,   *)
(* the restart in ti.c and main.c) and what it can give to a node that     *)
(* synchronizes with it (the choice in ti/away.c, ti/syncarchive.c).       *)
(*                                                                         *)
(* Each change the node commits goes to the archive queue, in memory.  In  *)
(* away mode, and when the node stops, the queue is written to an archive  *)
(* file named after its first and last id; when the last full store is too *)
(* old, the whole database is stored first.  After that the node tells the *)
(* others its stored change id (scid), and archive files that no node and  *)
(* no store needs are removed.  A restart loads the store and replays the  *)
(* archive files behind it.                                                *)
(*                                                                         *)
(* The steps that write to disk are actions of their own: a crash may come *)
(* between any two of them.  What a change does is left out: the database  *)
(* is the set of change ids that were applied to it.  While the away       *)
(* thread works no change is committed (away__work holds changes->lock).   *)
(*                                                                         *)
(* Three things break what a node keeps, and harm remembers them.  "loss": *)
(* a crash between the new store's arrival and the end of the archive      *)
(* file, or while any archive file is written, and an archive file that    *)
(* cannot be written, may lose changes that this node has.  "list": the    *)
(* list of archive files has an entry without a file.  "store": the store  *)
(* could not be moved to its place and is gone.  The properties say which  *)
(* of these they do not survive.  The node is not alone in its cluster.    *)
(***************************************************************************)
EXTENDS Naturals, Sequences, SequencesExt, FiniteSets, FiniteSetsExt

CONSTANTS
  Threshold,  \* cfg->threshold_full_storage
  CrashAt,    \* the steps at which the node may crash
  DiskFails,  \* what may fail on disk: "store", "rename", "archive"
  MaxId,      \* bound on the change ids (uint64_t in the source)
  MaxHarmId   \* bound on the change ids once changes may be lost

Steps == {"idle", "store", "write", "swap", "install", "clean", "archive",
          "writing", "remove"}

ASSUME ArchiveAssumption ==
  /\ DiskFails \subseteq {"store", "rename", "archive"}
  /\ {Threshold, MaxId, MaxHarmId} \subseteq Nat
  /\ 0 < MaxId /\ MaxHarmId <= MaxId
  /\ CrashAt \subseteq Steps

VARIABLES
  made,         \* history: the ids of the changes that exist
  ccid,         \* the last committed change id
  scid,         \* the stored change id this node announces
  data,         \* the ids of the changes applied to the database
  queue,        \* archive->queue: the ids still to be written
  archfiles,    \* archive->archfiles: the archive files the node knows of
  last_stored,  \* store->last_stored_change_id
  peers,        \* the lowest stored id the other nodes have announced
  store,        \* disk: the directories store/, __tmp/ and _prev/
  tmp,
  prev,
  files,        \* disk: the archive files
  pc,           \* the step the away thread, or the stopping node, is at
  stopping,     \* is the node being stopped?
  harm          \* history: what a crash or a failing disk has broken

memory == <<ccid, scid, data, queue, archfiles, last_stored>>
disk == <<store, tmp, prev, files>>
vars == <<made, memory, peers, disk, pc, stopping, harm>>

Ids == 0 .. MaxId

(* A store directory that is absent, that is not complete, or that was     *)
(* left behind by a crash and is written over.                             *)
None == [state |-> "none", ccid |-> 0, data |-> {}]
Partial == [None EXCEPT !.state = "partial"]
Stale == [None EXCEPT !.state = "stale"]
Stored(id, d) == [state |-> "full", ccid |-> id, data |-> d]

Directory == [state: {"none", "partial", "stale", "full"}, ccid: Ids, data: SUBSET Ids]

(* The name of an archive file, the ids that are really in it, and whether *)
(* it ends where reading it faults (archive__load_file maps the file up to *)
(* a page boundary and reads on past its end).                             *)
Name(f) == [first |-> f.first, last |-> f.last]
File(n, ids, torn) ==
  [first |-> n.first, last |-> n.last, ids |-> ids, torn |-> torn]

FirstId == 1

(* ti_build: the initial change is committed and the database stored.      *)
Init ==
  /\ made = {FirstId} /\ data = {FirstId}
  /\ ccid = FirstId /\ scid = FirstId /\ last_stored = FirstId
  /\ queue = <<>>
  /\ archfiles = {} /\ files = {}
  /\ peers = FirstId
  /\ store = Stored(FirstId, {FirstId})
  /\ tmp = None /\ prev = None
  /\ pc = "idle"
  /\ stopping = FALSE
  /\ harm = {}
-----------------------------------------------------------------------------
(* A change is committed and pushed on the archive queue                   *)
(* (ti_archive_push).  A node that lost changes in a crash gets them again *)
(* from the others before anything new; ids that no change ever got are    *)
(* passed over.                                                            *)
Commit ==
  /\ pc = "idle" /\ ccid > 0
  /\ LET again == {i \in made : i > ccid} IN
     \E id \in IF again = {} THEN ccid + 1 .. ccid + 2 ELSE {Min(again)} :
       /\ id <= IF "loss" \in harm THEN MaxHarmId ELSE MaxId
       /\ made' = made \cup {id}
       /\ data' = data \cup {id}
       /\ ccid' = id
       /\ queue' = IF id > scid THEN Append(queue, id) ELSE queue
  /\ UNCHANGED <<scid, archfiles, last_stored, peers, disk, pc, stopping, harm>>

(* The other nodes announce that they have stored more.                    *)
PeersStore ==
  /\ peers' \in peers + 1 .. Max(made)
  /\ UNCHANGED <<made, memory, disk, pc, stopping, harm>>

(* Mutant: files are removed when every node has stored them, whether or   *)
(* not this node has them in its full store.                               *)
RemovableEarly == Min({scid, peers})

(* archive__remove_files: up to which id files are not needed any more     *)
(* (ti_nodes_scid is the lowest stored id of all nodes).                   *)
Removable == Min({last_stored, scid, peers})

(* Mutant: the files go and stay on the list.                              *)
RemoveFilesListed ==
  /\ files' = {f \in files : f.last > Removable \/ Name(f) \notin archfiles}
  /\ pc' = IF stopping THEN "down" ELSE "idle"
  /\ UNCHANGED archfiles

(* The last step of ti_archive_to_disk.                                    *)
RemoveFiles ==
  /\ archfiles' = {f \in archfiles : f.last > Removable}
  /\ files' = {f \in files : f.last > Removable \/ Name(f) \notin archfiles}
  /\ pc' = IF stopping THEN "down" ELSE "idle"

(* Mutant: one change behind the stored one is not worth writing.          *)
ToDiskOffByOne ==
  pc' = IF queue = <<>> THEN "remove"
        ELSE IF Last(queue) <= scid + 1 THEN "remove"
        ELSE IF Last(queue) - last_stored > Threshold THEN "store"
        ELSE "archive"

(* ti_archive_to_disk, called by the away thread or, when the node stops,  *)
(* by ti_offline: is there anything to write, and is a full store due?     *)
ToDisk ==
  pc' = IF queue = <<>> THEN "remove"
        ELSE IF Last(queue) = scid THEN "remove"
        ELSE IF Last(queue) - last_stored > Threshold THEN "store"
        ELSE "archive"

AwayWork ==
  /\ pc = "idle"
  /\ ToDisk
  /\ UNCHANGED <<made, memory, peers, disk, stopping, harm>>

Offline ==
  /\ pc = "idle"
  /\ ToDisk
  /\ stopping' = TRUE
  /\ UNCHANGED <<made, memory, peers, disk, harm>>
-----------------------------------------------------------------------------
(* ti_store_store, step by step.                                           *)

(* The previous store goes, __tmp/ is made.                                *)
StoreBegin ==
  /\ pc = "store"
  /\ prev' = None
  /\ tmp' = IF tmp = None THEN Partial ELSE Stale
  /\ pc' = "write"
  /\ UNCHANGED <<made, memory, peers, store, files, stopping, harm>>

(* All files of the store are written to __tmp/.                           *)
StoreWrite ==
  /\ pc = "write"
  /\ tmp' = Stored(ccid, data)
  /\ pc' = "swap"
  /\ UNCHANGED <<made, memory, peers, store, prev, files, stopping, harm>>

(* Something cannot be written; or a collection directory is still there   *)
(* from a store that a crash cut off; or store/ cannot be moved away,      *)
(* which is noticed when __tmp/ cannot take its place.                     *)
StoreFails ==
  /\ \/ pc = "write" /\ ("store" \in DiskFails \/ tmp = Stale)
     \/ pc = "swap" /\ "rename" \in DiskFails
  /\ tmp' = None
  /\ pc' = "archive"
  /\ UNCHANGED <<made, memory, peers, store, prev, files, stopping, harm>>

StoreSwap ==
  /\ pc = "swap"
  /\ prev' = store
  /\ store' = None
  /\ pc' = "install"
  /\ UNCHANGED <<made, memory, peers, tmp, files, stopping, harm>>

StoreInstall ==
  /\ pc = "install"
  /\ store' = tmp
  /\ tmp' = None
  /\ harm' = harm \ {"store"}
  /\ pc' = "clean"
  /\ UNCHANGED <<made, memory, peers, prev, files, stopping>>

(* store/ was moved away and __tmp/ cannot take its place: __tmp/ is       *)
(* removed, and nothing is moved back.                                     *)
StoreInstallFails ==
  /\ pc = "install" /\ "rename" \in DiskFails
  /\ tmp' = None
  /\ harm' = harm \cup {"store"}
  /\ pc' = "archive"
  /\ UNCHANGED <<made, memory, peers, store, prev, files, stopping>>

(* Mutant: the id after the last stored one is kept.                       *)
StoreDoneNext ==
  /\ pc = "clean"
  /\ prev' = None
  /\ last_stored' = ccid + 1
  /\ pc' = "archive"
  /\ UNCHANGED <<made, ccid, scid, data, queue, archfiles, peers, store, tmp,
                 files, stopping, harm>>

(* Mutant: what is in the full store is not archived any more.             *)
StoreDoneNoArchive ==
  /\ pc = "clean"
  /\ prev' = None
  /\ last_stored' = ccid
  /\ queue' = <<>> /\ scid' = ccid
  /\ pc' = "remove"
  /\ UNCHANGED <<made, ccid, data, archfiles, peers, store, tmp, files, stopping, harm>>

StoreDone ==
  /\ pc = "clean"
  /\ prev' = None
  /\ last_stored' = ccid
  /\ pc' = "archive"
  /\ UNCHANGED <<made, ccid, scid, data, queue, archfiles, peers, store, tmp,
                 files, stopping, harm>>
-----------------------------------------------------------------------------
(* archive__to_disk, step by step.  Ids that are stored are skipped, from  *)
(* the front of the queue.                                                 *)
FirstUnsaved == Min({k \in 1 .. Len(queue) : queue[k] > scid})
Unsaved == SubSeq(queue, FirstUnsaved, Len(queue))
QueueName == [first |-> Head(Unsaved), last |-> Last(Unsaved)]

(* The file is opened, and with that on disk, with nothing in it.          *)
ArchiveOpen ==
  /\ pc = "archive"
  /\ QueueName \notin archfiles
  /\ files' = {f \in files : Name(f) # QueueName} \cup {File(QueueName, {}, TRUE)}
  /\ pc' = "writing"
  /\ UNCHANGED <<made, memory, peers, store, tmp, prev, stopping, harm>>

(* There is a file of that name already: it is believed to be complete.    *)
ArchiveKnown ==
  /\ pc = "archive"
  /\ QueueName \in archfiles
  /\ queue' = Tail(Unsaved)
  /\ scid' = Last(queue)
  /\ pc' = "remove"
  /\ UNCHANGED <<made, ccid, data, archfiles, last_stored, peers, disk, stopping, harm>>

(* The queue is in the file, and the stored id goes up.                    *)
ArchiveWrite ==
  /\ pc = "writing"
  /\ files' = {f \in files : Name(f) # QueueName}
                \cup {File(QueueName, Range(Unsaved), FALSE)}
  /\ archfiles' = archfiles \cup {QueueName}
  /\ queue' = <<>>
  /\ scid' = Last(queue)
  /\ pc' = "remove"
  /\ UNCHANGED <<made, ccid, data, last_stored, peers, store, tmp, prev, stopping, harm>>

(* What the ids of a freed entry read as: what they were, or anything that *)
(* was written there since.                                                *)
FreedEntry == {QueueName} \cup [first: {0, MaxId}, last: {0, MaxId}]

(* Writing fails: what was written until then is lost, the rest stays in   *)
(* the queue, nothing is removed.  When the file fails to close it is on   *)
(* the list already: it is unlinked and its entry freed, and the list      *)
(* keeps the freed entry.                                                  *)
ArchiveFails ==
  /\ "archive" \in DiskFails /\ ccid <= MaxHarmId
  /\ pc = "writing"
  /\ files' = {f \in files : Name(f) # QueueName}
  /\ \/ /\ \E k \in 1 .. Len(Unsaved) : queue' = SubSeq(Unsaved, k + 1, Len(Unsaved))
        /\ harm' = harm \cup {"loss"}
        /\ UNCHANGED archfiles
     \/ /\ queue' = <<>>
        /\ \E n \in FreedEntry : archfiles' = archfiles \cup {n}
        /\ harm' = harm \cup {"loss", "list"}
  /\ pc' = IF stopping THEN "down" ELSE "idle"
  /\ UNCHANGED <<made, ccid, scid, data, last_stored, peers, store, tmp, prev, stopping>>

ArchiveRemove ==
  /\ pc = "remove"
  /\ RemoveFiles
  /\ UNCHANGED <<made, ccid, scid, data, queue, last_stored, peers, store, tmp,
                 prev, stopping, harm>>
-----------------------------------------------------------------------------
(* What a crash makes of the file that is being written: it holds some of  *)
(* its changes, if it can be read at all.                                  *)
CutOff ==
  {File(QueueName, Range(SubSeq(Unsaved, 1, k)), FALSE) : k \in 0 .. Len(Unsaved)}
  \cup {File(QueueName, {}, TRUE)}

(* Between the arrival of a new store and the end of the archive file the  *)
(* changes since the last archive file are in no place where a node that   *)
(* synchronizes looks for them, and an archive file that is cut off is     *)
(* believed to be complete after the restart.                              *)
Unsafe == store.ccid > scid \/ pc = "writing"

(* The node dies.                                                          *)
Crash ==
  /\ pc \in CrashAt
  /\ pc' = "down"
  /\ harm' = IF Unsafe THEN harm \cup {"loss"} ELSE harm
  /\ "loss" \in harm' => ccid <= MaxHarmId
  /\ stopping' = FALSE
  /\ files' \in IF pc # "writing" THEN {files}
                ELSE {{f \in files : Name(f) # QueueName} \cup {c} : c \in CutOff}
  /\ UNCHANGED <<made, memory, peers, store, tmp, prev>>

(* ti_archive_load, archive__load_file: the ids that are read from the     *)
(* files behind the store.  Files are read in the order of their names; an *)
(* id that is not above the ones before it is dropped.                     *)
Before(f, g) == f.first < g.first \/ (f.first = g.first /\ f.last < g.last)
Loaded ==
  LET read == {f \in files : f.last > store.ccid}
      load(f) == {i \in f.ids :
                    /\ i > store.ccid
                    /\ \A g \in read : Before(g, f) => \A j \in g.ids : j < i}
  IN  UNION {load(f) : f \in read}

(* The node dies again, when it loads a file whose end faults.             *)
Unreadable == \E f \in files : f.torn /\ f.last > store.ccid

(* The ids that a restart brings back.                                     *)
Recovered == IF store.state = "full" THEN store.data \cup Loaded ELSE {}

(* ti_store_restore and ti_archive_load; what was loaded is replayed by    *)
(* the change loop, gaps allowed (archive__init_queue).                    *)
Restart ==
  /\ pc = "down"
  /\ store.state = "full" /\ ~Unreadable
  /\ data' = Recovered
  /\ ccid' = Max({store.ccid} \cup Loaded)
  /\ scid' = Max({store.ccid} \cup Loaded)
  /\ last_stored' = store.ccid
  /\ archfiles' = {Name(f) : f \in files}
  /\ queue' = <<>>
  /\ harm' = harm \ {"list"}
  /\ pc' = "idle"
  /\ stopping' = FALSE
  /\ UNCHANGED <<made, peers, disk>>

(* Without a store the node removes its archive and starts with nothing    *)
(* (ti_rebuild).  With an incomplete store it does not start, unless it is *)
(* told to rebuild.                                                        *)
Rebuild ==
  /\ pc = "down"
  /\ store.state # "full"
  /\ data' = {} /\ ccid' = 0 /\ scid' = 0 /\ last_stored' = 0
  /\ queue' = <<>> /\ archfiles' = {}
  /\ store' = Partial /\ files' = {}
  /\ harm' = harm \ {"list", "store"}
  /\ pc' = "idle"
  /\ stopping' = FALSE
  /\ UNCHANGED <<made, peers, tmp, prev>>

(* A node that was rebuilt gets the full store of another node, file by    *)
(* file, and loads it (nodes__on_req_syncfdone).                           *)
LoadFull ==
  /\ pc = "idle" /\ ccid = 0
  /\ \E id \in made :
       /\ data' = {i \in made : i <= id}
       /\ store' = Stored(id, {i \in made : i <= id})
       /\ ccid' = id /\ scid' = id /\ last_stored' = id
  /\ UNCHANGED <<made, queue, archfiles, peers, tmp, prev, files, pc, stopping, harm>>

Next ==
  \/ Commit \/ PeersStore \/ AwayWork \/ Offline
  \/ StoreBegin \/ StoreWrite \/ StoreFails \/ StoreSwap \/ StoreInstall
  \/ StoreInstallFails \/ StoreDone
  \/ ArchiveOpen \/ ArchiveKnown \/ ArchiveWrite \/ ArchiveFails \/ ArchiveRemove
  \/ Crash \/ Restart \/ Rebuild \/ LoadFull

Spec == Init /\ [][Next]_vars
-----------------------------------------------------------------------------
TypeOK ==
  /\ made \subseteq Ids /\ data \subseteq Ids
  /\ {ccid, scid, last_stored, peers} \subseteq Ids
  /\ queue \in Seq(Ids)
  /\ archfiles \subseteq [first: Ids, last: Ids]
  /\ files \subseteq [first: Ids, last: Ids, ids: SUBSET Ids, torn: BOOLEAN]
  /\ {store, tmp, prev} \subseteq Directory
  /\ pc \in Steps \cup {"down"}
  /\ stopping \in BOOLEAN

(* The ids in the archive queue go up and none is above the last committed *)
(* one (the assertion in ti_archive_push), and every archive file the node *)
(* knows of is on disk, unless one failed to close since the last start:   *)
(* a file that is not there would end every synchronization that needs it. *)
ArchiveConsistent ==
  /\ \A k \in 1 .. Len(queue) :
       /\ queue[k] <= ccid
       /\ \A j \in 1 .. k - 1 : queue[j] < queue[k]
  /\ pc # "down" /\ "list" \notin harm => archfiles \subseteq {Name(f) : f \in files}

(* What a node has announced as stored it has after a restart, whenever it *)
(* went down and if it comes up at all: the others remove their archive    *)
(* files on the strength of it.  Only when its store is gone does it start *)
(* from nothing, and gets a full store of another node.                    *)
AnnouncedIsSafe ==
  "loss" \notin harm /\ pc = "down" /\ ~Unreadable /\ store.state = "full" =>
    \A i \in made : i <= scid => i \in Recovered

(* A restart never brings back a change without the ones before it: the    *)
(* replay, which allows gaps, would pass over them for good.               *)
RecoversNoHole ==
  "loss" \notin harm /\ pc = "down" =>
    \A i, j \in made : i < j /\ j \in Recovered => i \in Recovered

(* A node that was stopped, not killed, comes back with every change it    *)
(* had committed, unless its last store was lost between the two renames.  *)
StopLosesNothing ==
  harm \cap {"loss", "store"} = {} /\ pc = "down" /\ stopping =>
    \A i \in made : i <= ccid => i \in Recovered

(* away__syncers: does a node that asks for changes from id on get the     *)
(* whole store?                                                            *)
FirstArchived == {f.first : f \in archfiles} \cup Range(queue)
FullSync(id) == (\A i \in FirstArchived : id < i) /\ id <= last_stored

(* ti_syncarchive_init: the file with the change id or, if there is none,  *)
(* the closest one behind it; the next file is asked for by the last id of *)
(* this one.                                                               *)
Behind(id) == {f \in files : Name(f) \in archfiles /\ f.last >= id}
NextFile(id) ==
  IF \E f \in Behind(id) : f.first <= id
  THEN CHOOSE f \in Behind(id) : f.first <= id
  ELSE CHOOSE f \in Behind(id) : \A g \in Behind(id) : f.first <= g.first

(* The changes in the files that are sent, from each id on.                *)
FilesSent[id \in 0 .. MaxId + 1] ==
  IF Behind(id) = {} THEN {}
  ELSE NextFile(id).ids \cup FilesSent[NextFile(id).last + 1]

(* The files are followed by the archive queue: from the stored id on, or  *)
(* from the id that was asked for when no file was sent (ti_syncevents_init). *)
Sent(id) ==
  FilesSent[id] \cup
  {i \in Range(queue) : i >= IF Behind(id) = {} THEN id ELSE scid + 1}

(* A node that synchronizes with this one gets every change it does not    *)
(* have, up to the last one committed here: it asks for what comes after   *)
(* its last committed id, which is not below what it announced as stored,  *)
(* or it is a new node.  Only one that has to get the whole store gets     *)
(* nothing while the store is gone.                                        *)
SyncIsComplete ==
  "loss" \notin harm /\ pc = "idle" =>
    \A id \in {1} \cup (peers + 1 .. ccid + 1) : \A i \in made :
      i >= id /\ i <= ccid /\ ("store" \in harm => ~FullSync(id)) =>
        i \in IF FullSync(id) THEN store.data \cup Sent(last_stored + 1) ELSE Sent(id)
=============================================================================
