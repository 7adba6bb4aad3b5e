--------------------------- MODULE ArchiveProofs ----------------------------
(***************************************************************************)
(* Proofs about what a node keeps on disk, for any threshold, any steps at *)
(* which it may crash, any writes that may fail and any bound on the ids:  *)
(* what a restart brings back, and what another node gets that synchronizes*)
(* with this one.  FilesSent is a recursive function; it is well defined   *)
(* because the next file always ends behind the id asked for               *)
(* (FilesSentExists, by the least id for which it would not be).           *)
(***************************************************************************)
EXTENDS Archive, Integers, FiniteSetTheorems, TLAPS

(* The steps at which there is something to write.                         *)
Busy == {"store", "write", "swap", "install", "clean", "archive", "writing"}

(* The steps at which the store may be ahead of the archive files.         *)
Between == {"clean", "archive", "writing"}

(* The changes from one id, not included, to another one.                  *)
Made(from, to) == {i \in made : from < i /\ i <= to}

(* The archive files, without the one that is being written.               *)
Kept == {f \in files : pc = "writing" => Name(f) # QueueName}
-----------------------------------------------------------------------------
(* What holds whatever goes wrong.                                         *)

Sorted(q, top) ==
  /\ \A k \in 1 .. Len(q) : 0 < q[k] /\ q[k] <= top
  /\ \A k \in 1 .. Len(q) : \A j \in 1 .. k - 1 : q[j] < q[k]
  /\ q # <<>> => q[Len(q)] = top

Listed ==
  /\ pc # "down" /\ "list" \notin harm => archfiles \subseteq {Name(f) : f \in files}
  /\ pc = "writing" => QueueName \notin archfiles
  /\ "list" \in harm => "loss" \in harm

Shape ==
  /\ TypeOK
  /\ FirstId \in made /\ 0 \notin made
  /\ Sorted(queue, ccid) /\ scid <= ccid
  /\ pc \in Busy => queue # <<>> /\ scid < ccid
  /\ Listed
-----------------------------------------------------------------------------
(* What holds as long as nothing happened that may lose changes.           *)

(* The database and the queue have what they should have.                  *)
Memory ==
  /\ data = Made(0, ccid)
  /\ Range(queue) = Made(scid, ccid)
  /\ queue = <<>> => scid = ccid
  /\ pc = "remove" \/ (pc = "down" /\ stopping) => scid = ccid

(* A store that is complete has all changes up to its id, and the node has *)
(* one, but for a moment, after a rebuild and after a failing rename.      *)
FullStore ==
  /\ last_stored <= ccid
  /\ store.state = "full" =>
       /\ store.data = Made(0, store.ccid) /\ store.ccid <= ccid
       /\ pc # "down" => last_stored <= store.ccid
       /\ pc \notin Between => store.ccid <= scid
  /\ pc \in {"swap", "install"} => tmp = Stored(ccid, data)
  /\ pc = "clean" => store = Stored(ccid, data)
  /\ pc # "down" /\ store.state # "full" => last_stored <= scid
  /\ ccid > 0 /\ pc # "install" /\ (pc = "down" => stopping) /\ "store" \notin harm
       => store.state = "full"

(* An archive file has what its name says, and that is announced.          *)
Complete(f) ==
  /\ f.ids = {i \in made : f.first <= i /\ i <= f.last} /\ ~f.torn
  /\ f.first \in made /\ f.last \in made /\ f.first <= f.last /\ f.last <= scid

(* Files do not overlap, and what is announced is in the store or a file.  *)
FilesGood ==
  /\ \A f \in Kept : Complete(f)
  /\ \A f, g \in Kept : f = g \/ f.last < g.first \/ g.last < f.first
  /\ store.state = "full" => \A i \in Made(store.ccid, scid) : \E f \in Kept : i \in f.ids

Safe == Memory /\ FullStore /\ FilesGood

AInv == Shape /\ ("loss" \notin harm => Safe)
-----------------------------------------------------------------------------
(* Smallest and largest elements.                                          *)

LEMMA MinExists ==
  ASSUME NEW S \in SUBSET Nat, S # {}
  PROVE  Min(S) \in S /\ \A y \in S : Min(S) <= y
<1>1. PICK x \in S : \A y \in S : ~(<<y, x>> \in OpToRel(<, Nat))
  BY WFMin, NatLessThanWellFounded
<1>2. \A y \in S : x <= y
  <2> SUFFICES ASSUME NEW y \in S PROVE x <= y
    OBVIOUS
  <2>1. x \in Nat /\ y \in Nat
    OBVIOUS
  <2>2. ~(y < x)
    BY <1>1, <2>1 DEF OpToRel
  <2>. QED BY <2>1, <2>2
<1>. QED BY <1>2 DEF Min

LEMMA MaxOfIds ==
  ASSUME NEW S \in SUBSET Ids, S # {}
  PROVE  Max(S) \in S /\ \A y \in S : y <= Max(S)
<1> DEFINE T == {MaxId - y : y \in S}
<1>0. MaxId \in Nat /\ S \in SUBSET Nat /\ \A y \in S : y <= MaxId
  BY ArchiveAssumption DEF Ids
<1>1. T \in SUBSET Nat /\ T # {}
  <2>1. \A y \in S : MaxId - y \in Nat
    BY <1>0
  <2>2. PICK y \in S : TRUE
    OBVIOUS
  <2>3. MaxId - y \in T
    OBVIOUS
  <2>. QED BY <2>1, <2>3
<1>2. PICK d \in T : \A e \in T : ~(<<e, d>> \in OpToRel(<, Nat))
  BY <1>1, WFMin, NatLessThanWellFounded
<1>3. PICK x \in S : d = MaxId - x
  OBVIOUS
<1>4. \A y \in S : y <= x
  <2> SUFFICES ASSUME NEW y \in S PROVE y <= x
    OBVIOUS
  <2>1. x \in Nat /\ y \in Nat /\ MaxId - y \in T /\ MaxId - y \in Nat /\ d \in Nat
    BY <1>0, <1>1
  <2>2. ~(MaxId - y < d)
    BY <1>2, <2>1 DEF OpToRel
  <2>. QED BY <1>0, <1>3, <2>1, <2>2
<1>. QED BY <1>4 DEF Max
-----------------------------------------------------------------------------
(* The operators of the model.                                             *)

LEMMA Directories ==
  /\ {None, Partial, Stale} \subseteq Directory
  /\ \A id \in Ids, d \in SUBSET Ids : Stored(id, d) \in Directory
<1>1. 0 \in Ids
  BY ArchiveAssumption DEF Ids
<1>. QED BY <1>1 DEF None, Partial, Stale, Stored, Directory

(* The end of a queue is a queue.                                          *)
LEMMA Suffix ==
  ASSUME NEW q \in Seq(Ids), NEW top \in Ids, Sorted(q, top),
         NEW k \in 1 .. Len(q) + 1
  PROVE  /\ SubSeq(q, k, Len(q)) \in Seq(Ids)
         /\ Sorted(SubSeq(q, k, Len(q)), top)
<1> DEFINE s == SubSeq(q, k, Len(q))
<1>0. Len(q) \in Nat /\ k \in Nat /\ 1 <= k /\ k <= Len(q) + 1
  OBVIOUS
<1>1. s \in Seq(Ids) /\ Len(s) = Len(q) - k + 1 /\ Len(s) \in Nat
  BY <1>0
<1>2. \A i \in 1 .. Len(s) : s[i] = q[i + k - 1] /\ i + k - 1 \in 1 .. Len(q)
  BY <1>0, <1>1
<1> HIDE DEF s
<1>3. ASSUME NEW i \in 1 .. Len(s) PROVE 0 < s[i] /\ s[i] <= top
  BY <1>2 DEF Sorted
<1>4. ASSUME NEW i \in 1 .. Len(s), NEW j \in 1 .. i - 1 PROVE s[j] < s[i]
  <2>1. j \in 1 .. Len(s) /\ j + k - 1 \in 1 .. (i + k - 1) - 1
    BY <1>0, <1>1
  <2>. QED BY <1>2, <2>1 DEF Sorted
<1>5. s # <<>> => s[Len(s)] = top
  <2> SUFFICES ASSUME s # <<>> PROVE s[Len(s)] = top
    OBVIOUS
  <2>1. Len(s) \in 1 .. Len(s)
    BY <1>1
  <2>2. Len(s) + k - 1 = Len(q) /\ q # <<>>
    BY <1>0, <1>1, <2>1
  <2>. QED BY <1>2, <2>1, <2>2 DEF Sorted
<1>6. Sorted(s, top)
  BY <1>3, <1>4, <1>5 DEF Sorted
<1>. QED BY <1>1, <1>6 DEF s

(* What is in the queue and not yet stored.                                *)
LEMMA UnsavedFacts ==
  ASSUME queue \in Seq(Ids), ccid \in Ids, scid \in Ids, Sorted(queue, ccid),
         queue # <<>>, scid < ccid
  PROVE  /\ FirstUnsaved \in 1 .. Len(queue)
         /\ queue[FirstUnsaved] > scid
         /\ \A j \in 1 .. FirstUnsaved - 1 : queue[j] <= scid
         /\ Unsaved \in Seq(Ids) /\ Len(Unsaved) > 0
         /\ Sorted(Unsaved, ccid)
         /\ QueueName = [first |-> queue[FirstUnsaved], last |-> ccid]
         /\ QueueName \in [first: Ids, last: Ids]
         /\ Last(queue) = ccid
<1> DEFINE S == {k \in 1 .. Len(queue) : queue[k] > scid}
<1>0. Len(queue) \in Nat /\ Len(queue) > 0 /\ queue[Len(queue)] = ccid
  BY DEF Sorted
<1>1. S \in SUBSET Nat /\ Len(queue) \in S
  BY <1>0 DEF Ids
<1>2. FirstUnsaved \in S /\ \A k \in S : FirstUnsaved <= k
  BY <1>1, MinExists DEF FirstUnsaved
<1>3. FirstUnsaved \in 1 .. Len(queue) /\ queue[FirstUnsaved] > scid
  BY <1>2
<1>4. ASSUME NEW j \in 1 .. FirstUnsaved - 1 PROVE queue[j] <= scid
  <2>1. j \in 1 .. Len(queue) /\ ~(FirstUnsaved <= j)
    BY <1>0, <1>3
  <2>2. j \notin S
    BY <1>2, <2>1
  <2>3. queue[j] \in Ids
    BY <2>1
  <2>. QED BY <2>1, <2>2, <2>3, ArchiveAssumption DEF Ids
<1>5. FirstUnsaved \in 1 .. Len(queue) + 1
  BY <1>0, <1>3
<1> HIDE DEF S
<1>6. Unsaved \in Seq(Ids) /\ Sorted(Unsaved, ccid)
  BY <1>5, Suffix DEF Unsaved
<1>7. Len(Unsaved) = Len(queue) - FirstUnsaved + 1 /\ Len(Unsaved) > 0
      /\ Unsaved[1] = queue[FirstUnsaved]
  BY <1>0, <1>3 DEF Unsaved
<1>8. Unsaved # <<>> /\ Last(Unsaved) = ccid /\ Head(Unsaved) = queue[FirstUnsaved]
  BY <1>6, <1>7 DEF Last, Sorted
<1>9. QueueName = [first |-> queue[FirstUnsaved], last |-> ccid]
  BY <1>8 DEF QueueName
<1>10. queue[FirstUnsaved] \in Ids
  BY <1>3
<1>11. Last(queue) = ccid
  BY <1>0 DEF Last
<1>. QED BY <1>3, <1>4, <1>6, <1>7, <1>9, <1>10, <1>11
-----------------------------------------------------------------------------
(* The shape of the state, whatever goes wrong.                            *)

Names == [first: Ids, last: Ids]
ArchiveFiles == [first: Ids, last: Ids, ids: SUBSET Ids, torn: BOOLEAN]

LEMMA ShapeParts ==
  Shape <=> /\ made \in SUBSET Ids /\ data \in SUBSET Ids
            /\ ccid \in Ids /\ scid \in Ids /\ last_stored \in Ids /\ peers \in Ids
            /\ queue \in Seq(Ids)
            /\ archfiles \in SUBSET Names /\ files \in SUBSET ArchiveFiles
            /\ store \in Directory /\ tmp \in Directory /\ prev \in Directory
            /\ pc \in Steps \cup {"down"} /\ stopping \in BOOLEAN
            /\ FirstId \in made /\ 0 \notin made
            /\ Sorted(queue, ccid) /\ scid <= ccid
            /\ pc \in Busy => queue # <<>> /\ scid < ccid
            /\ Listed
BY DEF Shape, TypeOK, Names, ArchiveFiles

LEMMA ShapeBuild ==
  /\ made' \in SUBSET Ids /\ data' \in SUBSET Ids
  /\ ccid' \in Ids /\ scid' \in Ids /\ last_stored' \in Ids /\ peers' \in Ids
  /\ queue' \in Seq(Ids)
  /\ archfiles' \in SUBSET Names /\ files' \in SUBSET ArchiveFiles
  /\ store' \in Directory /\ tmp' \in Directory /\ prev' \in Directory
  /\ pc' \in Steps \cup {"down"} /\ stopping' \in BOOLEAN
  /\ FirstId \in made' /\ 0 \notin made'
  /\ Sorted(queue', ccid') /\ scid' <= ccid'
  /\ pc' \in Busy => queue' # <<>> /\ scid' < ccid'
  /\ Listed'
  => Shape'
BY DEF Shape, TypeOK, Names, ArchiveFiles, Sorted, Ids, Directory, Steps, Busy, FirstId

LEMMA FileMade ==
  ASSUME NEW n \in Names, NEW d \in SUBSET Ids, NEW t \in BOOLEAN
  PROVE  File(n, d, t) \in ArchiveFiles /\ Name(File(n, d, t)) = n
BY DEF File, Name, Names, ArchiveFiles

LEMMA LoadedIds ==
  ASSUME files \in SUBSET ArchiveFiles, store \in Directory
  PROVE  /\ Loaded \in SUBSET Ids /\ Recovered \in SUBSET Ids
         /\ Max({store.ccid} \cup Loaded) \in {store.ccid} \cup Loaded
         /\ \A i \in {store.ccid} \cup Loaded : i <= Max({store.ccid} \cup Loaded)
<1>1. Loaded \in SUBSET Ids
  BY DEF Loaded, ArchiveFiles
<1>2. store.ccid \in Ids /\ store.data \in SUBSET Ids
  BY DEF Directory
<1>3. Recovered \in SUBSET Ids
  BY <1>1, <1>2 DEF Recovered
<1> DEFINE S == {store.ccid} \cup Loaded
<1>4. S \in SUBSET Ids /\ S # {}
  BY <1>1, <1>2
<1> HIDE DEF S
<1>5. Max(S) \in S /\ \A y \in S : y <= Max(S)
  BY <1>4, MaxOfIds
<1>. QED BY <1>1, <1>3, <1>5 DEF S

(* Elements of a queue that grows by one.                                  *)
LEMMA Longer ==
  ASSUME NEW q \in Seq(Ids), NEW top \in Ids, Sorted(q, top), NEW id \in Ids, top < id
  PROVE  Append(q, id) \in Seq(Ids) /\ Sorted(Append(q, id), id) /\ Append(q, id) # <<>>
<1>0. Len(q) \in Nat /\ top \in Nat /\ id \in Nat
  BY ArchiveAssumption DEF Ids
<1> DEFINE s == Append(q, id)
<1>1. s \in Seq(Ids) /\ Len(s) = Len(q) + 1 /\ s # <<>> /\ s[Len(s)] = id
  BY <1>0
<1>2. \A k \in 1 .. Len(q) : s[k] = q[k] /\ q[k] \in Nat
  BY <1>0, ArchiveAssumption DEF Ids
<1> HIDE DEF s
<1>3. ASSUME NEW k \in 1 .. Len(s) PROVE 0 < s[k] /\ s[k] <= id
  <2>1. k \in 1 .. Len(q) \/ k = Len(s)
    BY <1>0, <1>1
  <2>. QED BY <1>0, <1>1, <1>2, <2>1 DEF Sorted
<1>4. ASSUME NEW k \in 1 .. Len(s), NEW j \in 1 .. k - 1 PROVE s[j] < s[k]
  <2>1. j \in 1 .. Len(q) /\ (k \in 1 .. Len(q) \/ k = Len(s))
    BY <1>0, <1>1
  <2>. QED BY <1>0, <1>1, <1>2, <2>1 DEF Sorted
<1>5. Sorted(s, id)
  BY <1>1, <1>3, <1>4 DEF Sorted
<1>. QED BY <1>1, <1>5 DEF s

LEMMA CommitShape ==
  ASSUME Shape, Commit
  PROVE  /\ Shape'
         /\ \E id \in Ids : /\ id > ccid /\ (\A i \in made : i > ccid => i >= id)
                            /\ made' = made \cup {id} /\ data' = data \cup {id}
                            /\ ccid' = id /\ queue' = Append(queue, id)
<1>0. /\ made \in SUBSET Ids /\ data \in SUBSET Ids
      /\ ccid \in Ids /\ scid \in Ids /\ queue \in Seq(Ids)
      /\ FirstId \in made /\ 0 \notin made
      /\ Sorted(queue, ccid) /\ scid <= ccid
  BY ShapeParts
<1> DEFINE again == {i \in made : i > ccid}
<1>1. MaxId \in Nat /\ MaxHarmId \in Nat /\ MaxHarmId <= MaxId /\ ccid \in Nat /\ scid \in Nat
  BY <1>0, ArchiveAssumption DEF Ids
<1>2. again \in SUBSET Nat
  <2>1. \A i \in made : i \in Nat
    BY <1>0, <1>1 DEF Ids
  <2>. QED BY <2>1
<1>3. again # {} => Min(again) \in again /\ \A y \in again : Min(again) <= y
  <2> HIDE DEF again
  <2>. QED BY <1>2, MinExists
<1>4. PICK id \in IF again = {} THEN ccid + 1 .. ccid + 2 ELSE {Min(again)} :
       /\ id <= IF "loss" \in harm THEN MaxHarmId ELSE MaxId
       /\ made' = made \cup {id}
       /\ data' = data \cup {id}
       /\ ccid' = id
       /\ queue' = IF id > scid THEN Append(queue, id) ELSE queue
  BY DEF Commit
<1>5. id \in Ids /\ id > ccid /\ id > 0
  <2>1. CASE again = {}
    BY <1>4, <1>1, <2>1 DEF Ids
  <2>2. CASE again # {}
    BY <1>0, <1>4, <1>1, <1>3, <2>2
  <2>. QED BY <2>1, <2>2
<1>6. \A i \in made : i > ccid => i >= id
  <2>1. CASE again = {}
    BY <2>1
  <2>2. CASE again # {}
    <3>1. id = Min(again)
      BY <1>4, <2>2
    <3>2. ASSUME NEW i \in made, i > ccid PROVE i >= id
      <4>1. i \in again /\ i \in Nat /\ id \in Nat
        BY <1>2, <1>5, <3>2 DEF Ids
      <4>2. id <= i
        BY <1>3, <2>2, <3>1, <4>1
      <4>. QED BY <4>1, <4>2
    <3>. QED BY <3>2
  <2>. QED BY <2>1, <2>2
<1> HIDE DEF again
<1>7. id > scid /\ queue' = Append(queue, id) /\ id \in Nat /\ scid <= id
  BY <1>0, <1>4, <1>1, <1>5 DEF Ids
<1>8. queue' \in Seq(Ids) /\ Sorted(queue', id)
  BY <1>0, <1>5, <1>7, Longer
<1>9. /\ UNCHANGED <<scid, archfiles, last_stored, peers, store, tmp, prev, files, pc, stopping>>
      /\ pc = "idle" /\ harm' = harm
  BY DEF Commit, disk
<1>10. Listed'
  BY <1>9, ShapeParts DEF Listed
<1>11. Shape'
  <2>1. /\ made' \in SUBSET Ids /\ data' \in SUBSET Ids /\ ccid' \in Ids
        /\ FirstId \in made' /\ 0 \notin made'
    BY <1>0, <1>4, <1>5
  <2>2. Sorted(queue', ccid') /\ scid' <= ccid' /\ pc' \notin Busy
    BY <1>4, <1>7, <1>8, <1>9 DEF Busy
  <2>. QED BY <1>8, <1>9, <1>10, <2>1, <2>2, ShapeParts, ShapeBuild
<1>. QED BY <1>4, <1>5, <1>6, <1>7, <1>11

(* Steps that leave the queue and the archive files alone.                 *)
LEMMA SameFilesShape ==
  ASSUME Shape, UNCHANGED <<made, ccid, scid, data, queue, archfiles, files>>,
         last_stored' \in Ids, peers' \in Ids,
         store' \in Directory, tmp' \in Directory, prev' \in Directory,
         pc' \in Steps \cup {"down"}, stopping' \in BOOLEAN,
         pc' \in Busy => queue # <<>> /\ scid < ccid,
         pc' = "writing" => pc = "writing", pc' # "down" => pc # "down",
         harm' \in {harm, harm \cup {"store"}, harm \ {"store"}}
  PROVE  Shape'
<1>1. Listed'
  BY ShapeParts DEF Listed, QueueName, Unsaved, FirstUnsaved
<1>2. Sorted(queue', ccid')
  BY ShapeParts
<1>. QED BY <1>1, <1>2, ShapeParts, ShapeBuild

LEMMA ToDiskFacts ==
  ASSUME Shape, pc = "idle", ToDisk
  PROVE  /\ pc' \in {"remove", "store", "archive"}
         /\ pc' # "remove" => queue # <<>> /\ scid < ccid
         /\ pc' = "remove" => queue = <<>> \/ scid = ccid
<1>1. /\ ccid \in Ids /\ scid \in Ids /\ queue \in Seq(Ids)
      /\ Sorted(queue, ccid) /\ scid <= ccid
  BY ShapeParts
<1>2. queue # <<>> => Last(queue) = ccid
  BY <1>1 DEF Sorted, Last
<1>3. ccid # scid => scid < ccid
  BY <1>1, ArchiveAssumption DEF Ids
<1>. QED BY <1>2, <1>3 DEF ToDisk

LEMMA StoreShape ==
  ASSUME Shape,
         PeersStore \/ AwayWork \/ Offline \/ StoreBegin \/ StoreWrite \/ StoreFails
           \/ StoreSwap \/ StoreInstall \/ StoreInstallFails \/ StoreDone
  PROVE  Shape'
<1>0. /\ last_stored \in Ids /\ peers \in Ids /\ ccid \in Ids /\ data \in SUBSET Ids
      /\ store \in Directory /\ tmp \in Directory /\ prev \in Directory
      /\ stopping \in BOOLEAN /\ pc \in Steps \cup {"down"}
      /\ pc \in Busy => queue # <<>> /\ scid < ccid
  BY ShapeParts
<1>1. CASE PeersStore
  <2>1. made \in SUBSET Ids /\ made # {}
    BY ShapeParts
  <2>2. Max(made) \in Ids
    BY <2>1, MaxOfIds
  <2>3. peers' \in peers + 1 .. Max(made)
    BY <1>1 DEF PeersStore
  <2>4. peers' \in Ids
    BY <1>0, <2>2, <2>3, ArchiveAssumption DEF Ids
  <2>5. harm' = harm
    BY <1>1 DEF PeersStore
  <2>. QED BY <1>0, <1>1, <2>4, <2>5, SameFilesShape DEF PeersStore, memory, disk
<1>2. CASE AwayWork \/ Offline
  <2>1. pc = "idle" /\ ToDisk /\ stopping' \in BOOLEAN
        /\ UNCHANGED <<made, memory, peers, disk, harm>>
    BY <1>0, <1>2 DEF AwayWork, Offline
  <2>2. /\ pc' \in {"remove", "store", "archive"}
        /\ pc' # "remove" => queue # <<>> /\ scid < ccid
    BY <2>1, ToDiskFacts
  <2>3. pc' \in Steps /\ pc' # "writing" /\ (pc' \in Busy => pc' # "remove")
    BY <2>2 DEF Steps, Busy
  <2>. QED BY <1>0, <2>1, <2>2, <2>3, SameFilesShape DEF memory, disk
<1>3. CASE StoreBegin \/ StoreWrite \/ StoreFails \/ StoreSwap \/ StoreInstall \/ StoreInstallFails \/ StoreDone
  <2>1. /\ UNCHANGED <<made, ccid, scid, data, queue, archfiles, files, peers, stopping>>
        /\ pc \in Busy /\ pc # "down"
        /\ pc' \in {"write", "swap", "archive", "install", "clean"}
    BY <1>3 DEF StoreBegin, StoreWrite, StoreFails, StoreSwap, StoreInstall, StoreInstallFails, StoreDone,
                memory, Busy
  <2>2. pc' \in Steps /\ pc' # "writing" /\ pc' # "down"
    BY <2>1 DEF Steps
  <2>3. None \in Directory /\ Partial \in Directory /\ Stale \in Directory
        /\ Stored(ccid, data) \in Directory
    BY <1>0, Directories
  <2>4. store' \in Directory /\ tmp' \in Directory /\ prev' \in Directory
        /\ last_stored' \in Ids
    BY <1>0, <1>3, <2>3 DEF StoreBegin, StoreWrite, StoreFails, StoreSwap, StoreInstall,
                            StoreInstallFails, StoreDone, memory
  <2>5. harm' \in {harm, harm \cup {"store"}, harm \ {"store"}}
    BY <1>3 DEF StoreBegin, StoreWrite, StoreFails, StoreSwap, StoreInstall,
                StoreInstallFails, StoreDone
  <2>. QED BY <1>0, <2>1, <2>2, <2>4, <2>5, SameFilesShape
<1>. QED BY <1>1, <1>2, <1>3

LEMMA ArchiveShape ==
  ASSUME Shape, ArchiveOpen \/ ArchiveKnown \/ ArchiveWrite \/ ArchiveFails
  PROVE  Shape'
<1>0. /\ ccid \in Ids /\ scid \in Ids /\ queue \in Seq(Ids) /\ Sorted(queue, ccid)
      /\ archfiles \in SUBSET Names /\ files \in SUBSET ArchiveFiles
      /\ pc \in Busy => queue # <<>> /\ scid < ccid
      /\ Listed
  BY ShapeParts
<1>1. pc \in Busy /\ pc # "down"
  BY DEF ArchiveOpen, ArchiveKnown, ArchiveWrite, ArchiveFails, Busy
<1>2. queue # <<>> /\ scid < ccid
  BY <1>0, <1>1
<1>3. /\ Unsaved \in Seq(Ids) /\ Len(Unsaved) > 0
      /\ Sorted(Unsaved, ccid)
      /\ QueueName \in Names /\ Last(queue) = ccid
  BY <1>0, <1>2, UnsavedFacts DEF Names
<1>4. /\ UNCHANGED <<made, ccid, data, last_stored, peers, store, tmp, prev, stopping>>
      /\ pc' \in Steps \cup {"down"}
  BY DEF ArchiveOpen, ArchiveKnown, ArchiveWrite, ArchiveFails, memory, disk, Steps
<1>5. "list" \notin harm => archfiles \subseteq {Name(f) : f \in files}
  BY <1>0, <1>1 DEF Listed
<1>6. ASSUME NEW k \in 1 .. Len(Unsaved)
      PROVE  /\ SubSeq(Unsaved, k + 1, Len(Unsaved)) \in Seq(Ids)
             /\ Sorted(SubSeq(Unsaved, k + 1, Len(Unsaved)), ccid)
  <2>1. k + 1 \in 1 .. Len(Unsaved) + 1
    BY <1>3
  <2>. QED BY <1>0, <1>3, <2>1, Suffix
<1>7. CASE ArchiveOpen
  <2>1. QueueName \notin archfiles /\ pc' = "writing" /\ harm' = harm
        /\ files' = {f \in files : Name(f) # QueueName} \cup {File(QueueName, {}, TRUE)}
        /\ UNCHANGED <<scid, queue, archfiles>>
    BY <1>7 DEF ArchiveOpen, memory
  <2>2. File(QueueName, {}, TRUE) \in ArchiveFiles /\ Name(File(QueueName, {}, TRUE)) = QueueName
    BY <1>3, FileMade
  <2>3. files' \in SUBSET ArchiveFiles
    BY <1>0, <2>1, <2>2
  <2>4. "list" \notin harm' => archfiles' \subseteq {Name(f) : f \in files'}
    BY <1>5, <2>1, <2>2
  <2>5. QueueName' = QueueName
    BY <2>1 DEF QueueName, Unsaved, FirstUnsaved
  <2>6. Listed'
    BY <1>0, <2>1, <2>4, <2>5 DEF Listed
  <2>7. Sorted(queue', ccid')
    BY <1>0, <1>4, <2>1
  <2>. QED BY <1>2, <1>4, <2>1, <2>3, <2>6, <2>7, ShapeParts, ShapeBuild
<1>8. CASE ArchiveKnown
  <2>1. /\ queue' = Tail(Unsaved) /\ scid' = Last(queue) /\ pc' = "remove"
        /\ UNCHANGED <<archfiles, files, harm>>
    BY <1>8 DEF ArchiveKnown, disk
  <2>2. Tail(Unsaved) = SubSeq(Unsaved, 1 + 1, Len(Unsaved)) /\ 1 \in 1 .. Len(Unsaved)
    BY <1>3
  <2>3. queue' \in Seq(Ids) /\ Sorted(queue', ccid)
    BY <1>6, <2>1, <2>2
  <2>4. Listed' /\ pc' \notin Busy
    BY <1>0, <1>5, <2>1 DEF Listed, Busy
  <2>5. scid' \in Ids /\ scid' <= ccid' /\ Sorted(queue', ccid')
    BY <1>0, <1>3, <1>4, <2>1, <2>3, ArchiveAssumption DEF Ids
  <2>. QED BY <1>4, <2>1, <2>3, <2>4, <2>5, ShapeParts, ShapeBuild
<1>9. CASE ArchiveWrite
  <2> DEFINE new == File(QueueName, Range(Unsaved), FALSE)
  <2>1. /\ files' = {f \in files : Name(f) # QueueName} \cup {new}
        /\ archfiles' = archfiles \cup {QueueName}
        /\ queue' = <<>> /\ scid' = Last(queue) /\ pc' = "remove" /\ harm' = harm
    BY <1>9 DEF ArchiveWrite
  <2>2. Range(Unsaved) \in SUBSET Ids
    BY <1>3 DEF Range
  <2>3. new \in ArchiveFiles /\ Name(new) = QueueName
    BY <1>3, <2>2, FileMade
  <2> HIDE DEF new
  <2>4. files' \in SUBSET ArchiveFiles /\ archfiles' \in SUBSET Names
    BY <1>0, <1>3, <2>1, <2>3
  <2>5. "list" \notin harm' => archfiles' \subseteq {Name(f) : f \in files'}
    BY <1>5, <2>1, <2>3
  <2>6. Listed' /\ pc' \notin Busy
    BY <1>0, <2>1, <2>5 DEF Listed, Busy
  <2>7. queue' \in Seq(Ids) /\ Sorted(queue', ccid')
    BY <2>1 DEF Sorted
  <2>8. scid' \in Ids /\ scid' <= ccid'
    BY <1>0, <1>3, <1>4, <2>1, ArchiveAssumption DEF Ids
  <2>. QED BY <1>4, <2>4, <2>6, <2>7, <2>8, ShapeParts, ShapeBuild
<1>10. CASE ArchiveFails
  <2>1. /\ files' = {f \in files : Name(f) # QueueName} /\ UNCHANGED scid
        /\ pc = "writing" /\ pc' \in {"down", "idle"}
    BY <1>10 DEF ArchiveFails
  <2>2. \/ /\ \E k \in 1 .. Len(Unsaved) : queue' = SubSeq(Unsaved, k + 1, Len(Unsaved))
           /\ harm' = harm \cup {"loss"} /\ archfiles' = archfiles
        \/ /\ queue' = <<>> /\ harm' = harm \cup {"loss", "list"}
           /\ \E n \in FreedEntry : archfiles' = archfiles \cup {n}
    BY <1>10 DEF ArchiveFails
  <2>3. queue' \in Seq(Ids) /\ Sorted(queue', ccid')
    <3>1. CASE queue' = <<>>
      BY <3>1 DEF Sorted
    <3>2. CASE queue' # <<>>
      BY <1>4, <1>6, <2>2, <3>2
    <3>. QED BY <3>1, <3>2
  <2>4. QueueName \notin archfiles
    BY <1>0, <2>1 DEF Listed
  <2>5. "list" \notin harm' => archfiles' \subseteq {Name(f) : f \in files'}
    BY <1>5, <2>1, <2>2, <2>4
  <2>6. Listed' /\ pc' \notin Busy
    <3>1. "loss" \in harm'
      BY <2>2
    <3>. QED BY <2>1, <2>5, <3>1 DEF Listed, Busy
  <2>7. files' \in SUBSET ArchiveFiles /\ archfiles' \in SUBSET Names
    <3>1. FreedEntry \subseteq Names
      BY <1>3, ArchiveAssumption DEF FreedEntry, Names, Ids
    <3>. QED BY <1>0, <2>1, <2>2, <3>1
  <2>. QED BY <1>4, <2>1, <2>3, <2>6, <2>7, ShapeParts, ShapeBuild
<1>. QED BY <1>7, <1>8, <1>9, <1>10

LEMMA RemoveShape ==
  ASSUME Shape, ArchiveRemove
  PROVE  Shape'
<1>1. /\ archfiles \in SUBSET Names /\ files \in SUBSET ArchiveFiles /\ Listed
  BY ShapeParts
<1>2. /\ archfiles' = {f \in archfiles : f.last > Removable}
      /\ files' = {f \in files : f.last > Removable \/ Name(f) \notin archfiles}
      /\ pc = "remove" /\ pc' \in {"down", "idle"}
      /\ UNCHANGED <<made, ccid, scid, data, queue, last_stored, peers, store, tmp, prev,
                      stopping, harm>>
  BY DEF ArchiveRemove, RemoveFiles
<1>3. "list" \notin harm => archfiles' \subseteq {Name(f) : f \in files'}
  <2> SUFFICES ASSUME "list" \notin harm, NEW n \in archfiles' PROVE \E f \in files' : n = Name(f)
    OBVIOUS
  <2>1. n \in archfiles /\ n.last > Removable
    BY <1>2
  <2>2. PICK f \in files : n = Name(f)
    BY <1>1, <1>2, <2>1 DEF Listed
  <2>3. f.last = n.last
    BY <2>2 DEF Name
  <2>. QED BY <1>2, <2>1, <2>2, <2>3
<1>4. Listed' /\ pc' \notin Busy /\ pc' \in Steps \cup {"down"}
  BY <1>1, <1>2, <1>3 DEF Listed, Busy, Steps
<1>5. archfiles' \in SUBSET Names /\ files' \in SUBSET ArchiveFiles
  BY <1>1, <1>2
<1>6. Sorted(queue', ccid')
  BY <1>2, ShapeParts
<1>. QED BY <1>2, <1>4, <1>5, <1>6, ShapeParts, ShapeBuild

LEMMA CrashShape ==
  ASSUME Shape, Crash
  PROVE  /\ Shape' /\ pc' = "down" /\ pc \in Steps
         /\ pc # "writing" => files' = files
<1>1. /\ pc' = "down" /\ stopping' = FALSE
      /\ UNCHANGED <<made, ccid, scid, data, queue, archfiles, last_stored, peers, store, tmp, prev>>
  BY DEF Crash, memory
<1>2. pc \in Steps
  BY ArchiveAssumption DEF Crash
<1>3. pc # "writing" => files' = files
  BY DEF Crash
<1>4. files' \in SUBSET ArchiveFiles
  <2>0. /\ files \in SUBSET ArchiveFiles /\ ccid \in Ids /\ scid \in Ids
        /\ queue \in Seq(Ids) /\ Sorted(queue, ccid)
        /\ pc \in Busy => queue # <<>> /\ scid < ccid
    BY ShapeParts
  <2>1. CASE pc # "writing"
    BY <1>3, <2>0, <2>1
  <2>2. CASE pc = "writing"
    <3>1. queue # <<>> /\ scid < ccid
      BY <2>0, <2>2 DEF Busy
    <3>2. Unsaved \in Seq(Ids) /\ QueueName \in Names
      BY <2>0, <3>1, UnsavedFacts DEF Names
    <3>3. PICK c \in CutOff : files' = {f \in files : Name(f) # QueueName} \cup {c}
      BY <2>2 DEF Crash
    <3>4. ASSUME NEW k \in 0 .. Len(Unsaved)
          PROVE  File(QueueName, Range(SubSeq(Unsaved, 1, k)), FALSE) \in ArchiveFiles
      <4>1. SubSeq(Unsaved, 1, k) \in Seq(Ids)
        BY <3>2
      <4>2. Range(SubSeq(Unsaved, 1, k)) \in SUBSET Ids
        BY <4>1 DEF Range
      <4>. QED BY <3>2, <4>2, FileMade
    <3>5. File(QueueName, {}, TRUE) \in ArchiveFiles
      BY <3>2, FileMade
    <3>6. c \in ArchiveFiles
      BY <3>4, <3>5 DEF CutOff
    <3>. QED BY <2>0, <3>3, <3>6
  <2>. QED BY <2>1, <2>2
<1>5. Listed' /\ pc' \notin Busy /\ pc' \in Steps \cup {"down"} /\ stopping' \in BOOLEAN
  <2>1. Listed /\ harm' \in {harm, harm \cup {"loss"}}
    BY ShapeParts DEF Crash
  <2>. QED BY <1>1, <2>1 DEF Listed, Busy
<1>6. Sorted(queue', ccid')
  BY <1>1, ShapeParts
<1>7. Shape'
  BY <1>1, <1>4, <1>5, <1>6, ShapeParts, ShapeBuild
<1>. QED BY <1>1, <1>2, <1>3, <1>7

LEMMA StartShape ==
  ASSUME Shape, Restart \/ Rebuild \/ LoadFull
  PROVE  Shape'
<1>0. /\ made \in SUBSET Ids /\ FirstId \in made /\ 0 \notin made
      /\ ccid \in Ids /\ scid \in Ids /\ queue \in Seq(Ids) /\ Sorted(queue, ccid)
      /\ archfiles \in SUBSET Names /\ files \in SUBSET ArchiveFiles /\ Listed
      /\ store \in Directory /\ peers \in Ids /\ stopping \in BOOLEAN
  BY ShapeParts
<1>1. 0 \in Ids /\ \A i \in Ids : i \in Nat /\ i <= i
  BY ArchiveAssumption DEF Ids
<1>2. CASE Restart
  <2> DEFINE m == Max({store.ccid} \cup Loaded)
  <2>1. /\ data' = Recovered /\ ccid' = m /\ scid' = m /\ last_stored' = store.ccid
        /\ archfiles' = {Name(f) : f \in files} /\ queue' = <<>> /\ pc' = "idle"
        /\ stopping' = FALSE /\ UNCHANGED <<made, peers, store, tmp, prev, files>>
        /\ harm' = harm \ {"list"}
    BY <1>2 DEF Restart, disk
  <2>2. /\ Recovered \in SUBSET Ids /\ Loaded \in SUBSET Ids
        /\ m \in {store.ccid} \cup Loaded
    BY <1>0, LoadedIds
  <2>3. store.ccid \in Ids
    BY <1>0 DEF Directory
  <2> HIDE DEF m
  <2>4. m \in Ids /\ m <= m
    BY <1>1, <2>2, <2>3
  <2>5. \A f \in files : Name(f) \in Names
    BY <1>0 DEF ArchiveFiles, Names, Name
  <2>6. archfiles' \in SUBSET Names
    BY <2>1, <2>5
  <2>7. Listed' /\ pc' \notin Busy /\ pc' \in Steps \cup {"down"} /\ stopping' \in BOOLEAN
    BY <2>1 DEF Listed, Busy, Steps
  <2>8. queue' \in Seq(Ids) /\ Sorted(queue', ccid')
    BY <2>1 DEF Sorted
  <2>. QED BY <2>1, <2>2, <2>3, <2>4, <2>6, <2>7, <2>8, ShapeParts, ShapeBuild
<1>3. CASE Rebuild
  <2>1. /\ data' = {} /\ ccid' = 0 /\ scid' = 0 /\ last_stored' = 0
        /\ queue' = <<>> /\ archfiles' = {} /\ store' = Partial /\ files' = {}
        /\ pc' = "idle" /\ stopping' = FALSE /\ UNCHANGED <<made, peers, tmp, prev>>
        /\ harm' = harm \ {"list", "store"}
    BY <1>3 DEF Rebuild
  <2>2. store' \in Directory
    BY <2>1, Directories
  <2>3. Listed' /\ pc' \notin Busy /\ pc' \in Steps \cup {"down"} /\ stopping' \in BOOLEAN
    BY <2>1 DEF Listed, Busy, Steps
  <2>4. queue' \in Seq(Ids) /\ Sorted(queue', ccid')
    BY <2>1 DEF Sorted
  <2>. QED BY <1>1, <2>1, <2>2, <2>3, <2>4, ShapeParts, ShapeBuild
<1>4. CASE LoadFull
  <2>1. PICK id \in made :
          /\ data' = {i \in made : i <= id}
          /\ store' = Stored(id, {i \in made : i <= id})
          /\ ccid' = id /\ scid' = id /\ last_stored' = id
    BY <1>4 DEF LoadFull
  <2>2. /\ pc = "idle" /\ ccid = 0
        /\ UNCHANGED <<made, queue, archfiles, peers, tmp, prev, files, pc, stopping, harm>>
    BY <1>4 DEF LoadFull
  <2>3. id \in Ids /\ id <= id /\ data' \in SUBSET Ids
    BY <1>0, <1>1, <2>1
  <2>4. store' \in Directory
    BY <2>1, <2>3, Directories
  <2>5. queue = <<>>
    <3> SUFFICES ASSUME queue # <<>> PROVE FALSE
      OBVIOUS
    <3>1. Len(queue) \in 1 .. Len(queue)
      BY <1>0
    <3>2. 0 < queue[Len(queue)] /\ queue[Len(queue)] <= 0 /\ queue[Len(queue)] \in Nat
      BY <1>0, <1>1, <2>2, <3>1 DEF Sorted
    <3>. QED BY <3>2
  <2>6. queue' \in Seq(Ids) /\ Sorted(queue', ccid')
    BY <2>2, <2>5 DEF Sorted
  <2>7. Listed' /\ pc' \notin Busy
    BY <1>0, <2>2 DEF Listed, Busy
  <2>. QED BY <2>1, <2>2, <2>3, <2>4, <2>6, <2>7, ShapeParts, ShapeBuild
<1>. QED BY <1>2, <1>3, <1>4

LEMMA InitShape == Init => Shape
<1> SUFFICES ASSUME Init PROVE Shape
  OBVIOUS
<1>1. FirstId \in Ids /\ FirstId # 0 /\ FirstId <= FirstId
  BY ArchiveAssumption DEF Ids, FirstId
<1>2. /\ made = {FirstId} /\ data = {FirstId}
      /\ ccid = FirstId /\ scid = FirstId /\ last_stored = FirstId
      /\ queue = <<>> /\ archfiles = {} /\ files = {} /\ peers = FirstId
      /\ store = Stored(FirstId, {FirstId}) /\ tmp = None /\ prev = None
      /\ pc = "idle" /\ stopping = FALSE /\ harm = {}
  BY DEF Init
<1>3. store \in Directory /\ tmp \in Directory /\ prev \in Directory
  BY <1>1, <1>2, Directories
<1>4. Listed /\ pc \in Steps \cup {"down"} /\ pc \notin Busy
  BY <1>2 DEF Listed, Steps, Busy
<1>5. queue \in Seq(Ids) /\ Sorted(queue, ccid)
  BY <1>2 DEF Sorted
<1>. QED BY <1>1, <1>2, <1>3, <1>4, <1>5, ShapeParts

LEMMA NextShape == Shape /\ [Next]_vars => Shape'
<1> SUFFICES ASSUME Shape, [Next]_vars PROVE Shape'
  OBVIOUS
<1>1. CASE UNCHANGED vars
  <2>1. UNCHANGED <<made, ccid, scid, data, queue, archfiles, last_stored, peers, store, tmp,
                    prev, files, pc, stopping, harm>>
    BY <1>1 DEF vars, memory, disk
  <2>. QED BY <2>1, ShapeParts, SameFilesShape
<1>2. CASE ArchiveOpen \/ ArchiveKnown \/ ArchiveWrite \/ ArchiveFails
  BY <1>2, ArchiveShape
<1>3. CASE PeersStore \/ AwayWork \/ Offline \/ StoreBegin \/ StoreWrite \/ StoreFails
             \/ StoreSwap \/ StoreInstall \/ StoreInstallFails \/ StoreDone
  BY <1>3, StoreShape
<1>4. CASE Restart \/ Rebuild \/ LoadFull
  BY <1>4, StartShape
<1>. QED
  BY <1>1, <1>2, <1>3, <1>4, CommitShape, RemoveShape, CrashShape DEF Next
-----------------------------------------------------------------------------
(* What is kept, as long as nothing happened that may lose changes.        *)

LEMMA Numbers ==
  ASSUME Shape
  PROVE  /\ ccid \in Nat /\ scid \in Nat /\ last_stored \in Nat /\ peers \in Nat
         /\ store.ccid \in Nat /\ scid <= ccid
         /\ \A i \in made : i \in Nat /\ 0 < i
         /\ \A f \in files : f.first \in Nat /\ f.last \in Nat
<1>1. /\ ccid \in Ids /\ scid \in Ids /\ last_stored \in Ids /\ peers \in Ids
      /\ store \in Directory /\ scid <= ccid /\ made \in SUBSET Ids /\ 0 \notin made
      /\ files \in SUBSET ArchiveFiles
  BY ShapeParts
<1>2. \A i \in Ids : i \in Nat /\ (i # 0 => 0 < i)
  BY ArchiveAssumption DEF Ids
<1>3. store.ccid \in Ids
  BY <1>1 DEF Directory
<1>4. \A f \in files : f.first \in Ids /\ f.last \in Ids
  BY <1>1 DEF ArchiveFiles
<1>. QED BY <1>1, <1>2, <1>3, <1>4

(* The archive files bring back what is announced and not in the store.    *)
LEMMA LoadedFacts ==
  ASSUME Shape, FilesGood, pc = "down", store.state = "full"
  PROVE  Loaded = Made(store.ccid, scid)
<1> DEFINE read == {f \in files : f.last > store.ccid}
<1>1. /\ store.ccid \in Nat /\ scid \in Nat /\ \A i \in made : i \in Nat
      /\ \A f \in files : f.first \in Nat /\ f.last \in Nat
  BY Numbers
<1>2. Kept = files
  BY DEF Kept
<1>3. /\ \A f \in files : Complete(f)
      /\ \A f, g \in files : f = g \/ f.last < g.first \/ g.last < f.first
      /\ \A i \in Made(store.ccid, scid) : \E f \in files : i \in f.ids
  BY <1>2 DEF FilesGood
<1>4. \A f \in files : \A i \in f.ids : i \in made /\ f.first <= i /\ i <= f.last /\ f.last <= scid
  BY <1>3 DEF Complete
<1>5. ASSUME NEW i \in Loaded PROVE i \in Made(store.ccid, scid)
  <2>1. PICK f \in files : i \in f.ids /\ i > store.ccid
    BY DEF Loaded
  <2>2. i \in made /\ i <= f.last /\ f.last <= scid
    BY <1>4, <2>1
  <2>3. i \in Nat /\ f.last \in Nat
    BY <1>1, <2>2
  <2>. QED BY <1>1, <2>1, <2>2, <2>3 DEF Made
<1>6. ASSUME NEW i \in Made(store.ccid, scid) PROVE i \in Loaded
  <2>1. i \in made /\ store.ccid < i /\ i \in Nat
    BY <1>1 DEF Made
  <2>2. PICK f \in files : i \in f.ids
    BY <1>3
  <2>3. f.first <= i /\ i <= f.last /\ f.first \in Nat /\ f.last \in Nat
    BY <1>1, <1>4, <2>2
  <2>4. f \in read
    BY <1>1, <2>1, <2>3
  <2>5. ASSUME NEW g \in read, Before(g, f), NEW j \in g.ids PROVE j < i
    <3>1. g \in files /\ g.first \in Nat /\ g.last \in Nat
      BY <1>1
    <3>2. j \in made /\ g.first <= j /\ j <= g.last /\ j \in Nat
      BY <1>1, <1>4, <3>1
    <3>3. g = f \/ g.last < f.first \/ f.last < g.first
      BY <1>3, <3>1
    <3>4. g.first < f.first \/ (g.first = f.first /\ g.last < f.last)
      BY <2>5 DEF Before
    <3>. QED BY <2>1, <2>3, <3>1, <3>2, <3>3, <3>4
  <2>6. i > store.ccid
    BY <1>1, <2>1
  <2>. QED BY <2>2, <2>4, <2>5, <2>6 DEF Loaded
<1>. QED BY <1>5, <1>6

LEMMA MemoryStays ==
  ASSUME Memory, UNCHANGED <<made, ccid, scid, data, queue>>,
         pc' = "remove" \/ (pc' = "down" /\ stopping') => scid = ccid
  PROVE  Memory'
BY DEF Memory, Made

LEMMA FilesStay ==
  ASSUME Shape, store'.ccid \in Nat, FilesGood, UNCHANGED <<made, scid, files>>,
         pc # "writing", pc' # "writing",
         store'.state = "full" => \/ store.state = "full" /\ store'.ccid = store.ccid
                                  \/ scid <= store'.ccid
  PROVE  FilesGood'
<1>1. Kept = files /\ Kept' = files
  BY DEF Kept
<1>2. \A f : Complete(f)' <=> Complete(f)
  BY DEF Complete
<1>3. ASSUME store'.state = "full", NEW i \in Made(store.ccid, scid)'
      PROVE  \E f \in files : i \in f.ids
  <2>1. i \in made /\ store'.ccid < i /\ i <= scid
    BY DEF Made
  <2>2. i \in Nat /\ scid \in Nat
    BY <2>1, Numbers
  <2>3. store.state = "full" /\ store'.ccid = store.ccid
    BY <1>3, <2>1, <2>2
  <2>4. i \in Made(store.ccid, scid)
    BY <2>1, <2>3 DEF Made
  <2>. QED BY <1>1, <2>3, <2>4 DEF FilesGood
<1>4. /\ \A f \in files : Complete(f)'
      /\ \A f, g \in files : f = g \/ f.last < g.first \/ g.last < f.first
  BY <1>1, <1>2 DEF FilesGood
<1>. QED BY <1>1, <1>3, <1>4 DEF FilesGood

LEMMA SafeParts == Safe <=> Memory /\ FullStore /\ FilesGood
BY DEF Safe

(* The steps of the store, and those that only begin something.            *)
LEMMA StoreSafe ==
  ASSUME Shape, Shape', Safe,
         PeersStore \/ AwayWork \/ Offline \/ StoreBegin \/ StoreWrite \/ StoreFails
           \/ StoreSwap \/ StoreInstall \/ StoreInstallFails \/ StoreDone
  PROVE  Safe'
<1>0. Memory /\ FullStore /\ FilesGood
  BY SafeParts
<1>1. /\ ccid \in Nat /\ scid \in Nat /\ last_stored \in Nat
      /\ store.ccid \in Nat /\ scid <= ccid
      /\ \A i \in made : i \in Nat /\ 0 < i
  BY Numbers
<1>2. CASE PeersStore
  <2>1. UNCHANGED <<made, ccid, scid, data, queue, last_stored, store, tmp, files, pc, stopping,
                    harm>>
    BY <1>2 DEF PeersStore, memory, disk
  <2>2. Memory' /\ FullStore'
    BY <1>0, <2>1 DEF Memory, FullStore, Made, Stored
  <2>3. Kept' = Kept
    BY <2>1 DEF Kept, QueueName, Unsaved, FirstUnsaved
  <2>4. FilesGood'
    BY <1>0, <2>1, <2>3 DEF FilesGood, Complete, Made
  <2>. QED BY <2>2, <2>4 DEF Safe
<1>3. CASE AwayWork \/ Offline
  <2>1. /\ pc = "idle" /\ ToDisk
        /\ UNCHANGED <<made, ccid, scid, data, queue, last_stored, store, tmp, files, harm>>
    BY <1>3 DEF AwayWork, Offline, memory, disk
  <2>2. pc' \in {"remove", "store", "archive"}
        /\ (pc' = "remove" => queue = <<>> \/ scid = ccid)
    BY <2>1, ToDiskFacts
  <2>3. pc' = "remove" => scid = ccid
    BY <1>0, <2>2 DEF Memory
  <2>4. Memory'
    BY <1>0, <2>1, <2>2, <2>3, MemoryStays
  <2>5. FullStore'
    BY <1>0, <2>1, <2>2 DEF FullStore, Made, Between
  <2>6. FilesGood'
    BY <1>0, <1>1, <2>1, <2>2, FilesStay
  <2>. QED BY <2>4, <2>5, <2>6 DEF Safe
<1>4. CASE StoreBegin \/ StoreWrite \/ StoreFails \/ StoreSwap \/ StoreInstall \/ StoreInstallFails \/ StoreDone
  <2>1. /\ UNCHANGED <<made, ccid, scid, data, queue, files, stopping>>
        /\ pc \in {"store", "write", "swap", "install", "clean"}
        /\ pc' \in {"write", "swap", "archive", "install", "clean"}
    BY <1>4 DEF StoreBegin, StoreWrite, StoreFails, StoreSwap, StoreInstall, StoreInstallFails, StoreDone, memory
  <2>2. Memory'
    BY <1>0, <2>1, MemoryStays
  <2>3. /\ Stored(ccid, data).state = "full" /\ Stored(ccid, data).ccid = ccid
        /\ Stored(ccid, data).data = data /\ None.state # "full"
        /\ data = Made(0, ccid)
    BY <1>0 DEF Stored, None, Memory
  <2>4. /\ Made(0, ccid)' = Made(0, ccid) /\ Stored(ccid, data)' = Stored(ccid, data)
        /\ Made(0, store.ccid)' = {i \in made : 0 < i /\ i <= store'.ccid}
    BY <2>1 DEF Made, Stored
  <2>5. ccid > 0
    BY <1>1, <2>1, ShapeParts DEF Busy
  <2>6. store'.ccid \in Nat
    BY Numbers, ShapeParts DEF Shape, TypeOK, Directory, Ids
  <2>7. /\ FullStore'
        /\ store'.state = "full" => \/ store.state = "full" /\ store'.ccid = store.ccid
                                    \/ scid <= store'.ccid
    <3> HIDE DEF Stored, None
    <3>1. CASE StoreBegin \/ StoreWrite \/ StoreFails
      <4>1. /\ store' = store /\ last_stored' = last_stored /\ pc \in {"store", "write", "swap"}
            /\ pc' \in {"write", "swap", "archive"} /\ harm' = harm
            /\ pc' = "swap" => tmp' = Stored(ccid, data)
        BY <3>1 DEF StoreBegin, StoreWrite, StoreFails, memory
      <4>. QED BY <1>0, <2>1, <2>4, <4>1 DEF FullStore, Between, Made
    <3>2. CASE StoreSwap
      <4>1. store' = None /\ pc = "swap" /\ pc' = "install" /\ tmp' = tmp
             /\ last_stored' = last_stored
        BY <3>2 DEF StoreSwap, memory
      <4>2. last_stored <= scid
        <5>1. CASE store.state = "full"
          <6>1. last_stored <= store.ccid /\ store.ccid <= scid
            BY <1>0, <4>1, <5>1 DEF FullStore, Between
          <6>. QED BY <1>1, <6>1
        <5>2. CASE store.state # "full"
          BY <1>0, <4>1, <5>2 DEF FullStore
        <5>. QED BY <5>1, <5>2
      <4>. QED BY <1>0, <2>1, <2>3, <2>4, <4>1, <4>2 DEF FullStore
    <3>3. CASE StoreInstall
      <4>1. store' = tmp /\ pc = "install" /\ pc' = "clean" /\ last_stored' = last_stored
        BY <3>3 DEF StoreInstall, memory
      <4>2. store' = Stored(ccid, data)
        BY <1>0, <4>1 DEF FullStore
      <4>3. last_stored' <= ccid'
        BY <1>0, <2>1, <4>1 DEF FullStore
      <4>. QED BY <1>0, <1>1, <2>1, <2>3, <2>4, <4>1, <4>2, <4>3 DEF FullStore, Between
    <3>4. CASE StoreDone
      <4>1. store' = store /\ pc = "clean" /\ pc' = "archive" /\ last_stored' = ccid
        BY <3>4 DEF StoreDone
      <4>2. store = Stored(ccid, data)
        BY <1>0, <4>1 DEF FullStore
      <4>. QED BY <1>0, <1>1, <2>1, <2>3, <2>4, <4>1, <4>2 DEF FullStore, Between
    <3>5. CASE StoreInstallFails
      <4>1. store' = store /\ pc = "install" /\ pc' = "archive" /\ last_stored' = last_stored
            /\ "store" \in harm'
        BY <3>5 DEF StoreInstallFails, memory
      <4>. QED BY <1>0, <2>1, <2>4, <4>1 DEF FullStore, Between, Made
    <3>. QED BY <1>4, <3>1, <3>2, <3>3, <3>4, <3>5
  <2>8. FilesGood'
    BY <1>0, <2>1, <2>6, <2>7, FilesStay
  <2>. QED BY <2>2, <2>7, <2>8 DEF Safe
<1>. QED BY <1>2, <1>3, <1>4

LEMMA CommitSafe ==
  ASSUME Shape, Shape', Safe, Commit
  PROVE  Safe'
<1>0. Memory /\ FullStore /\ FilesGood
  BY SafeParts
<1>1. /\ ccid \in Nat /\ scid \in Nat /\ last_stored \in Nat
      /\ store.ccid \in Nat /\ scid <= ccid
      /\ \A i \in made : i \in Nat /\ 0 < i
      /\ \A f \in files : f.first \in Nat /\ f.last \in Nat
  BY Numbers
<1>2. PICK id \in Ids : /\ id > ccid /\ (\A i \in made : i > ccid => i >= id)
                        /\ made' = made \cup {id} /\ data' = data \cup {id}
                        /\ ccid' = id /\ queue' = Append(queue, id)
  BY CommitShape
<1>3. /\ UNCHANGED <<scid, last_stored, store, tmp, files, pc, harm>>
      /\ pc = "idle" /\ ccid > 0
  BY DEF Commit, disk
<1>4. id \in Nat /\ 0 < id /\ scid < id /\ id > ccid
  BY <1>1, <1>2, ArchiveAssumption DEF Ids
<1>5. \A i \in made : i <= id <=> i <= ccid \/ i = id
  <2> SUFFICES ASSUME NEW i \in made PROVE i <= id <=> i <= ccid \/ i = id
    OBVIOUS
  <2>1. i \in Nat /\ (i > ccid => i >= id)
    BY <1>1, <1>2
  <2>. QED BY <1>1, <1>4, <2>1
<1>6. Memory'
  <2>1. data' = Made(0, ccid)'
    <3>1. data = {i \in made : 0 < i /\ i <= ccid}
      BY <1>0 DEF Memory, Made
    <3>2. Made(0, ccid)' = {i \in made \cup {id} : 0 < i /\ i <= id}
      BY <1>2 DEF Made
    <3>. QED BY <1>1, <1>2, <1>4, <1>5, <3>1, <3>2
  <2>2. Range(queue') = Made(scid, ccid)'
    <3>1. Range(queue) = {i \in made : scid < i /\ i <= ccid}
      BY <1>0 DEF Memory, Made
    <3>2. Made(scid, ccid)' = {i \in made \cup {id} : scid < i /\ i <= id}
      BY <1>2, <1>3 DEF Made
    <3>3. Range(Append(queue, id)) = Range(queue) \cup {id}
      <4>1. queue \in Seq(Ids) /\ Len(queue) \in Nat
        BY ShapeParts
      <4>2. \A k \in 1 .. Len(queue) : Append(queue, id)[k] = queue[k]
        BY <4>1
      <4>3. Append(queue, id)[Len(queue) + 1] = id
        BY <4>1
      <4>4. DOMAIN queue = 1 .. Len(queue) /\ DOMAIN Append(queue, id) = 1 .. Len(queue) + 1
        BY <4>1
      <4>5. \A k \in 1 .. Len(queue) + 1 : k \in 1 .. Len(queue) \/ k = Len(queue) + 1
        BY <4>1
      <4>6. Range(Append(queue, id)) \subseteq Range(queue) \cup {id}
        BY <4>2, <4>3, <4>4, <4>5 DEF Range
      <4>7. ASSUME NEW x \in Range(queue) \cup {id} PROVE x \in Range(Append(queue, id))
        <5>1. CASE x = id
          <6>1. Len(queue) + 1 \in 1 .. Len(queue) + 1
            BY <4>1
          <6>. QED BY <4>3, <4>4, <5>1, <6>1 DEF Range
        <5>2. CASE x # id
          <6>1. PICK k \in 1 .. Len(queue) : x = queue[k]
            BY <4>4, <5>2 DEF Range
          <6>2. k \in 1 .. Len(queue) + 1
            BY <4>1
          <6>. QED BY <4>2, <4>4, <6>1, <6>2 DEF Range
        <5>. QED BY <5>1, <5>2
      <4>. QED BY <4>6, <4>7
    <3>. QED BY <1>1, <1>2, <1>4, <1>5, <3>1, <3>2, <3>3
  <2>3. queue' # <<>>
    <3>1. queue \in Seq(Ids)
      BY ShapeParts
    <3>. QED BY <1>2, <3>1
  <2>4. pc' = "idle"
    BY <1>3
  <2>. QED BY <2>1, <2>2, <2>3, <2>4 DEF Memory
<1>7. FullStore'
  <2>1. CASE store.state = "full"
    <3>1. /\ store.data = Made(0, store.ccid) /\ store.ccid <= ccid
          /\ last_stored <= store.ccid /\ store.ccid <= scid
      BY <1>0, <1>3, <2>1 DEF FullStore, Between
    <3>2. Made(0, store.ccid)' = Made(0, store.ccid)
      BY <1>1, <1>2, <1>3, <1>4, <3>1 DEF Made
    <3>3. store'.ccid <= ccid' /\ last_stored' <= ccid'
      BY <1>1, <1>2, <1>3, <1>4, <3>1
    <3>. QED BY <1>3, <2>1, <3>1, <3>2, <3>3 DEF FullStore, Between
  <2>2. CASE store.state # "full"
    <3>1. last_stored <= scid /\ "store" \in harm
      BY <1>0, <1>3, <2>2 DEF FullStore
    <3>2. last_stored' <= ccid'
      BY <1>1, <1>2, <1>3, <1>4, <3>1
    <3>. QED BY <1>3, <2>2, <3>1, <3>2 DEF FullStore
  <2>. QED BY <2>1, <2>2
<1>8. FilesGood'
  <2>1. Kept = files /\ Kept' = files
    BY <1>3 DEF Kept
  <2>2. \A f \in files : Complete(f) /\ f.last <= scid
    BY <1>0, <2>1 DEF FilesGood, Complete
  <2>3. ASSUME NEW f \in files PROVE Complete(f)'
    <3>1. f.first \in Nat /\ f.last \in Nat /\ f.last < id
      BY <1>1, <1>4, <2>2
    <3>2. {i \in made \cup {id} : f.first <= i /\ i <= f.last}
            = {i \in made : f.first <= i /\ i <= f.last}
      BY <1>4, <3>1
    <3>. QED BY <1>2, <1>3, <2>2, <3>2 DEF Complete
  <2>4. \A f, g \in files : f = g \/ f.last < g.first \/ g.last < f.first
    BY <1>0, <2>1 DEF FilesGood
  <2>5. ASSUME store.state = "full" PROVE \A i \in Made(store.ccid, scid)' : \E f \in files : i \in f.ids
    <3>1. Made(store.ccid, scid)' = Made(store.ccid, scid)
      BY <1>1, <1>2, <1>3, <1>4 DEF Made
    <3>. QED BY <1>0, <2>1, <2>5, <3>1 DEF FilesGood
  <2>. QED BY <1>3, <2>1, <2>3, <2>4, <2>5 DEF FilesGood
<1>. QED BY <1>6, <1>7, <1>8 DEF Safe

(* The archive file that is written has all that is not yet announced.     *)
LEMMA UnsavedSafe ==
  ASSUME Shape, Memory, pc \in Busy
  PROVE  /\ Range(Unsaved) = {i \in made : QueueName.first <= i /\ i <= QueueName.last}
         /\ Range(Unsaved) = Made(scid, ccid)
         /\ QueueName \in Names /\ QueueName.last = ccid /\ QueueName.first <= ccid
         /\ QueueName.first \in made /\ QueueName.last \in made /\ scid < QueueName.first
         /\ Last(queue) = ccid
<1>0. /\ queue \in Seq(Ids) /\ ccid \in Ids /\ scid \in Ids /\ Sorted(queue, ccid)
      /\ queue # <<>> /\ scid < ccid
  BY ShapeParts
<1>1. /\ FirstUnsaved \in 1 .. Len(queue)
      /\ \A j \in 1 .. FirstUnsaved - 1 : queue[j] <= scid
      /\ QueueName = [first |-> queue[FirstUnsaved], last |-> ccid]
      /\ QueueName \in Names /\ Last(queue) = ccid
  BY <1>0, UnsavedFacts DEF Names
<1>2. ccid \in Nat /\ scid \in Nat /\ \A i \in made : i \in Nat
  BY Numbers
<1>3. \A k \in 1 .. Len(queue) : queue[k] \in Made(scid, ccid)
  BY <1>0 DEF Memory, Range
<1>4. \A k \in 1 .. Len(queue) : queue[k] \in made /\ scid < queue[k] /\ queue[k] <= ccid
                                 /\ queue[k] \in Nat
  BY <1>2, <1>3 DEF Made
<1>5. FirstUnsaved = 1
  <2>1. Len(queue) \in Nat
    BY <1>0
  <2>2. 1 \notin 1 .. FirstUnsaved - 1
    <3> SUFFICES ASSUME 1 \in 1 .. FirstUnsaved - 1 PROVE FALSE
      OBVIOUS
    <3>1. 1 \in 1 .. Len(queue)
      BY <1>1, <2>1
    <3>2. queue[1] <= scid /\ scid < queue[1] /\ queue[1] \in Nat
      BY <1>1, <1>4, <3>1
    <3>. QED BY <1>2, <3>2
  <2>. QED BY <1>1, <2>1, <2>2
<1>6. Unsaved = queue
  BY <1>0, <1>5 DEF Unsaved
<1>7. Range(Unsaved) = Made(scid, ccid)
  BY <1>6 DEF Memory
<1>8. QueueName.first = queue[1] /\ QueueName.last = ccid /\ 1 \in 1 .. Len(queue)
  BY <1>1, <1>5
<1>9. ccid \in made
  <2>1. Len(queue) \in 1 .. Len(queue) /\ queue[Len(queue)] = ccid
    BY <1>0 DEF Sorted
  <2>. QED BY <1>4, <2>1
<1>10. \A k \in 1 .. Len(queue) : queue[1] <= queue[k]
  <2> SUFFICES ASSUME NEW k \in 1 .. Len(queue) PROVE queue[1] <= queue[k]
    OBVIOUS
  <2>1. CASE k = 1
    BY <1>4, <2>1
  <2>2. CASE k # 1
    <3>1. 1 \in 1 .. k - 1
      BY <2>2
    <3>2. queue[1] < queue[k]
      BY <1>0, <3>1 DEF Sorted
    <3>. QED BY <1>4, <1>8, <3>2
  <2>. QED BY <2>1, <2>2
<1>11. Made(scid, ccid) = {i \in made : queue[1] <= i /\ i <= ccid}
  <2>1. ASSUME NEW i \in Made(scid, ccid) PROVE queue[1] <= i /\ i \in made /\ i <= ccid
    <3>1. i \in Range(queue)
      BY DEF Memory
    <3>2. PICK k \in 1 .. Len(queue) : i = queue[k]
      BY <1>0, <3>1 DEF Range
    <3>. QED BY <1>10, <3>2 DEF Made
  <2>2. ASSUME NEW i \in made, queue[1] <= i, i <= ccid PROVE i \in Made(scid, ccid)
    <3>1. scid < queue[1] /\ queue[1] \in Nat /\ i \in Nat
      BY <1>2, <1>4, <1>8
    <3>2. scid < i
      BY <1>2, <2>2, <3>1
    <3>. QED BY <2>2, <3>2 DEF Made
  <2>. QED BY <2>1, <2>2
<1>. QED BY <1>1, <1>4, <1>7, <1>8, <1>9, <1>11

LEMMA ArchiveSafe ==
  ASSUME Shape, Shape', Safe, "loss" \notin harm, ArchiveOpen \/ ArchiveKnown \/ ArchiveWrite
  PROVE  Safe'
<1>0. Memory /\ FullStore /\ FilesGood
  BY SafeParts
<1>1. /\ ccid \in Nat /\ scid \in Nat /\ last_stored \in Nat
      /\ store.ccid \in Nat /\ scid <= ccid
      /\ \A i \in made : i \in Nat /\ 0 < i
      /\ \A f \in files : f.first \in Nat /\ f.last \in Nat
  BY Numbers
<1>2. pc \in {"archive", "writing"} /\ pc \in Busy
  BY DEF ArchiveOpen, ArchiveKnown, ArchiveWrite, Busy
<1>3. /\ Range(Unsaved) = {i \in made : QueueName.first <= i /\ i <= QueueName.last}
      /\ Range(Unsaved) = Made(scid, ccid)
      /\ QueueName \in Names /\ QueueName.last = ccid /\ QueueName.first <= ccid
      /\ QueueName.first \in made /\ QueueName.last \in made /\ scid < QueueName.first
      /\ Last(queue) = ccid
  BY <1>0, <1>2, UnsavedSafe
<1>4. scid < ccid /\ QueueName.first \in Nat
  BY <1>1, <1>3
<1>5. \A f \in Kept : Complete(f) /\ f \in files
  BY <1>0 DEF FilesGood, Kept
<1>6. \A f \in Kept : f.last \in Nat /\ f.last <= scid /\ Name(f) # QueueName
  <2> SUFFICES ASSUME NEW f \in Kept PROVE f.last \in Nat /\ f.last <= scid /\ Name(f) # QueueName
    OBVIOUS
  <2>1. f.last \in Nat /\ f.last <= scid
    BY <1>1, <1>5 DEF Complete
  <2>2. Name(f).last = f.last
    BY DEF Name
  <2>. QED BY <1>1, <1>3, <1>4, <2>1, <2>2
<1>7. /\ UNCHANGED <<made, ccid, data, last_stored, store, tmp, stopping, harm>>
  BY DEF ArchiveOpen, ArchiveKnown, ArchiveWrite, memory, disk
<1>8. CASE ArchiveOpen
  <2>1. /\ files' = {f \in files : Name(f) # QueueName} \cup {File(QueueName, {}, TRUE)}
        /\ pc = "archive" /\ pc' = "writing" /\ UNCHANGED <<scid, queue>>
    BY <1>8 DEF ArchiveOpen, memory
  <2>2. QueueName' = QueueName
    BY <2>1 DEF QueueName, Unsaved, FirstUnsaved
  <2>3. Name(File(QueueName, {}, TRUE)) = QueueName
    BY <1>3, FileMade
  <2>4. Kept' = {f \in files' : Name(f) # QueueName}
    BY <2>1, <2>2 DEF Kept
  <2>5. Kept = files
    BY <2>1 DEF Kept
  <2>6. Kept' = Kept
    BY <1>6, <2>1, <2>3, <2>4, <2>5
  <2>7. FilesGood'
    BY <1>0, <1>7, <2>1, <2>6 DEF FilesGood, Complete, Made
  <2>8. Memory'
    BY <1>0, <1>7, <2>1, MemoryStays
  <2>9. FullStore'
    BY <1>0, <1>7, <2>1 DEF FullStore, Made, Between
  <2>. QED BY <2>7, <2>8, <2>9 DEF Safe
<1>9. CASE ArchiveKnown
  <2>1. QueueName \in archfiles /\ pc = "archive"
    BY <1>9 DEF ArchiveKnown
  <2>2. PICK f \in files : QueueName = Name(f)
    BY <2>1, ShapeParts DEF Listed
  <2>3. f \in Kept
    BY <2>1 DEF Kept
  <2>. QED BY <1>6, <2>2, <2>3
<1>10. CASE ArchiveWrite
  <2>0. PICK new : new = File(QueueName, Range(Unsaved), FALSE)
    OBVIOUS
  <2>1. /\ files' = {f \in files : Name(f) # QueueName} \cup {new}
        /\ queue' = <<>> /\ scid' = ccid /\ pc = "writing" /\ pc' = "remove"
    BY <1>3, <1>10, <2>0 DEF ArchiveWrite
  <2>2. Kept' = Kept \cup {new}
    BY <2>1 DEF Kept
  <2>3. /\ new.first = QueueName.first /\ new.last = QueueName.last
        /\ new.ids = Range(Unsaved) /\ new.torn = FALSE
    BY <2>0 DEF File
  <2>4. Complete(new)'
    <3>1. new.ids = {i \in made : new.first <= i /\ i <= new.last}
      BY <1>3, <2>3
    <3>2. new.last <= ccid /\ new.first <= new.last
      BY <1>1, <1>3, <2>3
    <3>. QED BY <1>3, <1>7, <2>1, <2>3, <3>1, <3>2 DEF Complete
  <2>5. \A f \in Kept : Complete(f)' /\ f.last < new.first
    <3> SUFFICES ASSUME NEW f \in Kept PROVE Complete(f)' /\ f.last < new.first
      OBVIOUS
    <3>1. f.last <= scid' /\ f.last < new.first
      BY <1>1, <1>3, <1>4, <1>6, <2>1, <2>3
    <3>2. Complete(f)
      BY <1>5
    <3>. QED BY <1>7, <3>1, <3>2 DEF Complete
  <2>6. ASSUME NEW f \in Kept', NEW g \in Kept' PROVE f = g \/ f.last < g.first \/ g.last < f.first
    BY <1>0, <2>2, <2>5 DEF FilesGood
  <2>7. ASSUME store.state = "full", NEW i \in Made(store.ccid, scid)'
        PROVE  \E f \in Kept' : i \in f.ids
    <3>1. i \in made /\ store.ccid < i /\ i <= ccid /\ i \in Nat
      BY <1>1, <1>7, <2>1 DEF Made
    <3>2. CASE i <= scid
      <4>1. i \in Made(store.ccid, scid)
        BY <3>1, <3>2 DEF Made
      <4>. QED BY <1>0, <2>2, <2>7, <4>1 DEF FilesGood
    <3>3. CASE scid < i
      <4>1. i \in new.ids
        BY <1>3, <2>3, <3>1, <3>3 DEF Made
      <4>. QED BY <2>2, <4>1
    <3>. QED BY <1>1, <3>1, <3>2, <3>3
  <2>8. FilesGood'
    <3>1. \A f \in Kept' : Complete(f)'
      BY <2>2, <2>4, <2>5
    <3>. QED BY <1>7, <2>6, <2>7, <3>1 DEF FilesGood
  <2>9. Memory'
    <3>1. data' = Made(0, ccid)' /\ scid' = ccid'
      BY <1>0, <1>7, <2>1 DEF Memory, Made
    <3>2. Made(scid, ccid)' = {}
      BY <1>1, <1>7, <2>1 DEF Made
    <3>3. Range(queue') = {}
      BY <2>1 DEF Range
    <3>. QED BY <3>1, <3>2, <3>3 DEF Memory
  <2>10. FullStore'
    BY <1>0, <1>1, <1>7, <2>1 DEF FullStore, Made, Between
  <2>. QED BY <2>8, <2>9, <2>10 DEF Safe
<1>. QED BY <1>8, <1>9, <1>10

(* Only files that the store makes superfluous are removed.                *)
LEMMA RemoveSafe ==
  ASSUME Shape, Shape', Safe, ArchiveRemove
  PROVE  Safe'
<1>0. Memory /\ FullStore /\ FilesGood
  BY SafeParts
<1>1. /\ scid \in Nat /\ last_stored \in Nat /\ peers \in Nat /\ store.ccid \in Nat
      /\ \A f \in files : f.first \in Nat /\ f.last \in Nat
      /\ \A i \in made : i \in Nat
  BY Numbers
<1>2. /\ files' = {f \in files : f.last > Removable \/ Name(f) \notin archfiles}
      /\ pc = "remove" /\ pc' = IF stopping THEN "down" ELSE "idle"
      /\ UNCHANGED <<made, ccid, scid, data, queue, last_stored, store, tmp, stopping, harm>>
  BY DEF ArchiveRemove, RemoveFiles
<1>3. Removable \in Nat /\ Removable <= last_stored
  <2> DEFINE S == {last_stored, scid, peers}
  <2>1. S \in SUBSET Nat /\ S # {} /\ last_stored \in S
    BY <1>1
  <2> HIDE DEF S
  <2>2. Min(S) \in S /\ \A y \in S : Min(S) <= y
    BY <2>1, MinExists
  <2>. QED BY <2>1, <2>2 DEF Removable, S
<1>4. Kept = files /\ Kept' = files'
  BY <1>2 DEF Kept
<1>5. Memory'
  BY <1>0, <1>2, MemoryStays DEF Memory
<1>6. FullStore'
  BY <1>0, <1>2 DEF FullStore, Made, Between
<1>7. ASSUME store.state = "full", NEW i \in Made(store.ccid, scid)'
      PROVE  \E f \in files' : i \in f.ids
  <2>1. i \in Made(store.ccid, scid) /\ store.ccid < i /\ i \in Nat
    BY <1>1, <1>2 DEF Made
  <2>2. PICK f \in files : i \in f.ids
    BY <1>0, <1>4, <1>7, <2>1 DEF FilesGood
  <2>3. i <= f.last /\ f.last \in Nat
    BY <1>0, <1>1, <1>4, <2>2 DEF FilesGood, Complete
  <2>4. last_stored <= store.ccid
    BY <1>0, <1>2, <1>7 DEF FullStore
  <2>5. f.last > Removable
    BY <1>1, <1>3, <2>1, <2>3, <2>4
  <2>. QED BY <1>2, <2>2, <2>5
<1>8. \A f \in files' : f \in files /\ (Complete(f) => Complete(f)')
  BY <1>2 DEF Complete
<1>9. FilesGood'
  BY <1>0, <1>2, <1>4, <1>7, <1>8 DEF FilesGood
<1>. QED BY <1>5, <1>6, <1>9 DEF Safe

LEMMA CrashSafe ==
  ASSUME Shape, Shape', Safe, Crash, "loss" \notin harm'
  PROVE  Safe'
<1>0. Memory /\ FullStore /\ FilesGood
  BY SafeParts
<1>1. /\ ~Unsafe /\ stopping' = FALSE
      /\ UNCHANGED <<made, ccid, scid, data, queue, last_stored, store, tmp>>
  BY DEF Crash, memory
<1>2. pc' = "down" /\ pc # "writing" /\ files' = files /\ pc # "down"
  BY <1>1, CrashShape DEF Unsafe, Steps
<1>6. store.ccid <= scid
  BY <1>1, Numbers DEF Unsafe
<1>3. Memory'
  BY <1>0, <1>1, <1>2, MemoryStays
<1>4. FullStore'
  BY <1>0, <1>1, <1>2, <1>6 DEF FullStore, Made
<1>5. FilesGood'
  BY <1>0, <1>1, <1>2, FilesStay, Numbers
<1>. QED BY <1>3, <1>4, <1>5 DEF Safe

LEMMA RestartSafe ==
  ASSUME Shape, Shape', Safe, Restart
  PROVE  Safe'
<1> DEFINE m == Max({store.ccid} \cup Loaded)
<1>0. Memory /\ FullStore /\ FilesGood
  BY SafeParts
<1>1. /\ ccid \in Nat /\ scid \in Nat /\ store.ccid \in Nat
      /\ \A f \in files : f.first \in Nat /\ f.last \in Nat
      /\ \A i \in made : i \in Nat /\ 0 < i
  BY Numbers
<1>2. /\ pc = "down" /\ store.state = "full" /\ pc' = "idle"
      /\ data' = store.data \cup Loaded /\ ccid' = m /\ scid' = m /\ last_stored' = store.ccid
      /\ queue' = <<>> /\ UNCHANGED <<made, store, tmp, files>>
  BY DEF Restart, Recovered, disk
<1>3. Loaded = Made(store.ccid, scid)
  BY <1>0, <1>2, LoadedFacts
<1>4. store.data = Made(0, store.ccid) /\ store.ccid <= scid
  BY <1>0, <1>2 DEF FullStore, Between
<1>5. m \in {store.ccid} \cup Loaded /\ \A i \in {store.ccid} \cup Loaded : i <= m
  BY LoadedIds, ShapeParts
<1> HIDE DEF m
<1>6. m \in Nat /\ store.ccid <= m /\ m <= scid
  BY <1>1, <1>3, <1>4, <1>5 DEF Made
<1>7. \A i \in made : i <= scid <=> i <= m
  <2> SUFFICES ASSUME NEW i \in made PROVE i <= scid <=> i <= m
    OBVIOUS
  <2>1. i \in Nat
    BY <1>1
  <2>2. ASSUME i <= scid, store.ccid < i PROVE i <= m
    BY <1>3, <1>5, <2>2 DEF Made
  <2>. QED BY <1>1, <1>6, <2>1, <2>2
<1>8. Memory'
  <2>1. data' = {i \in made : 0 < i /\ i <= m}
    <3>1. \A i \in made : i <= store.ccid \/ (store.ccid < i /\ i <= scid) <=> i <= m
      BY <1>1, <1>4, <1>7
    <3>. QED BY <1>1, <1>2, <1>3, <1>4, <3>1 DEF Made
  <2>2. data' = Made(0, ccid)'
    BY <1>2, <2>1 DEF Made
  <2>3. Made(scid, ccid)' = {}
    BY <1>1, <1>2, <1>6 DEF Made
  <2>4. Range(queue') = {} /\ scid' = ccid'
    BY <1>2 DEF Range
  <2>. QED BY <2>2, <2>3, <2>4 DEF Memory
<1>9. FullStore'
  <2>1. Made(0, store.ccid)' = Made(0, store.ccid)
    BY <1>2 DEF Made
  <2>2. store.ccid <= store.ccid
    BY <1>1
  <2>. QED BY <1>2, <1>4, <1>6, <2>1, <2>2 DEF FullStore
<1>10. FilesGood'
  <2>1. Kept = files /\ Kept' = files
    BY <1>2 DEF Kept
  <2>2. ASSUME NEW f \in files PROVE Complete(f)'
    <3>1. Complete(f)
      BY <1>0, <2>1 DEF FilesGood
    <3>2. f.last <= m
      BY <1>7, <3>1 DEF Complete
    <3>. QED BY <1>2, <3>1, <3>2 DEF Complete
  <2>3. ASSUME NEW i \in Made(store.ccid, scid)' PROVE \E f \in files : i \in f.ids
    <3>1. i \in Made(store.ccid, scid)
      BY <1>2, <1>7 DEF Made
    <3>. QED BY <1>0, <1>2, <2>1, <3>1 DEF FilesGood
  <2>4. \A f, g \in files : f = g \/ f.last < g.first \/ g.last < f.first
    BY <1>0, <2>1 DEF FilesGood
  <2>. QED BY <2>1, <2>2, <2>3, <2>4 DEF FilesGood
<1>. QED BY <1>8, <1>9, <1>10 DEF Safe

LEMMA StartSafe ==
  ASSUME Shape, Shape', Safe, Rebuild \/ LoadFull
  PROVE  Safe'
<1>0. Memory /\ FullStore /\ FilesGood
  BY SafeParts
<1>1. /\ ccid \in Nat /\ scid \in Nat /\ scid <= ccid
      /\ \A f \in files : f.first \in Nat /\ f.last \in Nat
      /\ \A i \in made : i \in Nat /\ 0 < i
  BY Numbers
<1>2. CASE Rebuild
  <2>1. /\ data' = {} /\ ccid' = 0 /\ scid' = 0 /\ last_stored' = 0
        /\ queue' = <<>> /\ store' = Partial /\ files' = {} /\ pc' = "idle" /\ made' = made
    BY <1>2 DEF Rebuild
  <2>2. Partial.state = "partial"
    BY DEF Partial, None
  <2>3. Made(0, ccid)' = {} /\ Made(scid, ccid)' = {} /\ Range(queue') = {}
    BY <1>1, <2>1 DEF Made, Range
  <2>4. Memory'
    BY <2>1, <2>3 DEF Memory
  <2>5. FullStore'
    BY <2>1, <2>2 DEF FullStore
  <2>6. FilesGood'
    BY <2>1, <2>2 DEF FilesGood, Kept
  <2>. QED BY <2>4, <2>5, <2>6 DEF Safe
<1>3. CASE LoadFull
  <2>1. PICK id \in made :
          /\ data' = {i \in made : i <= id}
          /\ store' = Stored(id, {i \in made : i <= id})
          /\ ccid' = id /\ scid' = id /\ last_stored' = id
    BY <1>3 DEF LoadFull
  <2>2. /\ pc = "idle" /\ pc' = "idle" /\ ccid = 0 /\ UNCHANGED <<made, queue, files>>
    BY <1>3 DEF LoadFull
  <2>3. store'.state = "full" /\ store'.ccid = id /\ store'.data = {i \in made : i <= id}
    BY <2>1 DEF Stored
  <2>4. id \in Nat /\ id <= id /\ scid <= id
    BY <1>1, <2>2
  <2>5. {i \in made : i <= id} = {i \in made : 0 < i /\ i <= id}
    BY <1>1
  <2>6. Memory'
    <3>1. data' = Made(0, ccid)'
      BY <2>1, <2>2, <2>5 DEF Made
    <3>2. Made(scid, ccid)' = {}
      <4>1. Made(scid, ccid)' = {i \in made : id < i /\ i <= id}
        BY <2>1, <2>2 DEF Made
      <4>2. \A i \in Nat : ~(id < i /\ i <= id)
        BY <2>4
      <4>. QED BY <1>1, <4>1, <4>2
    <3>3. Range(queue') = {}
      <4>1. Range(queue) = Made(scid, ccid)
        BY <1>0 DEF Memory
      <4>2. Made(scid, ccid) = {}
        BY <1>1, <2>2 DEF Made
      <4>. QED BY <2>2, <4>1, <4>2
    <3>. QED BY <2>1, <2>2, <3>1, <3>2, <3>3 DEF Memory
  <2>7. FullStore'
    <3>1. store'.data = Made(0, store.ccid)'
      BY <2>2, <2>3, <2>5 DEF Made
    <3>. QED BY <2>1, <2>2, <2>3, <2>4, <3>1 DEF FullStore
  <2>8. FilesGood'
    <3>1. Kept = files /\ Kept' = files
      BY <2>2 DEF Kept
    <3>2. ASSUME NEW f \in files PROVE Complete(f)'
      <4>1. Complete(f)
        BY <1>0, <3>1 DEF FilesGood
      <4>2. f.last <= id
        BY <1>1, <2>4, <4>1 DEF Complete
      <4>. QED BY <2>1, <2>2, <4>1, <4>2 DEF Complete
    <3>3. Made(store.ccid, scid)' = {}
      <4>1. Made(store.ccid, scid)' = {i \in made : id < i /\ i <= id}
        BY <2>1, <2>2, <2>3 DEF Made
      <4>2. \A i \in Nat : ~(id < i /\ i <= id)
        BY <2>4
      <4>. QED BY <1>1, <4>1, <4>2
    <3>4. \A f, g \in files : f = g \/ f.last < g.first \/ g.last < f.first
      BY <1>0, <3>1 DEF FilesGood
    <3>. QED BY <3>1, <3>2, <3>3, <3>4 DEF FilesGood
  <2>. QED BY <2>6, <2>7, <2>8 DEF Safe
<1>. QED BY <1>2, <1>3
-----------------------------------------------------------------------------
LEMMA InitAInv == Init => AInv
<1> SUFFICES ASSUME Init PROVE AInv
  OBVIOUS
<1>1. Shape
  BY InitShape
<1>2. /\ made = {FirstId} /\ data = {FirstId}
      /\ ccid = FirstId /\ scid = FirstId /\ last_stored = FirstId
      /\ queue = <<>> /\ files = {} /\ store = Stored(FirstId, {FirstId}) /\ pc = "idle"
  BY DEF Init
<1>3. Made(0, FirstId) = {FirstId} /\ Made(FirstId, FirstId) = {} /\ FirstId <= FirstId
  BY <1>2 DEF Made, FirstId
<1>4. Memory
  <2>1. Range(queue) = {}
    BY <1>2 DEF Range
  <2>. QED BY <1>2, <1>3, <2>1 DEF Memory
<1>5. FullStore
  <2>1. store.state = "full" /\ store.ccid = FirstId /\ store.data = {FirstId}
    BY <1>2 DEF Stored
  <2>. QED BY <1>2, <1>3, <2>1 DEF FullStore
<1>6. FilesGood
  <2>1. Kept = {} /\ store.ccid = FirstId
    BY <1>2 DEF Kept, Stored
  <2>. QED BY <1>2, <1>3, <2>1 DEF FilesGood
<1>. QED BY <1>1, <1>4, <1>5, <1>6 DEF AInv, Safe

LEMMA NextAInv == AInv /\ [Next]_vars => AInv'
<1> SUFFICES ASSUME AInv, [Next]_vars PROVE AInv'
  OBVIOUS
<1>1. Shape /\ Shape'
  BY NextShape DEF AInv
<1> SUFFICES ASSUME "loss" \notin harm' PROVE Safe'
  BY <1>1 DEF AInv
<1>2. "loss" \notin harm
  BY DEF Next, Commit, PeersStore, AwayWork, Offline, StoreBegin, StoreWrite, StoreFails,
         StoreSwap, StoreInstall, StoreInstallFails, StoreDone, ArchiveOpen, ArchiveKnown, ArchiveWrite,
         ArchiveFails, ArchiveRemove, Crash, Restart, Rebuild, LoadFull, vars
<1>3. Safe
  BY <1>2 DEF AInv
<1>4. CASE UNCHANGED vars
  <2>1. UNCHANGED <<made, ccid, scid, data, queue, last_stored, store, tmp, files, pc, stopping,
                    harm>>
    BY <1>4 DEF vars, memory, disk
  <2>2. Kept' = Kept
    BY <2>1 DEF Kept, QueueName, Unsaved, FirstUnsaved
  <2>3. Memory' /\ FullStore'
    BY <1>3, <2>1 DEF Safe, Memory, FullStore, Made, Stored
  <2>4. FilesGood'
    BY <1>3, <2>1, <2>2 DEF Safe, FilesGood, Complete, Made
  <2>. QED BY <2>3, <2>4 DEF Safe
<1>5. CASE PeersStore \/ AwayWork \/ Offline \/ StoreBegin \/ StoreWrite \/ StoreFails
             \/ StoreSwap \/ StoreInstall \/ StoreInstallFails \/ StoreDone
  BY <1>1, <1>3, <1>5, StoreSafe
<1>6. CASE ArchiveOpen \/ ArchiveKnown \/ ArchiveWrite
  BY <1>1, <1>2, <1>3, <1>6, ArchiveSafe
<1>7. CASE Rebuild \/ LoadFull
  BY <1>1, <1>3, <1>7, StartSafe
<1>8. ~ArchiveFails
  BY DEF ArchiveFails
<1>. QED
  BY <1>1, <1>3, <1>4, <1>5, <1>6, <1>7, <1>8, CommitSafe, RemoveSafe, CrashSafe, RestartSafe
     DEF Next

LEMMA AInvHolds == Spec => []AInv
<1>1. Init => AInv
  BY InitAInv
<1>2. AInv /\ [Next]_vars => AInv'
  BY NextAInv
<1>. QED BY <1>1, <1>2, PTL DEF Spec

(* The state of the node and its disk has its types, whatever fails.       *)
THEOREM ArchiveTypeCorrect == Spec => []TypeOK
<1>1. AInv => TypeOK
  BY DEF AInv, Shape
<1>. QED BY <1>1, AInvHolds, PTL

(* The archive queue goes up to the last committed change, and every file  *)
(* on the list is on disk, whatever fails but fclose: any other write that *)
(* fails takes its file away before it is listed (archive__to_disk), and a *)
(* removed file is taken off the list (archive__remove_files).             *)
THEOREM ArchiveConsistentHolds == Spec => []ArchiveConsistent
<1>1. AInv => ArchiveConsistent
  BY DEF AInv, Shape, Sorted, Listed, ArchiveConsistent
<1>. QED BY <1>1, AInvHolds, PTL

(* What a restart brings back, before changes may be lost: exactly what    *)
(* was announced.                                                          *)
LEMMA RecoveredFacts ==
  ASSUME AInv, "loss" \notin harm, pc = "down", store.state = "full"
  PROVE  Recovered = Made(0, scid)
<1>1. Shape /\ FullStore /\ FilesGood
  BY DEF AInv, Safe
<1>2. Loaded = Made(store.ccid, scid)
  BY <1>1, LoadedFacts
<1>3. store.data = Made(0, store.ccid) /\ store.ccid <= scid
  BY <1>1 DEF FullStore, Between
<1>4. store.ccid \in Nat /\ scid \in Nat /\ \A i \in made : i \in Nat
  BY <1>1, Numbers
<1>. QED BY <1>2, <1>3, <1>4 DEF Recovered, Made

(* What a node announced as stored it has after a restart: archive files   *)
(* are removed only behind the full store (archive__remove_files), and the *)
(* stored id goes up only when the file is complete (ti_archive_to_disk).  *)
THEOREM AnnouncedIsSafeHolds == Spec => []AnnouncedIsSafe
<1>1. AInv => AnnouncedIsSafe
  <2> SUFFICES ASSUME AInv, "loss" \notin harm, pc = "down", store.state = "full",
                      NEW i \in made, i <= scid
               PROVE  i \in Recovered
    BY DEF AnnouncedIsSafe
  <2>1. Recovered = Made(0, scid)
    BY RecoveredFacts
  <2>2. 0 < i
    BY Numbers DEF AInv
  <2>. QED BY <2>1, <2>2 DEF Made
<1>. QED BY <1>1, AInvHolds, PTL

(* A restart never brings back a change without the ones before it:        *)
(* archive files hold all changes between their first and their last id.   *)
THEOREM RecoversNoHoleHolds == Spec => []RecoversNoHole
<1>1. AInv => RecoversNoHole
  <2> SUFFICES ASSUME AInv, "loss" \notin harm, pc = "down", NEW i \in made, NEW j \in made,
                      i < j, j \in Recovered
               PROVE  i \in Recovered
    BY DEF RecoversNoHole
  <2>1. store.state = "full"
    BY DEF Recovered
  <2>2. Recovered = Made(0, scid)
    BY <2>1, RecoveredFacts
  <2>3. i \in Nat /\ j \in Nat /\ 0 < i /\ scid \in Nat
    BY Numbers DEF AInv
  <2>. QED BY <2>2, <2>3 DEF Made
<1>. QED BY <1>1, AInvHolds, PTL

(* A node that was stopped comes back with every change it had committed:  *)
(* ti_offline ends only after what was in memory is announced as stored,   *)
(* and a store that fails leaves the one before in its place, unless it is *)
(* the second rename of ti_store_store that fails.                         *)
THEOREM StopLosesNothingHolds == Spec => []StopLosesNothing
<1>1. AInv => StopLosesNothing
  <2> SUFFICES ASSUME AInv, "loss" \notin harm, "store" \notin harm, pc = "down", stopping, NEW i \in made, i <= ccid
               PROVE  i \in Recovered
    BY DEF StopLosesNothing
  <2>1. Memory /\ FullStore
    BY DEF AInv, Safe
  <2>2. i \in Nat /\ 0 < i /\ ccid \in Nat
    BY Numbers DEF AInv
  <2>3. store.state = "full" /\ scid = ccid
    BY <2>1, <2>2 DEF FullStore, Memory
  <2>4. Recovered = Made(0, scid)
    BY <2>3, RecoveredFacts
  <2>. QED BY <2>2, <2>3, <2>4 DEF Made
<1>. QED BY <1>1, AInvHolds, PTL
-----------------------------------------------------------------------------
(* What other nodes can get from this one.                                 *)

(* All files are on the list, and from the first change in any of them,    *)
(* and behind the last full store, the files have all that is announced.   *)
InFiles(i) == \E f \in Kept : i \in f.ids

Serving ==
  /\ pc # "down" => \A f \in Kept : Name(f) \in archfiles
  /\ \A f \in Kept : \A i \in Made(0, scid) : f.first <= i => InFiles(i)
  /\ pc # "down" => \A i \in Made(last_stored, scid) : InFiles(i)

LEMMA ServingStays ==
  ASSUME Shape, Safe, Serving, Kept' = Kept,
         pc # "down" \/ pc' = "down", UNCHANGED <<scid, archfiles>>,
         last_stored' = last_stored \/ scid <= last_stored',
         \A i \in made' : i \in made \/ scid < i,
         \A i \in made' : i \in Nat, last_stored' \in Nat
  PROVE  Serving'
<1>1. scid \in Nat /\ last_stored \in Nat
  BY Numbers
<1>2. \A i : InFiles(i)' <=> InFiles(i)
  BY DEF InFiles
<1>3. ASSUME NEW i \in Made(0, scid)' PROVE i \in Made(0, scid)
  BY <1>1, <1>3 DEF Made
<1>4. ASSUME NEW i \in Made(last_stored, scid)' PROVE i \in Made(last_stored, scid)
  <2>1. i \in made' /\ last_stored' < i /\ i <= scid /\ i \in Nat
    BY <1>4 DEF Made
  <2>2. last_stored' = last_stored /\ i \in made
    BY <1>1, <2>1
  <2>. QED BY <2>1, <2>2 DEF Made
<1>5. pc' # "down" => \A f \in Kept' : Name(f) \in archfiles'
  BY DEF Serving
<1>6. \A f \in Kept' : \A i \in Made(0, scid)' : f.first <= i => InFiles(i)'
  BY <1>2, <1>3 DEF Serving
<1>7. pc' # "down" => \A i \in Made(last_stored, scid)' : InFiles(i)'
  BY <1>2, <1>4 DEF Serving
<1>. QED BY <1>5, <1>6, <1>7 DEF Serving

LEMMA StoreServing ==
  ASSUME Shape, Shape', Safe, Serving,
         PeersStore \/ AwayWork \/ Offline \/ StoreBegin \/ StoreWrite \/ StoreFails
           \/ StoreSwap \/ StoreInstall \/ StoreInstallFails \/ StoreDone
  PROVE  Serving'
<1>1. /\ ccid \in Nat /\ scid \in Nat /\ last_stored \in Nat /\ scid <= ccid
      /\ \A i \in made : i \in Nat
  BY Numbers
<1>2. /\ UNCHANGED <<made, scid, archfiles, queue, files>> /\ (pc # "down" \/ pc' = "down")
      /\ pc' = "writing" <=> pc = "writing"
      /\ last_stored' = last_stored \/ last_stored' = ccid
  <2>1. CASE PeersStore
    BY <2>1 DEF PeersStore, memory, disk
  <2>2. CASE AwayWork \/ Offline
    <3>1. pc = "idle" /\ ToDisk /\ UNCHANGED <<made, memory, disk>>
      BY <2>2 DEF AwayWork, Offline
    <3>2. pc' \in {"remove", "store", "archive"}
      BY <3>1, ToDiskFacts
    <3>. QED BY <3>1, <3>2 DEF memory, disk
  <2>3. CASE StoreBegin \/ StoreWrite \/ StoreFails \/ StoreSwap \/ StoreInstall \/ StoreInstallFails \/ StoreDone
    BY <2>3 DEF StoreBegin, StoreWrite, StoreFails, StoreSwap, StoreInstall, StoreInstallFails, StoreDone, memory
  <2>. QED BY <2>1, <2>2, <2>3
<1>3. Kept' = Kept
  BY <1>2 DEF Kept, QueueName, Unsaved, FirstUnsaved
<1>. QED BY <1>1, <1>2, <1>3, ServingStays

LEMMA CommitServing ==
  ASSUME Shape, Shape', Safe, Serving, Commit
  PROVE  Serving'
<1>1. /\ ccid \in Nat /\ scid \in Nat /\ last_stored \in Nat /\ scid <= ccid
      /\ \A i \in made : i \in Nat
  BY Numbers
<1>2. PICK id \in Ids : id > ccid /\ made' = made \cup {id}
  BY CommitShape
<1>3. UNCHANGED <<scid, last_stored, archfiles, files, pc>> /\ pc = "idle"
  BY DEF Commit, disk
<1>4. id \in Nat /\ scid < id
  BY <1>1, <1>2, ArchiveAssumption DEF Ids
<1>5. Kept' = Kept
  BY <1>3 DEF Kept
<1>. QED BY <1>1, <1>2, <1>3, <1>4, <1>5, ServingStays

(* The new file has all that was not announced yet.                        *)
LEMMA ArchiveServing ==
  ASSUME Shape, Shape', Safe, Serving, "loss" \notin harm, ArchiveOpen \/ ArchiveKnown \/ ArchiveWrite
  PROVE  Serving'
<1>0. Memory /\ FullStore /\ FilesGood
  BY SafeParts
<1>1. /\ ccid \in Nat /\ scid \in Nat /\ last_stored \in Nat /\ scid <= ccid
      /\ \A i \in made : i \in Nat
  BY Numbers
<1>2. pc \in {"archive", "writing"} /\ pc \in Busy
  BY DEF ArchiveOpen, ArchiveKnown, ArchiveWrite, Busy
<1>3. /\ Range(Unsaved) = {i \in made : QueueName.first <= i /\ i <= QueueName.last}
      /\ Range(Unsaved) = Made(scid, ccid)
      /\ QueueName \in Names /\ QueueName.last = ccid /\ QueueName.first \in made
      /\ Last(queue) = ccid
  BY <1>0, <1>2, UnsavedSafe
<1>4. \A f \in Kept : f.last <= scid /\ Name(f) # QueueName
  <2> SUFFICES ASSUME NEW f \in Kept PROVE f.last <= scid /\ Name(f) # QueueName
    OBVIOUS
  <2>1. f.last <= scid
    BY <1>0 DEF FilesGood, Complete
  <2>2. Name(f).last = f.last
    BY DEF Name
  <2>3. scid < ccid
    BY <1>2, ShapeParts
  <2>. QED BY <1>1, <1>3, <2>1, <2>2, <2>3
<1>5. CASE ArchiveOpen
  <2>1. /\ files' = {f \in files : Name(f) # QueueName} \cup {File(QueueName, {}, TRUE)}
        /\ pc = "archive" /\ pc' = "writing"
        /\ UNCHANGED <<made, scid, last_stored, archfiles, queue>>
    BY <1>5 DEF ArchiveOpen, memory
  <2>2. QueueName' = QueueName
    BY <2>1 DEF QueueName, Unsaved, FirstUnsaved
  <2>3. Name(File(QueueName, {}, TRUE)) = QueueName
    BY <1>3, FileMade
  <2>4. Kept' = {f \in files' : Name(f) # QueueName} /\ Kept = files
    BY <2>1, <2>2 DEF Kept
  <2>5. Kept' = Kept
    BY <1>4, <2>1, <2>3, <2>4
  <2>. QED BY <1>1, <2>1, <2>5, ServingStays
<1>6. CASE ArchiveKnown
  <2>1. QueueName \in archfiles /\ pc = "archive"
    BY <1>6 DEF ArchiveKnown
  <2>2. PICK f \in files : QueueName = Name(f)
    BY <2>1, ShapeParts DEF Listed
  <2>3. f \in Kept
    BY <2>1 DEF Kept
  <2>. QED BY <1>4, <2>2, <2>3
<1>7. CASE ArchiveWrite
  <2>0. PICK new : new = File(QueueName, Range(Unsaved), FALSE)
    OBVIOUS
  <2>1. /\ files' = {f \in files : Name(f) # QueueName} \cup {new}
        /\ archfiles' = archfiles \cup {QueueName}
        /\ scid' = ccid /\ pc = "writing" /\ pc' = "remove"
        /\ UNCHANGED <<made, last_stored>>
    BY <1>3, <1>7, <2>0 DEF ArchiveWrite
  <2>2. Kept' = Kept \cup {new}
    BY <2>1 DEF Kept
  <2>3. /\ new.first = QueueName.first /\ new.last = ccid
        /\ new.ids = {i \in made : new.first <= i /\ i <= ccid}
        /\ new.ids = Made(scid, ccid)
    BY <1>3, <2>0 DEF File
  <2>4. Name(new) = QueueName
    <3>1. QueueName \in Names
      BY <1>3
    <3>. QED BY <2>0, <3>1 DEF File, Name, Names
  <2>5. \A i : InFiles(i) => InFiles(i)'
    BY <2>2 DEF InFiles
  <2>6. \A i \in made : scid < i /\ i <= ccid => InFiles(i)'
    BY <2>2, <2>3 DEF InFiles, Made
  <2>7. \A f \in Kept' : Name(f) \in archfiles'
    BY <2>1, <2>2, <2>4 DEF Serving
  <2>8. ASSUME NEW f \in Kept', NEW i \in Made(0, scid)', f.first <= i PROVE InFiles(i)'
    <3>1. i \in made /\ 0 < i /\ i <= ccid /\ i \in Nat
      BY <1>1, <2>1 DEF Made
    <3>2. CASE f = new
      BY <2>2, <2>3, <2>8, <3>1, <3>2 DEF InFiles
    <3>3. CASE f \in Kept /\ i <= scid
      BY <2>5, <2>8, <3>1, <3>3 DEF Serving, Made
    <3>. QED BY <1>1, <2>2, <2>6, <3>1, <3>2, <3>3
  <2>9. ASSUME NEW i \in Made(last_stored, scid)' PROVE InFiles(i)'
    <3>1. i \in made /\ last_stored < i /\ i <= ccid /\ i \in Nat
      BY <1>1, <2>1 DEF Made
    <3>2. CASE i <= scid
      BY <2>1, <2>5, <3>1, <3>2 DEF Serving, Made
    <3>. QED BY <1>1, <2>6, <3>1, <3>2
  <2>. QED BY <2>7, <2>8, <2>9 DEF Serving
<1>. QED BY <1>5, <1>6, <1>7

(* Files are removed from the front.                                       *)
LEMMA RemoveServing ==
  ASSUME Shape, Shape', Safe, Serving, ArchiveRemove
  PROVE  Serving'
<1>0. FilesGood
  BY SafeParts
<1>1. /\ scid \in Nat /\ last_stored \in Nat /\ peers \in Nat
      /\ \A f \in files : f.first \in Nat /\ f.last \in Nat
      /\ \A i \in made : i \in Nat
  BY Numbers
<1>2. /\ files' = {f \in files : f.last > Removable \/ Name(f) \notin archfiles}
      /\ archfiles' = {f \in archfiles : f.last > Removable}
      /\ pc = "remove" /\ pc' # "writing" /\ UNCHANGED <<made, scid, last_stored>>
  BY DEF ArchiveRemove, RemoveFiles
<1>3. Removable \in Nat /\ Removable <= last_stored
  <2> DEFINE S == {last_stored, scid, peers}
  <2>1. S \in SUBSET Nat /\ S # {} /\ last_stored \in S
    BY <1>1
  <2> HIDE DEF S
  <2>2. Min(S) \in S /\ \A y \in S : Min(S) <= y
    BY <2>1, MinExists
  <2>. QED BY <2>1, <2>2 DEF Removable, S
<1>4. Kept = files /\ Kept' = files'
  BY <1>2 DEF Kept
<1>5. files' = {f \in files : f.last > Removable}
  BY <1>2, <1>4 DEF Serving
<1>6. \A f \in files : f.ids = {i \in made : f.first <= i /\ i <= f.last}
  BY <1>0, <1>4 DEF FilesGood, Complete
<1>7. \A f \in files' : Name(f) \in archfiles'
  <2> SUFFICES ASSUME NEW f \in files' PROVE Name(f) \in archfiles'
    OBVIOUS
  <2>1. f \in files /\ f.last > Removable
    BY <1>5
  <2>2. Name(f) \in archfiles /\ Name(f).last = f.last
    BY <1>2, <1>4, <2>1 DEF Serving, Name
  <2>. QED BY <1>2, <2>1, <2>2
<1>8. ASSUME NEW f \in files', NEW i \in Made(0, scid)', f.first <= i
      PROVE  \E g \in files' : i \in g.ids
  <2>1. f \in files /\ f.last > Removable /\ f.last \in Nat
    BY <1>1, <1>5
  <2>2. i \in made /\ i \in Nat /\ i \in Made(0, scid)
    BY <1>1, <1>2 DEF Made
  <2>3. PICK g \in files : i \in g.ids
    BY <1>4, <1>8, <2>1, <2>2 DEF Serving, InFiles
  <2>4. i <= g.last /\ g.last \in Nat
    BY <1>1, <1>6, <2>3
  <2>5. CASE g.last > Removable
    BY <1>5, <2>3, <2>5
  <2>6. CASE ~(g.last > Removable)
    <3>1. i <= f.last
      BY <1>3, <2>1, <2>2, <2>4, <2>6
    <3>. QED BY <1>6, <1>8, <2>1, <2>2, <3>1
  <2>. QED BY <2>5, <2>6
<1>9. ASSUME NEW i \in Made(last_stored, scid)'
      PROVE  \E g \in files' : i \in g.ids
  <2>1. i \in made /\ i \in Nat /\ last_stored < i /\ i \in Made(last_stored, scid)
    BY <1>1, <1>2 DEF Made
  <2>2. PICK g \in files : i \in g.ids
    BY <1>2, <1>4, <2>1 DEF Serving, InFiles
  <2>3. i <= g.last /\ g.last \in Nat
    BY <1>1, <1>6, <2>2
  <2>4. g.last > Removable
    BY <1>1, <1>3, <2>1, <2>3
  <2>. QED BY <1>5, <2>2, <2>4
<1>. QED BY <1>4, <1>7, <1>8, <1>9 DEF Serving, InFiles

LEMMA CrashServing ==
  ASSUME Shape, Shape', Safe, Serving, Crash, "loss" \notin harm'
  PROVE  Serving'
<1>1. ~Unsafe /\ UNCHANGED <<made, scid, archfiles, last_stored>>
  BY DEF Crash, memory
<1>2. pc' = "down" /\ pc # "writing" /\ files' = files
  BY <1>1, CrashShape DEF Unsafe, Steps
<1>3. Kept' = Kept
  BY <1>2 DEF Kept
<1>4. last_stored \in Nat /\ \A i \in made : i \in Nat
  BY Numbers
<1>. QED BY <1>1, <1>2, <1>3, <1>4, ServingStays

LEMMA StartServing ==
  ASSUME Shape, Shape', Safe, Safe', Serving, Restart \/ Rebuild \/ LoadFull
  PROVE  Serving'
<1>0. Memory /\ FullStore /\ FilesGood /\ FilesGood'
  BY SafeParts DEF Safe
<1>1. /\ ccid \in Nat /\ scid \in Nat /\ store.ccid \in Nat /\ scid <= ccid
      /\ \A i \in made : i \in Nat /\ 0 < i
      /\ \A f \in files : f.first \in Nat /\ f.last \in Nat
  BY Numbers
<1>2. CASE Restart
  <2>1. /\ pc = "down" /\ store.state = "full" /\ pc' = "idle"
        /\ scid' = Max({store.ccid} \cup Loaded) /\ last_stored' = store.ccid
        /\ archfiles' = {Name(f) : f \in files} /\ UNCHANGED <<made, store, files>>
    BY <1>2 DEF Restart, disk
  <2>2. Kept = files /\ Kept' = files
    BY <2>1 DEF Kept
  <2>3. scid' <= scid /\ scid' \in Nat
    <3>1. Loaded = Made(store.ccid, scid)
      BY <1>0, <2>1, LoadedFacts
    <3>2. store.ccid <= scid
      BY <1>0, <2>1 DEF FullStore, Between
    <3>3. scid' \in {store.ccid} \cup Loaded
      BY <2>1, LoadedIds, ShapeParts
    <3>. QED BY <1>1, <3>1, <3>2, <3>3 DEF Made
  <2>4. ASSUME NEW i \in Made(0, scid)' PROVE i \in Made(0, scid)
    <3>1. i \in made /\ 0 < i /\ i <= scid' /\ i \in Nat
      BY <1>1, <2>1 DEF Made
    <3>. QED BY <1>1, <2>3, <3>1 DEF Made
  <2>5. \A f \in Kept' : \A i \in Made(0, scid)' : f.first <= i => InFiles(i)'
    BY <2>2, <2>4 DEF Serving, InFiles
  <2>6. \A i \in Made(last_stored, scid)' : InFiles(i)'
    <3>1. Made(last_stored, scid)' = Made(store.ccid, scid)'
      BY <2>1 DEF Made
    <3>. QED BY <1>0, <2>1, <3>1 DEF FilesGood, InFiles
  <2>. QED BY <2>1, <2>2, <2>5, <2>6 DEF Serving
<1>3. CASE Rebuild
  <2>1. scid' = 0 /\ files' = {} /\ made' = made
    BY <1>3 DEF Rebuild
  <2>2. Kept' = {} /\ Made(last_stored, scid)' = {}
    <3>1. last_stored' = 0
      BY <1>3 DEF Rebuild
    <3>. QED BY <1>1, <2>1, <3>1 DEF Kept, Made
  <2>. QED BY <2>2 DEF Serving
<1>4. CASE LoadFull
  <2>1. /\ pc = "idle" /\ pc' = "idle" /\ ccid = 0 /\ UNCHANGED <<made, files>>
        /\ scid' = last_stored' /\ scid' \in made
    BY <1>4 DEF LoadFull
  <2>2. files = {}
    <3> SUFFICES ASSUME NEW f \in files PROVE FALSE
      OBVIOUS
    <3>1. f \in Kept
      BY <2>1 DEF Kept
    <3>2. f.last \in made /\ f.last <= scid
      BY <1>0, <3>1 DEF FilesGood, Complete
    <3>. QED BY <1>1, <2>1, <3>2
  <2>3. Kept' = {} /\ Made(last_stored, scid)' = {}
    BY <1>1, <2>1, <2>2 DEF Kept, Made
  <2>. QED BY <2>3 DEF Serving
<1>. QED BY <1>2, <1>3, <1>4

(* All of it, as long as no changes may be lost.                           *)
SAInv == AInv /\ ("loss" \notin harm => Serving)

LEMMA SAInvHolds == Spec => []SAInv
<1>1. Init => SAInv
  <2> SUFFICES ASSUME Init PROVE SAInv
    OBVIOUS
  <2>1. AInv
    BY InitAInv
  <2>2. Kept = {} /\ Made(last_stored, scid) = {}
    BY DEF Init, Kept, Made, FirstId
  <2>. QED BY <2>1, <2>2 DEF SAInv, Serving
<1>2. SAInv /\ [Next]_vars => SAInv'
  <2> SUFFICES ASSUME SAInv, [Next]_vars PROVE SAInv'
    OBVIOUS
  <2>1. AInv /\ AInv'
    BY NextAInv DEF SAInv
  <2>2. Shape /\ Shape'
    BY <2>1 DEF AInv
  <2> SUFFICES ASSUME "loss" \notin harm' PROVE Serving'
    BY <2>1 DEF SAInv
  <2>3. "loss" \notin harm
    BY DEF Next, Commit, PeersStore, AwayWork, Offline, StoreBegin, StoreWrite, StoreFails,
           StoreSwap, StoreInstall, StoreInstallFails, StoreDone, ArchiveOpen, ArchiveKnown, ArchiveWrite,
           ArchiveFails, ArchiveRemove, Crash, Restart, Rebuild, LoadFull, vars
  <2>4. Safe /\ Safe' /\ Serving
    BY <2>1, <2>3 DEF AInv, SAInv
  <2>5. CASE UNCHANGED vars
    <3>1. UNCHANGED <<made, scid, queue, archfiles, last_stored, files, pc>>
      BY <2>5 DEF vars, memory, disk
    <3>2. Kept' = Kept
      BY <3>1 DEF Kept, QueueName, Unsaved, FirstUnsaved
    <3>. QED BY <2>4, <3>1, <3>2 DEF Serving, InFiles, Made
  <2>6. CASE PeersStore \/ AwayWork \/ Offline \/ StoreBegin \/ StoreWrite \/ StoreFails
               \/ StoreSwap \/ StoreInstall \/ StoreInstallFails \/ StoreDone
    BY <2>2, <2>4, <2>6, StoreServing
  <2>7. CASE ArchiveOpen \/ ArchiveKnown \/ ArchiveWrite
    BY <2>2, <2>3, <2>4, <2>7, ArchiveServing
  <2>8. CASE Restart \/ Rebuild \/ LoadFull
    BY <2>2, <2>4, <2>8, StartServing
  <2>9. ~ArchiveFails
    BY DEF ArchiveFails
  <2>. QED
    BY <2>2, <2>4, <2>5, <2>6, <2>7, <2>8, <2>9, CommitServing, RemoveServing, CrashServing
       DEF Next
<1>. QED BY <1>1, <1>2, PTL DEF Spec
-----------------------------------------------------------------------------
(* The files that are sent, for a node that has nothing to write.          *)

(* The next file is one that ends at or behind the id, and no other one    *)
(* has anything between the id and its first change.                       *)
LEMMA NextFileFacts ==
  ASSUME Shape, NEW id \in Nat, Behind(id) # {}
  PROVE  /\ NextFile(id) \in Behind(id)
         /\ NextFile(id).first <= id \/ \A g \in Behind(id) : NextFile(id).first <= g.first
<1>1. \A f \in Behind(id) : f \in files /\ f.first \in Nat
  BY Numbers DEF Behind
<1>2. CASE \E f \in Behind(id) : f.first <= id
  BY <1>2 DEF NextFile
<1>3. CASE ~\E f \in Behind(id) : f.first <= id
  <2> DEFINE S == {f.first : f \in Behind(id)}
  <2>1. S \in SUBSET Nat /\ S # {}
    BY <1>1
  <2>2. Min(S) \in S /\ \A y \in S : Min(S) <= y
    BY <2>1, MinExists
  <2>3. \E f \in Behind(id) : \A g \in Behind(id) : f.first <= g.first
    BY <2>2
  <2>. QED BY <1>3, <2>3 DEF NextFile
<1>. QED BY <1>2, <1>3

(* The recursion of FilesSent ends: the next id is always a higher one.    *)
LEMMA NextIsHigher ==
  ASSUME Shape, NEW id \in 0 .. MaxId + 1, Behind(id) # {}
  PROVE  /\ NextFile(id).last \in Nat /\ id <= NextFile(id).last
         /\ NextFile(id).last + 1 \in id + 1 .. MaxId + 1
<1>1. NextFile(id) \in Behind(id)
  BY NextFileFacts, ArchiveAssumption
<1>2. NextFile(id) \in files /\ NextFile(id).last >= id
  BY <1>1 DEF Behind
<1>3. NextFile(id).last \in Ids
  BY <1>2, ShapeParts DEF ArchiveFiles
<1>. QED BY <1>2, <1>3, ArchiveAssumption DEF Ids

Sends(F, id) ==
  IF Behind(id) = {} THEN {} ELSE NextFile(id).ids \cup F[NextFile(id).last + 1]

LEMMA FilesSentExists ==
  ASSUME Shape
  PROVE  \E F : F = [id \in 0 .. MaxId + 1 |-> Sends(F, id)]
<1> DEFINE top == MaxId + 1
           Good(lo) == \E F : F = [id \in lo .. top |-> Sends(F, id)]
           Bad == {d \in 0 .. top : ~Good(top - d)}
<1>0. MaxId \in Nat /\ top \in Nat
  BY ArchiveAssumption
<1>1. Good(top)
  <2>1. Behind(top) = {}
    <3> SUFFICES ASSUME NEW f \in Behind(top) PROVE FALSE
      OBVIOUS
    <3>1. f \in files /\ f.last >= top
      BY DEF Behind
    <3>2. f.last \in Ids
      BY <3>1, ShapeParts DEF ArchiveFiles
    <3>. QED BY <1>0, <3>1, <3>2 DEF Ids
  <2>2. top .. top = {top}
    BY <1>0
  <2>3. \A F : Sends(F, top) = {}
    BY <2>1 DEF Sends
  <2>. WITNESS [id \in top .. top |-> {}]
  <2>. HIDE DEF top
  <2>. QED BY <2>2, <2>3
<1>2. ASSUME NEW lo \in 0 .. top, lo # top, Good(lo + 1) PROVE Good(lo)
  <2>1. PICK F : F = [id \in lo + 1 .. top |-> Sends(F, id)]
    BY <1>2
  <2> DEFINE G == [id \in lo .. top |-> IF id = lo THEN Sends(F, id) ELSE F[id]]
  <2>2. \A id \in lo .. top : Sends(G, id) = Sends(F, id)
    <3> SUFFICES ASSUME NEW id \in lo .. top PROVE Sends(G, id) = Sends(F, id)
      OBVIOUS
    <3>1. CASE Behind(id) = {}
      BY <3>1 DEF Sends
    <3>2. CASE Behind(id) # {}
      <4>1. NextFile(id).last + 1 \in id + 1 .. top
        BY <1>0, <3>2, NextIsHigher
      <4>2. NextFile(id).last + 1 \in lo .. top /\ NextFile(id).last + 1 # lo
        BY <1>0, <4>1
      <4>3. G[NextFile(id).last + 1] = F[NextFile(id).last + 1]
        BY <4>2
      <4>. HIDE DEF G
      <4>. QED BY <4>3 DEF Sends
    <3>. QED BY <3>1, <3>2
  <2>3. \A id \in lo .. top : G[id] = Sends(F, id)
    <3> SUFFICES ASSUME NEW id \in lo .. top PROVE G[id] = Sends(F, id)
      OBVIOUS
    <3>1. CASE id = lo
      BY <3>1
    <3>2. CASE id # lo
      <4>1. id \in lo + 1 .. top
        BY <1>0, <3>2
      <4>2. F[id] = Sends(F, id)
        BY <2>1, <4>1
      <4>. QED BY <3>2, <4>2
    <3>. QED BY <3>1, <3>2
  <2>4. G = [id \in lo .. top |-> G[id]]
    OBVIOUS
  <2> HIDE DEF G, top
  <2>5. G = [id \in lo .. top |-> Sends(G, id)]
    BY <2>2, <2>3, <2>4
  <2>. QED BY <2>5
<1> HIDE DEF Good
<1>3. Bad = {}
  <2> SUFFICES ASSUME Bad # {} PROVE FALSE
    OBVIOUS
  <2>1. Bad \in SUBSET Nat
    BY <1>0
  <2>2. Min(Bad) \in Bad /\ \A y \in Bad : Min(Bad) <= y
    BY <2>1, MinExists
  <2>3. PICK d \in 0 .. top : ~Good(top - d) /\ \A y \in Bad : d <= y
    BY <2>2
  <2>4. CASE d = 0
    BY <1>0, <1>1, <2>3, <2>4
  <2>5. CASE d # 0
    <3>1. d - 1 \in 0 .. top /\ ~(d <= d - 1) /\ top - d \in 0 .. top /\ top - d # top
          /\ top - (d - 1) = (top - d) + 1
      BY <1>0, <2>5
    <3>2. d - 1 \notin Bad
      BY <2>3, <3>1
    <3>3. Good(top - (d - 1))
      BY <3>1, <3>2
    <3>4. Good((top - d) + 1)
      BY <3>1, <3>3
    <3>. QED BY <1>2, <2>3, <3>1, <3>4
  <2>. QED BY <2>4, <2>5
<1>4. Good(0)
  <2>1. top \in 0 .. top /\ top - top = 0
    BY <1>0
  <2>. QED BY <1>3, <2>1
<1>. QED BY <1>4 DEF Good

LEMMA FilesSentStep ==
  ASSUME Shape, NEW id \in 0 .. MaxId + 1
  PROVE  FilesSent[id] = Sends(FilesSent, id)
<1>1. FilesSent = CHOOSE F : F = [i \in 0 .. MaxId + 1 |-> Sends(F, i)]
  BY DEF FilesSent, Sends
<1>2. FilesSent = [i \in 0 .. MaxId + 1 |-> Sends(FilesSent, i)]
  BY <1>1, FilesSentExists
<1>. QED BY <1>2

(* What is in the files from an id on is sent: of the ids from which       *)
(* something is left out, the highest one contradicts itself.              *)
LEMMA FilesSentAll ==
  ASSUME Shape, FilesGood, Serving, pc = "idle",
         NEW i \in made, InFiles(i), NEW from \in Nat, from <= i
  PROVE  i \in FilesSent[from]
<1> DEFINE Left == {id \in Ids : id <= i /\ i \notin FilesSent[id]}
<1>0. /\ MaxId \in Nat /\ i \in Nat /\ i <= MaxId
      /\ \A f \in files : f.first \in Nat /\ f.last \in Nat
  <2>1. i \in Ids
    BY ShapeParts
  <2>. QED BY <2>1, Numbers, ArchiveAssumption DEF Ids
<1>1. Kept = files
  BY DEF Kept
<1>2. \A f \in files : f.ids = {j \in made : f.first <= j /\ j <= f.last}
  BY <1>1 DEF FilesGood, Complete
<1>3. PICK g \in files : i \in g.ids
  BY <1>1 DEF InFiles
<1>4. g.first <= i /\ i <= g.last
  BY <1>2, <1>3
<1>5. Left = {}
  <2> SUFFICES ASSUME Left # {} PROVE FALSE
    OBVIOUS
  <2>1. Max(Left) \in Left /\ \A y \in Left : y <= Max(Left)
    BY MaxOfIds
  <2>2. PICK id \in Left : \A y \in Left : y <= id
    BY <2>1
  <2>3. id \in 0 .. MaxId + 1 /\ id \in Nat /\ id <= i /\ i \notin FilesSent[id]
    BY <1>0 DEF Ids
  <2>4. g \in Behind(id)
    <3>1. g.last >= id
      BY <1>0, <1>4, <2>3
    <3>2. Name(g) \in archfiles
      BY <1>1 DEF Serving
    <3>. QED BY <3>1, <3>2 DEF Behind
  <2>5. PICK f : f = NextFile(id)
    OBVIOUS
  <2>6. f \in Behind(id) /\ (f.first <= id \/ f.first <= g.first)
    BY <2>3, <2>4, <2>5, NextFileFacts
  <2>7. f \in files /\ f.first \in Nat /\ f.last \in Nat
    BY <1>0, <2>6 DEF Behind
  <2>8. id <= f.last /\ f.last + 1 \in id + 1 .. MaxId + 1
    BY <2>3, <2>4, <2>5, NextIsHigher
  <2>9. i \notin f.ids /\ i \notin FilesSent[f.last + 1]
    <3>1. FilesSent[id] = Sends(FilesSent, id)
      BY <2>3, FilesSentStep
    <3>. QED BY <2>3, <2>4, <2>5, <3>1 DEF Sends
  <2>10. f.first <= i
    BY <1>0, <1>4, <2>3, <2>6, <2>7
  <2>11. f.last < i
    BY <1>0, <1>2, <2>7, <2>9, <2>10
  <2>12. f.last + 1 \in Left
    BY <1>0, <2>7, <2>9, <2>11 DEF Ids
  <2>. QED BY <2>2, <2>3, <2>7, <2>8, <2>12
<1>6. from \in Ids
  BY <1>0 DEF Ids
<1>. QED BY <1>5, <1>6

(* The archive queue follows.                                              *)
LEMMA SentAll ==
  ASSUME Shape, Memory, FilesGood, Serving, pc = "idle", NEW from \in Nat,
         \A i \in Made(0, scid) : from <= i => InFiles(i),
         NEW i \in made, from <= i, i <= ccid
  PROVE  i \in Sent(from)
<1>1. i \in Nat /\ 0 < i /\ scid \in Nat
  BY Numbers
<1>2. CASE i <= scid
  <2>1. InFiles(i)
    BY <1>1, <1>2 DEF Made
  <2>. QED BY <2>1, FilesSentAll DEF Sent
<1>3. CASE scid < i
  <2>1. i \in Range(queue)
    BY <1>3 DEF Memory, Made
  <2>2. i >= IF Behind(from) = {} THEN from ELSE scid + 1
    BY <1>1, <1>3
  <2>. QED BY <2>1, <2>2 DEF Sent
<1>. QED BY <1>1, <1>2, <1>3

(* A node that synchronizes gets every change it does not have: what the   *)
(* archive cannot serve is in the full store (away__syncers), and behind   *)
(* the full store, or a file that has the id asked for, files and archive  *)
(* queue have no hole (ti_syncarchive_init, ti_syncevents_init).  Only the *)
(* store that a failing rename has taken away cannot be sent.              *)
THEOREM SyncIsCompleteHolds == Spec => []SyncIsComplete
<1>1. SAInv => SyncIsComplete
  <2> SUFFICES ASSUME SAInv, "loss" \notin harm, pc = "idle",
                      NEW id \in {1} \cup (peers + 1 .. ccid + 1), NEW i \in made,
                      i >= id, i <= ccid, "store" \in harm => ~FullSync(id)
               PROVE  i \in IF FullSync(id) THEN store.data \cup Sent(last_stored + 1)
                            ELSE Sent(id)
    BY DEF SyncIsComplete
  <2>1. Shape /\ Memory /\ FullStore /\ FilesGood /\ Serving
    BY DEF SAInv, AInv, Safe
  <2>2. /\ ccid \in Nat /\ scid \in Nat /\ last_stored \in Nat /\ peers \in Nat
        /\ store.ccid \in Nat /\ i \in Nat /\ 0 < i /\ \A j \in made : j \in Nat
        /\ \A f \in files : f.first \in Nat /\ f.last \in Nat
    BY <2>1, Numbers
  <2>3. id \in Nat
    BY <2>2
  <2>4. /\ last_stored <= scid
        /\ FullSync(id) => /\ store.data = Made(0, store.ccid)
                           /\ last_stored <= store.ccid /\ store.ccid <= scid
    <3>1. FullSync(id) => store.state = "full"
      <4>1. 0 < ccid
        BY <2>2
      <4>. QED BY <2>1, <4>1 DEF FullStore
    <3>2. store.state = "full" => /\ store.data = Made(0, store.ccid)
                                  /\ last_stored <= store.ccid /\ store.ccid <= scid
      BY <2>1 DEF FullStore, Between
    <3>3. store.state # "full" => last_stored <= scid
      BY <2>1 DEF FullStore
    <3>. QED BY <2>2, <3>1, <3>2, <3>3
  <2>5. \A j \in Made(last_stored, scid) : InFiles(j)
    BY <2>1 DEF Serving
  <2>6. CASE FullSync(id)
    <3>1. CASE i <= store.ccid
      BY <2>2, <2>4, <2>6, <3>1 DEF Made
    <3>2. CASE store.ccid < i
      <4>1. last_stored + 1 <= i /\ last_stored + 1 \in Nat
        BY <2>2, <2>4, <2>6, <3>2
      <4>2. \A j \in Made(0, scid) : last_stored + 1 <= j => InFiles(j)
        BY <2>2, <2>5 DEF Made
      <4>3. i \in Sent(last_stored + 1)
        BY <2>1, <4>1, <4>2, SentAll
      <4>. QED BY <2>6, <4>3
    <3>. QED BY <2>2, <3>1, <3>2
  <2>7. CASE ~FullSync(id)
    <3>1. \A j \in Made(0, scid) : id <= j => InFiles(j)
      <4>1. CASE last_stored < id
        BY <2>2, <2>3, <2>5, <4>1 DEF Made
      <4>2. CASE id <= last_stored
        <5>1. PICK first \in FirstArchived : ~(id < first)
          BY <2>7, <4>2 DEF FullSync
        <5>2. CASE first \in Range(queue)
          <6>1. scid < first /\ first \in Nat
            BY <2>1, <2>2, <5>2 DEF Memory, Made
          <6>. QED BY <2>2, <2>3, <2>4, <4>2, <5>1, <6>1
        <5>3. CASE first \notin Range(queue)
          <6>1. PICK a \in archfiles : first = a.first
            BY <5>1, <5>3 DEF FirstArchived
          <6>2. PICK f \in files : a = Name(f)
            BY <2>1, ShapeParts DEF Listed
          <6>3. first = f.first /\ f \in Kept /\ first \in Nat
            BY <2>2, <6>1, <6>2 DEF Name, Kept
          <6>4. \A j \in Made(0, scid) : f.first <= j => InFiles(j)
            BY <2>1, <6>3 DEF Serving
          <6>5. \A j \in Made(0, scid) : j \in Nat
            BY <2>2 DEF Made
          <6>. QED BY <2>3, <5>1, <6>3, <6>4, <6>5
        <5>. QED BY <5>2, <5>3
      <4>. QED BY <2>2, <2>3, <4>1, <4>2
    <3>2. i \in Sent(id)
      BY <2>1, <2>2, <2>3, <3>1, SentAll
    <3>. QED BY <2>7, <3>2
  <2>. QED BY <2>6, <2>7
<1>. QED BY <1>1, SAInvHolds, PTL
=============================================================================
