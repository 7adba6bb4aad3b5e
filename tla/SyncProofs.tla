----------------------------- MODULE SyncProofs -----------------------------
(***************************************************************************)
(* Proofs about a node that catches up with the others, for any number of  *)
(* changes and of faults.                                                  *)
(*                                                                         *)
(* First the types, whatever goes wrong.  Then, for a node that does not   *)
(* die meanwhile, the invariant SInv: what A has archived (Server), what S *)
(* has and waits for (Node), and what makes each package between them safe *)
(* to apply when its turn comes (Session, or Ends once the last package is *)
(* sent).  The lemmas on the steps come in three groups: the ones that     *)
(* leave the packages alone (Steady), the ones of A that send the next     *)
(* (FollowingSent and the lemmas behind it), and S handling one (Handled). *)
(***************************************************************************)
EXTENDS Sync, Integers, FiniteSetTheorems, TLAPS

(* The requests of A, with what their kind needs.                          *)
Packages ==
  {r \in Requests :
     /\ r.tp = "fpart" => r.k \in 1 .. 3
     /\ r.tp = "apart" => r.first \in Ids /\ r.last \in Ids /\ r.k \in 1 .. 2
     /\ r.tp = "epart" => r.first \in Ids}
Responses == [req: Packages, ok: BOOLEAN, next: 0 .. MaxId + 1]
Files == [first: Ids, last: Ids]
Copies == [first: Ids, last: Ids, ids: SUBSET Ids]
Stores == [ccid: 0 .. MaxId, data: SUBSET Ids, whole: BOOLEAN]
Queued == [id: Ids, gap: BOOLEAN]

ServerTypes ==
  /\ {made, ccidA, scidA, stored} \subseteq Ids
  /\ away \in {"READY", "SOON", "WORKING", "SYNCING"}
  /\ queueA \subseteq Ids /\ memA \subseteq Ids /\ archA \subseteq Files
NodeTypes ==
  /\ {ccid, scid} \subseteq 0 .. MaxId
  /\ status \in {"DOWN", "SYNC", "READY"}
  /\ data \subseteq Ids /\ arch \subseteq Copies /\ store \in Stores /\ queue \subseteq Queued
  /\ asked \in BOOLEAN
NetTypes ==
  /\ cast \subseteq Ids
  /\ syncers \subseteq Ids \cup {MaxId + 1} /\ ask \subseteq Ids \cup {MaxId + 1}
  /\ open \subseteq Packages /\ toS \in Seq(Packages) /\ toA \in Seq(Responses)
  /\ flag \in BOOLEAN /\ link \in BOOLEAN /\ faults \in 0 .. MaxFaults

Types == ServerTypes /\ NodeTypes /\ NetTypes

LEMMA WiderSeq == ASSUME NEW S, NEW T, S \subseteq T, NEW s \in Seq(S) PROVE s \in Seq(T)
OBVIOUS

LEMMA TypesGive == Types => TypeOK
<1> SUFFICES ASSUME Types PROVE TypeOK
  OBVIOUS
<1>1. toS \in Seq(Requests)
  <2>1. Packages \subseteq Requests
    BY DEF Packages
  <2>. QED BY <2>1 DEF Types, NetTypes
<1>2. toA \in Seq([req: Requests, ok: BOOLEAN, next: 0 .. MaxId + 1])
  <2>0. Packages \subseteq Requests
    BY DEF Packages
  <2>1. Responses \subseteq [req: Requests, ok: BOOLEAN, next: 0 .. MaxId + 1]
    BY <2>0, Zenon DEF Responses
  <2>2. toA \in Seq(Responses)
    BY DEF Types, NetTypes
  <2>. QED BY <2>1, <2>2, WiderSeq, Zenon
<1>3. open \subseteq Requests
  BY DEF Types, NetTypes, Packages
<1>. QED BY <1>1, <1>2, <1>3
     DEF Types, ServerTypes, NodeTypes, NetTypes, TypeOK, Files, Copies, Stores, Queued
-----------------------------------------------------------------------------
(* Smallest and largest elements.                                          *)

LEMMA SmallestId ==
  ASSUME NEW S \in SUBSET Nat, S # {}
  PROVE  Min(S) \in S /\ \A y \in S : Min(S) <= y
<1>1. PICK x \in S : \A y \in S : ~(<<y, x>> \in OpToRel(<, Nat))
  BY WFMin, NatLessThanWellFounded
<1>2. \A y \in S : x <= y
  <2> SUFFICES ASSUME NEW y \in S PROVE x <= y
    OBVIOUS
  <2>1. x \in Nat /\ y \in Nat
    OBVIOUS
  <2>2. ~(y < x)
    BY <1>1, <2>1 DEF OpToRel
  <2>. QED BY <2>1, <2>2
<1>. QED BY <1>2 DEF Min

LEMMA LargestId ==
  ASSUME NEW S \in SUBSET Nat, S # {}, NEW b \in Nat, \A y \in S : y <= b
  PROVE  Max(S) \in S /\ \A y \in S : y <= Max(S)
<1> DEFINE T == {b - y : y \in S}
<1>1. T \in SUBSET Nat /\ T # {}
  <2>1. \A y \in S : b - y \in Nat
    OBVIOUS
  <2>2. PICK y \in S : TRUE
    OBVIOUS
  <2>3. b - y \in T
    OBVIOUS
  <2>. QED BY <2>1, <2>3
<1>2. PICK x \in T : \A y \in T : ~(<<y, x>> \in OpToRel(<, Nat))
  BY <1>1, WFMin, NatLessThanWellFounded
<1>3. PICK z \in S : x = b - z
  BY <1>2
<1>4. \A y \in S : z >= y
  <2> SUFFICES ASSUME NEW y \in S PROVE z >= y
    OBVIOUS
  <2>1. b - y \in T
    OBVIOUS
  <2>2. ~(b - y < x)
    BY <1>1, <1>2, <2>1 DEF OpToRel
  <2>. QED BY <1>3, <2>2
<1>. QED BY <1>4 DEF Max

LEMMA LargerOfTwo ==
  ASSUME NEW a \in Nat, NEW b \in Nat
  PROVE  Max({a, b}) = IF a <= b THEN b ELSE a
<1> DEFINE m == IF a <= b THEN b ELSE a
<1>1. m \in {a, b} /\ \A y \in {a, b} : y <= m
  OBVIOUS
<1>2. {a, b} \in SUBSET Nat /\ {a, b} # {} /\ m \in Nat
  OBVIOUS
<1>3. Max({a, b}) \in {a, b} /\ \A y \in {a, b} : y <= Max({a, b})
  BY <1>1, <1>2, LargestId
<1>. QED BY <1>1, <1>3
-----------------------------------------------------------------------------
(* What the operators return.                                              *)

LEMMA Bounds == MaxId \in Nat /\ MaxId > 0 /\ Ids \subseteq Nat /\ MaxId \in Ids
BY SyncBoundsAssumption DEF Ids

(* The change that the loop takes is the one with the lowest id.           *)
LEMMA FirstIsLowest ==
  ASSUME NEW q \in SUBSET Queued, q # {}
  PROVE  First(q) \in q /\ \A e \in q : First(q).id <= e.id
<1> DEFINE S == {d.id : d \in q}
<1>1. S \in SUBSET Nat /\ S # {}
  BY Bounds DEF Queued
<1>2. Min(S) \in S /\ \A y \in S : Min(S) <= y
  BY <1>1, SmallestId
<1>3. PICK d \in q : d.id = Min(S)
  BY <1>2
<1>4. \A e \in q : d.id <= e.id
  BY <1>2, <1>3
<1>. QED BY <1>4 DEF First

(* The next file is the first one that is not passed.                      *)
LEMMA NextFile ==
  ASSUME archA \subseteq Files, NEW id \in Nat, Behind(id) # {}
  PROVE  /\ FileFrom(id) \in archA /\ FileFrom(id).last >= id
         /\ \A g \in archA : g.last >= id => FileFrom(id).first <= g.first
<1> DEFINE S == {f.first : f \in Behind(id)}
<1>1. S \in SUBSET Nat /\ S # {}
  BY Bounds DEF Behind, Files
<1>2. Min(S) \in S /\ \A y \in S : Min(S) <= y
  BY <1>1, SmallestId
<1>3. PICK f \in Behind(id) : f.first = Min(S)
  BY <1>2
<1>4. \A g \in Behind(id) : f.first <= g.first
  BY <1>2, <1>3
<1>5. /\ FileFrom(id) \in Behind(id)
      /\ \A g \in Behind(id) : FileFrom(id).first <= g.first
  BY <1>4 DEF FileFrom
<1>. QED BY <1>5 DEF Behind

LEMMA RequestFields ==
  ASSUME NEW tp, NEW a, NEW b, NEW k
  PROVE  /\ Request(tp, a, b, k).tp = tp /\ Request(tp, a, b, k).first = a
         /\ Request(tp, a, b, k).last = b /\ Request(tp, a, b, k).k = k
BY DEF Request

LEMMA RequestTypes ==
  /\ Request("edone", 0, 0, 0) \in Packages /\ Request("adone", 0, 0, 0) \in Packages
  /\ Request("fdone", 0, 0, 0) \in Packages /\ Request("fpart", 0, 0, 1) \in Packages
  /\ \A i \in Ids : Request("epart", i, i, 0) \in Packages
  /\ \A i, j \in Ids : Request("apart", i, j, 1) \in Packages
BY Bounds DEF Request, Packages, Requests, Ids

(* The changes in the archive queue from id on are sent one by one.        *)
LEMMA EventsFacts ==
  ASSUME memA \subseteq Ids, NEW id \in Nat
  PROVE  /\ EventsFrom(id) \in Packages
         /\ \/ EventsFrom(id).tp = "edone" /\ \A i \in memA : i < id
            \/ /\ EventsFrom(id).tp = "epart" /\ EventsFrom(id).first \in memA
               /\ EventsFrom(id).first >= id
               /\ \A i \in memA : i >= id => EventsFrom(id).first <= i
<1> DEFINE rest == {i \in memA : i >= id}
<1>1. CASE rest = {}
  <2>1. EventsFrom(id) = Request("edone", 0, 0, 0)
    BY <1>1 DEF EventsFrom
  <2>2. \A i \in memA : i < id
    BY <1>1, Bounds
  <2>. QED BY <2>1, <2>2, RequestTypes, RequestFields
<1>2. CASE rest # {}
  <2>1. EventsFrom(id) = Request("epart", Min(rest), Min(rest), 0)
    BY <1>2 DEF EventsFrom
  <2>2. rest \in SUBSET Nat
    BY Bounds
  <2>3. Min(rest) \in rest /\ \A y \in rest : Min(rest) <= y
    BY <1>2, <2>2, SmallestId
  <2> HIDE DEF rest
  <2>4. /\ EventsFrom(id).tp = "epart" /\ EventsFrom(id).first = Min(rest)
    BY <2>1, RequestFields
  <2>5. Min(rest) \in memA /\ Min(rest) >= id
    BY <2>3 DEF rest
  <2>6. \A i \in memA : i >= id => Min(rest) <= i
    BY <2>3 DEF rest
  <2>7. EventsFrom(id) \in Packages
    BY <2>1, <2>5, RequestTypes
  <2>. QED BY <2>4, <2>5, <2>6, <2>7
<1>. QED BY <1>1, <1>2

(* A file of the archive, or what follows when none is left.               *)
LEMMA ArchiveFacts ==
  ASSUME archA \subseteq Files, NEW id \in Nat, NEW none
  PROVE  \/ Behind(id) = {} /\ ArchiveFrom(id, none) = none
         \/ /\ ArchiveFrom(id, none) \in Packages
            /\ ArchiveFrom(id, none).tp = "apart" /\ ArchiveFrom(id, none).k = 1
            /\ \E f \in archA :
                 /\ ArchiveFrom(id, none).first = f.first
                 /\ ArchiveFrom(id, none).last = f.last
                 /\ f.last >= id
                 /\ \A g \in archA : g.last >= id => f.first <= g.first
<1>1. CASE Behind(id) = {}
  BY <1>1 DEF ArchiveFrom
<1>2. CASE Behind(id) # {}
  <2> DEFINE f == FileFrom(id)
  <2>1. ArchiveFrom(id, none) = Request("apart", f.first, f.last, 1)
    BY <1>2 DEF ArchiveFrom
  <2>2. /\ f \in archA /\ f.last >= id
        /\ \A g \in archA : g.last >= id => f.first <= g.first
    BY <1>2, NextFile
  <2> HIDE DEF f
  <2>3. f.first \in Ids /\ f.last \in Ids
    BY <2>2 DEF Files
  <2>4. ArchiveFrom(id, none) \in Packages
    BY <2>1, <2>3, RequestTypes
  <2>5. /\ ArchiveFrom(id, none).tp = "apart" /\ ArchiveFrom(id, none).k = 1
        /\ ArchiveFrom(id, none).first = f.first /\ ArchiveFrom(id, none).last = f.last
    BY <2>1, RequestFields
  <2>. QED BY <2>2, <2>4, <2>5
<1>. QED BY <1>1, <1>2

(* The id that S asks for next: S has all before it.                       *)
LEMMA MissingFacts ==
  ASSUME queue \subseteq Queued, ccid \in 0 .. MaxId, NEW id \in Ids
  PROVE  LET m == NextMissing(id) IN
         /\ m \in 0 .. MaxId + 1 /\ m > id /\ m > ccid
         /\ \A i \in Nat : i < m => i <= id \/ i <= ccid \/ \E c \in queue : c.id = i
<1> DEFINE from == Max({id, ccid})
           queued == {c.id : c \in queue}
           S == {i \in from + 1 .. MaxId + 1 : i \notin queued}
<1>1. from = IF id <= ccid THEN ccid ELSE id
  BY Bounds, LargerOfTwo
<1>2. from \in 0 .. MaxId /\ from >= id /\ from >= ccid
  BY <1>1, Bounds DEF Ids
<1>3. NextMissing(id) = Min(S)
  BY DEF NextMissing
<1> HIDE DEF from
<1>4. MaxId + 1 \in S
  <2>1. MaxId + 1 \notin queued
    BY Bounds DEF Queued, Ids
  <2>2. MaxId + 1 \in from + 1 .. MaxId + 1
    BY <1>2, Bounds
  <2>. QED BY <2>1, <2>2
<1>5. S \in SUBSET Nat
  BY <1>2, Bounds
<1>6. Min(S) \in S /\ \A y \in S : Min(S) <= y
  <2> HIDE DEF S
  <2>. QED BY <1>4, <1>5, SmallestId
<1>7. Min(S) \in from + 1 .. MaxId + 1
  BY <1>6
<1>8. ASSUME NEW i \in Nat, i < Min(S), i > id, i > ccid
      PROVE  \E c \in queue : c.id = i
  <2>1. i > from
    BY <1>1, <1>8 DEF from
  <2>2. i \in from + 1 .. MaxId + 1
    BY <1>2, <1>7, <1>8, <2>1, Bounds
  <2>3. i \notin S
    BY <1>2, <1>6, <1>7, <1>8
  <2>. QED BY <2>2, <2>3
<1> HIDE DEF S
<1>9. Min(S) \in 0 .. MaxId + 1 /\ Min(S) > id /\ Min(S) > ccid
  BY <1>2, <1>7, Bounds
<1>. QED BY <1>3, <1>8, <1>9, Bounds

LEMMA LoadableType ==
  ASSUME arch \subseteq Copies, NEW n, NEW m PROVE Loadable(n, m) \subseteq Ids
BY DEF Loadable, Copies

-----------------------------------------------------------------------------
(* Types.                                                                  *)

LEMMA PackageFacts ==
  ASSUME NEW r \in Packages
  PROVE  /\ r \in Requests
         /\ r.tp = "fpart" => r.k \in 1 .. 3
         /\ r.tp = "apart" => r.first \in Ids /\ r.last \in Ids /\ r.k \in 1 .. 2
         /\ r.tp = "epart" => r.first \in Ids
BY Zenon DEF Packages

LEMMA IsPackage ==
  ASSUME NEW r \in Requests,
         r.tp = "fpart" => r.k \in 1 .. 3,
         r.tp = "apart" => r.first \in Ids /\ r.last \in Ids /\ r.k \in 1 .. 2,
         r.tp = "epart" => r.first \in Ids
  PROVE  r \in Packages
BY Zenon DEF Packages

LEMMA NextPart ==
  ASSUME NEW r \in Requests, NEW x \in 0 .. 3
  PROVE  /\ [r EXCEPT !.k = x] \in Requests /\ [r EXCEPT !.k = x].k = x
         /\ [r EXCEPT !.k = x].tp = r.tp /\ [r EXCEPT !.k = x].first = r.first
         /\ [r EXCEPT !.k = x].last = r.last
BY DEF Requests

LEMMA FollowingType ==
  ASSUME Types, NEW r \in Packages, r.tp # "edone", NEW next \in 0 .. MaxId + 1
  PROVE  Following(r, next) \in Packages
<1> USE Bounds
<1>1. memA \subseteq Ids /\ archA \subseteq Files /\ scidA \in Ids /\ stored \in Ids
  BY DEF Types, ServerTypes
<1>2. r \in Requests
  BY DEF Packages
<1>3. CASE r.tp = "fpart"
  <2>1. CASE r.k < 3
    <3>1. Following(r, next) = [r EXCEPT !.k = r.k + 1]
      BY <1>3, <2>1 DEF Following
    <3>2. r.k \in 1 .. 2
      BY <1>3, <2>1 DEF Packages
    <3>3. r.k + 1 \in 1 .. 3 /\ r.k + 1 \in 0 .. 3
      BY <3>2
    <3>4. PICK y \in 1 .. 3 : y = r.k + 1
      BY <3>3
    <3>5. y \in 0 .. 3
      OBVIOUS
    <3>6. /\ [r EXCEPT !.k = y] \in Requests /\ [r EXCEPT !.k = y].tp = "fpart"
          /\ [r EXCEPT !.k = y].k = y
      BY <1>2, <1>3, <3>5, NextPart
    <3>7. [r EXCEPT !.k = y] \in Packages
      BY <3>6 DEF Packages
    <3>. QED BY <3>1, <3>4, <3>7
  <2>2. CASE ~(r.k < 3)
    <3>1. Following(r, next) = Request("fdone", 0, 0, 0)
      BY <1>3, <2>2 DEF Following
    <3>. QED BY <3>1, RequestTypes
  <2>. QED BY <2>1, <2>2
<1>4. CASE r.tp = "fdone"
  <2> DEFINE e == EventsFrom(stored + 1)
  <2>1. Following(r, next) = ArchiveFrom(stored + 1, e)
    BY <1>4 DEF Following
  <2>2. stored + 1 \in Nat
    BY <1>1
  <2>3. e \in Packages
    BY <1>1, <2>2, EventsFacts
  <2> HIDE DEF e
  <2>4. ArchiveFrom(stored + 1, e) \in Packages
    BY <1>1, <2>2, <2>3, ArchiveFacts
  <2>. QED BY <2>1, <2>4
<1>5. CASE r.tp = "apart"
  <2>1. CASE r.k < 2
    <3>1. Following(r, next) = [r EXCEPT !.k = 2]
      BY <1>5, <2>1 DEF Following
    <3>2. [r EXCEPT !.k = 2] \in Requests /\ [r EXCEPT !.k = 2].tp = "apart"
          /\ [r EXCEPT !.k = 2].k = 2 /\ [r EXCEPT !.k = 2].first = r.first
          /\ [r EXCEPT !.k = 2].last = r.last
      <4>1. 2 \in 0 .. 3
        OBVIOUS
      <4>. QED BY <1>2, <1>5, <4>1, NextPart, Zenon
    <3>3. [r EXCEPT !.k = 2] \in Packages
      <4>1. r.first \in Ids /\ r.last \in Ids /\ 2 \in 1 .. 2
        BY <1>5, PackageFacts
      <4> DEFINE s == [r EXCEPT !.k = 2]
      <4>2. /\ s \in Requests /\ s.tp = "apart" /\ s.first \in Ids /\ s.last \in Ids
            /\ s.k \in 1 .. 2
        BY <3>2, <4>1, Zenon
      <4> HIDE DEF s
      <4>3. s \in Packages
        BY <4>2, IsPackage
      <4>. QED BY <4>3 DEF s
    <3>. QED BY <3>1, <3>3
  <2>2. CASE ~(r.k < 2)
    <3>1. Following(r, next) = ArchiveFrom(r.last + 1, Request("adone", 0, 0, 0))
      BY <1>5, <2>2 DEF Following
    <3>2. r.last + 1 \in Nat
      <4>1. r.last \in Ids
        BY <1>5, PackageFacts
      <4>2. \A i \in Ids : i + 1 \in Nat
        OBVIOUS
      <4>. QED BY <4>1, <4>2, Zenon
    <3>3. ArchiveFrom(r.last + 1, Request("adone", 0, 0, 0)) \in Packages
      BY <1>1, <3>2, ArchiveFacts, RequestTypes
    <3>. QED BY <3>1, <3>3
  <2>. QED BY <2>1, <2>2
<1>6. CASE r.tp = "adone"
  <2>1. Following(r, next) = EventsFrom(scidA + 1) /\ scidA + 1 \in Nat
    BY <1>1, <1>6 DEF Following
  <2>. QED BY <1>1, <2>1, EventsFacts
<1>7. CASE r.tp = "epart"
  <2>1. Following(r, next) = EventsFrom(next) /\ next \in Nat
    BY <1>7 DEF Following
  <2>. QED BY <1>1, <2>1, EventsFacts
<1>. QED BY <1>2, <1>3, <1>4, <1>5, <1>6, <1>7 DEF Requests

LEMMA AnsweredTypes ==
  ASSUME Types, NEW r \in Packages, NEW ok \in BOOLEAN, NEW next \in 0 .. MaxId + 1,
         Answered(r, ok, next)
  PROVE  /\ syncers' \subseteq Ids \cup {MaxId + 1} /\ flag' \in BOOLEAN
         /\ open' \subseteq Packages /\ toS' \in Seq(Packages)
<1>0. /\ syncers \subseteq Ids \cup {MaxId + 1} /\ flag \in BOOLEAN
      /\ open \subseteq Packages /\ toS \in Seq(Packages)
  BY DEF Types, NetTypes
<1>1. CASE r.tp = "edone" /\ syncers' = {} /\ flag' = FALSE /\ open' = {} /\ UNCHANGED toS
  BY <1>0, <1>1
<1>2. CASE syncers' = {} /\ open' = {} /\ UNCHANGED <<flag, toS>>
  BY <1>0, <1>2
<1>3. CASE r.tp # "edone" /\ Ask(Following(r, next)) /\ UNCHANGED <<syncers, flag>>
  <2>1. Following(r, next) \in Packages
    BY <1>3, FollowingType
  <2>2. open' = {Following(r, next)} /\ toS' = Append(toS, Following(r, next))
    BY <1>3 DEF Ask
  <2>. QED BY <1>0, <1>3, <2>1, <2>2
<1>. QED BY <1>1, <1>2, <1>3, Zenon DEF Answered

LEMMA AddType ==
  ASSUME NEW q \in SUBSET Queued, NEW cs \in SUBSET Queued
  PROVE  Add(q, cs) \subseteq Queued
<1> DEFINE new == {c \in cs : c.id > ccid}
           flagged(d) == d.gap \/ \E c \in new : c.id = d.id /\ c.gap
<1>1. Add(q, cs) = {[id |-> d.id, gap |-> flagged(d)] : d \in q}
                     \cup {c \in new : \A d \in q : d.id # c.id}
  BY DEF Add
<1>2. \A d \in q : d.id \in Ids /\ flagged(d) \in BOOLEAN
  BY DEF Queued
<1>3. \A d \in q : [id |-> d.id, gap |-> flagged(d)] \in Queued
  <2> HIDE DEF flagged
  <2>. QED BY <1>2 DEF Queued
<1>4. \A c \in new : c \in Queued
  OBVIOUS
<1> HIDE DEF flagged, new
<1>. QED BY <1>1, <1>3, <1>4

LEMMA GapType ==
  ASSUME NEW S \in SUBSET Ids, NEW b \in BOOLEAN
  PROVE  {[id |-> i, gap |-> b] : i \in S} \subseteq Queued
BY DEF Queued

LEMMA InitTypes == Init => Types
<1> SUFFICES ASSUME Init PROVE Types
  OBVIOUS
<1> USE Bounds
<1>1. PICK n \in Starts : /\ ccid = n /\ scid = n /\ data = 1 .. n
                          /\ store = Store(n, 1 .. n, n > 0)
  BY DEF Init
<1>2. n \in 0 .. MaxId /\ 1 .. n \subseteq Ids
  BY StartsAssumption DEF Ids
<1>3. made \in Ids /\ ccidA \in Ids /\ stored \in Ids
  BY DEF Init, Ids
<1>4. PICK from \in 1 .. stored + 1 :
        /\ scidA \in stored .. made
        /\ archA = IF from <= scidA THEN {[first |-> from, last |-> scidA]} ELSE {}
        /\ memA = scidA + 1 .. made
  BY DEF Init
<1>5. scidA \in Ids /\ memA \subseteq Ids
  BY <1>3, <1>4 DEF Ids
<1>6. archA \subseteq Files
  <2>1. from <= scidA => from \in Ids
    BY <1>3, <1>4, <1>5 DEF Ids
  <2>. QED BY <1>4, <1>5, <2>1 DEF Files
<1>7. ServerTypes
  BY <1>3, <1>5, <1>6 DEF ServerTypes, Init
<1>8. NodeTypes
  <2>1. (n > 0) \in BOOLEAN
    OBVIOUS
  <2>2. store \in Stores
    BY <1>1, <1>2, <2>1 DEF Store, Stores
  <2>. QED BY <1>1, <1>2, <2>2 DEF NodeTypes, Init
<1>9. NetTypes
  <2>1. toS = <<>> /\ toA = <<>> /\ open = {} /\ cast = {} /\ syncers = {} /\ ask = {}
        /\ flag = FALSE /\ link = TRUE /\ faults = 0
    BY DEF Init
  <2>2. <<>> \in Seq(Packages) /\ <<>> \in Seq(Responses) /\ 0 \in 0 .. MaxFaults
    BY SyncBoundsAssumption
  <2>. QED BY <2>1, <2>2 DEF NetTypes
<1>. QED BY <1>7, <1>8, <1>9 DEF Types

(* Making a file of the archive queue and removing files of the archive.   *)
LEMMA WorkFacts ==
  ASSUME Types, WorkFinish
  PROVE  /\ stored' \in {stored, ccidA} /\ (memA = {} => stored' = stored)
         /\ memA' = {} /\ (memA = {} => scidA' = scidA)
         /\ memA # {} => /\ scidA' \in memA /\ \A i \in memA : i <= scidA'
                         /\ \E i \in memA : /\ \A j \in memA : i <= j
                                            /\ \A f \in archA' : f \in archA \/
                                                 f = [first |-> i, last |-> scidA']
                                            /\ scidA' <= scid \/
                                                 [first |-> i, last |-> scidA'] \in archA'
                                               \/ scidA' <= stored'
         /\ memA = {} => archA' \subseteq archA
         /\ \A f \in archA \ archA' :
              f.last <= scid /\ f.last <= stored' /\ f.last <= scidA'
         /\ archA' \subseteq Files /\ stored' \in Ids /\ scidA' \in Ids
<1> USE Bounds
<1>0. /\ memA \subseteq Ids /\ archA \subseteq Files /\ scidA \in Ids /\ stored \in Ids
      /\ ccidA \in Ids /\ scid \in Nat
  BY DEF Types, ServerTypes, NodeTypes
<1>1. /\ stored' \in IF memA = {} THEN {stored} ELSE {stored, ccidA}
      /\ scidA' = IF memA = {} THEN scidA ELSE Max(memA)
      /\ memA' = {}
      /\ archA' = {f \in archA \cup (IF memA = {} THEN {}
                                     ELSE {[first |-> Min(memA), last |-> Max(memA)]}) :
                     f.last > Min({stored', scidA', scid})}
  BY DEF WorkFinish
<1>2. memA # {} => /\ Min(memA) \in memA /\ \A y \in memA : Min(memA) <= y
                   /\ Max(memA) \in memA /\ \A y \in memA : y <= Max(memA)
  <2> SUFFICES ASSUME memA # {}
               PROVE  /\ Min(memA) \in memA /\ \A y \in memA : Min(memA) <= y
                      /\ Max(memA) \in memA /\ \A y \in memA : y <= Max(memA)
    OBVIOUS
  <2>1. memA \in SUBSET Nat /\ MaxId \in Nat /\ \A y \in memA : y <= MaxId
    BY <1>0 DEF Ids
  <2>. QED BY <2>1, SmallestId, LargestId
<1>3. stored' \in Ids /\ scidA' \in Ids /\ stored' \in {stored, ccidA}
  BY <1>0, <1>1, <1>2
<1> DEFINE m == Min({stored', scidA', scid})
<1>4. m \in Nat /\ m <= stored' /\ m <= scidA' /\ m <= scid
      /\ (m = stored' \/ m = scidA' \/ m = scid)
  <2>1. {stored', scidA', scid} \in SUBSET Nat /\ {stored', scidA', scid} # {}
    BY <1>0, <1>3
  <2>2. m \in {stored', scidA', scid} /\ \A y \in {stored', scidA', scid} : m <= y
    BY <2>1, SmallestId, Zenon
  <2> HIDE DEF m
  <2>. QED BY <1>0, <1>3, <2>2
<1> HIDE DEF m
<1>5. CASE memA = {}
  <2>1. archA' = {f \in archA : f.last > m}
    BY <1>1, <1>5 DEF m
  <2>2. \A f \in archA \ archA' : f.last <= m /\ f.last \in Nat
    <3>1. \A f \in archA : f.last \in Nat
      BY <1>0 DEF Files
    <3>2. \A f \in archA \ archA' : ~(f.last > m)
      BY <2>1, Zenon
    <3>3. \A x \in Nat : ~(x > m) => x <= m
      BY <1>4
    <3>. QED BY <3>1, <3>2, <3>3, Zenon
  <2>3. \A f \in archA \ archA' : f.last <= scid /\ f.last <= stored' /\ f.last <= scidA'
    BY <1>0, <1>3, <1>4, <2>2
  <2>. QED BY <1>0, <1>1, <1>3, <1>5, <2>1, <2>3
<1>6. CASE memA # {}
  <2> DEFINE new == [first |-> Min(memA), last |-> Max(memA)]
  <2>1. archA' = {f \in archA \cup {new} : f.last > m}
    BY <1>1, <1>6 DEF m
  <2>2. new \in Files /\ new.last = Max(memA) /\ scidA' = Max(memA)
        /\ new = [first |-> Min(memA), last |-> scidA']
    BY <1>0, <1>1, <1>2, <1>6 DEF Files
  <2> HIDE DEF new
  <2>3. \A f \in archA \ archA' : f.last <= m /\ f.last \in Nat
    <3>1. \A f \in archA : f.last \in Nat
      BY <1>0 DEF Files
    <3>2. \A f \in archA \ archA' : ~(f.last > m)
      BY <2>1, Zenon
    <3>3. \A x \in Nat : ~(x > m) => x <= m
      BY <1>4
    <3>. QED BY <3>1, <3>2, <3>3, Zenon
  <2>4. \A f \in archA \ archA' : f.last <= scid /\ f.last <= stored' /\ f.last <= scidA'
    BY <1>0, <1>3, <1>4, <2>3
  <2>5. \A f \in archA' : f \in archA \/ f = new
    BY <2>1
  <2>6. scidA' <= scid \/ scidA' <= stored' \/ new \in archA'
    BY <1>0, <1>3, <1>4, <2>1, <2>2
  <2>7. archA' \subseteq Files
    BY <1>0, <2>2, <2>5
  <2>. QED BY <1>1, <1>2, <1>3, <1>6, <2>2, <2>4, <2>5, <2>6, <2>7
<1>. QED BY <1>5, <1>6

LEMMA ServerStepTypes ==
  ASSUME Types, Make \/ CommitA \/ GoSoon \/ GoAway \/ WorkFinish \/ ComeBack
  PROVE  Types'
<1> USE Bounds
<1>0. ServerTypes /\ NodeTypes /\ NetTypes
  BY DEF Types
<1>1. CASE Make
  <2>1. made + 1 \in Ids
    BY <1>0, <1>1 DEF Make, ServerTypes, Ids
  <2>2. ServerTypes'
    BY <1>0, <1>1, <2>1 DEF Make, ServerTypes
  <2>3. NodeTypes'
    BY <1>0, <1>1 DEF Make, NodeTypes, memory, disk
  <2>4. NetTypes'
    BY <1>0, <1>1, <2>1 DEF Make, NetTypes, session
  <2>. QED BY <2>2, <2>3, <2>4 DEF Types
<1>2. CASE CommitA
  <2>1. ccidA + 1 \in Ids
    BY <1>0, <1>2 DEF CommitA, ServerTypes
  <2>2. ServerTypes'
    BY <1>0, <1>2, <2>1 DEF CommitA, ServerTypes
  <2>3. NodeTypes'
    BY <1>0, <1>2 DEF CommitA, NodeTypes, memory, disk
  <2>4. NetTypes'
    BY <1>0, <1>2 DEF CommitA, NetTypes, session, net
  <2>. QED BY <2>2, <2>3, <2>4 DEF Types
<1>3. CASE GoSoon \/ GoAway \/ ComeBack
  <2>1. /\ away' \in {"READY", "SOON", "WORKING", "SYNCING"}
        /\ UNCHANGED <<made, queueA, ccidA, scidA, stored, archA, memA, session,
                       status, memory, disk, net, faults>>
    BY <1>3 DEF GoSoon, GoAway, ComeBack
  <2>2. ServerTypes'
    BY <1>0, <2>1 DEF ServerTypes
  <2>3. NodeTypes'
    BY <1>0, <2>1 DEF NodeTypes, memory, disk
  <2>4. NetTypes'
    BY <1>0, <2>1 DEF NetTypes, session, net
  <2>. QED BY <2>2, <2>3, <2>4 DEF Types
<1>4. CASE WorkFinish
  <2>1. archA' \subseteq Files /\ stored' \in Ids /\ scidA' \in Ids /\ memA' = {}
    BY <1>4, WorkFacts
  <2>2. /\ away' = "SYNCING"
        /\ UNCHANGED <<made, queueA, ccidA, session, status, memory, disk, net, faults>>
    BY <1>4 DEF WorkFinish
  <2>3. ServerTypes'
    BY <1>0, <2>1, <2>2 DEF ServerTypes
  <2>4. NodeTypes'
    BY <1>0, <2>2 DEF NodeTypes, memory, disk
  <2>5. NetTypes'
    BY <1>0, <2>2 DEF NetTypes, session, net
  <2>. QED BY <2>3, <2>4, <2>5 DEF Types
<1>. QED BY <1>1, <1>2, <1>3, <1>4

(* The first request of a session.                                         *)
Opening(first) ==
  IF FullSync(first) THEN Request("fpart", 0, 0, 1)
  ELSE ArchiveFrom(first, EventsFrom(first))

LEMMA OpeningType ==
  ASSUME Types, NEW first \in Ids \cup {MaxId + 1}
  PROVE  Opening(first) \in Packages
<1>1. /\ memA \subseteq Ids /\ archA \subseteq Files /\ first \in Nat
  BY Bounds DEF Types, ServerTypes
<1>2. EventsFrom(first) \in Packages
  BY <1>1, EventsFacts
<1>3. ArchiveFrom(first, EventsFrom(first)) \in Packages
  BY <1>1, <1>2, ArchiveFacts
<1>. QED BY <1>3, RequestTypes DEF Opening

LEMMA SessionStepTypes ==
  ASSUME Types, Serve \/ OnResponse \/ RequestFails \/ OnReqSync \/ FindAwayNode
                \/ LinkDown \/ LinkUp \/ Crash
  PROVE  Types'
<1> USE Bounds
<1>0. ServerTypes /\ NodeTypes /\ NetTypes
  BY DEF Types
<1>1. CASE Serve
  <2>1. PICK first \in syncers : flag' = TRUE /\ Ask(Opening(first))
    BY <1>1, Zenon DEF Serve, Opening
  <2>2. Opening(first) \in Packages
    BY <1>0, <2>1, OpeningType DEF NetTypes
  <2>3. open' = {Opening(first)} /\ toS' = Append(toS, Opening(first))
    BY <2>1 DEF Ask
  <2>4. UNCHANGED <<made, server, syncers, status, memory, disk, link, ask, toA,
                    cast, faults>>
    BY <1>1 DEF Serve
  <2>5. ServerTypes'
    BY <1>0, <2>4 DEF ServerTypes, server
  <2>6. NodeTypes'
    BY <1>0, <2>4 DEF NodeTypes, memory, disk
  <2>7. NetTypes'
    BY <1>0, <2>1, <2>2, <2>3, <2>4 DEF NetTypes
  <2>. QED BY <2>5, <2>6, <2>7 DEF Types
<1>2. CASE OnResponse
  <2> DEFINE m == Head(toA)
  <2>1. m \in Responses /\ Tail(toA) \in Seq(Responses)
    BY <1>0, <1>2 DEF OnResponse, NetTypes
  <2>2. m.req \in Packages /\ m.ok \in BOOLEAN /\ m.next \in 0 .. MaxId + 1
    BY <2>1 DEF Responses
  <2>3. /\ toA' = Tail(toA)
        /\ \/ Answered(m.req, m.ok, m.next)
           \/ UNCHANGED <<session, toS>>
        /\ UNCHANGED <<made, server, status, memory, disk, link, ask, cast, faults>>
    BY <1>2 DEF OnResponse
  <2> HIDE DEF m
  <2>4. /\ syncers' \subseteq Ids \cup {MaxId + 1} /\ flag' \in BOOLEAN
        /\ open' \subseteq Packages /\ toS' \in Seq(Packages)
    <3>1. CASE Answered(m.req, m.ok, m.next)
      BY <2>2, <3>1, AnsweredTypes
    <3>2. CASE UNCHANGED <<session, toS>>
      BY <1>0, <3>2 DEF session, NetTypes
    <3>. QED BY <2>3, <3>1, <3>2
  <2>5. ServerTypes'
    BY <1>0, <2>3 DEF ServerTypes, server
  <2>6. NodeTypes'
    BY <1>0, <2>3 DEF NodeTypes, memory, disk
  <2>7. NetTypes'
    BY <1>0, <2>1, <2>3, <2>4 DEF NetTypes
  <2>. QED BY <2>5, <2>6, <2>7 DEF Types
<1>3. CASE RequestFails
  <2>1. PICK r \in open : Answered(r, FALSE, 0)
    BY <1>3 DEF RequestFails
  <2>2. /\ syncers' \subseteq Ids \cup {MaxId + 1} /\ flag' \in BOOLEAN
        /\ open' \subseteq Packages /\ toS' \in Seq(Packages)
    <3>1. r \in Packages /\ 0 \in 0 .. MaxId + 1 /\ FALSE \in BOOLEAN
      BY <1>0 DEF NetTypes
    <3>. QED BY <2>1, <3>1, AnsweredTypes
  <2>3. /\ faults' \in 0 .. MaxFaults
        /\ UNCHANGED <<made, server, status, memory, disk, link, ask, toA, cast>>
    BY <1>0, <1>3, SyncBoundsAssumption DEF RequestFails, NetTypes
  <2>4. ServerTypes'
    BY <1>0, <2>3 DEF ServerTypes, server
  <2>5. NodeTypes'
    BY <1>0, <2>3 DEF NodeTypes, memory, disk
  <2>6. NetTypes'
    BY <1>0, <2>2, <2>3 DEF NetTypes
  <2>. QED BY <2>4, <2>5, <2>6 DEF Types
<1>4. CASE OnReqSync
  <2>1. ServerTypes'
    BY <1>0, <1>4 DEF OnReqSync, ServerTypes, server
  <2>2. NodeTypes'
    BY <1>0, <1>4 DEF OnReqSync, NodeTypes, memory, disk
  <2>3. NetTypes'
    BY <1>0, <1>4 DEF OnReqSync, NetTypes
  <2>. QED BY <2>1, <2>2, <2>3 DEF Types
<1>5. CASE FindAwayNode
  <2>0. ccid + 1 \in Ids \cup {MaxId + 1}
    BY <1>0 DEF NodeTypes, Ids
  <2>1. /\ asked' \in BOOLEAN /\ ask' \subseteq Ids \cup {MaxId + 1}
        /\ UNCHANGED <<made, server, session, status, ccid, scid, data, queue, disk,
                       link, toS, toA, cast, faults>>
    BY <1>0, <1>5, <2>0 DEF FindAwayNode, NetTypes
  <2>2. ServerTypes'
    BY <1>0, <2>1 DEF ServerTypes, server
  <2>3. NodeTypes'
    BY <1>0, <2>1 DEF NodeTypes, disk
  <2>4. NetTypes'
    BY <1>0, <2>1 DEF NetTypes, session
  <2>. QED BY <2>2, <2>3, <2>4 DEF Types
<1>6. CASE LinkDown \/ Crash
  <2>1. /\ faults' \in 0 .. MaxFaults /\ link' = FALSE /\ ask' = {}
        /\ toS' = <<>> /\ toA' = <<>> /\ syncers' = {} /\ flag' = FALSE /\ open' = {}
        /\ cast' \subseteq cast /\ status' \in {status, "DOWN"}
        /\ UNCHANGED <<made, server, memory, disk>>
    BY <1>0, <1>6, SyncBoundsAssumption DEF LinkDown, Crash, Disconnect, NetTypes
  <2>2. ServerTypes'
    BY <1>0, <2>1 DEF ServerTypes, server
  <2>3. NodeTypes'
    BY <1>0, <2>1 DEF NodeTypes, memory, disk
  <2>4. NetTypes'
    <3>1. <<>> \in Seq(Packages) /\ <<>> \in Seq(Responses)
      OBVIOUS
    <3>. QED BY <1>0, <2>1, <3>1 DEF NetTypes
  <2>. QED BY <2>2, <2>3, <2>4 DEF Types
<1>7. CASE LinkUp
  <2>1. ServerTypes'
    BY <1>0, <1>7 DEF LinkUp, ServerTypes, server
  <2>2. NodeTypes'
    BY <1>0, <1>7 DEF LinkUp, NodeTypes, memory, disk
  <2>3. NetTypes'
    BY <1>0, <1>7 DEF LinkUp, NetTypes, session
  <2>. QED BY <2>1, <2>2, <2>3 DEF Types
<1>. QED BY <1>1, <1>2, <1>3, <1>4, <1>5, <1>6, <1>7

LEMMA StoreFields ==
  ASSUME NEW s \in Stores, NEW n \in 0 .. MaxId, NEW d \in SUBSET Ids, NEW w \in BOOLEAN
  PROVE  /\ Store(n, d, w) \in Stores
         /\ [s EXCEPT !.ccid = n] \in Stores /\ [s EXCEPT !.ccid = n].ccid = n
         /\ [s EXCEPT !.ccid = n].data = s.data
         /\ [s EXCEPT !.data = d, !.whole = w] \in Stores
         /\ [s EXCEPT !.data = d, !.whole = w].ccid = s.ccid
         /\ [s EXCEPT !.data = d, !.whole = w].data = d
<1>1. Store(n, d, w) \in Stores
  BY DEF Store, Stores
<1>2. /\ [s EXCEPT !.ccid = n] \in Stores /\ [s EXCEPT !.ccid = n].ccid = n
      /\ [s EXCEPT !.ccid = n].data = s.data
  BY DEF Stores
<1>3. [s EXCEPT !.data = d, !.whole = w] \in Stores
  BY Zenon DEF Stores
<1>4. /\ [s EXCEPT !.data = d, !.whole = w].ccid = s.ccid
      /\ [s EXCEPT !.data = d, !.whole = w].data = d
  BY DEF Stores
<1>. QED BY <1>1, <1>2, <1>3, <1>4

(* The last id of a set of changes and of a number.                        *)
LEMMA LastOf ==
  ASSUME NEW S \in SUBSET Ids, NEW n \in 0 .. MaxId
  PROVE  /\ Max(S \cup {n}) \in 0 .. MaxId /\ Max(S \cup {n}) \in S \cup {n}
         /\ n <= Max(S \cup {n}) /\ \A i \in S : i <= Max(S \cup {n})
<1> DEFINE T == S \cup {n}
<1>1. T \in SUBSET Nat /\ T # {} /\ MaxId \in Nat /\ (\A y \in T : y <= MaxId)
  BY Bounds DEF Ids
<1>2. Max(T) \in T /\ \A y \in T : y <= Max(T)
  BY <1>1, LargestId
<1>3. T \subseteq 0 .. MaxId
  BY Bounds DEF Ids
<1>. QED BY <1>2, <1>3

LEMMA FullPartTypes ==
  ASSUME Types, NEW r \in Packages, r.tp = "fpart", OnFullPart(r)
  PROVE  store' \in Stores
<1>1. store \in Stores /\ stored \in 0 .. MaxId /\ 1 .. stored \subseteq Ids
  <2>1. store \in Stores /\ stored \in Ids
    BY DEF Types, NodeTypes, ServerTypes
  <2>. QED BY <2>1, Bounds DEF Ids
<1>2. r.k \in 1 .. 3
  BY PackageFacts
<1>3. CASE r.k = 1
  <2>1. store' = [store EXCEPT !.ccid = stored]
    BY <1>3 DEF OnFullPart
  <2>. QED BY <1>1, <2>1, StoreFields
<1>4. CASE r.k = 2
  <2>1. store' = [store EXCEPT !.data = {}, !.whole = FALSE]
    BY <1>4 DEF OnFullPart
  <2>2. {} \in SUBSET Ids /\ FALSE \in BOOLEAN
    OBVIOUS
  <2>. QED BY <1>1, <2>1, <2>2, StoreFields
<1>5. CASE r.k = 3
  <2>1. store' = [store EXCEPT !.data = 1 .. stored, !.whole = TRUE]
    BY <1>5 DEF OnFullPart
  <2>2. TRUE \in BOOLEAN
    OBVIOUS
  <2>. QED BY <1>1, <2>1, <2>2, StoreFields
<1>. QED BY <1>2, <1>3, <1>4, <1>5

(* A part of an archive file has some of its changes, the last part all.   *)
LEMMA ArchivePartFacts ==
  ASSUME Types, NEW r \in Packages, r.tp = "apart", OnArchivePart(r)
  PROVE  \E ids \in SUBSET Ids :
           /\ ids \subseteq r.first .. r.last /\ (r.k = 2 => ids = r.first .. r.last)
           /\ arch' = {f \in arch : <<f.first, f.last>> # <<r.first, r.last>>}
                \cup {[first |-> r.first, last |-> r.last, ids |-> ids]}
<1>1. r.first \in Ids /\ r.last \in Ids /\ r.k \in 1 .. 2
  BY PackageFacts
<1>2. PICK ids \in IF r.k = 1 THEN {r.first .. n : n \in r.first .. r.last}
                   ELSE {r.first .. r.last} :
        arch' = {f \in arch : <<f.first, f.last>> # <<r.first, r.last>>}
          \cup {[first |-> r.first, last |-> r.last, ids |-> ids]}
  BY DEF OnArchivePart
<1>3. ids \subseteq r.first .. r.last /\ (r.k = 2 => ids = r.first .. r.last)
  <2>1. PICK a \in Ids, b \in Ids : a = r.first /\ b = r.last
    BY <1>1
  <2>2. ids \in IF r.k = 1 THEN {a .. n : n \in a .. b} ELSE {a .. b}
    BY <1>2, <2>1
  <2>3. ids \subseteq a .. b /\ (r.k = 2 => ids = a .. b)
    BY <1>1, <2>2, Bounds
  <2>. QED BY <2>1, <2>3
<1>4. ids \subseteq Ids
  <2>1. \A a, b \in Ids : a .. b \subseteq Ids
    BY Bounds DEF Ids
  <2>. QED BY <1>1, <1>3, <2>1, Zenon
<1>. QED BY <1>2, <1>3, <1>4, Zenon

LEMMA NodeStepTypes ==
  ASSUME Types, OnSyncPart \/ OnChange \/ Loop \/ Restart \/ Rebuild
  PROVE  Types'
<1> USE Bounds
<1>0. ServerTypes /\ NodeTypes /\ NetTypes
  BY DEF Types
<1>00. arch \subseteq Copies /\ queue \subseteq Queued /\ ccid \in 0 .. MaxId
       /\ scid \in 0 .. MaxId /\ store \in Stores /\ data \subseteq Ids
  BY <1>0 DEF NodeTypes
<1>1. CASE OnSyncPart
  <2> DEFINE r == Head(toS)
  <2>1. /\ toS # <<>> /\ toS' = Tail(toS)
        /\ UNCHANGED <<made, server, session, asked, link, ask, cast, faults>>
    BY <1>1 DEF OnSyncPart
  <2>2. r \in Packages /\ Tail(toS) \in Seq(Packages)
    BY <1>0, <2>1 DEF NetTypes
  <2>3. r \in Requests
    BY <2>2, PackageFacts
  <2>4. \E ok \in BOOLEAN, next \in 0 .. MaxId + 1 :
          toA' = Append(toA, [req |-> r, ok |-> ok, next |-> next])
    <3>1. r.tp = "epart" => NextMissing(r.first) \in 0 .. MaxId + 1
      <4> SUFFICES ASSUME r.tp = "epart" PROVE NextMissing(r.first) \in 0 .. MaxId + 1
        OBVIOUS
      <4>1. r.first \in Ids
        BY <2>2, PackageFacts
      <4>. QED BY <1>00, <4>1, MissingFacts
    <3>2. CASE toA' = Append(toA, [req |-> r, ok |-> TRUE,
                       next |-> IF r.tp = "epart" THEN NextMissing(r.first) ELSE 0])
      <4>1. (IF r.tp = "epart" THEN NextMissing(r.first) ELSE 0) \in 0 .. MaxId + 1
        BY <3>1
      <4>. QED BY <3>2, <4>1, Zenon
    <3>3. CASE toA' = Append(toA, [req |-> r, ok |-> FALSE, next |-> 0])
      <4>1. 0 \in 0 .. MaxId + 1
        OBVIOUS
      <4>. QED BY <3>3, <4>1, Zenon
    <3>. QED BY <1>1, <3>2, <3>3, Zenon DEF OnSyncPart
  <2>5. ServerTypes'
    BY <1>0, <2>1 DEF ServerTypes, server
  <2>6. NetTypes'
    <3>1. PICK ok \in BOOLEAN, next \in 0 .. MaxId + 1 :
            toA' = Append(toA, [req |-> r, ok |-> ok, next |-> next])
      BY <2>4
    <3>2. [req |-> r, ok |-> ok, next |-> next] \in Responses
      BY <2>2 DEF Responses
    <3>3. toA' \in Seq(Responses)
      BY <1>0, <3>1, <3>2 DEF NetTypes
    <3> HIDE DEF r
    <3>. QED BY <1>0, <2>1, <2>2, <3>3 DEF NetTypes, session
  <2>7. NodeTypes'
    <3>1. CASE status = "READY" /\ UNCHANGED <<status, disk, ccid, scid, data, queue>>
      BY <1>0, <2>1, <3>1 DEF NodeTypes, disk
    <3>2. CASE /\ status = "SYNC"
               /\ CASE r.tp = "fpart" -> OnFullPart(r)
                    [] r.tp = "fdone" -> OnFullDone(r)
                    [] r.tp = "apart" -> OnArchivePart(r)
                    [] r.tp = "adone" -> OnArchiveDone(r)
                    [] r.tp = "epart" -> OnEventPart(r)
                    [] r.tp = "edone" -> OnEventDone(r)
      <4> HIDE DEF r
      <4>1. CASE r.tp = "fpart"
        <5>1. OnFullPart(r)
          BY <3>2, <4>1
        <5>2. store' \in Stores
          BY <2>2, <4>1, <5>1, FullPartTypes
        <5>. QED BY <1>0, <2>1, <5>1, <5>2 DEF OnFullPart, NodeTypes
      <4>2. CASE r.tp = "fdone"
        <5>1. OnFullDone(r)
          BY <3>2, <4>2
        <5>2. store.ccid \in 0 .. MaxId /\ store.data \subseteq Ids
          BY <1>00 DEF Stores
        <5>. QED BY <1>0, <2>1, <5>1, <5>2 DEF OnFullDone, NodeTypes, disk
      <4>3. CASE r.tp = "apart"
        <5>1. OnArchivePart(r)
          BY <3>2, <4>3
        <5>2. r.first \in Ids /\ r.last \in Ids
          BY <2>2, <4>3, PackageFacts
        <5>3. PICK ids \in SUBSET Ids :
                arch' = {f \in arch : <<f.first, f.last>> # <<r.first, r.last>>}
                  \cup {[first |-> r.first, last |-> r.last, ids |-> ids]}
          BY <2>2, <4>3, <5>1, ArchivePartFacts
        <5>4. [first |-> r.first, last |-> r.last, ids |-> ids] \in Copies
          BY <5>2 DEF Copies
        <5>5. arch' \subseteq Copies
          BY <1>00, <5>3, <5>4
        <5>. QED BY <1>0, <2>1, <5>1, <5>5 DEF OnArchivePart, NodeTypes
      <4>4. CASE r.tp = "adone"
        <5> DEFINE new == Loadable(ccid, scid)
                   cs == {[id |-> i, gap |-> TRUE] : i \in new}
        <5>1. OnArchiveDone(r)
          BY <3>2, <4>4
        <5>2. /\ scid' = Max(new \cup {scid}) /\ queue' = Add(queue, cs)
              /\ UNCHANGED <<disk, ccid, data, status>>
          BY <5>1 DEF OnArchiveDone
        <5>3. new \in SUBSET Ids
          BY <1>00, LoadableType
        <5> HIDE DEF new
        <5>4. Max(new \cup {scid}) \in 0 .. MaxId
          BY <1>00, <5>3, LastOf
        <5>5. cs \subseteq Queued
          BY <5>3, GapType
        <5> HIDE DEF cs
        <5>6. Add(queue, cs) \subseteq Queued
          BY <1>00, <5>5, AddType
        <5>. QED BY <1>0, <2>1, <5>2, <5>4, <5>6 DEF NodeTypes, disk
      <4>5. CASE r.tp = "epart"
        <5> DEFINE cs == {[id |-> r.first, gap |-> TRUE]}
        <5>1. OnEventPart(r)
          BY <3>2, <4>5
        <5>2. queue' = Add(queue, cs) /\ UNCHANGED <<disk, ccid, scid, data, status>>
          BY <5>1 DEF OnEventPart
        <5>3. r.first \in Ids
          BY <2>2, <4>5, PackageFacts
        <5>4. cs \subseteq Queued
          BY <5>3 DEF Queued
        <5> HIDE DEF cs
        <5>5. Add(queue, cs) \subseteq Queued
          BY <1>00, <5>4, AddType
        <5>. QED BY <1>0, <2>1, <5>2, <5>5 DEF NodeTypes, disk
      <4>6. CASE r.tp = "edone"
        <5>1. OnEventDone(r)
          BY <3>2, <4>6
        <5>. QED BY <1>0, <2>1, <5>1 DEF OnEventDone, NodeTypes, disk
      <4>. QED BY <2>3, <4>1, <4>2, <4>3, <4>4, <4>5, <4>6 DEF Requests
    <3>. QED BY <1>1, <3>1, <3>2, Zenon DEF OnSyncPart
  <2>. QED BY <2>5, <2>6, <2>7 DEF Types
<1>2. CASE OnChange
  <2>1. PICK i \in cast :
          /\ cast' = cast \ {i}
          /\ queue' = Add(queue, {[id |-> i, gap |-> FALSE]})
    BY <1>2 DEF OnChange
  <2>2. UNCHANGED <<made, server, session, status, asked, ccid, scid, data, disk,
                    link, ask, toS, toA, faults>>
    BY <1>2 DEF OnChange
  <2>3. queue' \subseteq Queued
    <3>1. {[id |-> i, gap |-> FALSE]} \subseteq Queued
      BY <1>0 DEF NetTypes, Queued
    <3> DEFINE cs == {[id |-> i, gap |-> FALSE]}
    <3> HIDE DEF cs
    <3>2. Add(queue, cs) \subseteq Queued
      BY <1>00, <3>1, AddType DEF cs
    <3>. QED BY <2>1, <3>2 DEF cs
  <2>4. ServerTypes'
    BY <1>0, <2>2 DEF ServerTypes, server
  <2>5. NodeTypes'
    BY <1>0, <2>2, <2>3 DEF NodeTypes, disk
  <2>6. NetTypes'
    BY <1>0, <2>1, <2>2 DEF NetTypes, session
  <2>. QED BY <2>4, <2>5, <2>6 DEF Types
<1>3. CASE Loop
  <2> DEFINE c == First(queue)
  <2>1. /\ queue # {} /\ queue' = queue \ {c}
        /\ ccid' = Max({c.id, ccid})
        /\ data' = IF c.id > ccid THEN data \cup {c.id} ELSE data
        /\ UNCHANGED <<made, server, session, status, asked, scid, disk, net, faults>>
    BY <1>3 DEF Loop, Runnable
  <2>2. c \in queue
    BY <1>00, <2>1, FirstIsLowest
  <2>3. c.id \in Ids
    BY <1>00, <2>2 DEF Queued
  <2> HIDE DEF c
  <2>4. Max({c.id, ccid}) = IF c.id <= ccid THEN ccid ELSE c.id
    <3>0. ccid \in Nat
      BY <1>00
    <3>1. c.id \in Nat
      BY <2>3, Zenon
    <3>. QED BY <3>0, <3>1, LargerOfTwo, Zenon
  <2>5. ccid' \in 0 .. MaxId
    <3>1. \A i \in Ids : i \in 0 .. MaxId
      BY DEF Ids
    <3>. QED BY <1>00, <2>1, <2>3, <2>4, <3>1, Zenon
  <2>6. data' \subseteq Ids
    BY <1>00, <2>1, <2>3
  <2>7. ServerTypes'
    BY <1>0, <2>1 DEF ServerTypes, server
  <2>8. NodeTypes'
    BY <1>0, <2>1, <2>5, <2>6 DEF NodeTypes, disk
  <2>9. NetTypes'
    BY <1>0, <2>1 DEF NetTypes, session, net
  <2>. QED BY <2>7, <2>8, <2>9 DEF Types
<1>4. CASE Restart
  <2> DEFINE new == Loadable(store.ccid, store.ccid)
  <2>1. /\ status' = "SYNC" /\ asked' = FALSE
        /\ scid' = Max(new \cup {store.ccid})
        /\ ccid' = Max(new \cup {store.ccid})
        /\ data' = store.data \cup new
        /\ queue' = {}
        /\ UNCHANGED <<made, server, session, disk, net, faults>>
    BY <1>4 DEF Restart
  <2>2. new \in SUBSET Ids
    BY <1>00, LoadableType
  <2>3. store.ccid \in 0 .. MaxId /\ store.data \subseteq Ids
    BY <1>00 DEF Stores
  <2> HIDE DEF new
  <2>4. Max(new \cup {store.ccid}) \in 0 .. MaxId
    BY <2>2, <2>3, LastOf
  <2>5. ServerTypes'
    BY <1>0, <2>1 DEF ServerTypes, server
  <2>6. NodeTypes'
    BY <1>0, <2>1, <2>2, <2>3, <2>4 DEF NodeTypes, disk
  <2>7. NetTypes'
    BY <1>0, <2>1 DEF NetTypes, session, net
  <2>. QED BY <2>5, <2>6, <2>7 DEF Types
<1>5. CASE Rebuild
  <2>1. /\ status' = "SYNC" /\ asked' = FALSE
        /\ store' = Store(0, {}, FALSE) /\ arch' = {}
        /\ ccid' = 0 /\ scid' = 0 /\ data' = {} /\ queue' = {}
        /\ UNCHANGED <<made, server, session, net, faults>>
    BY <1>5 DEF Rebuild
  <2>2. store' \in Stores
    <3>1. 0 \in 0 .. MaxId /\ {} \in SUBSET Ids /\ FALSE \in BOOLEAN
      OBVIOUS
    <3>. QED BY <1>00, <2>1, <3>1, StoreFields
  <2>3. ServerTypes'
    BY <1>0, <2>1 DEF ServerTypes, server
  <2>4. NodeTypes'
    <3>1. 0 \in 0 .. MaxId
      OBVIOUS
    <3>. QED BY <2>1, <2>2, <3>1 DEF NodeTypes
  <2>5. NetTypes'
    BY <1>0, <2>1 DEF NetTypes, session, net
  <2>. QED BY <2>3, <2>4, <2>5 DEF Types
<1>. QED BY <1>1, <1>2, <1>3, <1>4, <1>5

LEMMA TypesStep == Types /\ [Next]_vars => Types'
<1> SUFFICES ASSUME Types, [Next]_vars PROVE Types'
  OBVIOUS
<1>1. CASE UNCHANGED vars
  BY <1>1 DEF Types, ServerTypes, NodeTypes, NetTypes, vars, server, session, memory,
              disk, net
<1>2. CASE Next
  BY <1>2, ServerStepTypes, SessionStepTypes, NodeStepTypes DEF Next, StepA, StepS
<1>. QED BY <1>1, <1>2

(* The nodes and the packages between them keep their types, whatever goes *)
(* wrong and however often.                                                *)
THEOREM SyncTypeCorrect == Spec => []TypeOK
BY InitTypes, TypesStep, TypesGive, PTL DEF Spec
-----------------------------------------------------------------------------
(* What S has and what it will get, as long as it does not crash.          *)

(* A has neither the change n nor one before it in its archive.            *)
FullAt(a, m, s, n) == (\A f \in a : n < f.first) /\ (\A i \in m : n < i) /\ n <= s
Full(n) == FullAt(archA, memA, stored, n)

InFile(a, i) == \E f \in a : f.first <= i /\ i <= f.last
Named(a, r) == \E f \in a : f.first = r.first /\ f.last = r.last
Whole(b, f) == [first |-> f.first, last |-> f.last, ids |-> f.first .. f.last] \in b
LoadOf(b, n, m) == {i \in Ids : i > m /\ \E g \in b : g.last > n /\ i \in g.ids}

(* The archive of A is without gaps, and begins before the end of its full *)
(* store.                                                                  *)
Ordered ==
  /\ stored <= scidA /\ scidA <= ccidA /\ ccidA <= made
  /\ memA = scidA + 1 .. ccidA /\ queueA = ccidA + 1 .. made
Chained ==
  \A f \in archA : /\ f.first <= f.last /\ f.last <= scidA
                   /\ \A i \in f.first .. scidA : InFile(archA, i)
Apart == \A f, g \in archA : f = g \/ f.last < g.first \/ g.last < f.first
Begins == stored < scidA => \E f \in archA : f.first <= stored + 1
Server == Ordered /\ Chained /\ Apart /\ Begins

(* The changes in the queue of S.  What it may run out of order it has all *)
(* of, and while A has to send its full store S is stuck.                  *)
Got == {c.id : c \in queue}
Top == IF scid <= ccid THEN ccid ELSE scid
Lost == Full(ccid + 1) /\ scid <= ccid
Seen == 1 .. ccid \cup Got \cup cast

Within == /\ data = 1 .. ccid /\ ccid <= made /\ scid <= made
          /\ cast \subseteq 1 .. made /\ Got \subseteq 1 .. made
Filled == /\ \A c \in queue : c.gap => ccid + 1 .. c.id \subseteq Got
          /\ ccid + 1 .. scid \subseteq Got
          /\ queueA \subseteq Seen
Stuck == Full(Top + 1) => scid <= ccid /\ ccid + 1 \notin cast /\ ccid + 1 \notin Got
Copied == \A g \in arch : /\ g.ids \subseteq g.first .. g.last
                          /\ Named(archA, g) \/ g.last <= scid
Node == Within /\ Filled /\ Stuck /\ Copied

(* What S will have when it has handled the end of a phase that it is sent.*)
FP == toS # <<>> /\ toS[1].tp = "fdone"
AP == toS # <<>> /\ toS[1].tp = "adone"
Base == IF FP THEN store.ccid ELSE ccid
New == LoadOf(arch, ccid, scid)
Have == 1 .. Base \cup Got \cup (IF AP THEN New ELSE {})
Usable == FP \/ ~Full(Top + 1)

(* What S needs of a package that is on its way to it.                     *)
Dones == {"fdone", "adone"}
StoreSafe ==
  /\ store.data = 1 .. store.ccid
  /\ Lost /\ ccid < store.ccid /\ store.ccid <= ccidA /\ ~Full(store.ccid + 1)
FilesSafe ==
  /\ ~Full(Top + 1)
  /\ \A i \in New : \A j \in ccid + 1 .. i : j <= scid \/ j \in New
Safe(r) ==
  /\ r.tp = "fdone" => StoreSafe
  /\ r.tp = "adone" => FilesSafe
  /\ r.tp = "apart" => Named(archA, r) \/ r.last <= scid
  /\ r.tp = "epart" => 1 .. r.first - 1 \subseteq Have /\ r.first <= made /\ Usable

(* The end of the synchronization is on its way.                           *)
Ends ==
  /\ toS # <<>> /\ 1 .. made \subseteq Have \cup cast
  /\ \/ toS[1].tp = "edone"
     \/ Len(toS) > 1 /\ toS[1].tp \in Dones /\ Safe(toS[1]) /\ toS[2].tp = "edone"

(* What A may rely on when it goes on after the request r, which S has not *)
(* handled yet, or has.                                                    *)
FilesBelow(n) == \A g \in archA : g.last > Base /\ g.first < n => Whole(arch, g)
Before(r) ==
  /\ FP => store.ccid = stored
  /\ r.tp = "fpart" => Lost /\ (r.k > 1 => store.ccid = stored)
  /\ r.tp = "apart" => Named(archA, r) /\ Usable /\ FilesBelow(r.first)
  /\ r.tp = "adone" => 1 .. scidA \subseteq Have
  /\ r.tp = "epart" => scidA < r.first
After(r, next) ==
  /\ r.tp = "fpart" => /\ Lost /\ store.ccid = stored
                       /\ r.k = 3 => store.data = 1 .. stored
  /\ r.tp = "fdone" => stored <= ccid
  /\ r.tp = "apart" => /\ Named(archA, r) /\ Usable /\ FilesBelow(r.first)
                       /\ r.k = 2 => Whole(arch, r)
  /\ r.tp = "adone" => 1 .. scidA \subseteq Have
  /\ r.tp = "epart" => /\ scidA < r.first /\ r.first < next /\ Usable
                       /\ 1 .. next - 1 \subseteq Have

(* Of the requests that are not answered only the end of a phase can be    *)
(* followed by another.                                                    *)
Sent(r) ==
  /\ toS # <<>> /\ toS[Len(toS)] = r /\ Len(toS) + Len(toA) <= 2
  /\ Len(toS) = 2 => toS[1].tp \in Dones /\ r.tp \in {"apart", "epart"}
  /\ Len(toA) = 1 => toA[1].req.tp \in Dones /\ r.tp \in {"apart", "epart"}
Back(r) ==
  /\ toS = <<>> /\ toA # <<>> /\ toA[Len(toA)].req = r /\ Len(toA) <= 2
  /\ Len(toA) = 2 => toA[1].req.tp \in Dones /\ r.tp \in {"apart", "epart"}

Waits(f) == f <= ccid + 1 /\ scid < f /\ (Full(f) => f = ccid + 1)
Idle == /\ open = {} /\ toS = <<>> /\ toA = <<>>
        /\ \A f \in ask \cup syncers : Waits(f)
Stale == /\ open = {}
         /\ toS # <<>> => /\ Len(toS) <= 2 /\ IsPart(toS[Len(toS)])
                          /\ Len(toS) = 2 => toS[1].tp \in Dones
Serving(r) ==
  /\ away = "SYNCING" /\ syncers # {} /\ open = {r} /\ r.tp # "edone"
  /\ \/ Sent(r) /\ Before(r)
     \/ Back(r) /\ After(r, toA[Len(toA)].next)

Session ==
  /\ ~flag => Idle
  /\ flag => Stale \/ \E r \in open : Serving(r)
  /\ \A j \in 1 .. Len(toS) : Safe(toS[j])

SInv == /\ Types /\ status # "DOWN" /\ Server /\ Node /\ ReadyIsComplete
        /\ status = "SYNC" => Ends \/ Session

USE DEF Full

-----------------------------------------------------------------------------
(* The archive of A.                                                       *)

LEMMA Numbers ==
  ASSUME Types
  PROVE  /\ made \in Nat /\ ccidA \in Nat /\ scidA \in Nat /\ stored \in Nat
         /\ ccid \in Nat /\ scid \in Nat /\ Top \in Nat /\ Top >= ccid /\ Top >= scid
         /\ archA \subseteq Files /\ memA \subseteq Ids /\ queueA \subseteq Ids
         /\ arch \subseteq Copies /\ queue \subseteq Queued
         /\ store \in Stores /\ store.ccid \in Nat
<1>1. store \in Stores /\ ccid \in Nat /\ scid \in Nat
  BY Bounds DEF Types, NodeTypes
<1>2. store.ccid \in Nat
  BY <1>1, Bounds DEF Stores
<1>3. Top \in Nat /\ Top >= ccid /\ Top >= scid
  BY <1>1 DEF Top
<1>4. made \in Ids /\ ccidA \in Ids /\ scidA \in Ids /\ stored \in Ids
  BY DEF Types, ServerTypes
<1>5. made \in Nat /\ ccidA \in Nat /\ scidA \in Nat /\ stored \in Nat
  BY <1>4, Bounds
<1>6. /\ archA \subseteq Files /\ memA \subseteq Ids /\ queueA \subseteq Ids
      /\ arch \subseteq Copies /\ queue \subseteq Queued
  BY DEF Types, ServerTypes, NodeTypes
<1>. QED BY <1>1, <1>2, <1>3, <1>5, <1>6

LEMMA NextNumbers ==
  ASSUME Types'
  PROVE  /\ made' \in Nat /\ ccidA' \in Nat /\ scidA' \in Nat /\ stored' \in Nat
         /\ ccid' \in Nat /\ scid' \in Nat /\ archA' \subseteq Files
         /\ arch' \subseteq Copies /\ queue' \subseteq Queued /\ memA' \subseteq Ids
<1>1. ServerTypes' /\ NodeTypes'
  BY DEF Types
<1>2. made' \in Ids /\ ccidA' \in Ids /\ scidA' \in Ids /\ stored' \in Ids
  BY <1>1 DEF ServerTypes
<1>3. ccid' \in 0 .. MaxId /\ scid' \in 0 .. MaxId
  BY <1>1 DEF NodeTypes
<1>4. made' \in Nat /\ ccidA' \in Nat /\ scidA' \in Nat /\ stored' \in Nat
  BY <1>2, Bounds, Zenon
<1>5. ccid' \in Nat /\ scid' \in Nat
  BY <1>3, Bounds
<1>. QED BY <1>1, <1>4, <1>5 DEF ServerTypes, NodeTypes

LEMMA FileNumbers ==
  ASSUME NEW S \in SUBSET Files, NEW f \in S
  PROVE  f.first \in Nat /\ f.last \in Nat
BY Bounds DEF Files

(* The full store is sent for every id before one for which it is sent.    *)
LEMMA FullLower ==
  ASSUME Types, NEW n \in Nat, NEW m \in Nat, n <= m, Full(m)
  PROVE  Full(n)
<1>1. \A f \in archA : f.first \in Nat
  BY Numbers, FileNumbers
<1>2. \A i \in memA : i \in Nat
  BY Numbers, Bounds
<1>. QED BY <1>1, <1>2, Numbers DEF FullAt

LEMMA FullSyncIs ==
  ASSUME Types, NEW n \in Nat
  PROVE  FullSync(n) <=> Full(n)
BY DEF FullSync, FirstArchived, FullAt

(* What S asks for, if A does not send the full store, is in the files.    *)
LEMMA Covers ==
  ASSUME Types, Server, NEW n \in Nat, NEW j \in Nat, ~Full(n), n <= j, j <= scidA
  PROVE  InFile(archA, j)
<1>1. \A f \in archA : f.first \in Nat /\ f.last \in Nat
  BY Numbers, FileNumbers
<1>2. \A f \in archA : f.first <= j => InFile(archA, j)
  BY <1>1, Numbers DEF Server, Chained
<1>3. CASE \E f \in archA : ~(n < f.first)
  BY <1>1, <1>2, <1>3
<1>4. CASE \E i \in memA : ~(n < i)
  <2>1. PICK i \in memA : ~(n < i)
    BY <1>4
  <2>2. i \in Nat /\ i > scidA
    <3>1. memA = scidA + 1 .. ccidA /\ scidA \in Nat /\ ccidA \in Nat
      BY Numbers DEF Server, Ordered
    <3>. QED BY <3>1
  <2>. QED BY <2>1, <2>2, Numbers
<1>5. CASE ~(n <= stored)
  <2>1. stored < scidA
    BY <1>5, Numbers
  <2>2. PICK f \in archA : f.first <= stored + 1
    BY <2>1 DEF Server, Begins
  <2>3. f.first <= j
    BY <1>1, <1>5, <2>2, Numbers
  <2>. QED BY <1>2, <2>3
<1>. QED BY <1>3, <1>4, <1>5 DEF FullAt

(* The away thread makes one file of the archive queue and removes files   *)
(* that all nodes have stored.                                             *)
LEMMA WorkArch ==
  ASSUME Types, Server, WorkFinish
  PROVE  \E m \in Nat :
           /\ m <= stored' /\ m <= scidA' /\ m <= scid
           /\ scidA' = ccidA /\ memA' = {} /\ stored' \in {stored, ccidA}
           /\ archA' = {f \in archA \cup (IF scidA = ccidA THEN {}
                                 ELSE {[first |-> scidA + 1, last |-> ccidA]}) : f.last > m}
<1>0. /\ scidA \in Nat /\ ccidA \in Nat /\ stored \in Nat /\ scid \in Nat
      /\ memA \subseteq Nat /\ scidA <= ccidA /\ memA = scidA + 1 .. ccidA
  BY Numbers, Bounds DEF Server, Ordered
<1> DEFINE m == Min({stored', scidA', scid})
<1>1. /\ stored' \in IF memA = {} THEN {stored} ELSE {stored, ccidA}
      /\ scidA' = IF memA = {} THEN scidA ELSE Max(memA)
      /\ memA' = {}
      /\ archA' = {f \in archA \cup (IF memA = {} THEN {}
                                     ELSE {[first |-> Min(memA), last |-> Max(memA)]}) :
                     f.last > m}
  BY DEF WorkFinish
<1>2. CASE scidA = ccidA
  <2>1. memA = {}
    BY <1>0, <1>2
  <2>2. stored' = stored /\ scidA' = ccidA /\ archA' = {f \in archA \cup {} : f.last > m}
    BY <1>1, <1>2, <2>1
  <2>3. {stored', scidA', scid} \in SUBSET Nat
    BY <1>0, <2>2
  <2>4. m \in {stored', scidA', scid} /\ \A y \in {stored', scidA', scid} : m <= y
    BY <2>3, SmallestId
  <2> HIDE DEF m
  <2>. QED BY <1>1, <1>2, <2>2, <2>3, <2>4
<1>3. CASE scidA # ccidA
  <2>1. scidA + 1 \in memA /\ ccidA \in memA /\ memA \in SUBSET Nat
    BY <1>0, <1>3
  <2>2. Min(memA) \in memA /\ \A y \in memA : Min(memA) <= y
    BY <2>1, SmallestId
  <2>3. Max(memA) \in memA /\ \A y \in memA : y <= Max(memA)
    <3>1. \A y \in memA : y <= ccidA
      BY <1>0
    <3>. QED BY <1>0, <2>1, <3>1, LargestId
  <2>4. Min(memA) = scidA + 1 /\ Max(memA) = ccidA /\ memA # {}
    BY <1>0, <2>1, <2>2, <2>3
  <2>5. /\ stored' \in {stored, ccidA} /\ scidA' = ccidA
        /\ archA' = {f \in archA \cup {[first |-> scidA + 1, last |-> ccidA]} : f.last > m}
    BY <1>1, <2>4
  <2>6. {stored', scidA', scid} \in SUBSET Nat
    BY <1>0, <2>5
  <2>7. m \in {stored', scidA', scid} /\ \A y \in {stored', scidA', scid} : m <= y
    BY <2>6, SmallestId
  <2> HIDE DEF m
  <2>. QED BY <1>1, <1>3, <2>5, <2>6, <2>7
<1>. QED BY <1>2, <1>3

LEMMA ServerWorks ==
  ASSUME Types, Server, WorkFinish
  PROVE  /\ Server'
         /\ \A n \in Nat : n > scid => (Full(n)' <=> Full(n))
         /\ \A g \in archA : g \in archA' \/ g.last <= scid
<1> DEFINE N == IF scidA = ccidA THEN {} ELSE {[first |-> scidA + 1, last |-> ccidA]}
<1>1. PICK m \in Nat :
        /\ m <= stored' /\ m <= scidA' /\ m <= scid
        /\ scidA' = ccidA /\ memA' = {} /\ stored' \in {stored, ccidA}
        /\ archA' = {f \in archA \cup N : f.last > m}
  BY WorkArch
<1>2. UNCHANGED <<made, queueA, ccidA, scid>>
  BY DEF WorkFinish, memory
<1>3. /\ scidA \in Nat /\ ccidA \in Nat /\ stored \in Nat /\ scid \in Nat /\ made \in Nat
      /\ stored <= scidA /\ scidA <= ccidA /\ ccidA <= made
      /\ memA = scidA + 1 .. ccidA /\ queueA = ccidA + 1 .. made
  BY Numbers DEF Server, Ordered
<1>4. \A f \in archA : /\ f.first \in Nat /\ f.last \in Nat
                       /\ f.first <= f.last /\ f.last <= scidA
  BY Numbers, FileNumbers DEF Server, Chained
<1>5. \A f \in N : f.first = scidA + 1 /\ f.last = ccidA /\ scidA < ccidA
  BY <1>3
<1>6. scidA < ccidA => [first |-> scidA + 1, last |-> ccidA] \in N
  BY <1>3
<1> HIDE DEF N
<1>7. \A f \in archA' : (f \in archA \/ f \in N) /\ f.last > m
  BY <1>1
<1>8. \A g \in archA : g \in archA' \/ g.last <= m
  BY <1>1, <1>4
<1>9. ASSUME NEW j \in Nat, j <= scidA, j > m, InFile(archA, j) PROVE InFile(archA', j)
  <2>1. PICK g \in archA : g.first <= j /\ j <= g.last
    BY <1>9 DEF InFile
  <2>. QED BY <1>4, <1>8, <1>9, <2>1 DEF InFile
<1>10. ASSUME NEW j \in Nat, scidA < j, j <= ccidA, j > m PROVE InFile(archA', j)
  <2>1. [first |-> scidA + 1, last |-> ccidA] \in archA'
    BY <1>1, <1>3, <1>6, <1>10
  <2>. QED BY <1>3, <1>10, <2>1 DEF InFile
<1>11. Ordered'
  BY <1>1, <1>2, <1>3 DEF Ordered
<1>12. Chained'
  <2> SUFFICES ASSUME NEW f \in archA', NEW i \in f.first .. scidA'
               PROVE  /\ f.first <= f.last /\ f.last <= scidA'
                      /\ InFile(archA', i)
    <3>1. \A f \in archA' : f.first <= f.last /\ f.last <= scidA'
      BY <1>1, <1>3, <1>4, <1>5, <1>7
    <3>. QED BY <3>1 DEF Chained
  <2>1. f.first \in Nat /\ f.last \in Nat /\ f.first <= f.last /\ f.last <= scidA'
    BY <1>1, <1>3, <1>4, <1>5, <1>7
  <2>2. i \in Nat /\ f.first <= i /\ i <= ccidA
    BY <1>1, <1>3, <2>1
  <2>3. CASE i <= f.last
    BY <2>1, <2>2, <2>3 DEF InFile
  <2>4. CASE i > f.last /\ i <= scidA
    <3>1. f \in archA
      BY <1>3, <1>5, <1>7, <2>1, <2>2, <2>4
    <3>2. InFile(archA, i)
      BY <1>3, <2>2, <2>4, <3>1 DEF Server, Chained
    <3>3. i > m
      BY <1>7, <2>1, <2>2, <2>4
    <3>4. InFile(archA', i)
      BY <1>9, <2>2, <2>4, <3>2, <3>3
    <3>. QED BY <2>1, <3>4
  <2>5. CASE i > f.last /\ i > scidA
    <3>1. i > m
      BY <1>7, <2>1, <2>2, <2>5
    <3>2. InFile(archA', i)
      BY <1>10, <2>2, <2>5, <3>1
    <3>. QED BY <2>1, <3>2
  <2>6. i <= f.last \/ (i > f.last /\ i <= scidA) \/ (i > f.last /\ i > scidA)
    <3>1. PICK x \in Nat, y \in Nat, z \in Nat : x = i /\ y = f.last /\ z = scidA
      BY <1>3, <2>1, <2>2
    <3>2. x <= y \/ (x > y /\ x <= z) \/ (x > y /\ x > z)
      OBVIOUS
    <3>. QED BY <3>1, <3>2
  <2>. QED BY <2>3, <2>4, <2>5, <2>6
<1>13. Apart'
  <2> SUFFICES ASSUME NEW f \in archA', NEW g \in archA'
               PROVE  f = g \/ f.last < g.first \/ g.last < f.first
    BY DEF Apart
  <2>1. CASE f \in archA /\ g \in archA
    BY <2>1 DEF Server, Apart
  <2>2. CASE f \in archA /\ g \in N
    BY <1>3, <1>4, <1>5, <2>2
  <2>3. CASE f \in N /\ g \in archA
    BY <1>3, <1>4, <1>5, <2>3
  <2>4. CASE f \in N /\ g \in N
    BY <2>4 DEF N
  <2>. QED BY <1>7, <2>1, <2>2, <2>3, <2>4
<1>14. Begins'
  <2> SUFFICES ASSUME stored' < scidA'
               PROVE  \E f \in archA' : f.first <= stored' + 1
    BY DEF Begins
  <2>1. stored' = stored /\ stored < ccidA /\ m <= stored
    BY <1>1, <1>3
  <2>2. InFile(archA', stored + 1)
    <3>1. CASE stored < scidA
      <4>1. ~Full(stored + 1)
        BY <1>3 DEF FullAt
      <4>2. InFile(archA, stored + 1)
        BY <1>3, <3>1, <4>1, Covers
      <4>. QED BY <1>3, <1>9, <2>1, <3>1, <4>2
    <3>2. CASE stored = scidA
      BY <1>3, <1>10, <2>1, <3>2
    <3>. QED BY <1>3, <3>1, <3>2
  <2>. QED BY <2>1, <2>2 DEF InFile
<1>15. ASSUME NEW n \in Nat, Full(n) PROVE Full(n)'
  <2>1. n <= stored /\ \A f \in archA : n < f.first
    BY <1>15 DEF FullAt
  <2>2. \A f \in archA' : n < f.first
    BY <1>3, <1>4, <1>5, <1>7, <2>1
  <2>3. n <= stored'
    BY <1>1, <1>3, <2>1
  <2>. QED BY <1>1, <2>2, <2>3 DEF FullAt
<1>16. ASSUME NEW n \in Nat, n > scid, ~Full(n) PROVE ~(Full(n)')
  <2>0. n > m
    BY <1>1, <1>3, <1>16
  <2>1. CASE n > ccidA
    <3>1. ~(n <= stored')
      BY <1>1, <1>3, <2>1
    <3>. QED BY <3>1 DEF FullAt
  <2>2. CASE n <= ccidA
    <3>1. InFile(archA', n)
      <4>1. CASE n <= scidA
        <5>1. InFile(archA, n)
          BY <1>3, <1>16, <4>1, Covers
        <5>. QED BY <1>9, <2>0, <4>1, <5>1
      <4>2. CASE n > scidA
        BY <1>10, <2>0, <2>2, <4>2
      <4>. QED BY <1>3, <4>1, <4>2
    <3>2. PICK f \in archA' : f.first <= n
      BY <3>1 DEF InFile
    <3>3. f.first \in Nat
      BY <1>3, <1>4, <1>5, <1>7
    <3>. QED BY <3>2, <3>3 DEF FullAt
  <2>. QED BY <1>3, <2>1, <2>2
<1>17. \A g \in archA : g \in archA' \/ g.last <= scid
  BY <1>1, <1>3, <1>4, <1>8
<1>. QED BY <1>11, <1>12, <1>13, <1>14, <1>15, <1>16, <1>17 DEF Server
-----------------------------------------------------------------------------
(* Steps that leave what is sent alone.                                    *)

Steady ==
  /\ UNCHANGED <<toS, store, arch, scid>>
  /\ made <= made' /\ ccidA <= ccidA' /\ ccid <= ccid' /\ (Lost => ccid' = ccid)
  /\ (1 .. ccid) \cup Got \subseteq (1 .. ccid') \cup Got'
  /\ cast \cup (made + 1 .. made') \subseteq Seen'
  /\ \A n \in Nat : n > scid => (Full(n)' <=> Full(n))
  /\ \A g \in archA : g \in archA' \/ g.last <= scid

LEMMA NewFacts ==
  ASSUME NEW b \in SUBSET Copies, \A g \in b : g.ids \subseteq g.first .. g.last,
         NEW n \in Nat, NEW k \in Nat, NEW m \in Nat, n <= k
  PROVE  /\ LoadOf(b, k, m) \subseteq LoadOf(b, n, m)
         /\ \A i \in LoadOf(b, n, m) : i > k => i \in LoadOf(b, k, m)
<1>1. \A g \in b : g.first \in Nat /\ g.last \in Nat
  BY Bounds DEF Copies
<1>2. LoadOf(b, k, m) \subseteq LoadOf(b, n, m)
  BY <1>1 DEF LoadOf
<1>3. ASSUME NEW i \in LoadOf(b, n, m), i > k PROVE i \in LoadOf(b, k, m)
  <2>1. PICK g \in b : g.last > n /\ i \in g.ids
    BY DEF LoadOf
  <2>2. i \in Ids /\ i > m /\ i \in Nat
    BY Bounds DEF LoadOf
  <2>3. i \in g.first .. g.last
    BY <2>1
  <2>4. g.last > k
    BY <1>1, <1>3, <2>2, <2>3
  <2>. QED BY <2>1, <2>2, <2>4 DEF LoadOf
<1>. QED BY <1>2, <1>3

LEMMA SteadyFacts ==
  ASSUME Types, Types', Copied, Steady, FP => StoreSafe
  PROVE  /\ Base \in Nat /\ Base' \in Nat /\ Base <= Base' /\ (FP' <=> FP) /\ (AP' <=> AP)
         /\ Have \subseteq Have' /\ (Lost => Lost') /\ (Usable => Usable')
         /\ New' \subseteq New /\ (\A i \in New : i > ccid' => i \in New')
         /\ (~Full(Top + 1) => ~(Full(Top + 1)')) /\ Top <= Top' /\ ccid' <= Base'
<1>0. /\ ccid \in Nat /\ scid \in Nat /\ Top \in Nat /\ Top >= ccid /\ Top >= scid
      /\ arch \subseteq Copies /\ store.ccid \in Nat
  BY Numbers
<1>1. /\ toS' = toS /\ store' = store /\ arch' = arch /\ scid' = scid /\ ccid <= ccid'
      /\ (Lost => ccid' = ccid)
      /\ (1 .. ccid) \cup Got \subseteq (1 .. ccid') \cup Got'
      /\ \A n \in Nat : n > scid => (Full(n)' <=> Full(n))
  BY DEF Steady
<1>2. ccid' \in Nat
  BY NextNumbers
<1>3. (FP' <=> FP) /\ (AP' <=> AP) /\ ~(FP /\ AP)
  BY <1>1 DEF FP, AP
<1>4. FP => Lost /\ ccid < store.ccid
  BY DEF StoreSafe
<1>5. Base \in Nat /\ Base' \in Nat /\ Base <= Base' /\ ccid' <= Base' /\ (~FP => Base' = ccid')
  BY <1>0, <1>1, <1>2, <1>3, <1>4 DEF Base
<1>6. Lost => Lost'
  <2> SUFFICES ASSUME Lost PROVE Lost'
    OBVIOUS
  <2>1. Full(ccid + 1) /\ scid <= ccid /\ ccid' = ccid
    BY <1>1 DEF Lost
  <2>2. ccid + 1 \in Nat /\ ccid + 1 > scid
    BY <1>0, <2>1
  <2>3. Full(ccid + 1)' <=> Full(ccid + 1)
    BY <1>1, <2>1, <2>2
  <2>. QED BY <1>1, <2>1, <2>3 DEF Lost
<1>7. Top' \in Nat /\ Top <= Top' /\ Top' >= scid
  BY <1>0, <1>1, <1>2 DEF Top
<1>8. ~Full(Top + 1) => ~(Full(Top + 1)')
  <2> SUFFICES ASSUME ~Full(Top + 1) PROVE ~FullAt(archA', memA', stored', Top' + 1)
    OBVIOUS
  <2>1. PICK t \in Nat : t = Top'
    BY <1>7
  <2>2. t + 1 \in Nat /\ Top + 1 \in Nat /\ Top + 1 <= t + 1 /\ t + 1 > scid
    <3>1. PICK x \in Nat, y \in Nat : x = Top /\ y = scid
      BY <1>0
    <3>2. x <= t /\ y <= t
      BY <1>7, <2>1, <3>1
    <3>3. t + 1 \in Nat /\ x + 1 \in Nat /\ x + 1 <= t + 1 /\ t + 1 > y
      BY <3>2
    <3>. QED BY <3>1, <3>3
  <2>3. ~Full(t + 1)
    BY <2>2, FullLower
  <2>4. ~FullAt(archA', memA', stored', t + 1)
    BY <1>1, <2>2, <2>3
  <2>. QED BY <2>1, <2>4
<1>9. Usable => Usable'
  BY <1>3, <1>8 DEF Usable
<1>10. New' \subseteq New /\ (\A i \in New : i > ccid' => i \in New')
  <2>1. New' = LoadOf(arch, ccid', scid) /\ New = LoadOf(arch, ccid, scid)
    BY <1>1 DEF New
  <2>2. \A g \in arch : g.ids \subseteq g.first .. g.last
    BY DEF Copied
  <2>. QED BY <1>0, <1>1, <1>2, <2>1, <2>2, NewFacts
<1>11. Have \subseteq Have'
  <2> SUFFICES ASSUME NEW x \in Have PROVE x \in Have'
    OBVIOUS
  <2>1. (1 .. ccid') \cup Got' \subseteq Have'
    <3>1. 1 .. ccid' \subseteq 1 .. Base'
      BY <1>2, <1>5
    <3>. QED BY <3>1 DEF Have
  <2>2. CASE x \in 1 .. Base
    <3>1. x \in 1 .. Base'
      BY <1>5, <2>2
    <3>. QED BY <3>1 DEF Have
  <2>3. CASE x \in Got
    BY <1>1, <2>1, <2>3
  <2>4. CASE AP /\ x \in New
    <3>1. x \in Nat /\ x > 0
      BY <2>4, Bounds DEF New, LoadOf, Ids
    <3>2. CASE x > ccid'
      BY <1>3, <1>10, <2>4, <3>2 DEF Have
    <3>3. CASE x <= ccid'
      BY <1>2, <2>1, <3>1, <3>3
    <3>. QED BY <1>2, <3>1, <3>2, <3>3
  <2>. QED BY <2>2, <2>3, <2>4 DEF Have
<1>. QED BY <1>3, <1>5, <1>6, <1>7, <1>8, <1>9, <1>10, <1>11

LEMMA SteadySafe ==
  ASSUME Types, Types', Copied, Steady, FP => StoreSafe, NEW r \in Packages, Safe(r)
  PROVE  Safe(r)'
<1>0. /\ ccid \in Nat /\ scid \in Nat /\ made \in Nat /\ ccidA \in Nat /\ store.ccid \in Nat
  BY Numbers
<1>1. /\ toS' = toS /\ store' = store /\ arch' = arch /\ scid' = scid /\ ccid <= ccid'
      /\ (Lost => ccid' = ccid) /\ made <= made' /\ ccidA <= ccidA'
      /\ \A n \in Nat : n > scid => (Full(n)' <=> Full(n))
      /\ \A g \in archA : g \in archA' \/ g.last <= scid
  BY DEF Steady
<1>2. ccid' \in Nat /\ made' \in Nat /\ ccidA' \in Nat
  BY NextNumbers
<1>3. /\ Have \subseteq Have' /\ (Lost => Lost') /\ (Usable => Usable')
      /\ New' \subseteq New /\ (\A i \in New : i > ccid' => i \in New')
      /\ (~Full(Top + 1) => ~(Full(Top + 1)'))
  BY SteadyFacts
<1>4. StoreSafe => StoreSafe'
  <2> SUFFICES ASSUME StoreSafe PROVE StoreSafe'
    OBVIOUS
  <2>1. /\ store.data = 1 .. store.ccid /\ Lost /\ ccid < store.ccid /\ store.ccid <= ccidA
        /\ ~Full(store.ccid + 1)
    BY DEF StoreSafe
  <2>2. store.ccid + 1 \in Nat /\ store.ccid + 1 > scid /\ ccid' = ccid
    BY <1>0, <1>1, <2>1 DEF Lost
  <2>3. ~FullAt(archA', memA', stored', store.ccid + 1)
    BY <1>1, <2>1, <2>2
  <2>4. store.ccid <= ccidA'
    BY <1>0, <1>1, <1>2, <2>1
  <2>. QED BY <1>1, <1>3, <2>1, <2>2, <2>3, <2>4 DEF StoreSafe
<1>5. FilesSafe => FilesSafe'
  <2> SUFFICES ASSUME FilesSafe, NEW i \in New', NEW j \in ccid' + 1 .. i
               PROVE  j <= scid \/ j \in New'
    BY <1>1, <1>3 DEF FilesSafe
  <2>1. i \in New /\ i \in Nat
    BY <1>3, Bounds DEF New, LoadOf
  <2>2. j \in ccid + 1 .. i /\ j > ccid'
    <3>1. PICK x \in Nat, y \in Nat : x = ccid /\ y = ccid'
      BY <1>0, <1>2
    <3>2. x <= y /\ j \in y + 1 .. i
      BY <1>1, <3>1
    <3>3. j \in x + 1 .. i /\ j > y
      BY <2>1, <3>2
    <3>. QED BY <3>1, <3>3
  <2>3. j <= scid \/ j \in New
    BY <2>1, <2>2 DEF FilesSafe
  <2>. QED BY <1>3, <2>2, <2>3
<1>6. r.tp = "apart" /\ (Named(archA, r) \/ r.last <= scid)
        => Named(archA', r) \/ r.last <= scid'
  BY <1>1 DEF Named
<1>7. r.tp = "epart" /\ 1 .. r.first - 1 \subseteq Have /\ r.first <= made /\ Usable
        => 1 .. r.first - 1 \subseteq Have' /\ r.first <= made' /\ Usable'
  <2>1. r.tp = "epart" => r.first \in Nat
    BY PackageFacts, Bounds, Zenon
  <2>. QED BY <1>0, <1>1, <1>2, <1>3, <2>1
<1>. QED BY <1>4, <1>5, <1>6, <1>7 DEF Safe

LEMMA SteadyEnds ==
  ASSUME Types, Types', Copied, Steady, Ends
  PROVE  Ends'
<1>0. made \in Nat /\ made' \in Nat /\ made <= made' /\ toS' = toS
      /\ cast \cup (made + 1 .. made') \subseteq Seen' /\ toS \in Seq(Packages)
  BY Bounds DEF Types, ServerTypes, NetTypes, Steady
<1>1. /\ toS # <<>> /\ 1 .. made \subseteq Have \cup cast
      /\ \/ toS[1].tp = "edone"
         \/ Len(toS) > 1 /\ toS[1].tp \in Dones /\ Safe(toS[1]) /\ toS[2].tp = "edone"
  BY DEF Ends
<1>2. FP => StoreSafe
  BY <1>1 DEF FP, Safe
<1>3. Have \subseteq Have' /\ ccid' <= Base' /\ Base' \in Nat
  BY <1>2, SteadyFacts
<1>4. 1 .. made' \subseteq Have' \cup cast'
  <2>1. ccid' \in Nat
    BY Bounds DEF Types, NodeTypes
  <2>2. 1 .. ccid' \subseteq 1 .. Base'
    BY <1>3, <2>1
  <2>3. Seen' \subseteq Have' \cup cast'
    BY <2>2 DEF Seen, Have
  <2>4. 1 .. made' \subseteq (1 .. made) \cup (made + 1 .. made')
    BY <1>0
  <2>. QED BY <1>0, <1>1, <1>3, <2>3, <2>4
<1>5. toS[1] \in Packages
  BY <1>0, <1>1
<1>6. Safe(toS[1]) => Safe(toS[1])'
  <2> SUFFICES ASSUME Safe(toS[1]) PROVE Safe(toS[1])'
    OBVIOUS
  <2>1. PICK p \in Packages : p = toS[1]
    BY <1>5
  <2>2. Safe(p)
    BY <2>1
  <2>3. Safe(p)'
    BY <1>2, <2>2, SteadySafe
  <2>4. p = toS'[1]
    BY <1>0, <2>1
  <2>. QED BY <2>3, <2>4
<1>. QED BY <1>0, <1>1, <1>4, <1>6 DEF Ends

LEMMA SteadyBefore ==
  ASSUME Types, Types', Copied, Steady, FP => StoreSafe, UNCHANGED <<archA, scidA, stored>>,
         NEW r, Before(r)
  PROVE  Before(r)'
<1>1. toS' = toS /\ store' = store /\ arch' = arch
  BY DEF Steady
<1>2. /\ Base \in Nat /\ Base' \in Nat /\ Base <= Base' /\ (FP' <=> FP)
      /\ Have \subseteq Have' /\ (Lost => Lost') /\ (Usable => Usable')
  BY SteadyFacts
<1>3. FilesBelow(r.first) => FilesBelow(r.first)'
  <2> SUFFICES ASSUME FilesBelow(r.first), NEW g \in archA, g.last > Base', g.first < r.first
               PROVE  Whole(arch, g)
    BY <1>1 DEF FilesBelow
  <2>1. g.last \in Nat
    BY Numbers, FileNumbers
  <2>2. g.last > Base
    BY <1>2, <2>1
  <2>. QED BY <2>2 DEF FilesBelow
<1>. QED BY <1>1, <1>2, <1>3 DEF Before

LEMMA SteadyAfter ==
  ASSUME Types, Types', Copied, Steady, FP => StoreSafe, UNCHANGED <<archA, scidA, stored>>,
         NEW r, NEW next, After(r, next)
  PROVE  After(r, next)'
<1>1. toS' = toS /\ store' = store /\ arch' = arch /\ ccid <= ccid'
  BY DEF Steady
<1>2. /\ Base \in Nat /\ Base' \in Nat /\ Base <= Base' /\ (FP' <=> FP)
      /\ Have \subseteq Have' /\ (Lost => Lost') /\ (Usable => Usable')
  BY SteadyFacts
<1>3. FilesBelow(r.first) => FilesBelow(r.first)'
  <2> SUFFICES ASSUME FilesBelow(r.first), NEW g \in archA, g.last > Base', g.first < r.first
               PROVE  Whole(arch, g)
    BY <1>1 DEF FilesBelow
  <2>1. g.last \in Nat
    BY Numbers, FileNumbers
  <2>2. g.last > Base
    BY <1>2, <2>1
  <2>. QED BY <2>2 DEF FilesBelow
<1>4. stored <= ccid => stored <= ccid'
  <2>1. stored \in Nat /\ ccid \in Nat /\ ccid' \in Nat
    BY Numbers, NextNumbers
  <2>. QED BY <1>1, <2>1
<1>. QED BY <1>1, <1>2, <1>3, <1>4 DEF After

LEMMA SteadyWaits ==
  ASSUME Types, Types', Steady, NEW f \in Nat, Waits(f)
  PROVE  Waits(f)'
<1>1. /\ scid' = scid /\ ccid <= ccid' /\ (Lost => ccid' = ccid)
      /\ \A n \in Nat : n > scid => (Full(n)' <=> Full(n))
  BY DEF Steady
<1>2. ccid \in Nat /\ ccid' \in Nat /\ scid \in Nat
  BY Numbers, NextNumbers
<1>3. f <= ccid + 1 /\ scid < f /\ (Full(f) => f = ccid + 1)
  BY DEF Waits
<1>4. f <= ccid' + 1
  <2>1. \A x, y, z \in Nat : x <= y + 1 /\ y <= z => x <= z + 1
    OBVIOUS
  <2>. QED BY <1>1, <1>2, <1>3, <2>1, Zenon
<1>5. FullAt(archA', memA', stored', f) => f = ccid' + 1
  <2> SUFFICES ASSUME FullAt(archA', memA', stored', f) PROVE f = ccid' + 1
    OBVIOUS
  <2>1. Full(f) /\ f = ccid + 1
    BY <1>1, <1>3
  <2>2. Lost
    BY <1>2, <1>3, <2>1 DEF Lost
  <2>. QED BY <1>1, <2>1, <2>2
<1>. QED BY <1>1, <1>3, <1>4, <1>5 DEF Waits

LEMMA SessionStoreSafe ==
  ASSUME Types, Ends \/ \A j \in 1 .. Len(toS) : Safe(toS[j])
  PROVE  (FP => StoreSafe) /\ (AP => FilesSafe)
<1>1. toS \in Seq(Packages)
  BY DEF Types, NetTypes
<1>2. toS # <<>> => 1 \in 1 .. Len(toS)
  BY <1>1
<1>3. CASE Ends
  BY <1>3 DEF Ends, FP, AP, Safe
<1>4. CASE \A j \in 1 .. Len(toS) : Safe(toS[j])
  BY <1>2, <1>4 DEF FP, AP, Safe
<1>. QED BY <1>3, <1>4

LEMMA SteadySession ==
  ASSUME Types, Types', Copied, Steady, Session, UNCHANGED <<toA, open, flag>>,
         \A f \in ask' \cup syncers' : f \in ask \cup syncers \/ Waits(f)',
         away = "SYNCING" /\ syncers # {}
           => /\ away' = "SYNCING" /\ syncers' # {}
              /\ UNCHANGED <<archA, scidA, stored>>
  PROVE  Session'
<1>0. toS' = toS /\ toA' = toA /\ open' = open /\ flag' = flag
  BY DEF Steady
<1>1. toS \in Seq(Packages) /\ ask \cup syncers \subseteq Nat
  BY Bounds DEF Types, NetTypes
<1>2. FP => StoreSafe
  BY SessionStoreSafe DEF Session
<1>3. ASSUME NEW j \in 1 .. Len(toS) PROVE Safe(toS[j])'
  <2>1. PICK p \in Packages : p = toS[j]
    BY <1>1
  <2>2. Safe(p)
    BY <2>1 DEF Session
  <2>3. Safe(p)'
    BY <1>2, <2>2, SteadySafe
  <2>4. p = toS'[j]
    BY <1>0, <2>1
  <2>. QED BY <2>3, <2>4
<1>4. Idle => Idle'
  <2> SUFFICES ASSUME Idle, NEW f \in ask' \cup syncers' PROVE Waits(f)'
    BY <1>0 DEF Idle
  <2>1. CASE f \in ask \cup syncers
    <3>1. f \in Nat /\ Waits(f)
      BY <1>1, <2>1 DEF Idle
    <3>. QED BY <3>1, SteadyWaits
  <2>. QED BY <2>1
<1>5. Stale => Stale'
  BY <1>0 DEF Stale
<1>6. ASSUME NEW r \in open, Serving(r) PROVE Serving(r)'
  <2>1. away = "SYNCING" /\ syncers # {}
    BY <1>6 DEF Serving
  <2>2. away' = "SYNCING" /\ syncers' # {} /\ UNCHANGED <<archA, scidA, stored>>
    BY <2>1
  <2>3. Before(r) => Before(r)'
    BY <1>2, <2>2, SteadyBefore
  <2>4. After(r, toA[Len(toA)].next) => After(r, toA[Len(toA)].next)'
    <3>1. PICK n : n = toA[Len(toA)].next
      OBVIOUS
    <3>2. After(r, n) => After(r, n)'
      BY <1>2, <2>2, SteadyAfter
    <3>3. n = toA'[Len(toA')].next
      BY <1>0, <3>1
    <3>. QED BY <3>1, <3>2, <3>3
  <2>. QED BY <1>0, <1>6, <2>2, <2>3, <2>4 DEF Serving, Sent, Back
<1>. QED BY <1>0, <1>3, <1>4, <1>5, <1>6 DEF Session

LEMMA SteadyReady ==
  ASSUME Types, Types', Steady, data = 1 .. ccid, data' = 1 .. ccid', status' = status,
         ReadyIsComplete
  PROVE  ReadyIsComplete'
<1> SUFFICES ASSUME status = "READY" PROVE 1 .. made' \subseteq Seen'
  BY DEF ReadyIsComplete, Seen, Got
<1>1. 1 .. made \subseteq Seen
  BY DEF ReadyIsComplete, Seen, Got
<1>2. Seen \subseteq Seen'
  BY DEF Steady, Seen
<1>3. 1 .. made' \subseteq (1 .. made) \cup (made + 1 .. made')
  <2>1. made \in Nat /\ made' \in Nat
    BY Numbers, NextNumbers
  <2>. QED BY <2>1
<1>. QED BY <1>1, <1>2, <1>3 DEF Steady
-----------------------------------------------------------------------------
(* The steps that leave what is sent alone, one by one.                    *)

LEMMA ServerSame ==
  ASSUME Server, UNCHANGED <<made, queueA, ccidA, scidA, stored, archA, memA>>
  PROVE  Server'
BY DEF Server, Ordered, Chained, Apart, Begins

LEMMA NodeSame ==
  ASSUME Types, Node, UNCHANGED <<made, data, ccid, scid, queue, arch, cast>>,
         queueA' \subseteq queueA,
         \A n \in Nat : n > scid => (Full(n)' <=> Full(n)),
         \A g \in archA : g \in archA' \/ g.last <= scid
  PROVE  Node'
<1>0. ccid \in Nat /\ scid \in Nat /\ Top \in Nat /\ Top >= scid
  BY Numbers
<1>1. Got' = Got /\ Top' = Top /\ Seen' = Seen
  BY DEF Got, Top, Seen
<1>2. Within'
  BY <1>1 DEF Node, Within
<1>3. Filled'
  BY <1>1 DEF Node, Filled
<1>4. Stuck'
  <2>1. Top + 1 \in Nat /\ Top + 1 > scid
    BY <1>0
  <2>2. Full(Top + 1)' => Full(Top + 1)
    BY <1>1, <2>1
  <2>. QED BY <1>1, <2>2 DEF Node, Stuck
<1>5. Copied'
  <2> SUFFICES ASSUME NEW g \in arch
               PROVE  g.ids \subseteq g.first .. g.last /\ (Named(archA', g) \/ g.last <= scid)
    BY DEF Copied
  <2>. QED BY DEF Node, Copied, Named
<1>. QED BY <1>2, <1>3, <1>4, <1>5 DEF Node

LEMMA UnchangedSteady ==
  ASSUME Types, UNCHANGED <<made, toS, store, arch, scid, ccid, queue, cast>>,
         ccidA <= ccidA',
         \A n \in Nat : n > scid => (Full(n)' <=> Full(n)),
         \A g \in archA : g \in archA' \/ g.last <= scid
  PROVE  Steady
<1>1. ccid \in Nat /\ made \in Nat
  BY Numbers
<1>2. Got' = Got /\ Seen' = Seen
  BY DEF Got, Seen
<1>3. made + 1 .. made' = {}
  BY <1>1
<1>. QED BY <1>1, <1>2, <1>3 DEF Steady, Seen

LEMMA MakeCalm ==
  ASSUME Types, Types', status # "DOWN", Server, Node, Make
  PROVE  Server' /\ Node' /\ Steady /\ UNCHANGED <<archA, scidA, stored, ccid, data, status>>
<1>1. /\ made' = made + 1 /\ queueA' = queueA \cup {made + 1} /\ cast' = cast \cup {made + 1}
      /\ UNCHANGED <<away, ccidA, scidA, stored, archA, memA, status, ccid, scid, data,
                     queue, store, arch, toS>>
  BY DEF Make, memory, disk
<1>2. /\ made \in Nat /\ ccidA \in Nat /\ scidA \in Nat /\ stored \in Nat /\ ccid \in Nat
      /\ scid \in Nat /\ ccidA <= made /\ queueA = ccidA + 1 .. made
      /\ stored <= scidA /\ scidA <= ccidA
  BY Numbers DEF Server, Ordered
<1>3. Server'
  <2>1. queueA' = ccidA + 1 .. made + 1
    BY <1>1, <1>2
  <2>2. Ordered'
    BY <1>1, <1>2, <2>1 DEF Server, Ordered
  <2>. QED BY <1>1, <2>2 DEF Server, Chained, Apart, Begins
<1>4. Got' = Got /\ Top' = Top /\ Seen' = Seen \cup {made + 1}
  BY <1>1 DEF Got, Top, Seen
<1>5. Node'
  <2>1. Within'
    BY <1>1, <1>2, <1>4 DEF Node, Within
  <2>2. Filled'
    BY <1>1, <1>4 DEF Node, Filled
  <2>3. Stuck'
    <3> SUFFICES ASSUME Full(Top + 1)
                 PROVE  scid <= ccid /\ ccid + 1 \notin cast' /\ ccid + 1 \notin Got
      BY <1>1, <1>4 DEF Stuck
    <3>1. scid <= ccid /\ ccid + 1 \notin cast /\ ccid + 1 \notin Got
      BY DEF Node, Stuck
    <3>2. Top = ccid
      BY <1>2, <3>1 DEF Top
    <3>3. ccid + 1 <= stored
      BY <3>2 DEF FullAt
    <3>4. ccid + 1 # made + 1
      BY <1>2, <3>3
    <3>. QED BY <1>1, <3>1, <3>4
  <2>4. Copied'
    BY <1>1 DEF Node, Copied
  <2>. QED BY <2>1, <2>2, <2>3, <2>4 DEF Node
<1>6. Steady
  <2>1. made + 1 .. made' \subseteq {made + 1}
    BY <1>1, <1>2
  <2>2. cast \cup (made + 1 .. made') \subseteq Seen'
    BY <1>4, <2>1 DEF Seen
  <2>3. made <= made' /\ ccidA <= ccidA' /\ ccid <= ccid'
    BY <1>1, <1>2
  <2>. QED BY <1>1, <1>4, <2>2, <2>3 DEF Steady
<1>. QED BY <1>1, <1>3, <1>5, <1>6

LEMMA CommitCalm ==
  ASSUME Types, Types', Server, Node, CommitA
  PROVE  Server' /\ Node' /\ Steady /\ UNCHANGED <<archA, scidA, stored, ccid, data, status>>
<1>1. /\ ccidA + 1 \in queueA /\ ccidA' = ccidA + 1 /\ queueA' = queueA \ {ccidA + 1}
      /\ memA' = memA \cup {ccidA + 1}
      /\ UNCHANGED <<made, scidA, stored, archA, status, ccid, scid, data,
                     queue, store, arch, toS, cast>>
  BY DEF CommitA, memory, disk, net
<1>2. /\ made \in Nat /\ ccidA \in Nat /\ scidA \in Nat /\ stored \in Nat
      /\ ccidA <= made /\ queueA = ccidA + 1 .. made /\ memA = scidA + 1 .. ccidA
      /\ stored <= scidA /\ scidA <= ccidA
  BY Numbers DEF Server, Ordered
<1>3. Server'
  <2>1. queueA' = ccidA + 2 .. made /\ memA' = scidA + 1 .. ccidA + 1 /\ ccidA + 1 <= made
    BY <1>1, <1>2
  <2>2. Ordered'
    <3>1. ccidA + 2 = (ccidA + 1) + 1
      BY <1>2
    <3>. QED BY <1>1, <1>2, <2>1, <3>1 DEF Ordered
  <2>. QED BY <1>1, <2>2 DEF Server, Chained, Apart, Begins
<1>4. \A n \in Nat : Full(n)' <=> Full(n)
  <2>1. \A n \in Nat : n <= stored => n < ccidA + 1
    BY <1>2
  <2>2. \A n \in Nat : (\A i \in memA' : n < i) <=> (\A i \in memA : n < i) /\ n < ccidA + 1
    BY <1>1
  <2>. QED BY <1>1, <2>1, <2>2, Zenon DEF FullAt
<1>5. queueA' \subseteq queueA /\ ccidA <= ccidA'
  BY <1>1, <1>2
<1>6. Node'
  BY <1>1, <1>4, <1>5, NodeSame
<1>7. Steady
  BY <1>1, <1>4, <1>5, UnchangedSteady
<1>. QED BY <1>1, <1>3, <1>6, <1>7

LEMMA WorkCalm ==
  ASSUME Types, Types', Server, Node, WorkFinish
  PROVE  Server' /\ Node' /\ Steady /\ UNCHANGED <<ccid, data, status>> /\ away = "WORKING"
<1>1. /\ away = "WORKING"
      /\ UNCHANGED <<made, ccidA, queueA, status, ccid, scid, data, queue, store, arch,
                     toS, cast>>
  BY DEF WorkFinish, memory, disk, net
<1>2. /\ Server'
      /\ \A n \in Nat : n > scid => (Full(n)' <=> Full(n))
      /\ \A g \in archA : g \in archA' \/ g.last <= scid
  BY ServerWorks
<1>3. queueA' \subseteq queueA
  BY <1>1
<1>4. ccidA <= ccidA'
  BY <1>1, Numbers
<1>5. Node'
  BY <1>1, <1>2, <1>3, NodeSame
<1>6. Steady
  BY <1>1, <1>2, <1>4, UnchangedSteady
<1>. QED BY <1>1, <1>2, <1>5, <1>6

(* The steps that change neither what A or S has nor what is sent.         *)
LEMMA SameCalm ==
  ASSUME Types, Types', Server, Node,
         UNCHANGED <<made, ccidA, scidA, stored, archA, memA, queueA, ccid, scid, data,
                     queue, store, arch, cast>>
  PROVE  Server' /\ Node' /\ (UNCHANGED toS => Steady)
<1>1. Server'
  BY ServerSame
<1>2. queueA' \subseteq queueA /\ ccidA <= ccidA'
  BY Numbers
<1>3. Node'
  BY <1>2, NodeSame
<1>4. UNCHANGED toS => Steady
  BY <1>2, UnchangedSteady
<1>. QED BY <1>1, <1>3, <1>4

(* What is added to a queue: a change that was there stays, and has a new  *)
(* flag only if it is added again with it.                                 *)
LEMMA AddIds ==
  ASSUME NEW q \in SUBSET Queued, NEW S \in SUBSET Ids, NEW b \in BOOLEAN
  PROVE  LET n == Add(q, {[id |-> i, gap |-> b] : i \in S}) IN
         /\ {c.id : c \in n} = {c.id : c \in q} \cup {i \in S : i > ccid}
         /\ \A c \in n : c \in q \/ (c.id \in S /\ c.id > ccid /\ c.gap = b)
<1> DEFINE cs == {[id |-> i, gap |-> b] : i \in S}
           new == {c \in cs : c.id > ccid}
           flagged(d) == d.gap \/ \E c \in new : c.id = d.id /\ c.gap
           old == {[id |-> d.id, gap |-> flagged(d)] : d \in q}
           n == Add(q, cs)
<1>1. n = old \cup {c \in new : \A d \in q : d.id # c.id}
  BY DEF Add
<1>2. \A c \in new : c.id \in S /\ c.gap = b /\ c.id > ccid
  OBVIOUS
<1>3. \A i \in S : i > ccid => \E c \in new : c.id = i
  <2> SUFFICES ASSUME NEW i \in S, i > ccid PROVE \E c \in new : c.id = i
    OBVIOUS
  <2>1. [id |-> i, gap |-> b] \in cs /\ [id |-> i, gap |-> b].id = i
    OBVIOUS
  <2>2. [id |-> i, gap |-> b] \in new
    BY <2>1
  <2>. QED BY <2>1, <2>2, Zenon
<1> HIDE DEF cs, new
<1>4. ASSUME NEW c \in old PROVE /\ \E d \in q : d.id = c.id
                                 /\ c \in q \/ (c.id \in S /\ c.id > ccid /\ c.gap = b)
  <2>1. PICK d \in q : c = [id |-> d.id, gap |-> flagged(d)]
    BY <1>4
  <2>2. c.id = d.id /\ c.gap = flagged(d) /\ d \in Queued
    BY <2>1
  <2>3. CASE \E e \in new : e.id = d.id /\ e.gap
    BY <1>2, <2>2, <2>3
  <2>4. CASE ~\E e \in new : e.id = d.id /\ e.gap
    <3>1. flagged(d) = d.gap
      BY <2>2, <2>4 DEF Queued
    <3>2. d = [id |-> d.id, gap |-> d.gap]
      BY <2>2 DEF Queued
    <3>. QED BY <2>1, <2>2, <3>1, <3>2
  <2>. QED BY <2>2, <2>3, <2>4
<1>5. ASSUME NEW d \in q PROVE \E c \in old : c.id = d.id
  <2>1. [id |-> d.id, gap |-> flagged(d)] \in old /\ [id |-> d.id, gap |-> flagged(d)].id = d.id
    OBVIOUS
  <2>. QED BY <2>1, Zenon
<1> HIDE DEF old, n
<1>6. \A c \in n : c \in q \/ (c.id \in S /\ c.id > ccid /\ c.gap = b)
  BY <1>1, <1>2, <1>4
<1>7. \A c \in n : c.id \in {d.id : d \in q} \cup {i \in S : i > ccid}
  BY <1>1, <1>2, <1>4
<1>8. ASSUME NEW i \in S, i > ccid PROVE \E c \in n : c.id = i
  <2>1. PICK c \in new : c.id = i
    BY <1>3, <1>8
  <2>2. CASE \E d \in q : d.id = i
    BY <1>1, <1>5, <2>2
  <2>3. CASE ~\E d \in q : d.id = i
    BY <1>1, <2>1, <2>3
  <2>. QED BY <2>2, <2>3
<1>9. \A d \in q : \E c \in n : c.id = d.id
  BY <1>1, <1>5
<1>10. {c.id : c \in n} = {c.id : c \in q} \cup {i \in S : i > ccid}
  BY <1>7, <1>8, <1>9
<1>. QED BY <1>6, <1>10 DEF cs, n

LEMMA ChangeCalm ==
  ASSUME Types, Types', Server, Node, OnChange
  PROVE  Server' /\ Node' /\ Steady /\ UNCHANGED <<archA, scidA, stored, ccid, data, status>>
<1>1. PICK i \in cast : /\ cast' = cast \ {i}
                        /\ queue' = Add(queue, {[id |-> i, gap |-> FALSE]})
  BY DEF OnChange
<1>2. UNCHANGED <<made, away, queueA, ccidA, scidA, stored, archA, memA, status, ccid,
                  scid, data, store, arch, toS>>
  BY DEF OnChange, server, disk
<1>3. i \in Ids /\ {i} \in SUBSET Ids
  BY DEF Types, NetTypes
<1>4. ccid \in Nat /\ scid \in Nat /\ made \in Nat /\ ccidA \in Nat /\ queue \subseteq Queued
  BY Numbers
<1>5. /\ Got' = Got \cup {j \in {i} : j > ccid}
      /\ \A c \in queue' : c \in queue \/ (c.id = i /\ c.id > ccid /\ c.gap = FALSE)
  <2>1. {[id |-> i, gap |-> FALSE]} = {[id |-> j, gap |-> FALSE] : j \in {i}}
    OBVIOUS
  <2>2. FALSE \in BOOLEAN
    OBVIOUS
  <2>3. /\ {c.id : c \in queue'} = {c.id : c \in queue} \cup {j \in {i} : j > ccid}
        /\ \A c \in queue' : c \in queue \/ (c.id \in {i} /\ c.id > ccid /\ c.gap = FALSE)
    BY <1>1, <1>3, <1>4, <2>1, <2>2, AddIds
  <2>. QED BY <2>3 DEF Got
<1>6. Seen \subseteq Seen'
  <2>1. i \in Seen'
    <3>1. i \in Nat /\ i > 0
      BY <1>3 DEF Ids
    <3>2. CASE i > ccid
      BY <1>5, <3>2 DEF Seen
    <3>3. CASE i <= ccid
      BY <1>2, <1>4, <3>1, <3>3 DEF Seen
    <3>. QED BY <1>4, <3>1, <3>2, <3>3
  <2>. QED BY <1>1, <1>2, <1>5, <2>1 DEF Seen
<1>7. Server'
  BY <1>2, ServerSame
<1>8. Within'
  BY <1>1, <1>2, <1>5 DEF Node, Within
<1>9. Filled'
  <2>1. \A c \in queue' : c.gap => ccid + 1 .. c.id \subseteq Got'
    <3>1. \A c \in queue : c.gap => ccid + 1 .. c.id \subseteq Got
      BY DEF Node, Filled
    <3>. QED BY <1>5, <3>1
  <2>. QED BY <1>2, <1>5, <1>6, <2>1 DEF Node, Filled
<1>10. Stuck'
  BY <1>1, <1>2, <1>5 DEF Node, Stuck, Top
<1>11. Copied'
  BY <1>2 DEF Node, Copied
<1>12. Steady
  <2>1. made + 1 .. made' = {}
    BY <1>2, <1>4
  <2>2. made <= made' /\ ccidA <= ccidA' /\ ccid <= ccid'
    BY <1>2, <1>4
  <2>3. cast \subseteq Seen
    BY DEF Seen
  <2>. QED BY <1>2, <1>5, <1>6, <2>1, <2>2, <2>3 DEF Steady
<1>. QED BY <1>2, <1>7, <1>8, <1>9, <1>10, <1>11, <1>12 DEF Node

LEMMA Between ==
  ASSUME NEW a \in Nat, NEW b \in Nat, a <= b, NEW e \in Nat, NEW x \in b + 1 .. e
  PROVE  x \in Nat /\ x > b /\ x \in a + 1 .. e
OBVIOUS

LEMMA LoopCalm ==
  ASSUME Types, Types', Server, Node, Loop
  PROVE  Server' /\ Node' /\ Steady /\ UNCHANGED <<archA, scidA, stored, status>>
<1> DEFINE c == First(queue)
<1>1. /\ queue # {} /\ (c.id <= ccid + 1 \/ c.gap) /\ queue' = queue \ {c}
      /\ ccid' = Max({c.id, ccid})
      /\ data' = IF c.id > ccid THEN data \cup {c.id} ELSE data
  BY DEF Loop, Runnable
<1>2. UNCHANGED <<made, away, queueA, ccidA, scidA, stored, archA, memA, status,
                  scid, store, arch, toS, cast>>
  BY DEF Loop, server, disk, net
<1>3. ccid \in Nat /\ scid \in Nat /\ made \in Nat /\ ccidA \in Nat /\ queue \subseteq Queued
  BY Numbers
<1>4. c \in queue /\ \A e \in queue : c.id <= e.id
  BY <1>1, <1>3, FirstIsLowest
<1>5. \A e \in queue : e.id \in Nat /\ e.id > 0
  BY <1>3, Bounds DEF Queued, Ids
<1> HIDE DEF c
<1>6. PICK k \in Nat : k = c.id /\ k > 0
  BY <1>4, <1>5
<1>7. k \in Got /\ \A x \in Got : k <= x
  BY <1>4, <1>6 DEF Got
<1>8. k <= ccid + 1
  <2>1. CASE c.gap /\ k > ccid + 1
    <3>1. ccid + 1 .. k \subseteq Got
      BY <1>4, <1>6, <2>1 DEF Node, Filled
    <3>2. ccid + 1 \in Got
      BY <1>3, <2>1, <3>1
    <3>. QED BY <1>3, <1>7, <2>1, <3>2
  <2>. QED BY <1>1, <1>3, <1>6, <2>1
<1>9. ccid' = IF k <= ccid THEN ccid ELSE k
  BY <1>1, <1>3, <1>6, LargerOfTwo
<1>10. \A x \in Got : x = k \/ x \in Got'
  BY <1>1, <1>6 DEF Got
<1>11. Got' \subseteq Got /\ queue' \subseteq queue
  BY <1>1 DEF Got
<1>12. (ccid' = ccid /\ k <= ccid) \/ (ccid' = ccid + 1 /\ k = ccid + 1)
  BY <1>3, <1>8, <1>9
<1>13. ccid' \in Nat /\ ccid <= ccid' /\ k <= ccid' /\ ccid' \in {ccid, k}
  BY <1>3, <1>12
<1>14. Lost => ccid' = ccid
  <2> SUFFICES ASSUME Lost PROVE k # ccid + 1
    BY <1>12
  <2>1. Top = ccid /\ Full(ccid + 1)
    BY <1>3 DEF Lost, Top
  <2>2. ccid + 1 \notin Got
    BY <2>1 DEF Node, Stuck
  <2>. QED BY <1>7, <2>2
<1>15. (1 .. ccid) \cup Got \subseteq (1 .. ccid') \cup Got'
  <2>1. 1 .. ccid \subseteq 1 .. ccid' /\ k \in 1 .. ccid'
    BY <1>3, <1>6, <1>13
  <2>. QED BY <1>10, <2>1
<1>16. Seen \subseteq Seen'
  BY <1>2, <1>15 DEF Seen
<1>17. Server'
  BY <1>2, ServerSame
<1>18. Within'
  <2>1. k <= made
    BY <1>3, <1>7 DEF Node, Within
  <2>2. ccid' <= made
    BY <1>12, <2>1 DEF Node, Within
  <2>3. data' = 1 .. ccid'
    <3>1. CASE ccid' = ccid /\ k <= ccid
      BY <1>1, <1>3, <1>6, <3>1 DEF Node, Within
    <3>2. CASE ccid' = ccid + 1 /\ k = ccid + 1
      <4>1. data' = data \cup {ccid + 1} /\ data = 1 .. ccid
        BY <1>1, <1>3, <1>6, <3>2 DEF Node, Within
      <4>. QED BY <1>3, <3>2, <4>1
    <3>. QED BY <1>12, <3>1, <3>2
  <2>. QED BY <1>2, <1>11, <2>2, <2>3 DEF Node, Within
<1>19. ASSUME NEW x \in Nat, x > ccid', x \in Got PROVE x \in Got'
  <2>1. x # k
    BY <1>13, <1>19
  <2>. QED BY <1>10, <1>19, <2>1
<1>20. Filled'
  <2>1. ASSUME NEW e \in queue', e.gap PROVE ccid' + 1 .. e.id \subseteq Got'
    <3> SUFFICES ASSUME NEW x \in ccid' + 1 .. e.id PROVE x \in Got'
      OBVIOUS
    <3>0. e.id \in Nat /\ e \in queue
      BY <1>5, <1>11
    <3>1. x \in Nat /\ x > ccid' /\ x \in ccid + 1 .. e.id
      BY <1>3, <1>13, <3>0, Between
    <3>2. x \in Got
      BY <2>1, <3>0, <3>1 DEF Node, Filled
    <3>. QED BY <1>19, <3>1, <3>2
  <2>2. ASSUME NEW x \in ccid' + 1 .. scid PROVE x \in Got'
    <3>1. x \in Nat /\ x > ccid' /\ x \in ccid + 1 .. scid
      BY <1>3, <1>13, Between
    <3>. QED BY <1>19, <3>1 DEF Node, Filled
  <2>. QED BY <1>2, <1>16, <2>1, <2>2 DEF Node, Filled
<1>21. Stuck'
  <2>1. CASE ccid' = ccid
    BY <1>2, <1>11, <2>1 DEF Node, Stuck, Top
  <2>2. CASE ccid' = ccid + 1 /\ k = ccid + 1
    <3>1. Top \in Nat /\ Top' \in Nat /\ Top <= Top'
      BY <1>2, <1>3, <2>2 DEF Top
    <3>2. ~Full(Top + 1)
      BY <1>7, <2>2 DEF Node, Stuck
    <3>3. PICK t \in Nat : t = Top'
      BY <3>1
    <3>4. ~Full(t + 1)
      <4>0. PICK u \in Nat : u = Top
        BY <3>1
      <4>1. u <= t
        BY <3>1, <3>3, <4>0
      <4>2. u + 1 \in Nat /\ t + 1 \in Nat /\ u + 1 <= t + 1
        BY <4>1
      <4>. QED BY <3>2, <4>0, <4>2, FullLower
    <3>. QED BY <1>2, <3>3, <3>4 DEF Stuck
  <2>. QED BY <1>12, <2>1, <2>2
<1>22. Copied'
  BY <1>2 DEF Node, Copied
<1>23. Steady
  <2>1. made + 1 .. made' = {}
    BY <1>2, <1>3
  <2>2. made <= made' /\ ccidA <= ccidA'
    BY <1>2, <1>3
  <2>3. cast \subseteq Seen
    BY DEF Seen
  <2>. QED BY <1>2, <1>13, <1>14, <1>15, <1>16, <2>1, <2>2, <2>3 DEF Steady
<1>. QED BY <1>2, <1>17, <1>18, <1>20, <1>21, <1>22, <1>23 DEF Node
-----------------------------------------------------------------------------
(* What A sends.                                                           *)

Rests == UNCHANGED <<made, ccidA, scidA, stored, archA, memA, queueA, ccid, scid, data,
                     queue, store, arch, cast>>

LEMMA SameHave ==
  ASSUME Rests, FP' <=> FP, AP' <=> AP
  PROVE  /\ Base' = Base /\ New' = New /\ Top' = Top /\ Got' = Got /\ Have' = Have
         /\ (Lost' <=> Lost) /\ (Usable' <=> Usable) /\ (StoreSafe' <=> StoreSafe)
         /\ (FilesSafe' <=> FilesSafe)
<1>1. Base' = Base /\ New' = New /\ Top' = Top /\ Got' = Got
  BY DEF Rests, Base, New, Top, Got
<1>2. Have' = Have
  BY <1>1 DEF Have
<1>3. (Lost' <=> Lost) /\ (Usable' <=> Usable)
  BY <1>1 DEF Rests, Lost, Usable
<1>4. (StoreSafe' <=> StoreSafe) /\ (FilesSafe' <=> FilesSafe)
  BY <1>1, <1>3 DEF Rests, StoreSafe, FilesSafe
<1>. QED BY <1>1, <1>2, <1>3, <1>4

LEMMA SameSafe ==
  ASSUME Rests, FP' <=> FP, AP' <=> AP, NEW r, Safe(r)
  PROVE  Safe(r)'
BY SameHave DEF Safe, Rests

(* Another request behind the end of the synchronization changes nothing.  *)
LEMMA EndsAppend ==
  ASSUME Types, Ends, Rests, toS' = toS \/ \E q \in Packages : toS' = Append(toS, q)
  PROVE  Ends'
<1>0. toS \in Seq(Packages) /\ toS # <<>>
  BY DEF Types, NetTypes, Ends
<1>1. toS' # <<>> /\ toS'[1] = toS[1] /\ (Len(toS) > 1 => toS'[2] = toS[2] /\ Len(toS') > 1)
  <2>1. CASE toS' = toS
    BY <1>0, <2>1
  <2>2. ASSUME NEW q \in Packages, toS' = Append(toS, q)
        PROVE  toS' # <<>> /\ toS'[1] = toS[1]
               /\ (Len(toS) > 1 => toS'[2] = toS[2] /\ Len(toS') > 1)
    BY <1>0, <2>2
  <2>. QED BY <2>1, <2>2
<1>2. (FP' <=> FP) /\ (AP' <=> AP)
  BY <1>0, <1>1 DEF FP, AP
<1>3. Have' = Have /\ made' = made /\ cast' = cast
  BY <1>2, SameHave DEF Rests
<1>4. Safe(toS[1]) => Safe(toS[1])'
  <2>1. PICK p : p = toS[1]
    OBVIOUS
  <2>2. Safe(p) => Safe(p)'
    BY <1>2, SameSafe
  <2>3. p = toS'[1]
    BY <1>1, <2>1
  <2>. QED BY <2>1, <2>2, <2>3
<1>. QED BY <1>1, <1>3, <1>4 DEF Ends

LEMMA EventsSent ==
  ASSUME Types, Server, Node, Rests, NEW id \in Nat, NEW q, q = EventsFrom(id),
         scidA < id, Usable', FP' => store.ccid = stored, 1 .. id - 1 \subseteq Have',
         toS' # <<>>, Base' \in Nat, ccid <= Base',
         \/ toS'[1] = q
         \/ toS'[1].tp \in Dones /\ Safe(toS[1])' /\ Len(toS') > 1 /\ toS'[2] = q
  PROVE  \/ q.tp = "edone" /\ Ends'
         \/ q.tp = "epart" /\ Before(q)' /\ Safe(q)'
<1>0. /\ made \in Nat /\ ccidA \in Nat /\ scidA \in Nat /\ memA \subseteq Ids /\ ccid \in Nat
      /\ memA = scidA + 1 .. ccidA /\ queueA = ccidA + 1 .. made /\ ccidA <= made
  BY Numbers DEF Server, Ordered
<1>1. \/ q.tp = "edone" /\ \A i \in memA : i < id
      \/ /\ q.tp = "epart" /\ q.first \in memA /\ q.first >= id
         /\ \A i \in memA : i >= id => q.first <= i
  BY <1>0, EventsFacts
<1>2. CASE q.tp = "edone" /\ \A i \in memA : i < id
  <2>1. ccidA < id
    BY <1>0, <1>2
  <2>2. 1 .. ccidA \subseteq 1 .. id - 1
    BY <1>0, <2>1
  <2>3. queueA \subseteq Have' \cup cast
    <3>1. Got' = Got
      BY DEF Rests, Got
    <3>2. 1 .. ccid \subseteq 1 .. Base'
      BY <1>0
    <3>3. Seen \subseteq Have' \cup cast
      BY <3>1, <3>2 DEF Seen, Have
    <3>. QED BY <3>3 DEF Node, Filled
  <2>4. 1 .. made \subseteq (1 .. ccidA) \cup queueA
    BY <1>0
  <2>5. 1 .. made' \subseteq Have' \cup cast'
    BY <2>2, <2>3, <2>4 DEF Rests
  <2>6. Ends'
    <3>1. toS'[1].tp = "edone" \/ (Len(toS') > 1 /\ toS'[1].tp \in Dones /\ Safe(toS[1])'
                                     /\ toS'[2].tp = "edone")
      BY <1>2
    <3>. QED BY <2>5, <3>1 DEF Ends
  <2>. QED BY <1>2, <2>6
<1>3. CASE /\ q.tp = "epart" /\ q.first \in memA /\ q.first >= id
           /\ \A i \in memA : i >= id => q.first <= i
  <2>1. PICK e \in Nat : e = q.first
    BY <1>0, <1>3
  <2>2. e = id /\ scidA < e /\ e <= ccidA
    BY <1>0, <1>3, <2>1
  <2>3. e <= made'
    BY <1>0, <2>2 DEF Rests
  <2>4. Safe(q)'
    BY <1>3, <2>1, <2>2, <2>3 DEF Safe
  <2>5. Before(q)'
    BY <1>3, <2>1, <2>2 DEF Before, Rests
  <2>. QED BY <1>3, <2>4, <2>5
<1>. QED BY <1>1, <1>2, <1>3

LEMMA FilesSent ==
  ASSUME Types, Server, Node, Rests, NEW id \in Nat, Behind(id) # {}, NEW none,
         NEW q, q = ArchiveFrom(id, none), Usable', FP' => store.ccid = stored,
         \A g \in archA : g.last < id /\ g.last > Base' => Whole(arch, g)
  PROVE  q.tp = "apart" /\ Before(q)' /\ Safe(q)'
<1>0. archA \subseteq Files /\ \A g \in archA : g.first \in Nat /\ g.last \in Nat
  BY Numbers, FileNumbers
<1>1. /\ q.tp = "apart"
      /\ \E f \in archA :
           /\ q.first = f.first /\ q.last = f.last
           /\ f.last >= id /\ \A g \in archA : g.last >= id => f.first <= g.first
  <2>1. q = Request("apart", FileFrom(id).first, FileFrom(id).last, 1)
    BY DEF ArchiveFrom
  <2>2. /\ FileFrom(id) \in archA /\ FileFrom(id).last >= id
        /\ \A g \in archA : g.last >= id => FileFrom(id).first <= g.first
    BY <1>0, NextFile
  <2>3. q.tp = "apart" /\ q.first = FileFrom(id).first /\ q.last = FileFrom(id).last
    BY <2>1, RequestFields
  <2>. QED BY <2>2, <2>3
<1>2. PICK f \in archA :
        /\ q.first = f.first /\ q.last = f.last
        /\ f.last >= id /\ \A g \in archA : g.last >= id => f.first <= g.first
  BY <1>1
<1>3. archA' = archA /\ arch' = arch /\ store' = store /\ stored' = stored
  BY DEF Rests
<1>4. Named(archA', q)
  BY <1>2, <1>3 DEF Named
<1>5. FilesBelow(q.first)'
  <2> SUFFICES ASSUME NEW g \in archA, g.last > Base', g.first < f.first PROVE Whole(arch, g)
    BY <1>2, <1>3 DEF FilesBelow
  <2>1. ~(g.last >= id)
    BY <1>0, <1>2
  <2>2. g.last < id
    BY <1>0, <2>1
  <2>. QED BY <2>2
<1>6. Before(q)'
  BY <1>1, <1>3, <1>4, <1>5 DEF Before
<1>7. Safe(q)'
  BY <1>1, <1>4 DEF Safe
<1>. QED BY <1>1, <1>6, <1>7

LEMMA OneSent ==
  ASSUME Types, Rests, NEW q, toS' = <<q>>
  PROVE  /\ toS' # <<>> /\ toS'[1] = q
         /\ q.tp # "fdone" => /\ ~FP' /\ Base' = ccid /\ Base' \in Nat /\ ccid <= Base'
                              /\ (Usable' <=> ~Full(Top + 1))
         /\ (1 .. Base') \cup Got \subseteq Have' /\ (FP' <=> q.tp = "fdone")
         /\ (AP' <=> q.tp = "adone")
<1>0. ccid \in Nat
  BY Numbers
<1>1. toS' # <<>> /\ toS'[1] = q
  OBVIOUS
<1>2. (FP' <=> q.tp = "fdone") /\ (AP' <=> q.tp = "adone")
  BY <1>1 DEF FP, AP
<1>3. Got' = Got /\ Top' = Top /\ ccid' = ccid
  BY DEF Rests, Got, Top
<1>4. q.tp # "fdone" => /\ ~FP' /\ Base' = ccid /\ Base' \in Nat /\ ccid <= Base'
                        /\ (Usable' <=> ~Full(Top + 1))
  BY <1>0, <1>2, <1>3 DEF Base, Usable, Rests
<1>5. (1 .. Base') \cup Got \subseteq Have'
  BY <1>3 DEF Have
<1>. QED BY <1>1, <1>2, <1>4, <1>5

(* The first request.                                                      *)
LEMMA OpeningSent ==
  ASSUME Types, Server, Node, Rests, NEW first \in Nat, first > 0, Waits(first),
         NEW q, q = Opening(first), toS' = <<q>>
  PROVE  \/ q.tp = "edone" /\ Ends'
         \/ q.tp \in {"fpart", "apart", "epart"} /\ Before(q)' /\ Safe(q)'
<1>0. /\ ccid \in Nat /\ scid \in Nat /\ Top \in Nat /\ Top >= ccid /\ scidA \in Nat
      /\ archA \subseteq Files /\ memA \subseteq Ids
  BY Numbers
<1>1. first <= ccid + 1 /\ scid < first /\ (Full(first) => first = ccid + 1)
  BY DEF Waits
<1>2. /\ toS' # <<>> /\ toS'[1] = q
      /\ q.tp # "fdone" => /\ ~FP' /\ Base' = ccid /\ Base' \in Nat /\ ccid <= Base'
                           /\ (Usable' <=> ~Full(Top + 1))
      /\ (1 .. Base') \cup Got \subseteq Have'
  BY OneSent
<1>3. CASE Full(first)
  <2>1. q = Request("fpart", 0, 0, 1)
    BY <1>3, FullSyncIs DEF Opening
  <2>2. q.tp = "fpart" /\ q.k = 1
    BY <2>1, RequestFields
  <2>3. Lost'
    <3>1. Lost
      BY <1>0, <1>1, <1>3 DEF Lost
    <3>. QED BY <3>1 DEF Lost, Rests
  <2>4. Before(q)' /\ Safe(q)'
    BY <1>2, <2>2, <2>3 DEF Before, Safe
  <2>. QED BY <2>2, <2>4
<1>4. CASE ~Full(first)
  <2> DEFINE e == EventsFrom(first)
  <2>1. q = ArchiveFrom(first, e)
    BY <1>4, FullSyncIs DEF Opening
  <2>2. ~Full(Top + 1)
    <3>1. Top + 1 \in Nat /\ first <= Top + 1
      BY <1>0, <1>1
    <3>. QED BY <1>4, <3>1, FullLower
  <2>3. e.tp \in {"edone", "epart"}
    BY <1>0, EventsFacts
  <2> HIDE DEF e
  <2>4. CASE Behind(first) = {}
    <3>1. q = e
      BY <2>1, <2>4 DEF ArchiveFrom
    <3>2. scidA < first
      <4>1. SUFFICES ASSUME first <= scidA PROVE FALSE
        BY <1>0
      <4>2. InFile(archA, first)
        BY <1>0, <1>4, <4>1, Covers
      <4>3. PICK f \in archA : first <= f.last
        BY <4>2 DEF InFile
      <4>4. f.last >= first
        BY <1>0, <4>3, FileNumbers
      <4>. QED BY <2>4, <4>4 DEF Behind
    <3>3. q.tp # "fdone"
      BY <2>3, <3>1
    <3>4. 1 .. first - 1 \subseteq Have'
      <4>1. 1 .. first - 1 \subseteq 1 .. ccid
        BY <1>0, <1>1
      <4>. QED BY <1>2, <3>3, <4>1
    <3>5. \/ q.tp = "edone" /\ Ends'
          \/ q.tp = "epart" /\ Before(q)' /\ Safe(q)'
      BY <1>2, <2>2, <3>1, <3>2, <3>3, <3>4, EventsSent DEF e
    <3>. QED BY <3>5
  <2>5. CASE Behind(first) # {}
    <3>1. q.tp = "apart"
      <4>1. q = Request("apart", FileFrom(first).first, FileFrom(first).last, 1)
        BY <2>1, <2>5 DEF ArchiveFrom
      <4>. QED BY <4>1, RequestFields
    <3>2. q.tp # "fdone"
      BY <3>1
    <3>3. \A g \in archA : ~(g.last < first /\ g.last > ccid)
      <4>1. \A g \in archA : g.last \in Nat
        BY <1>0, FileNumbers
      <4>. QED BY <1>0, <1>1, <4>1
    <3>4. \A g \in archA : g.last < first /\ g.last > Base' => Whole(arch, g)
      BY <1>2, <3>2, <3>3
    <3>5. q.tp = "apart" /\ Before(q)' /\ Safe(q)'
      BY <1>2, <2>1, <2>2, <2>5, <3>2, <3>4, FilesSent
    <3>. QED BY <3>5
  <2>. QED BY <2>4, <2>5
<1>. QED BY <1>3, <1>4

(* After the full store comes the archive behind it.                       *)
LEMMA NoFileLeft ==
  ASSUME Types, Server, Behind(stored + 1) = {}
  PROVE  scidA = stored
<1>0. scidA \in Nat /\ stored \in Nat /\ stored <= scidA /\ archA \subseteq Files
  BY Numbers DEF Server, Ordered
<1> SUFFICES ASSUME stored < scidA PROVE FALSE
  BY <1>0
<1>1. ~Full(stored + 1)
  BY <1>0 DEF FullAt
<1>2. InFile(archA, stored + 1)
  BY <1>0, <1>1, Covers
<1>3. PICK f \in archA : stored + 1 <= f.last
  BY <1>2 DEF InFile
<1>4. f.last >= stored + 1
  BY <1>0, <1>3, FileNumbers
<1>. QED BY <1>4 DEF Behind

LEMMA StoreFollowed ==
  ASSUME Types, Server, Node, Rests, NEW q,
         q = ArchiveFrom(stored + 1, EventsFrom(stored + 1)),
         Usable', FP' => store.ccid = stored, toS' # <<>>,
         Base' \in Nat, ccid <= Base', stored <= Base',
         \/ toS'[1] = q
         \/ toS'[1].tp \in Dones /\ Safe(toS[1])' /\ Len(toS') > 1 /\ toS'[2] = q
  PROVE  \/ q.tp = "edone" /\ Ends'
         \/ q.tp \in {"apart", "epart"} /\ Before(q)' /\ Safe(q)'
<1>0. stored \in Nat /\ scidA \in Nat /\ archA \subseteq Files /\ stored + 1 \in Nat
  BY Numbers
<1>1. CASE Behind(stored + 1) = {}
  <2>1. scidA = stored
    BY <1>1, NoFileLeft
  <2>2. q = EventsFrom(stored + 1) /\ scidA < stored + 1
    BY <1>0, <1>1, <2>1 DEF ArchiveFrom
  <2>3. 1 .. (stored + 1) - 1 \subseteq Have'
    <3>1. 1 .. (stored + 1) - 1 \subseteq 1 .. Base'
      BY <1>0
    <3>. QED BY <3>1 DEF Have
  <2>. QED BY <1>0, <2>2, <2>3, EventsSent
<1>2. CASE Behind(stored + 1) # {}
  <2>1. \A g \in archA : ~(g.last < stored + 1 /\ g.last > Base')
    <3>1. \A g \in archA : g.last \in Nat
      BY <1>0, FileNumbers
    <3>. QED BY <1>0, <3>1
  <2>. QED BY <1>0, <1>2, <2>1, FilesSent
<1>. QED BY <1>1, <1>2

(* When no file is left S has all files that it needs.                     *)
LEMMA FilesGiven ==
  ASSUME Types, Server, Node, ~Full(Top + 1),
         \A g \in archA : g.last > ccid => Whole(arch, g)
  PROVE  /\ 1 .. scidA \subseteq (1 .. ccid) \cup Got \cup New
         /\ FilesSafe
<1>0. /\ ccid \in Nat /\ scid \in Nat /\ Top \in Nat /\ Top >= ccid /\ scidA \in Nat
      /\ archA \subseteq Files /\ arch \subseteq Copies
  BY Numbers
<1>1. ASSUME NEW j \in Nat, j > ccid, j > scid, j <= scidA PROVE j \in New
  <2>1. Top + 1 \in Nat /\ Top + 1 <= j
    BY <1>0, <1>1 DEF Top
  <2>2. InFile(archA, j)
    BY <1>1, <2>1, Covers
  <2>3. PICK g \in archA : g.first <= j /\ j <= g.last
    BY <2>2 DEF InFile
  <2>4. g.first \in Nat /\ g.last \in Nat
    BY <1>0, FileNumbers
  <2>5. g.last > ccid
    BY <1>0, <1>1, <2>3, <2>4
  <2>6. Whole(arch, g)
    BY <2>5
  <2> DEFINE h == [first |-> g.first, last |-> g.last, ids |-> g.first .. g.last]
  <2>7. h \in arch /\ h.last = g.last /\ h.ids = g.first .. g.last
    BY <2>6 DEF Whole
  <2> HIDE DEF h
  <2>8. j \in h.ids
    BY <2>3, <2>4, <2>7
  <2>9. j \in Ids
    BY <1>0, <2>7, <2>8 DEF Copies
  <2>. QED BY <1>1, <2>5, <2>7, <2>8, <2>9 DEF New, LoadOf
<1>2. 1 .. scidA \subseteq (1 .. ccid) \cup Got \cup New
  <2> SUFFICES ASSUME NEW j \in 1 .. scidA, j > ccid PROVE j \in Got \/ j \in New
    BY <1>0
  <2>1. CASE j <= scid
    <3>1. j \in ccid + 1 .. scid
      BY <1>0, <2>1
    <3>. QED BY <3>1 DEF Node, Filled
  <2>2. CASE j > scid
    BY <1>0, <1>1, <2>2
  <2>. QED BY <1>0, <2>1, <2>2
<1>3. ASSUME NEW i \in New, NEW j \in ccid + 1 .. i PROVE j <= scid \/ j \in New
  <2>1. PICK g \in arch : i \in g.ids /\ i > scid /\ i \in Nat
    BY Bounds DEF New, LoadOf
  <2>2. g.first \in Nat /\ g.last \in Nat
    BY <1>0, Bounds DEF Copies
  <2>3. i <= g.last
    <3>1. i \in g.first .. g.last
      BY <2>1 DEF Node, Copied
    <3>. QED BY <2>2, <3>1
  <2>4. Named(archA, g)
    <3>1. Named(archA, g) \/ g.last <= scid
      BY DEF Node, Copied
    <3>. QED BY <1>0, <2>1, <2>2, <2>3, <3>1
  <2>5. g.last <= scidA
    BY <2>4 DEF Named, Server, Chained
  <2>6. j \in Nat /\ j > ccid /\ j <= scidA
    BY <1>0, <2>1, <2>2, <2>3, <2>5
  <2>. QED BY <1>0, <1>1, <2>6
<1>. QED BY <1>2, <1>3 DEF FilesSafe

(* S has answered, and A goes on.                                          *)
LEMMA FollowingSent ==
  ASSUME Types, Server, Node, Rests, toS = <<>>, NEW r \in Packages, r.tp # "edone",
         NEW next \in Nat, After(r, next), NEW q, q = Following(r, next), toS' = <<q>>
  PROVE  /\ \/ q.tp = "edone" /\ Ends'
            \/ q.tp # "edone" /\ Before(q)' /\ Safe(q)'
         /\ r.tp \in Dones => q.tp \in {"apart", "epart", "edone"}
<1>0. /\ ccid \in Nat /\ scid \in Nat /\ Top \in Nat /\ Top >= ccid /\ scidA \in Nat
      /\ stored \in Nat /\ ccidA \in Nat /\ store.ccid \in Nat
      /\ archA \subseteq Files /\ memA \subseteq Ids
  BY Numbers
<1>00. stored <= scidA /\ scidA <= ccidA
  BY DEF Server, Ordered
<1>1. /\ toS' # <<>> /\ toS'[1] = q
      /\ q.tp # "fdone" => /\ ~FP' /\ Base' = ccid /\ Base' \in Nat /\ ccid <= Base'
                           /\ (Usable' <=> ~Full(Top + 1))
      /\ (1 .. Base') \cup Got \subseteq Have' /\ (FP' <=> q.tp = "fdone")
      /\ (AP' <=> q.tp = "adone")
  BY OneSent
<1>2. ~FP /\ ~AP /\ Base = ccid /\ Have = (1 .. ccid) \cup Got /\ (Usable <=> ~Full(Top + 1))
  BY DEF FP, AP, Base, Have, Usable
<1>3. /\ store' = store /\ stored' = stored /\ archA' = archA /\ arch' = arch /\ ccid' = ccid
      /\ scidA' = scidA /\ (Lost' <=> Lost) /\ Got' = Got /\ New' = New /\ Top' = Top
  BY DEF Rests, Lost, Got, New, Top
<1>4. r \in Requests
  BY PackageFacts
<1>5. CASE r.tp = "fpart"
  <2>0. r.k \in 1 .. 3
    BY <1>5, PackageFacts
  <2>1. Lost /\ store.ccid = stored /\ (r.k = 3 => store.data = 1 .. stored)
    BY <1>5 DEF After
  <2>2. CASE r.k < 3
    <3>1. q = [r EXCEPT !.k = r.k + 1]
      BY <1>5, <2>2 DEF Following
    <3>2. PICK y \in 0 .. 3 : y = r.k + 1
      BY <2>0, <2>2
    <3>3. q.tp = "fpart"
      BY <1>4, <1>5, <3>1, <3>2, NextPart
    <3>4. Before(q)' /\ Safe(q)'
      BY <1>1, <1>3, <2>1, <3>3 DEF Before, Safe
    <3>. QED BY <1>5, <3>3, <3>4 DEF Dones
  <2>3. CASE ~(r.k < 3)
    <3>1. q = Request("fdone", 0, 0, 0)
      BY <1>5, <2>3 DEF Following
    <3>2. q.tp = "fdone"
      BY <3>1, RequestFields
    <3>3. r.k = 3
      BY <2>0, <2>3
    <3>4. ccid < stored
      BY <1>0, <2>1 DEF Lost, FullAt
    <3>5. ~FullAt(archA', memA', stored', stored + 1)
      BY <1>0, <1>3 DEF FullAt
    <3>6. ccidA' = ccidA /\ stored <= ccidA
      BY <1>0, <1>00 DEF Rests
    <3>7. StoreSafe'
      BY <1>3, <2>1, <3>3, <3>4, <3>5, <3>6 DEF StoreSafe
    <3>8. Before(q)' /\ Safe(q)'
      BY <1>3, <2>1, <3>2, <3>7 DEF Before, Safe
    <3>. QED BY <1>5, <3>2, <3>8 DEF Dones
  <2>. QED BY <2>2, <2>3
<1>6. CASE r.tp = "fdone"
  <2>1. q = ArchiveFrom(stored + 1, EventsFrom(stored + 1))
    BY <1>6 DEF Following
  <2>2. stored <= ccid
    BY <1>6 DEF After
  <2>3. ~Full(Top + 1)
    <3>1. ~(Top + 1 <= stored)
      BY <1>0, <2>2
    <3>. QED BY <3>1 DEF FullAt
  <2>4. q.tp \in {"apart", "edone", "epart"}
    <3>1. EventsFrom(stored + 1).tp \in {"edone", "epart"} /\ stored + 1 \in Nat
      BY <1>0, EventsFacts
    <3>2. Behind(stored + 1) # {} => q.tp = "apart"
      BY <2>1, RequestFields DEF ArchiveFrom
    <3>3. Behind(stored + 1) = {} => q = EventsFrom(stored + 1)
      BY <2>1 DEF ArchiveFrom
    <3>. QED BY <3>1, <3>2, <3>3
  <2>5. q.tp # "fdone"
    BY <2>4
  <2>6. stored <= Base'
    BY <1>1, <2>2, <2>5
  <2>7. \/ q.tp = "edone" /\ Ends'
        \/ q.tp \in {"apart", "epart"} /\ Before(q)' /\ Safe(q)'
    BY <1>1, <2>1, <2>3, <2>5, <2>6, StoreFollowed
  <2>. QED BY <2>7
<1>7. CASE r.tp = "apart"
  <2>0. r.first \in Ids /\ r.last \in Ids /\ r.k \in 1 .. 2
    BY <1>7, PackageFacts
  <2>1. /\ Named(archA, r) /\ ~Full(Top + 1) /\ FilesBelow(r.first)
        /\ (r.k = 2 => Whole(arch, r))
    BY <1>2, <1>7 DEF After
  <2>2. CASE r.k < 2
    <3>1. q = [r EXCEPT !.k = 2]
      BY <1>7, <2>2 DEF Following
    <3>2. q.tp = "apart" /\ q.first = r.first /\ q.last = r.last
      <4>1. 2 \in 0 .. 3
        OBVIOUS
      <4>2. /\ [r EXCEPT !.k = 2].tp = "apart" /\ [r EXCEPT !.k = 2].first = r.first
            /\ [r EXCEPT !.k = 2].last = r.last
        BY <1>4, <1>7, <4>1, NextPart, Zenon
      <4>. QED BY <3>1, <4>2
    <3>3. Named(archA, q) /\ FilesBelow(q.first)' /\ Usable'
      BY <1>1, <1>2, <1>3, <2>1, <3>2 DEF Named, FilesBelow
    <3>4. Before(q)' /\ Safe(q)'
      BY <1>1, <1>3, <3>2, <3>3 DEF Before, Safe
    <3>. QED BY <1>7, <3>2, <3>4 DEF Dones
  <2>3. CASE ~(r.k < 2)
    <3> DEFINE none == Request("adone", 0, 0, 0)
    <3>1. q = ArchiveFrom(r.last + 1, none) /\ r.k = 2
      BY <1>7, <2>0, <2>3 DEF Following
    <3>2. PICK l \in Nat : l = r.last
      BY <2>0, Bounds
    <3>3. \A g \in archA : g.last < l + 1 /\ g.last > ccid => Whole(arch, g)
      <4> SUFFICES ASSUME NEW g \in archA, g.last < l + 1, g.last > ccid PROVE Whole(arch, g)
        OBVIOUS
      <4>1. PICK h \in archA : h.first = r.first /\ h.last = r.last
        BY <2>1 DEF Named
      <4>2. /\ g.first \in Nat /\ g.last \in Nat /\ g.first <= g.last
            /\ h.first \in Nat /\ h.last \in Nat
        BY <1>0, FileNumbers DEF Server, Chained
      <4>3. CASE g = h
        BY <2>1, <3>1, <4>1, <4>3 DEF Whole
      <4>4. CASE g.last < h.first
        <5>1. g.first < r.first
          BY <4>1, <4>2, <4>4
        <5>. QED BY <1>2, <2>1, <5>1 DEF FilesBelow
      <4>5. CASE h.last < g.first
        BY <3>2, <4>1, <4>2, <4>5
      <4>. QED BY <4>3, <4>4, <4>5 DEF Server, Apart
    <3>4. CASE Behind(l + 1) # {}
      <4>1. q.tp = "apart"
        BY <3>1, <3>2, <3>4, RequestFields DEF ArchiveFrom
      <4>2. q.tp # "fdone"
        BY <4>1
      <4> HIDE DEF none
      <4>3. q.tp = "apart" /\ Before(q)' /\ Safe(q)'
        BY <1>1, <2>1, <3>1, <3>2, <3>3, <3>4, <4>2, FilesSent
      <4>. QED BY <1>7, <4>3 DEF Dones
    <3>5. CASE Behind(l + 1) = {}
      <4>1. q.tp = "adone"
        BY <3>1, <3>2, <3>5, RequestFields DEF ArchiveFrom
      <4>2. \A g \in archA : g.last < l + 1
        <5>1. \A g \in archA : g.last \in Nat /\ ~(g.last >= l + 1)
          BY <1>0, <3>5, FileNumbers DEF Behind
        <5>. QED BY <5>1
      <4>3. \A g \in archA : g.last > ccid => Whole(arch, g)
        BY <3>3, <4>2
      <4>4. 1 .. scidA \subseteq (1 .. ccid) \cup Got \cup New /\ FilesSafe
        BY <2>1, <4>3, FilesGiven
      <4>5. Have' = (1 .. ccid) \cup Got \cup New
        BY <1>1, <1>3, <4>1 DEF Have
      <4>6. FilesSafe'
        BY <1>3, <4>4 DEF FilesSafe, Rests
      <4>7. Before(q)' /\ Safe(q)'
        BY <1>1, <1>3, <4>1, <4>4, <4>5, <4>6 DEF Before, Safe
      <4>. QED BY <1>7, <4>1, <4>7 DEF Dones
    <3>. QED BY <3>4, <3>5
  <2>. QED BY <2>2, <2>3
<1>8. CASE r.tp = "adone"
  <2>1. q = EventsFrom(scidA + 1) /\ scidA + 1 \in Nat /\ scidA < scidA + 1
    BY <1>0, <1>8 DEF Following
  <2>2. 1 .. scidA \subseteq (1 .. ccid) \cup Got
    BY <1>2, <1>8 DEF After
  <2>3. q.tp \in {"edone", "epart"}
    BY <1>0, <2>1, EventsFacts
  <2>4. q.tp # "fdone"
    BY <2>3
  <2>5. ~Full(Top + 1)
    <3> SUFFICES ASSUME Full(Top + 1) PROVE FALSE
      OBVIOUS
    <3>1. scid <= ccid /\ ccid + 1 \notin Got
      BY DEF Node, Stuck
    <3>2. Top = ccid /\ ccid + 1 <= stored
      BY <1>0, <3>1 DEF Top, FullAt
    <3>3. ccid + 1 \in 1 .. scidA /\ ccid + 1 \notin 1 .. ccid
      BY <1>0, <1>00, <3>2
    <3>. QED BY <2>2, <3>1, <3>3
  <2>6. 1 .. (scidA + 1) - 1 \subseteq Have'
    <3>1. (scidA + 1) - 1 = scidA
      BY <1>0
    <3>. QED BY <1>1, <2>2, <2>4, <3>1
  <2>7. \/ q.tp = "edone" /\ Ends'
        \/ q.tp = "epart" /\ Before(q)' /\ Safe(q)'
    BY <1>1, <2>1, <2>4, <2>5, <2>6, EventsSent
  <2>. QED BY <2>7
<1>9. CASE r.tp = "epart"
  <2>0. r.first \in Nat
    BY <1>9, PackageFacts, Bounds, Zenon
  <2>1. scidA < r.first /\ r.first < next /\ ~Full(Top + 1) /\ 1 .. next - 1 \subseteq Have
    BY <1>2, <1>9 DEF After
  <2>2. q = EventsFrom(next) /\ scidA < next
    BY <1>0, <1>9, <2>0, <2>1 DEF Following
  <2>3. q.tp \in {"edone", "epart"}
    BY <1>0, <2>2, EventsFacts
  <2>4. q.tp # "fdone"
    BY <2>3
  <2>5. 1 .. next - 1 \subseteq Have'
    BY <1>1, <1>2, <2>1, <2>4
  <2>6. \/ q.tp = "edone" /\ Ends'
        \/ q.tp = "epart" /\ Before(q)' /\ Safe(q)'
    BY <1>1, <2>1, <2>2, <2>4, <2>5, EventsSent
  <2>. QED BY <1>9, <2>6 DEF Dones
<1>. QED BY <1>4, <1>5, <1>6, <1>7, <1>8, <1>9 DEF Requests

(* The end of a phase is not confirmed, and A goes on.                     *)
LEMMA FollowingQueued ==
  ASSUME Types, Server, Node, Rests, NEW r \in Packages, r.tp \in Dones, toS = <<r>>,
         Before(r), Safe(r), NEW q, q = Following(r, 0),
         toS' # <<>>, toS'[1] = r, toS'[2] = q, Len(toS') > 1
  PROVE  \/ q.tp = "edone" /\ Ends'
         \/ q.tp \in {"apart", "epart"} /\ Before(q)' /\ Safe(q)'
<1>0. /\ ccid \in Nat /\ scid \in Nat /\ Top \in Nat /\ Top >= ccid /\ scidA \in Nat
      /\ stored \in Nat /\ ccidA \in Nat /\ store.ccid \in Nat
      /\ archA \subseteq Files /\ memA \subseteq Ids
  BY Numbers
<1>1. /\ toS' # <<>> /\ toS'[1] = r /\ toS'[2] = q /\ Len(toS') > 1 /\ toS[1] = r
      /\ toS # <<>>
  OBVIOUS
<1>2. (FP' <=> FP) /\ (AP' <=> AP) /\ (FP <=> r.tp = "fdone") /\ (AP <=> r.tp = "adone")
  BY <1>1 DEF FP, AP
<1>3. Base' = Base /\ Have' = Have /\ (Usable' <=> Usable)
  BY <1>2, SameHave
<1>4. Safe(toS[1])'
  <2>1. Safe(r)'
    BY <1>2, SameSafe
  <2>. QED BY <1>1, <2>1
<1>5. CASE r.tp = "fdone"
  <2>1. q = ArchiveFrom(stored + 1, EventsFrom(stored + 1))
    BY <1>5 DEF Following
  <2>2. store.ccid = stored /\ ccid < store.ccid
    BY <1>2, <1>5 DEF Before, Safe, StoreSafe
  <2>3. Base = store.ccid /\ Usable
    BY <1>2, <1>5 DEF Base, Usable
  <2>4. Base' \in Nat /\ ccid <= Base' /\ stored <= Base'
    BY <1>0, <1>3, <2>2, <2>3
  <2>5. Usable' /\ (FP' => store.ccid = stored)
    BY <1>3, <2>2, <2>3
  <2>6. toS'[1].tp \in Dones /\ Safe(toS[1])' /\ Len(toS') > 1 /\ toS'[2] = q
    BY <1>1, <1>4
  <2>. QED BY <1>1, <2>1, <2>4, <2>5, <2>6, StoreFollowed, Zenon
<1>6. CASE r.tp = "adone"
  <2>1. q = EventsFrom(scidA + 1) /\ scidA + 1 \in Nat /\ scidA < scidA + 1
    <3>1. q = EventsFrom(scidA + 1)
      BY <1>6 DEF Following
    <3>2. scidA + 1 \in Nat /\ scidA < scidA + 1
      BY <1>0
    <3>. QED BY <3>1, <3>2
  <2>2. 1 .. scidA \subseteq Have /\ ~Full(Top + 1)
    BY <1>6 DEF Before, Safe, FilesSafe
  <2>3. Base = ccid /\ Usable /\ ~FP
    BY <1>2, <1>6, <2>2 DEF Base, Usable
  <2>4. Base' \in Nat /\ ccid <= Base'
    BY <1>0, <1>3, <2>3
  <2>5. 1 .. (scidA + 1) - 1 \subseteq Have'
    <3>1. (scidA + 1) - 1 = scidA
      BY <1>0
    <3>. QED BY <1>3, <2>2, <3>1
  <2>6. \/ q.tp = "edone" /\ Ends'
        \/ q.tp = "epart" /\ Before(q)' /\ Safe(q)'
    BY <1>1, <1>2, <1>3, <1>4, <2>1, <2>3, <2>4, <2>5, EventsSent
  <2>. QED BY <2>6
<1>. QED BY <1>5, <1>6 DEF Dones

LEMMA ServeKeeps ==
  ASSUME Types, Types', Server, Node, Ends \/ Session, Serve
  PROVE  Ends' \/ Session'
<1>1. PICK first \in syncers : flag' = TRUE /\ Ask(Opening(first))
  BY Zenon DEF Serve, Opening
<1>2. /\ away = "SYNCING" /\ ~flag
      /\ UNCHANGED <<made, away, ccidA, scidA, stored, archA, memA, queueA, syncers, ccid,
                     scid, data, queue, store, arch, toA, cast>>
  BY DEF Serve, server, memory, disk
<1>3. Rests
  BY <1>2 DEF Rests
<1>4. first \in Nat /\ first > 0
  BY Bounds DEF Types, NetTypes, Ids
<1>5. PICK q \in Packages : q = Opening(first)
  <2>1. first \in Ids \cup {MaxId + 1}
    BY DEF Types, NetTypes
  <2>. QED BY <2>1, OpeningType
<1>6. open' = {q} /\ toS' = Append(toS, q)
  BY <1>1, <1>5 DEF Ask
<1>7. CASE Ends
  BY <1>3, <1>6, <1>7, EndsAppend
<1>8. CASE Session
  <2>1. toS = <<>> /\ toA = <<>> /\ Waits(first)
    BY <1>2, <1>8 DEF Session, Idle
  <2>2. toS' = <<q>> /\ toA' = <<>>
    BY <1>2, <1>6, <2>1
  <2>3. \/ q.tp = "edone" /\ Ends'
        \/ q.tp \in {"fpart", "apart", "epart"} /\ Before(q)' /\ Safe(q)'
    BY <1>3, <1>4, <1>5, <2>1, <2>2, OpeningSent
  <2>4. ASSUME q.tp \in {"fpart", "apart", "epart"}, Before(q)', Safe(q)' PROVE Session'
    <3>1. Sent(q)'
      BY <2>2 DEF Sent
    <3>2. Serving(q)'
      BY <1>2, <1>6, <2>4, <3>1 DEF Serving
    <3>3. \A j \in 1 .. Len(toS') : j = 1 /\ toS'[j] = q
      BY <2>2
    <3>4. \A j \in 1 .. Len(toS') : Safe(toS[j])'
      BY <2>4, <3>3
    <3>. QED BY <1>1, <1>6, <3>2, <3>4 DEF Session
  <2>. QED BY <2>3, <2>4
<1>. QED BY <1>7, <1>8

LEMMA Lengths ==
  ASSUME NEW T, NEW s \in Seq(T)
  PROVE  /\ Len(s) \in Nat /\ (s = <<>> <=> Len(s) = 0) /\ (s # <<>> => Len(s) >= 1)
         /\ s # <<>> => /\ s[1] \in T /\ Head(s) = s[1] /\ Tail(s) \in Seq(T)
                        /\ Len(Tail(s)) = Len(s) - 1
         /\ Len(s) = 2 => Tail(s)[1] = s[2] /\ s[2] \in T
OBVIOUS

LEMMA Small ==
  ASSUME NEW x \in Nat, x >= 1, x <= 2 PROVE x = 1 \/ x = 2
OBVIOUS

LEMMA SmallSum ==
  ASSUME NEW x \in Nat, NEW y \in Nat, x >= 1, y >= 1, x + y <= 2 PROVE x = 1 /\ y = 1
OBVIOUS

LEMMA SameSent ==
  ASSUME Rests, toS' = toS, \A j \in 1 .. Len(toS) : Safe(toS[j])
  PROVE  \A j \in 1 .. Len(toS') : Safe(toS[j])'
<1> SUFFICES ASSUME NEW j \in 1 .. Len(toS) PROVE Safe(toS[j])'
  OBVIOUS
<1>1. PICK p : p = toS[j]
  OBVIOUS
<1>2. (FP' <=> FP) /\ (AP' <=> AP)
  BY DEF FP, AP
<1>3. Safe(p)'
  BY <1>1, <1>2, SameSafe
<1>4. p = toS'[j]
  BY <1>1
<1>. QED BY <1>3, <1>4

LEMMA SameBefore ==
  ASSUME Rests, toS' = toS, NEW r
  PROVE  (Before(r) => Before(r)') /\ \A n : After(r, n) => After(r, n)'
<1>1. (FP' <=> FP) /\ (AP' <=> AP)
  BY DEF FP, AP
<1>2. Base' = Base /\ Have' = Have /\ (Lost' <=> Lost) /\ (Usable' <=> Usable)
  BY <1>1, SameHave
<1>3. FilesBelow(r.first)' <=> FilesBelow(r.first)
  BY <1>2 DEF FilesBelow, Rests
<1>4. Before(r) => Before(r)'
  BY <1>1, <1>2, <1>3 DEF Before, Rests
<1>5. ASSUME NEW n, After(r, n) PROVE After(r, n)'
  BY <1>2, <1>3, <1>5 DEF After, Rests
<1>. QED BY <1>4, <1>5

LEMMA EndsAnswered ==
  ASSUME Types, Ends, Rests, NEW r \in Packages, NEW ok \in BOOLEAN,
         NEW next \in 0 .. MaxId + 1, Answered(r, ok, next)
  PROVE  Ends'
<1>1. CASE UNCHANGED toS
  BY <1>1, EndsAppend
<1>2. CASE r.tp # "edone" /\ Ask(Following(r, next))
  <2>1. Following(r, next) \in Packages
    BY <1>2, FollowingType
  <2>2. toS' = Append(toS, Following(r, next))
    BY <1>2 DEF Ask
  <2>. QED BY <2>1, <2>2, EndsAppend
<1>. QED BY <1>1, <1>2, Zenon DEF Answered

(* A goes on after the answer to its last request.                         *)
LEMMA AskedNext ==
  ASSUME Types, Types', Server, Node, Rests, toS = <<>>, away' = away,
         NEW r \in Packages, r.tp # "edone", away = "SYNCING", syncers # {},
         NEW next \in 0 .. MaxId + 1, After(r, next),
         Ask(Following(r, next)), UNCHANGED <<syncers, flag>>, flag,
         \/ toA' = <<>>
         \/ Len(toA') = 1 /\ toA'[1].req.tp \in Dones /\ r.tp \in Dones
  PROVE  Ends' \/ Session'
<1>1. PICK q \in Packages : q = Following(r, next)
  BY FollowingType
<1>2. open' = {q} /\ toS' = <<q>>
  BY <1>1 DEF Ask
<1>3. /\ \/ q.tp = "edone" /\ Ends'
         \/ q.tp # "edone" /\ Before(q)' /\ Safe(q)'
      /\ r.tp \in Dones => q.tp \in {"apart", "epart", "edone"}
  <2>1. next \in Nat
    BY Bounds
  <2>. QED BY <1>1, <1>2, <2>1, FollowingSent
<1>4. ASSUME q.tp # "edone", Before(q)', Safe(q)' PROVE Session'
  <2>0. toA' \in Seq(Responses)
    BY DEF Types, NetTypes
  <2>1. Sent(q)'
    <3>1. toS' # <<>> /\ Len(toS') = 1 /\ toS'[1] = q
      BY <1>2
    <3>2. CASE toA' = <<>>
      <4>1. Len(toA') = 0
        BY <3>2
      <4>. QED BY <3>1, <4>1 DEF Sent
    <3>3. CASE Len(toA') = 1 /\ toA'[1].req.tp \in Dones /\ r.tp \in Dones
      BY <1>3, <1>4, <3>1, <3>3 DEF Sent
    <3>. QED BY <3>2, <3>3
  <2>2. Serving(q)'
    BY <1>2, <1>4, <2>1 DEF Serving
  <2>3. \A j \in 1 .. Len(toS') : toS'[j] = q
    BY <1>2
  <2>4. \A j \in 1 .. Len(toS') : Safe(toS[j])'
    BY <1>4, <2>3
  <2>. QED BY <1>2, <2>2, <2>4 DEF Session
<1>. QED BY <1>3, <1>4

LEMMA ResponseKeeps ==
  ASSUME Types, Types', Server, Node, Ends \/ Session, OnResponse
  PROVE  Ends' \/ Session'
<1> DEFINE m == Head(toA)
<1>0. toA \in Seq(Responses) /\ toA # <<>> /\ toS \in Seq(Packages) /\ open \subseteq Packages
  BY DEF Types, NetTypes, OnResponse
<1>1. m \in Responses /\ m = toA[1]
  BY <1>0
<1>2. m.req \in Packages /\ m.ok \in BOOLEAN /\ m.next \in 0 .. MaxId + 1
  BY <1>1 DEF Responses
<1>3. /\ toA' = Tail(toA)
      /\ \/ open = {m.req} /\ Answered(m.req, m.ok, m.next)
         \/ open # {m.req} /\ UNCHANGED <<session, toS>>
      /\ UNCHANGED <<made, away, queueA, ccidA, scidA, stored, archA, memA, ccid, scid, data,
                     queue, store, arch, cast>>
  BY DEF OnResponse, server, memory, disk
<1> HIDE DEF m
<1>4. Rests
  BY <1>3 DEF Rests
<1>5. CASE Ends
  <2>1. CASE Answered(m.req, m.ok, m.next)
    BY <1>2, <1>4, <1>5, <2>1, EndsAnswered
  <2>2. CASE UNCHANGED <<session, toS>>
    BY <1>4, <1>5, <2>2, EndsAppend
  <2>. QED BY <1>3, <2>1, <2>2
<1>6. CASE Session
  <2>1. flag
    BY <1>0, <1>6 DEF Session, Idle
  <2>2. CASE open # {m.req} /\ UNCHANGED <<session, toS>>
    <3>1. UNCHANGED <<syncers, flag, open, toS>>
      BY <2>2 DEF session
    <3>2. \A j \in 1 .. Len(toS') : Safe(toS[j])'
      BY <1>4, <1>6, <3>1, SameSent DEF Session
    <3>3. CASE Stale
      <4>1. Stale'
        BY <3>1, <3>3 DEF Stale
      <4>. QED BY <2>1, <3>1, <3>2, <4>1 DEF Session
    <3>4. ASSUME NEW r \in open, Serving(r), open # {m.req} PROVE Session'
      <4>1. /\ away = "SYNCING" /\ syncers # {} /\ open = {r} /\ r.tp # "edone"
            /\ \/ Sent(r) /\ Before(r)
               \/ Back(r) /\ After(r, toA[Len(toA)].next)
        BY <3>4 DEF Serving
      <4>2. m.req # r
        BY <3>4, <4>1
      <4>3. CASE Sent(r) /\ Before(r)
        <5>1. Before(r)'
          BY <1>4, <3>1, <4>3, SameBefore
        <5>2. Len(toA') = Len(toA) - 1 /\ Len(toA) >= 1
          BY <1>0, <1>3
        <5>3. Len(toA) = 1 /\ Len(toS) = 1 /\ toS[1] = r
          <6>1. Len(toA) + Len(toS) <= 2 /\ toS # <<>> /\ toS[Len(toS)] = r
            BY <1>0, <4>3, Lengths DEF Sent
          <6>2. Len(toA) \in Nat /\ Len(toS) \in Nat /\ Len(toA) >= 1 /\ Len(toS) >= 1
            BY <1>0, <6>1, Lengths
          <6>3. Len(toA) = 1 /\ Len(toS) = 1
            BY <6>1, <6>2, SmallSum, Zenon
          <6>. QED BY <6>1, <6>3
        <5>4. Len(toA') = 0
          BY <5>2, <5>3
        <5>5. Sent(r)'
          BY <3>1, <4>3, <5>3, <5>4 DEF Sent
        <5>6. Serving(r)'
          BY <1>3, <3>1, <4>1, <5>1, <5>5 DEF Serving
        <5>. QED BY <2>1, <3>1, <3>2, <3>4, <5>6 DEF Session
      <4>4. CASE Back(r) /\ After(r, toA[Len(toA)].next)
        <5>1. Len(toA) = 2
          <6>1. Len(toA) <= 2 /\ toA[Len(toA)].req = r
            BY <4>4 DEF Back
          <6>2. Len(toA) \in Nat /\ Len(toA) >= 1 /\ Len(toA) # 1
            BY <1>0, <1>1, <4>2, <6>1, Lengths
          <6>. QED BY <6>1, <6>2, Small, Zenon
        <5>2. Len(toA') = 1 /\ toA'[1] = toA[2] /\ toA' # <<>>
          <6>1. Len(Tail(toA)) = 1 /\ Tail(toA)[1] = toA[2] /\ Tail(toA) \in Seq(Responses)
            BY <1>0, <5>1, Lengths
          <6>2. Tail(toA) # <<>>
            <7>1. Tail(toA) = <<>> => Len(Tail(toA)) = 0
              BY <6>1, Lengths, Zenon
            <7>. QED BY <6>1, <7>1
          <6>. QED BY <1>3, <6>1, <6>2
        <5>3. Back(r)'
          BY <3>1, <4>4, <5>1, <5>2 DEF Back
        <5>4. After(r, toA[Len(toA)].next)'
          <6>1. PICK n : n = toA[2].next
            OBVIOUS
          <6>2. After(r, n)'
            BY <1>4, <3>1, <4>4, <5>1, <6>1, SameBefore
          <6>3. n = toA'[Len(toA')].next
            BY <5>2, <6>1
          <6>. QED BY <6>2, <6>3
        <5>5. Serving(r)'
          BY <1>3, <3>1, <4>1, <5>3, <5>4 DEF Serving
        <5>. QED BY <2>1, <3>1, <3>2, <3>4, <5>5 DEF Session
      <4>. QED BY <4>1, <4>3, <4>4
    <3>. QED BY <1>6, <2>1, <2>2, <3>3, <3>4 DEF Session
  <2>3. CASE open = {m.req} /\ Answered(m.req, m.ok, m.next)
    <3>1. PICK r \in open : Serving(r)
      <4>1. ~Stale
        BY <2>3 DEF Stale
      <4>. QED BY <1>6, <2>1, <4>1 DEF Session
    <3>2. r = m.req
      BY <2>3, <3>1
    <3>3. /\ away = "SYNCING" /\ syncers # {} /\ r.tp # "edone"
          /\ \/ Sent(r) /\ Before(r)
             \/ Back(r) /\ After(r, toA[Len(toA)].next)
      BY <3>1 DEF Serving
    <3>4. Back(r) /\ Len(toA) = 1 /\ After(r, m.next)
      <4>1. ~Sent(r)
        <5> SUFFICES ASSUME Sent(r) PROVE FALSE
          OBVIOUS
        <5>1. Len(toA) = 1
          <6>1. Len(toA) + Len(toS) <= 2 /\ toS # <<>>
            BY <1>0, Lengths DEF Sent
          <6>2. Len(toA) \in Nat /\ Len(toS) \in Nat /\ Len(toA) >= 1 /\ Len(toS) >= 1
            BY <1>0, <6>1, Lengths
          <6>3. Len(toA) = 1 /\ Len(toS) = 1
            BY <6>1, <6>2, SmallSum, Zenon
          <6>. QED BY <6>1, <6>3
        <5>2. r.tp \in Dones /\ r.tp \in {"apart", "epart"}
          BY <1>1, <3>2, <5>1 DEF Sent
        <5>. QED BY <5>2 DEF Dones
      <4>2. Back(r) /\ After(r, toA[Len(toA)].next)
        BY <3>3, <4>1
      <4>3. Len(toA) # 2
        <5> SUFFICES ASSUME Len(toA) = 2 PROVE FALSE
          OBVIOUS
        <5>1. r.tp \in Dones /\ r.tp \in {"apart", "epart"}
          BY <1>1, <3>2, <4>2 DEF Back
        <5>. QED BY <5>1 DEF Dones
      <4>4. Len(toA) = 1
        <5>1. Len(toA) <= 2
          BY <4>2 DEF Back
        <5>2. Len(toA) \in Nat /\ Len(toA) >= 1
          BY <1>0, Lengths
        <5>. QED BY <4>3, <5>1, <5>2, Small, Zenon
      <4>. QED BY <1>1, <4>2, <4>4
    <3>5. toS = <<>> /\ toA' = <<>>
      BY <1>0, <1>3, <3>4 DEF Back
    <3>6. CASE IsPart(r) /\ syncers' = {} /\ open' = {} /\ UNCHANGED <<flag, toS>>
      <4>1. Stale'
        BY <3>5, <3>6 DEF Stale
      <4>2. \A j \in 1 .. Len(toS') : Safe(toS[j])'
        BY <1>4, <1>6, <3>6, SameSent DEF Session
      <4>. QED BY <2>1, <3>6, <4>1, <4>2 DEF Session
    <3>7. CASE Ask(Following(r, m.next)) /\ UNCHANGED <<syncers, flag>>
      <4>1. r \in Packages
        BY <1>2, <3>2
      <4>2. away' = away
        BY <1>3
      <4>. QED BY <1>2, <1>4, <2>1, <3>3, <3>4, <3>5, <3>7, <4>1, <4>2, AskedNext
    <3>. QED BY <2>3, <3>2, <3>3, <3>6, <3>7, Zenon DEF Answered
  <2>. QED BY <1>3, <2>2, <2>3
<1>. QED BY <1>5, <1>6

(* A goes on although the end of a phase is still on its way to S.         *)
LEMMA AskedEarly ==
  ASSUME Types, Types', Server, Node, Rests, away' = away, toA' = <<>>,
         NEW r \in Packages, r.tp \in Dones, toS = <<r>>, Before(r), Safe(r),
         away = "SYNCING", syncers # {}, Ask(Following(r, 0)), UNCHANGED <<syncers, flag>>, flag
  PROVE  Ends' \/ Session'
<1>1. PICK q \in Packages : q = Following(r, 0)
  <2>1. 0 \in 0 .. MaxId + 1 /\ r.tp # "edone"
    BY Bounds DEF Dones
  <2>. QED BY <2>1, FollowingType
<1>2. /\ open' = {q} /\ toS' # <<>> /\ toS'[1] = r /\ toS'[2] = q /\ Len(toS') = 2
      /\ Len(toS') > 1
  <2>1. open' = {q} /\ toS' = Append(toS, q)
    BY <1>1 DEF Ask
  <2>2. toS \in Seq(Packages)
    BY DEF Types, NetTypes
  <2>3. Len(toS) = 1 /\ toS[1] = r
    OBVIOUS
  <2>. QED BY <2>1, <2>2, <2>3
<1>3. \/ q.tp = "edone" /\ Ends'
      \/ q.tp \in {"apart", "epart"} /\ Before(q)' /\ Safe(q)'
  BY <1>1, <1>2, FollowingQueued
<1>4. ASSUME q.tp \in {"apart", "epart"}, Before(q)', Safe(q)' PROVE Session'
  <2>1. /\ toS' # <<>> /\ Len(toS') = 2 /\ toS'[1] = r /\ toS'[2] = q /\ Len(toA') = 0
        /\ toS # <<>> /\ toS[1] = r
    BY <1>2
  <2>2. Sent(q)'
    BY <1>4, <2>1 DEF Sent
  <2>3. Serving(q)'
    BY <1>2, <1>4, <2>2 DEF Serving
  <2>4. Safe(r)'
    <3>1. (FP' <=> FP) /\ (AP' <=> AP)
      BY <2>1 DEF FP, AP
    <3>. QED BY <3>1, SameSafe
  <2>5. \A j \in 1 .. Len(toS') : toS'[j] = r \/ toS'[j] = q
    BY <2>1
  <2>6. \A j \in 1 .. Len(toS') : Safe(toS[j])'
    BY <1>4, <2>4, <2>5
  <2>. QED BY <1>2, <2>3, <2>6 DEF Session
<1>. QED BY <1>3, <1>4

LEMMA FailureKeeps ==
  ASSUME Types, Types', Server, Node, Ends \/ Session, RequestFails
  PROVE  Ends' \/ Session'
<1>0. toA \in Seq(Responses) /\ toS \in Seq(Packages) /\ open \subseteq Packages
  BY DEF Types, NetTypes
<1>1. PICK r \in open : Answered(r, FALSE, 0)
  BY DEF RequestFails
<1>2. UNCHANGED <<made, away, queueA, ccidA, scidA, stored, archA, memA, ccid, scid, data,
                  queue, store, arch, cast, toA>>
  BY DEF RequestFails, server, memory, disk
<1>3. Rests
  BY <1>2 DEF Rests
<1>4. r \in Packages /\ 0 \in 0 .. MaxId + 1 /\ FALSE \in BOOLEAN
  BY <1>0, Bounds
<1>5. CASE Ends
  BY <1>1, <1>3, <1>4, <1>5, EndsAnswered
<1>6. CASE Session
  <2>1. flag /\ Serving(r)
    BY <1>1, <1>6 DEF Session, Idle, Stale, Serving
  <2>2. /\ away = "SYNCING" /\ syncers # {} /\ open = {r} /\ r.tp # "edone"
        /\ \/ Sent(r) /\ Before(r)
           \/ Back(r) /\ After(r, toA[Len(toA)].next)
    BY <2>1 DEF Serving
  <2>3. CASE IsPart(r)
    <3>1. syncers' = {} /\ open' = {} /\ UNCHANGED <<flag, toS>>
      BY <1>1, <2>2, <2>3, Zenon DEF Answered
    <3>2. \A j \in 1 .. Len(toS') : Safe(toS[j])'
      BY <1>3, <1>6, <3>1, SameSent DEF Session
    <3>3. Stale'
      <4>1. CASE Sent(r)
        <5>1. toS[Len(toS)] = r /\ (Len(toS) = 2 => toS[1].tp \in Dones)
              /\ Len(toS) + Len(toA) <= 2
          BY <4>1 DEF Sent
        <5>2. Len(toS) <= 2
          <6>1. Len(toS) \in Nat /\ Len(toA) \in Nat
            BY <1>0, Lengths
          <6>2. \A x, y \in Nat : x + y <= 2 => x <= 2
            OBVIOUS
          <6>. QED BY <5>1, <6>1, <6>2, Zenon
        <5>. QED BY <2>3, <3>1, <5>1, <5>2 DEF Stale, IsPart
      <4>2. CASE Back(r)
        BY <3>1, <4>2 DEF Back, Stale
      <4>. QED BY <2>2, <4>1, <4>2
    <3>. QED BY <2>1, <3>1, <3>2, <3>3 DEF Session
  <2>4. CASE ~IsPart(r)
    <3>1. r.tp \in Dones /\ r.tp \notin {"apart", "epart"}
      <4>1. r \in Requests
        BY <1>4, PackageFacts
      <4>. QED BY <2>2, <2>4, <4>1 DEF IsPart, Requests, Dones
    <3>2. Ask(Following(r, 0)) /\ UNCHANGED <<syncers, flag>>
      BY <1>1, <2>2, <2>4, Zenon DEF Answered
    <3>3. CASE Sent(r) /\ Before(r)
      <4>1. toS # <<>> /\ toS[Len(toS)] = r /\ Len(toS) + Len(toA) <= 2
            /\ Len(toS) # 2 /\ Len(toA) # 1
        BY <3>1, <3>3 DEF Sent
      <4>2. Len(toS) \in Nat /\ Len(toA) \in Nat /\ Len(toS) >= 1
        BY <1>0, <4>1, Lengths
      <4>3. \A x, y \in Nat : x >= 1 /\ x + y <= 2 /\ x # 2 /\ y # 1 => x = 1 /\ y = 0
        OBVIOUS
      <4>4. Len(toS) = 1 /\ Len(toA) = 0
        BY <4>1, <4>2, <4>3, Zenon
      <4>5. toS = <<r>>
        BY <1>0, <4>1, <4>4
      <4>6. toA' = <<>>
        BY <1>0, <1>2, <4>4, Lengths
      <4>7. Safe(r)
        <5>1. 1 \in 1 .. Len(toS) /\ toS[1] = r
          BY <4>5
        <5>. QED BY <1>6, <5>1 DEF Session
      <4>8. away' = away
        BY <1>2
      <4>. QED BY <1>3, <1>4, <2>1, <2>2, <3>1, <3>2, <3>3, <4>5, <4>6, <4>7, <4>8, AskedEarly
    <3>4. CASE Back(r) /\ After(r, toA[Len(toA)].next)
      <4>1. toS = <<>> /\ toA # <<>> /\ toA[Len(toA)].req = r /\ Len(toA) <= 2 /\ Len(toA) # 2
        BY <3>1, <3>4 DEF Back
      <4>2. Len(toA) \in Nat /\ Len(toA) >= 1
        BY <1>0, <4>1, Lengths
      <4>3. Len(toA) = 1
        BY <4>1, <4>2, Small, Zenon
      <4>4. Len(toA') = 1 /\ toA'[1].req.tp \in Dones
        BY <1>2, <3>1, <4>1, <4>3
      <4>5. After(r, 0)
        BY <3>1, <3>4 DEF After, Dones
      <4>6. away' = away
        BY <1>2
      <4>. QED BY <1>3, <1>4, <2>1, <2>2, <3>1, <3>2, <4>1, <4>4, <4>5, <4>6, AskedNext
    <3>. QED BY <2>2, <3>3, <3>4
  <2>. QED BY <2>3, <2>4
<1>. QED BY <1>5, <1>6

LEMMA LinkKeeps ==
  ASSUME LinkDown PROVE Session' /\ status' = status /\ Rests
<1>1. /\ ask' = {} /\ toS' = <<>> /\ toA' = <<>> /\ syncers' = {} /\ flag' = FALSE /\ open' = {}
      /\ UNCHANGED <<made, queueA, ccidA, scidA, stored, archA, memA, ccid, scid, data,
                     queue, store, arch, cast, status>>
  BY DEF LinkDown, Disconnect, server, memory, disk
<1>2. Idle'
  BY <1>1 DEF Idle
<1>3. 1 .. Len(toS') = {}
  BY <1>1
<1>. QED BY <1>1, <1>2, <1>3 DEF Session, Rests
-----------------------------------------------------------------------------
(* S handles a package.                                                    *)

(* What S has once it has handled the first package on its way to it.      *)
Own == 1 .. ccid \cup Got
Handled ==
  /\ Node' /\ scid <= scid' /\ Have \subseteq Own' /\ (Usable => ~Full(Top + 1)')
  /\ status' = status
AllKept == UNCHANGED <<made, queueA, ccidA, scidA, stored, archA, memA, cast>>

LEMMA OwnOnly ==
  ASSUME toS # <<>>, toS[1].tp \notin Dones
  PROVE  ~FP /\ ~AP /\ Base = ccid /\ Have = Own /\ (Usable <=> ~Full(Top + 1))
<1>1. ~FP /\ ~AP
  BY DEF FP, AP, Dones
<1>. QED BY <1>1 DEF Base, Have, Own, Usable

LEMMA FullPartHandled ==
  ASSUME Types, Types', Server, Node, AllKept, toS # <<>>, toS[1].tp \notin Dones,
         status' = status, UNCHANGED <<ccid, scid, data, queue, arch>>
  PROVE  Handled
<1>1. ccid \in Nat /\ scid \in Nat
  BY Numbers
<1>2. Top' = Top /\ Got' = Got /\ Own' = Own
  BY DEF Top, Got, Own
<1>3. \A n \in Nat : n > scid => (Full(n)' <=> Full(n))
  BY DEF AllKept
<1>4. \A g \in archA : g \in archA' \/ g.last <= scid
  BY DEF AllKept
<1>5. Node'
  BY <1>3, <1>4, NodeSame DEF AllKept
<1>6. Have = Own /\ (Usable <=> ~Full(Top + 1))
  BY OwnOnly
<1>7. Full(Top + 1)' <=> Full(Top + 1)
  BY <1>2 DEF AllKept
<1>. QED BY <1>1, <1>2, <1>5, <1>6, <1>7 DEF Handled

LEMMA FullDoneHandled ==
  ASSUME Types, Types', Server, Node, AllKept, toS # <<>>, toS[1].tp = "fdone",
         StoreSafe, status' = status, UNCHANGED <<queue, arch>>,
         ccid' = store.ccid, scid' = store.ccid, data' = store.data
  PROVE  Handled /\ Base = ccid'
<1>1. /\ ccid \in Nat /\ scid \in Nat /\ store.ccid \in Nat /\ ccidA \in Nat /\ made \in Nat
      /\ queue \subseteq Queued /\ arch \subseteq Copies
  BY Numbers
<1>2. /\ store.data = 1 .. store.ccid /\ scid <= ccid /\ ccid < store.ccid
      /\ store.ccid <= ccidA /\ ~Full(store.ccid + 1) /\ ccidA <= made
  BY DEF StoreSafe, Lost, Server, Ordered
<1>3. PICK n \in Nat : n = store.ccid
  BY <1>1
<1>4. ccid < n /\ n <= made /\ scid < n
  BY <1>1, <1>2, <1>3
<1>5. Got' = Got /\ ccid' = n /\ scid' = n /\ data' = 1 .. n
  BY <1>2, <1>3 DEF Got
<1>6. 1 .. ccid \subseteq 1 .. n /\ n + 1 .. n = {}
  BY <1>1, <1>4
<1>7. Top' = n
  BY <1>5 DEF Top
<1>8. ~Full(Top + 1)'
  BY <1>2, <1>3, <1>7 DEF AllKept
<1>9. Within'
  BY <1>4, <1>5 DEF Node, Within, AllKept
<1>10. Filled'
  <2>1. ASSUME NEW c \in queue', c.gap PROVE ccid' + 1 .. c.id \subseteq Got'
    <3>1. ccid + 1 .. c.id \subseteq Got /\ c.id \in Ids
      BY <1>1, <2>1 DEF Node, Filled, Queued
    <3>2. c.id \in Nat
      BY <3>1, Bounds
    <3>3. n + 1 .. c.id \subseteq ccid + 1 .. c.id
      BY <1>1, <1>4, <3>2
    <3>. QED BY <1>5, <3>1, <3>3
  <2>2. queueA' \subseteq Seen'
    BY <1>5, <1>6 DEF Node, Filled, Seen, AllKept
  <2>3. ccid' + 1 .. scid' \subseteq Got'
    BY <1>5, <1>6
  <2>. QED BY <2>1, <2>2, <2>3 DEF Filled
<1>11. Stuck'
  BY <1>8 DEF Stuck
<1>12. Copied'
  <2>1. \A g \in arch : g.last \in Nat
    BY <1>1, Bounds DEF Copies
  <2>2. \A x \in Nat : x <= scid => x <= n
    BY <1>1, <1>4
  <2>3. \A g \in arch : g.last <= scid => g.last <= n
    BY <2>1, <2>2, Zenon
  <2>. QED BY <1>5, <2>3 DEF Node, Copied, AllKept
<1>13. FP /\ ~AP
  BY DEF FP, AP
<1>14. Base = ccid' /\ Have \subseteq Own'
  BY <1>3, <1>5, <1>13 DEF Base, Have, Own
<1>. QED BY <1>1, <1>4, <1>5, <1>8, <1>9, <1>10, <1>11, <1>12, <1>14 DEF Handled, Node

LEMMA ArchivePartHandled ==
  ASSUME Types, Types', Server, Node, AllKept, toS # <<>>, NEW r \in Packages, toS[1] = r,
         r.tp = "apart", Safe(r), status' = status, OnArchivePart(r)
  PROVE  /\ Handled /\ (r.k = 2 => Whole(arch, r)')
         /\ \A g \in archA : g.first < r.first /\ Whole(arch, g) => Whole(arch', g)
<1>1. /\ ccid \in Nat /\ scid \in Nat /\ archA \subseteq Files
  BY Numbers
<1>2. PICK ids \in SUBSET Ids :
        /\ ids \subseteq r.first .. r.last /\ (r.k = 2 => ids = r.first .. r.last)
        /\ arch' = {f \in arch : <<f.first, f.last>> # <<r.first, r.last>>}
             \cup {[first |-> r.first, last |-> r.last, ids |-> ids]}
  BY ArchivePartFacts
<1>3. UNCHANGED <<ccid, scid, data, queue>>
  BY DEF OnArchivePart
<1>4. Top' = Top /\ Got' = Got /\ Own' = Own /\ Seen' = Seen
  BY <1>3 DEF Top, Got, Own, Seen, AllKept
<1>5. Full(Top + 1)' <=> Full(Top + 1)
  BY <1>4 DEF AllKept
<1>6. Have = Own /\ (Usable <=> ~Full(Top + 1))
  BY OwnOnly DEF Dones
<1>7. Within' /\ Filled'
  BY <1>3, <1>4 DEF Node, Within, Filled, AllKept
<1>8. Stuck'
  BY <1>3, <1>4, <1>5 DEF Node, Stuck, AllKept
<1>9. Copied'
  <2>1. \A g \in arch' : g \in arch \/ g = [first |-> r.first, last |-> r.last, ids |-> ids]
    BY <1>2
  <2>2. \A g \in arch : /\ g.ids \subseteq g.first .. g.last
                        /\ Named(archA, g) \/ g.last <= scid
    BY DEF Node, Copied
  <2>3. Named(archA, r) \/ r.last <= scid
    BY DEF Safe
  <2>4. LET g == [first |-> r.first, last |-> r.last, ids |-> ids] IN
        /\ g.ids \subseteq g.first .. g.last
        /\ Named(archA, g) \/ g.last <= scid
    BY <1>2, <2>3 DEF Named
  <2>. QED BY <1>3, <2>1, <2>2, <2>4 DEF Copied, AllKept
<1>10. r.k = 2 => Whole(arch, r)'
  BY <1>2 DEF Whole
<1>11. ASSUME NEW g \in archA, g.first < r.first, Whole(arch, g) PROVE Whole(arch', g)
  <2>1. g.first \in Nat /\ r.first \in Nat
    BY <1>1, FileNumbers, PackageFacts, Bounds
  <2>2. g.first # r.first
    BY <1>11, <2>1
  <2> DEFINE w == [first |-> g.first, last |-> g.last, ids |-> g.first .. g.last]
  <2>3. w \in arch /\ w.first # r.first
    BY <1>11, <2>2 DEF Whole
  <2>4. w \in arch'
    <3> HIDE DEF w
    <3>. QED BY <1>2, <2>3
  <2>. QED BY <2>4 DEF Whole
<1>. QED BY <1>1, <1>3, <1>4, <1>5, <1>6, <1>7, <1>8, <1>9, <1>10, <1>11 DEF Handled, Node

LEMMA LoadableIsNew ==
  ASSUME arch \subseteq Copies PROVE Loadable(ccid, scid) = New
BY DEF Loadable, New, LoadOf, Copies

(* What S loads from its archive the cluster has made.                     *)
LEMMA NewIsMade ==
  ASSUME Types, Server, Node, NEW i \in New PROVE i <= made
<1>1. /\ scid \in Nat /\ scidA \in Nat /\ ccidA \in Nat /\ made \in Nat
      /\ archA \subseteq Files /\ arch \subseteq Copies
  BY Numbers
<1>2. PICK g \in arch : i \in g.ids /\ i \in Nat
  BY Bounds DEF New, LoadOf
<1>3. g.ids \subseteq g.first .. g.last /\ (Named(archA, g) \/ g.last <= scid)
  BY DEF Node, Copied
<1>4. g.first \in Nat /\ g.last \in Nat
  BY <1>1, Bounds DEF Copies
<1>5. i <= g.last
  BY <1>2, <1>3, <1>4
<1>6. scid <= made /\ scidA <= ccidA /\ ccidA <= made
  BY DEF Node, Within, Server, Ordered
<1>7. g.last <= scidA \/ g.last <= scid
  <2>1. ASSUME Named(archA, g) PROVE g.last <= scidA
    <3>1. PICK f \in archA : f.last = g.last
      BY <2>1 DEF Named
    <3>. QED BY <3>1 DEF Server, Chained
  <2>. QED BY <1>3, <2>1
<1>. QED BY <1>1, <1>2, <1>4, <1>5, <1>6, <1>7

LEMMA ArchiveDoneHandled ==
  ASSUME Types, Types', Server, Node, AllKept, toS # <<>>, toS[1].tp = "adone",
         FilesSafe, status' = status, OnArchiveDone(toS[1])
  PROVE  Handled /\ Base = ccid' /\ UNCHANGED arch
<1>1. /\ ccid \in Nat /\ scid \in Nat /\ made \in Nat /\ queue \subseteq Queued
      /\ arch \subseteq Copies /\ Top \in Nat /\ Top >= ccid /\ Top >= scid
  BY Numbers
<1>2. New \in SUBSET Ids /\ scid \in 0 .. MaxId
  BY DEF New, LoadOf, Types, NodeTypes
<1>3. /\ scid' = Max(New \cup {scid})
      /\ queue' = Add(queue, {[id |-> i, gap |-> TRUE] : i \in New})
      /\ UNCHANGED <<store, arch, ccid, data>>
  BY <1>1, LoadableIsNew DEF OnArchiveDone, disk
<1>4. /\ scid' \in New \cup {scid} /\ scid <= scid' /\ (\A i \in New : i <= scid')
      /\ scid' \in Nat
  <2>1. /\ Max(New \cup {scid}) \in 0 .. MaxId /\ Max(New \cup {scid}) \in New \cup {scid}
        /\ scid <= Max(New \cup {scid}) /\ \A i \in New : i <= Max(New \cup {scid})
    BY <1>2, LastOf
  <2>2. scid' \in Nat
    BY NextNumbers
  <2>. QED BY <1>3, <2>1, <2>2
<1>5. /\ Got' = Got \cup {i \in New : i > ccid}
      /\ \A c \in queue' : c \in queue \/ (c.id \in New /\ c.id > ccid /\ c.gap = TRUE)
  <2>1. TRUE \in BOOLEAN
    OBVIOUS
  <2>2. /\ {c.id : c \in queue'} = {c.id : c \in queue} \cup {i \in New : i > ccid}
        /\ \A c \in queue' : c \in queue \/ (c.id \in New /\ c.id > ccid /\ c.gap = TRUE)
    BY <1>1, <1>2, <1>3, <2>1, AddIds
  <2>. QED BY <2>2 DEF Got
<1>6. ~Full(Top + 1)' /\ ~Full(Top + 1)
  <2>1. ~Full(Top + 1)
    BY DEF FilesSafe
  <2>2. Top' \in Nat /\ Top <= Top'
    BY <1>1, <1>3, <1>4 DEF Top
  <2>3. PICK t \in Nat : t = Top'
    BY <2>2
  <2>4. Top + 1 <= t + 1 /\ Top + 1 \in Nat /\ t + 1 \in Nat
    <3>1. Top \in Nat /\ Top <= t
      BY <1>1, <2>2, <2>3, Zenon
    <3>2. \A x, y \in Nat : x <= y => x + 1 <= y + 1 /\ x + 1 \in Nat /\ y + 1 \in Nat
      OBVIOUS
    <3>. QED BY <3>1, <3>2, Zenon
  <2>5. ~Full(t + 1)
    BY <2>1, <2>4, FullLower, Zenon
  <2>. QED BY <2>1, <2>3, <2>5 DEF AllKept
<1>7. \A i \in New : i <= made /\ i \in Nat /\ i > 0
  <2>1. \A i \in New : i <= made
    BY NewIsMade
  <2>. QED BY <1>2, <2>1 DEF Ids
<1>8. Within'
  <2>1. scid' <= made
    BY <1>4, <1>7 DEF Node, Within
  <2>2. Got' \subseteq 1 .. made
    <3>1. \A i \in New : i \in 1 .. made
      BY <1>1, <1>7
    <3>. QED BY <1>5, <3>1 DEF Node, Within
  <2>. QED BY <1>3, <2>1, <2>2 DEF Node, Within, AllKept
<1>9. \A i \in New : ccid + 1 .. i \subseteq Got'
  <2> SUFFICES ASSUME NEW i \in New, NEW j \in ccid + 1 .. i PROVE j \in Got'
    OBVIOUS
  <2>1. j <= scid \/ j \in New
    BY DEF FilesSafe
  <2>2. j \in Nat /\ j > ccid
    BY <1>1, <1>7
  <2>3. CASE j <= scid
    <3>1. j \in ccid + 1 .. scid
      BY <1>1, <2>2, <2>3
    <3>. QED BY <1>5, <3>1 DEF Node, Filled
  <2>4. CASE j \in New
    BY <1>5, <2>2, <2>4
  <2>. QED BY <2>1, <2>3, <2>4
<1>10. Filled'
  <2>1. \A c \in queue' : c.gap => ccid + 1 .. c.id \subseteq Got'
    <3>1. \A c \in queue : c.gap => ccid + 1 .. c.id \subseteq Got
      BY DEF Node, Filled
    <3>. QED BY <1>5, <1>9, <3>1
  <2>2. ccid + 1 .. scid' \subseteq Got'
    <3>1. ccid + 1 .. scid \subseteq Got'
      BY <1>5 DEF Node, Filled
    <3>. QED BY <1>4, <1>9, <3>1
  <2>3. queueA' \subseteq Seen'
    BY <1>3, <1>5 DEF Node, Filled, Seen, AllKept
  <2>. QED BY <1>3, <2>1, <2>2, <2>3 DEF Filled
<1>11. Stuck'
  BY <1>6 DEF Stuck
<1>12. Copied'
  <2>1. \A g \in arch : g.last \in Nat
    BY <1>1, Bounds DEF Copies
  <2>2. \A x \in Nat : x <= scid => x <= scid'
    BY <1>1, <1>4
  <2>3. \A g \in arch : g.last <= scid => g.last <= scid'
    BY <2>1, <2>2, Zenon
  <2>. QED BY <1>3, <2>3 DEF Node, Copied, AllKept
<1>13. ~FP /\ AP
  BY DEF FP, AP
<1>14. Base = ccid' /\ Have \subseteq Own'
  <2>1. \A i \in New : i \in 1 .. ccid \/ i > ccid
    BY <1>1, <1>7
  <2>. QED BY <1>3, <1>5, <1>13, <2>1 DEF Base, Have, Own
<1>. QED BY <1>3, <1>4, <1>6, <1>8, <1>10, <1>11, <1>12, <1>14 DEF Handled, Node

LEMMA EventPartHandled ==
  ASSUME Types, Types', Server, Node, AllKept, toS # <<>>, NEW r \in Packages, toS[1] = r,
         r.tp = "epart", Safe(r), status' = status, OnEventPart(r)
  PROVE  Handled /\ r.first \in Own' /\ Got \subseteq Got' /\ UNCHANGED ccid
<1>1. /\ ccid \in Nat /\ scid \in Nat /\ made \in Nat /\ queue \subseteq Queued
  BY Numbers
<1>2. r.first \in Ids /\ r.first \in Nat /\ r.first > 0 /\ {r.first} \in SUBSET Ids
  BY PackageFacts DEF Ids
<1>3. /\ queue' = Add(queue, {[id |-> r.first, gap |-> TRUE]})
      /\ UNCHANGED <<store, arch, ccid, scid, data>>
  BY DEF OnEventPart, disk
<1>4. PICK n \in Nat : n = r.first /\ n > 0
  BY <1>2
<1>5. /\ Got' = Got \cup {j \in {n} : j > ccid}
      /\ \A c \in queue' : c \in queue \/ (c.id = n /\ c.id > ccid /\ c.gap = TRUE)
  <2>1. {[id |-> n, gap |-> TRUE]} = {[id |-> j, gap |-> TRUE] : j \in {n}}
    OBVIOUS
  <2>2. TRUE \in BOOLEAN /\ {n} \in SUBSET Ids
    BY <1>2, <1>4
  <2>3. queue' = Add(queue, {[id |-> j, gap |-> TRUE] : j \in {n}})
    BY <1>3, <1>4, <2>1
  <2>4. /\ {c.id : c \in queue'} = {c.id : c \in queue} \cup {j \in {n} : j > ccid}
        /\ \A c \in queue' : c \in queue \/ (c.id \in {n} /\ c.id > ccid /\ c.gap = TRUE)
    BY <1>1, <2>2, <2>3, AddIds
  <2>. QED BY <2>4 DEF Got
<1>6. Have = Own /\ ~Full(Top + 1) /\ (Usable <=> ~Full(Top + 1))
  BY OwnOnly DEF Dones, Safe
<1>7. 1 .. n - 1 \subseteq Own /\ n <= made
  BY <1>4, <1>6 DEF Safe
<1>8. Top' = Top
  BY <1>3 DEF Top
<1>9. ~Full(Top + 1)'
  BY <1>6, <1>8 DEF AllKept
<1>10. n \in Own'
  <2>1. CASE n > ccid
    BY <1>5, <2>1 DEF Own
  <2>2. CASE n <= ccid
    BY <1>1, <1>3, <1>4, <2>2 DEF Own
  <2>. QED BY <1>1, <2>1, <2>2
<1>11. Own \subseteq Own'
  BY <1>3, <1>5 DEF Own
<1>12. Within'
  <2>1. Got' \subseteq 1 .. made
    <3>1. n \in 1 .. made
      BY <1>1, <1>4, <1>7
    <3>. QED BY <1>5, <3>1 DEF Node, Within
  <2>. QED BY <1>3, <2>1 DEF Node, Within, AllKept
<1>13. n > ccid => ccid + 1 .. n \subseteq Got'
  <2> SUFFICES ASSUME n > ccid, NEW j \in ccid + 1 .. n PROVE j \in Got'
    OBVIOUS
  <2>1. CASE j = n
    BY <1>5, <2>1
  <2>2. CASE j # n
    <3>1. j \in 1 .. n - 1 /\ j \notin 1 .. ccid
      BY <1>1, <2>2
    <3>2. j \in Got
      BY <1>7, <3>1 DEF Own
    <3>. QED BY <1>5, <3>2
  <2>. QED BY <2>1, <2>2
<1>14. Filled'
  <2>1. \A c \in queue' : c.gap => ccid + 1 .. c.id \subseteq Got'
    <3>1. \A c \in queue : c.gap => ccid + 1 .. c.id \subseteq Got
      BY DEF Node, Filled
    <3>2. \A c \in queue : c.gap => ccid + 1 .. c.id \subseteq Got'
      BY <1>5, <3>1
    <3>. QED BY <1>5, <1>13, <3>2
  <2>2. ccid + 1 .. scid \subseteq Got'
    BY <1>5 DEF Node, Filled
  <2>3. queueA' \subseteq Seen'
    BY <1>3, <1>5 DEF Node, Filled, Seen, AllKept
  <2>. QED BY <1>3, <2>1, <2>2, <2>3 DEF Filled
<1>15. Stuck'
  BY <1>9 DEF Stuck
<1>16. Copied'
  BY <1>3 DEF Node, Copied, AllKept
<1>17. Handled
  <2>1. scid <= scid'
    BY <1>1, <1>3
  <2>2. Node'
    BY <1>12, <1>14, <1>15, <1>16 DEF Node
  <2>. QED BY <1>6, <1>9, <1>11, <2>1, <2>2, Zenon DEF Handled
<1>. QED BY <1>3, <1>4, <1>5, <1>10, <1>17

(* The step of S by the kind of the package.                               *)
LEMMA PartStep ==
  ASSUME Types, OnSyncPart, status = "SYNC", NEW r \in Packages, r = toS[1]
  PROVE  /\ AllKept /\ toS # <<>> /\ toS' = Tail(toS)
         /\ UNCHANGED <<away, syncers, flag, open, ask>>
         /\ toA' = Append(toA, [req |-> r, ok |-> TRUE,
                                next |-> IF r.tp = "epart" THEN NextMissing(r.first) ELSE 0])
         /\ r.tp = "fpart" => OnFullPart(r)
         /\ r.tp = "fdone" => OnFullDone(r)
         /\ r.tp = "apart" => OnArchivePart(r)
         /\ r.tp = "adone" => OnArchiveDone(r)
         /\ r.tp = "epart" => OnEventPart(r)
         /\ r.tp = "edone" => OnEventDone(r)
<1>1. toS # <<>> /\ toS' = Tail(toS) /\ toS \in Seq(Packages)
  BY DEF OnSyncPart, Types, NetTypes
<1>2. Head(toS) = r
  BY <1>1, Lengths
<1>3. AllKept /\ UNCHANGED <<away, syncers, flag, open, ask>>
  BY DEF OnSyncPart, AllKept, server, session
<1>4. /\ CASE r.tp = "fpart" -> OnFullPart(r)
           [] r.tp = "fdone" -> OnFullDone(r)
           [] r.tp = "apart" -> OnArchivePart(r)
           [] r.tp = "adone" -> OnArchiveDone(r)
           [] r.tp = "epart" -> OnEventPart(r)
           [] r.tp = "edone" -> OnEventDone(r)
      /\ toA' = Append(toA, [req |-> r, ok |-> TRUE,
                             next |-> IF r.tp = "epart" THEN NextMissing(r.first) ELSE 0])
  BY <1>2 DEF OnSyncPart
<1>. QED BY <1>1, <1>3, <1>4

LEMMA FirstSafe ==
  ASSUME Types, toS # <<>>, Ends \/ Session
  PROVE  (toS[1].tp = "edone" /\ Ends) \/ Safe(toS[1])
<1>1. 1 \in 1 .. Len(toS)
  <2>1. toS \in Seq(Packages)
    BY DEF Types, NetTypes
  <2>2. Len(toS) \in Nat /\ Len(toS) >= 1
    BY <2>1, Lengths
  <2>. QED BY <2>2
<1>. QED BY <1>1 DEF Ends, Session

LEMMA PartHandled ==
  ASSUME Types, Types', Server, Node, OnSyncPart, status = "SYNC",
         NEW r \in Packages, r = toS[1], Safe(r), r.tp # "edone"
  PROVE  /\ Handled
         /\ r.tp \in Dones => Base = ccid' /\ UNCHANGED arch
         /\ r.tp = "fdone" => ccid' = store.ccid
<1>1. /\ AllKept /\ toS # <<>>
      /\ r.tp = "fpart" => OnFullPart(r)
      /\ r.tp = "fdone" => OnFullDone(r)
      /\ r.tp = "apart" => OnArchivePart(r)
      /\ r.tp = "adone" => OnArchiveDone(r)
      /\ r.tp = "epart" => OnEventPart(r)
  BY PartStep
<1>2. CASE r.tp = "fpart"
  <2>1. status' = status /\ UNCHANGED <<ccid, scid, data, queue, arch>>
    BY <1>1, <1>2 DEF OnFullPart
  <2>2. toS[1].tp \notin Dones
    BY <1>2 DEF Dones
  <2>3. Handled
    BY <1>1, <2>1, <2>2, FullPartHandled
  <2>. QED BY <1>2, <2>2, <2>3
<1>3. CASE r.tp = "fdone"
  <2>1. /\ status' = status /\ UNCHANGED <<queue, arch>>
        /\ ccid' = store.ccid /\ scid' = store.ccid /\ data' = store.data
    BY <1>1, <1>3 DEF OnFullDone, disk
  <2>2. StoreSafe /\ toS[1].tp = "fdone"
    BY <1>3 DEF Safe
  <2>3. Handled /\ Base = ccid'
    BY <1>1, <2>1, <2>2, FullDoneHandled
  <2>. QED BY <2>1, <2>3
<1>4. CASE r.tp = "apart"
  <2>1. status' = status /\ OnArchivePart(r) /\ toS[1] = r
    BY <1>1, <1>4 DEF OnArchivePart
  <2>2. Handled
    BY <1>1, <1>4, <2>1, ArchivePartHandled
  <2>. QED BY <1>4, <2>2 DEF Dones
<1>5. CASE r.tp = "adone"
  <2>1. status' = status /\ OnArchiveDone(toS[1]) /\ toS[1].tp = "adone"
    BY <1>1, <1>5 DEF OnArchiveDone
  <2>2. FilesSafe
    BY <1>5 DEF Safe
  <2>3. Handled /\ Base = ccid' /\ UNCHANGED arch
    BY <1>1, <2>1, <2>2, ArchiveDoneHandled
  <2>. QED BY <1>5, <2>3
<1>6. CASE r.tp = "epart"
  <2>1. status' = status /\ OnEventPart(r) /\ toS[1] = r
    BY <1>1, <1>6 DEF OnEventPart
  <2>2. Handled
    BY <1>1, <1>6, <2>1, EventPartHandled
  <2>. QED BY <1>6, <2>2 DEF Dones
<1>7. r \in Requests
  BY PackageFacts
<1>. QED BY <1>2, <1>3, <1>4, <1>5, <1>6, <1>7 DEF Requests

(* The package behind the one that S handled.                              *)
LEMMA NextSafe ==
  ASSUME Types, Types', AllKept, Handled, NEW q \in Packages, IsPart(q), Safe(q),
         toS' # <<>>, toS'[1] = q
  PROVE  Safe(q)'
<1>1. Have' = Own' /\ (Usable' <=> ~Full(Top + 1)') /\ q.tp \notin Dones
  <2>1. q.tp \notin Dones
    BY DEF IsPart, Dones
  <2>2. /\ ~FP' /\ ~AP'
    BY <2>1 DEF FP, AP, Dones
  <2>. QED BY <2>1, <2>2 DEF Base, Have, Own, Usable
<1>2. scid \in Nat /\ scid' \in Nat /\ scid <= scid'
  BY Numbers, NextNumbers DEF Handled
<1>3. q.tp = "apart" => Named(archA', q) \/ q.last <= scid'
  <2>1. q.tp = "apart" => q.last \in Nat
    BY PackageFacts, Bounds
  <2>2. \A x \in Nat : x <= scid => x <= scid'
    BY <1>2
  <2>. QED BY <2>1, <2>2 DEF Safe, AllKept
<1>4. q.tp = "epart" => 1 .. q.first - 1 \subseteq Have' /\ q.first <= made' /\ Usable'
  BY <1>1 DEF Safe, AllKept, Handled
<1>. QED BY <1>1, <1>3, <1>4 DEF Safe, Dones

(* The first request is answered: A may go on from there.                  *)
LEMMA AnswerSent ==
  ASSUME Types, Types', Server, Node, OnSyncPart, status = "SYNC", Handled,
         NEW r \in Packages, r = toS[1], Safe(r), r.tp # "edone", Before(r), toS' = <<>>,
         r.tp = "fdone" => ccid' = store.ccid,
         NEW next, next = (IF r.tp = "epart" THEN NextMissing(r.first) ELSE 0)
  PROVE  After(r, next)'
<1>1. /\ AllKept /\ toS # <<>>
      /\ r.tp = "fpart" => OnFullPart(r)
      /\ r.tp = "apart" => OnArchivePart(r)
      /\ r.tp = "epart" => OnEventPart(r)
  BY PartStep
<1>2. Have' = Own' /\ Base' = ccid' /\ (Usable' <=> ~Full(Top + 1)')
  <2>1. ~FP' /\ ~AP'
    BY DEF FP, AP
  <2>. QED BY <2>1 DEF Base, Have, Own, Usable
<1>3. Have \subseteq Have' /\ (Usable => Usable')
  BY <1>2 DEF Handled
<1>4. CASE r.tp = "fpart"
  <2>1. Lost /\ (r.k > 1 => store.ccid = stored) /\ r.k \in 1 .. 3
    BY <1>4, PackageFacts DEF Before
  <2>2. UNCHANGED <<ccid, scid>> /\
        store' = CASE r.k = 1 -> [store EXCEPT !.ccid = stored]
                   [] r.k = 2 -> [store EXCEPT !.data = {}, !.whole = FALSE]
                   [] r.k = 3 -> [store EXCEPT !.data = 1 .. stored, !.whole = TRUE]
    BY <1>1, <1>4 DEF OnFullPart
  <2>3. store \in Stores
    BY Numbers
  <2>4. Lost'
    BY <1>1, <2>1, <2>2 DEF Lost, AllKept
  <2>5. store'.ccid = stored /\ (r.k = 3 => store'.data = 1 .. stored)
    <3>1. CASE r.k = 1
      <4>1. store' = [store EXCEPT !.ccid = stored]
        BY <2>2, <3>1
      <4>. QED BY <2>3, <3>1, <4>1 DEF Stores
    <3>2. CASE r.k = 2
      <4>1. store' = [store EXCEPT !.data = {}, !.whole = FALSE] /\ store.ccid = stored
        BY <2>1, <2>2, <3>2
      <4>2. store'.ccid = store.ccid
        BY <2>3, <4>1 DEF Stores
      <4>. QED BY <3>2, <4>1, <4>2
    <3>3. CASE r.k = 3
      <4>1. /\ store' = [store EXCEPT !.data = 1 .. stored, !.whole = TRUE]
            /\ store.ccid = stored
        BY <2>1, <2>2, <3>3
      <4>2. store'.ccid = store.ccid /\ store'.data = 1 .. stored
        BY <2>3, <4>1 DEF Stores
      <4>. QED BY <3>3, <4>1, <4>2
    <3>. QED BY <2>1, <3>1, <3>2, <3>3
  <2>. QED BY <1>1, <1>4, <2>4, <2>5 DEF After, AllKept
<1>5. CASE r.tp = "fdone"
  <2>1. FP
    BY <1>1, <1>5 DEF FP
  <2>2. ccid' = stored /\ stored \in Nat
    BY <1>5, <2>1, Numbers DEF Before
  <2>. QED BY <1>1, <1>5, <2>2 DEF After, AllKept
<1>6. CASE r.tp = "apart"
  <2>1. Named(archA, r) /\ Usable /\ FilesBelow(r.first)
    BY <1>6 DEF Before
  <2>2. status' = status /\ OnArchivePart(r) /\ UNCHANGED ccid
    BY <1>1, <1>6 DEF OnArchivePart
  <2>3. /\ (r.k = 2 => Whole(arch, r)')
        /\ \A g \in archA : g.first < r.first /\ Whole(arch, g) => Whole(arch', g)
    BY <1>1, <1>6, <2>2, ArchivePartHandled
  <2>4. Base = ccid
    BY <1>1, <1>6, OwnOnly DEF Dones
  <2>5. FilesBelow(r.first)'
    BY <1>1, <1>2, <2>1, <2>2, <2>3, <2>4 DEF FilesBelow, AllKept
  <2>6. Named(archA, r)' /\ Usable'
    BY <1>1, <1>3, <2>1 DEF AllKept
  <2>. QED BY <1>6, <2>3, <2>5, <2>6 DEF After
<1>7. CASE r.tp = "adone"
  <2>1. 1 .. scidA \subseteq Have
    BY <1>7 DEF Before
  <2>. QED BY <1>1, <1>3, <1>7, <2>1 DEF After, AllKept
<1>8. CASE r.tp = "epart"
  <2>0. r.first \in Ids /\ r.first \in Nat /\ ccid \in Nat /\ queue \subseteq Queued
    BY <1>8, PackageFacts, Numbers, Bounds
  <2>1. scidA < r.first /\ 1 .. r.first - 1 \subseteq Have /\ Usable
    BY <1>8 DEF Before, Safe
  <2>2. status' = status /\ OnEventPart(r) /\ toS[1] = r
    BY <1>1, <1>8 DEF OnEventPart
  <2>3. r.first \in Own' /\ Got \subseteq Got' /\ UNCHANGED ccid
    BY <1>1, <1>8, <2>2, EventPartHandled
  <2>4. ccid \in 0 .. MaxId
    BY DEF Types, NodeTypes
  <2>5. /\ next \in 0 .. MaxId + 1 /\ next > r.first
        /\ \A i \in Nat : i < next => i <= r.first \/ i <= ccid \/ \E c \in queue : c.id = i
    BY <1>8, <2>0, <2>4, MissingFacts
  <2>6. next \in Nat
    BY <2>5, Bounds
  <2>7. ASSUME NEW i \in 1 .. next - 1 PROVE i \in Own'
    <3>1. i \in Nat /\ i >= 1 /\ i < next
      BY <2>6, <2>7
    <3>2. i <= r.first \/ i <= ccid \/ \E c \in queue : c.id = i
      BY <2>5, <3>1, Zenon
    <3>3. CASE i < r.first
      <4>1. i \in 1 .. r.first - 1
        BY <2>0, <3>1, <3>3
      <4>. QED BY <1>2, <1>3, <2>1, <4>1
    <3>4. CASE i = r.first
      BY <2>3, <3>4
    <3>5. CASE i <= ccid
      BY <2>0, <2>3, <3>1, <3>5 DEF Own
    <3>6. CASE \E c \in queue : c.id = i
      BY <2>3, <3>6 DEF Own, Got
    <3>7. i <= r.first => i < r.first \/ i = r.first
      BY <2>0, <3>1
    <3>. QED BY <3>2, <3>3, <3>4, <3>5, <3>6, <3>7
  <2>8. 1 .. next - 1 \subseteq Have' /\ Usable'
    BY <1>2, <1>3, <2>1, <2>7
  <2>9. r.first < next
    BY <2>0, <2>5, <2>6
  <2>. QED BY <1>1, <1>8, <2>1, <2>8, <2>9 DEF After, AllKept
<1>9. r \in Requests
  BY PackageFacts
<1>. QED BY <1>4, <1>5, <1>6, <1>7, <1>8, <1>9 DEF Requests

(* The end of a phase is handled: what A knows about the next request      *)
(* stays.                                                                  *)
LEMMA NextBefore ==
  ASSUME AllKept, Handled, NEW q, q.tp \in {"apart", "epart"}, Before(q),
         toS' # <<>>, toS'[1] = q, Base = ccid', UNCHANGED arch
  PROVE  Before(q)'
<1>1. ~FP' /\ ~AP'
  BY DEF FP, AP
<1>2. Base' = ccid' /\ (Usable => Usable')
  BY <1>1 DEF Base, Usable, Handled
<1>3. q.tp = "apart" => Named(archA, q)' /\ Usable' /\ FilesBelow(q.first)'
  BY <1>2 DEF Before, FilesBelow, AllKept
<1>. QED BY <1>1, <1>3 DEF Before, AllKept

LEMMA Later ==
  ASSUME NEW T, NEW s \in Seq(T), Len(s) > 1
  PROVE  /\ Tail(s) # <<>> /\ Tail(s)[1] = s[2] /\ s[2] \in T
         /\ Len(s) = 2 => Len(Tail(s)) = 1
<1>1. s # <<>> /\ Len(s) \in Nat
  OBVIOUS
<1>2. Len(Tail(s)) = Len(s) - 1 /\ Tail(s) \in Seq(T)
  BY <1>1
<1>3. Tail(s)[1] = s[2]
  BY <1>1
<1>4. Len(Tail(s)) # 0 /\ (Len(s) = 2 => Len(Tail(s)) = 1)
  <2>1. \A x \in Nat : x > 1 => x - 1 # 0 /\ (x = 2 => x - 1 = 1)
    OBVIOUS
  <2>. QED BY <1>1, <1>2, <2>1, Zenon
<1>5. s[2] \in T
  <2>1. 2 \in 1 .. Len(s)
    BY <1>1
  <2>. QED BY <2>1
<1>6. Tail(s) # <<>>
  BY <1>2, <1>4, Lengths, Zenon
<1>. QED BY <1>3, <1>4, <1>5, <1>6

LEMMA OneMore ==
  ASSUME NEW T, NEW s \in Seq(T), NEW x \in T
  PROVE  /\ Append(s, x) # <<>> /\ Len(Append(s, x)) = Len(s) + 1
         /\ Append(s, x)[Len(Append(s, x))] = x
         /\ Len(s) = 1 => Append(s, x)[1] = s[1]
         /\ Len(s) = 0 => Append(s, x)[1] = x
<1>1. Len(s) \in Nat /\ Len(Append(s, x)) = Len(s) + 1 /\ Append(s, x) \in Seq(T)
  OBVIOUS
<1>2. Append(s, x) # <<>>
  <2>1. Len(Append(s, x)) # 0
    BY <1>1
  <2>. QED BY <1>1, <2>1, Lengths, Zenon
<1>3. Append(s, x)[Len(s) + 1] = x
  OBVIOUS
<1>4. Len(s) = 1 => Append(s, x)[1] = s[1]
  OBVIOUS
<1>5. Len(s) = 0 => Append(s, x)[1] = x
  BY <1>3
<1>. QED BY <1>1, <1>2, <1>3, <1>4, <1>5

LEMMA HandledEnds ==
  ASSUME Types, Types', Server, Node, Ends, OnSyncPart, status = "SYNC"
  PROVE  Node' /\ ReadyIsComplete' /\ (status' = "SYNC" => Ends')
<1>0. toS \in Seq(Packages) /\ toS # <<>>
  BY DEF OnSyncPart, Types, NetTypes
<1>1. PICK r \in Packages : r = toS[1]
  BY <1>0, Lengths
<1>2. AllKept /\ toS' = Tail(toS) /\ (r.tp = "edone" => OnEventDone(r))
  BY <1>1, PartStep
<1>3. CASE r.tp = "edone"
  <2>1. status' = "READY" /\ UNCHANGED <<store, arch, ccid, scid, data, queue>>
    BY <1>2, <1>3 DEF OnEventDone, disk
  <2>2. toS[1].tp \notin Dones
    BY <1>1, <1>3 DEF Dones
  <2>3. Have = Own
    BY <1>0, <2>2, OwnOnly
  <2>4. 1 .. made \subseteq Own \cup cast /\ data = 1 .. ccid
    BY <2>3 DEF Ends, Node, Within
  <2>5. ReadyIsComplete'
    BY <1>2, <2>1, <2>4 DEF ReadyIsComplete, Own, Got, AllKept
  <2>6. Node'
    BY <1>2, <2>1, SameCalm DEF AllKept
  <2>. QED BY <2>1, <2>5, <2>6
<1>4. CASE r.tp # "edone"
  <2>1. Len(toS) > 1 /\ r.tp \in Dones /\ Safe(r) /\ toS[2].tp = "edone"
    BY <1>1, <1>4 DEF Ends
  <2>2. Handled
    BY <1>1, <1>4, <2>1, PartHandled
  <2>3. Node' /\ status' = "SYNC" /\ Have \subseteq Own'
    BY <2>2 DEF Handled
  <2>4. toS' # <<>> /\ toS'[1].tp = "edone"
    <3>1. Tail(toS) # <<>> /\ Tail(toS)[1] = toS[2]
      BY <1>0, <2>1, Later, Zenon
    <3>. QED BY <1>2, <2>1, <3>1
  <2>5. Have' = Own'
    <3>1. ~FP' /\ ~AP'
      BY <2>4 DEF FP, AP
    <3>. QED BY <3>1 DEF Base, Have, Own
  <2>6. 1 .. made \subseteq Have' \cup cast
    BY <2>3, <2>5 DEF Ends
  <2>7. Ends'
    BY <1>2, <2>4, <2>6 DEF Ends, AllKept
  <2>8. ReadyIsComplete'
    BY <2>3 DEF ReadyIsComplete
  <2>. QED BY <2>3, <2>7, <2>8
<1>. QED BY <1>3, <1>4

LEMMA HandledSession ==
  ASSUME Types, Types', Server, Node, Session, OnSyncPart, status = "SYNC"
  PROVE  Node' /\ ReadyIsComplete' /\ Session'
<1>0. toS \in Seq(Packages) /\ toS # <<>> /\ toA \in Seq(Responses)
  BY DEF OnSyncPart, Types, NetTypes
<1>1. PICK r \in Packages : r = toS[1]
  BY <1>0, Lengths
<1>2. PICK next : next = (IF r.tp = "epart" THEN NextMissing(r.first) ELSE 0)
  OBVIOUS
<1>3. /\ AllKept /\ toS' = Tail(toS) /\ UNCHANGED <<away, syncers, flag, open, ask>>
      /\ toA' = Append(toA, [req |-> r, ok |-> TRUE, next |-> next])
  BY <1>1, <1>2, PartStep
<1>4. flag /\ (Stale \/ \E s \in open : Serving(s))
  BY <1>0 DEF Session, Idle
<1>5. Safe(r)
  BY <1>0, <1>1, FirstSafe DEF Session, Ends
<1>6. Len(toS) \in Nat /\ Len(toA) \in Nat /\ Len(toS) >= 1
  BY <1>0, Lengths
<1>7. Len(toS) = 1 => toS' = <<>>
  BY <1>0, <1>3
<1>8. Len(toS) = 2 => /\ toS' # <<>> /\ Len(toS') = 1 /\ toS'[1] = toS[2]
                      /\ toS[2] \in Packages
  <2>1. Len(toS) = 2 => Len(toS) > 1
    OBVIOUS
  <2>. QED BY <1>0, <1>3, <2>1, Later, Zenon
<1>9. ASSUME Handled, Len(toS) = 2, IsPart(toS[2])
      PROVE  \A j \in 1 .. Len(toS') : Safe(toS[j])'
  <2>1. PICK q \in Packages : q = toS[2]
    BY <1>8, <1>9
  <2>2. Safe(q)
    <3>1. 2 \in 1 .. Len(toS)
      BY <1>9
    <3>. QED BY <2>1, <3>1 DEF Session
  <2>3. Safe(q)'
    BY <1>3, <1>8, <1>9, <2>1, <2>2, NextSafe
  <2>4. \A j \in 1 .. Len(toS') : toS'[j] = q
    BY <1>8, <1>9, <2>1
  <2>. QED BY <2>3, <2>4
<1>10. ASSUME Handled PROVE Node' /\ ReadyIsComplete'
  BY <1>10 DEF Handled, ReadyIsComplete
<1>11. CASE Stale
  <2>1. Len(toS) <= 2 /\ IsPart(toS[Len(toS)]) /\ (Len(toS) = 2 => toS[1].tp \in Dones)
    BY <1>0, <1>11 DEF Stale
  <2>2. Len(toS) = 1 \/ Len(toS) = 2
    BY <1>6, <2>1, Small, Zenon
  <2>3. r.tp # "edone"
    BY <1>1, <2>1, <2>2 DEF IsPart, Dones
  <2>4. Handled
    BY <1>1, <1>5, <2>3, PartHandled
  <2>5. CASE Len(toS) = 1
    <3>1. toS' = <<>> /\ 1 .. Len(toS') = {}
      BY <1>7, <2>5
    <3>2. Stale'
      BY <1>3, <1>11, <3>1 DEF Stale
    <3>. QED BY <1>3, <1>4, <1>10, <2>4, <3>1, <3>2 DEF Session
  <2>6. CASE Len(toS) = 2
    <3>1. IsPart(toS[2]) /\ toS'[1] = toS[2] /\ Len(toS') = 1
      BY <1>8, <2>1, <2>6
    <3>2. Stale'
      <4>1. IsPart(toS'[Len(toS')]) /\ Len(toS') <= 2 /\ Len(toS') # 2
        BY <3>1
      <4>2. open' = {}
        BY <1>3, <1>11 DEF Stale
      <4>. QED BY <4>1, <4>2 DEF Stale, IsPart
    <3>3. \A j \in 1 .. Len(toS') : Safe(toS[j])'
      BY <1>9, <2>4, <2>6, <3>1
    <3>. QED BY <1>3, <1>4, <1>10, <2>4, <3>2, <3>3 DEF Session
  <2>. QED BY <2>2, <2>5, <2>6
<1>12. CASE \E s \in open : Serving(s)
  <2>1. PICK s \in open : Serving(s)
    BY <1>12
  <2>2. /\ away = "SYNCING" /\ syncers # {} /\ open = {s} /\ s.tp # "edone"
        /\ Sent(s) /\ Before(s)
    BY <1>0, <2>1 DEF Serving, Back
  <2>3. /\ toS[Len(toS)] = s /\ Len(toS) + Len(toA) <= 2
        /\ Len(toS) = 2 => toS[1].tp \in Dones /\ s.tp \in {"apart", "epart"}
        /\ Len(toA) = 1 => toA[1].req.tp \in Dones /\ s.tp \in {"apart", "epart"}
    BY <2>2 DEF Sent
  <2>4. \/ Len(toS) = 1 /\ Len(toA) = 0
        \/ Len(toS) = 1 /\ Len(toA) = 1
        \/ Len(toS) = 2 /\ Len(toA) = 0
    <3>1. \A x, y \in Nat : x >= 1 /\ x + y <= 2
            => (x = 1 /\ y = 0) \/ (x = 1 /\ y = 1) \/ (x = 2 /\ y = 0)
      OBVIOUS
    <3>. QED BY <1>6, <2>3, <3>1, Zenon
  <2>5. r.tp # "edone"
    BY <1>1, <2>2, <2>3, <2>4 DEF Dones
  <2>6. /\ Handled /\ (r.tp \in Dones => Base = ccid' /\ UNCHANGED arch)
        /\ r.tp = "fdone" => ccid' = store.ccid
    BY <1>1, <1>5, <2>5, PartHandled
  <2>7. PICK m \in Responses : m = [req |-> r, ok |-> TRUE, next |-> next]
    <3>1. next \in 0 .. MaxId + 1
      <4>1. r.tp = "epart" => r.first \in Ids
        BY PackageFacts
      <4>2. queue \subseteq Queued /\ ccid \in 0 .. MaxId
        BY DEF Types, NodeTypes
      <4>3. r.tp = "epart" => NextMissing(r.first) \in 0 .. MaxId + 1
        BY <4>1, <4>2, MissingFacts
      <4>4. 0 \in 0 .. MaxId + 1
        BY Bounds
      <4>. QED BY <1>2, <4>3, <4>4
    <3>. QED BY <3>1 DEF Responses
  <2>8. /\ m.req = r /\ m.next = next
        /\ toA' # <<>> /\ Len(toA') = Len(toA) + 1 /\ toA'[Len(toA')] = m
        /\ Len(toA) = 1 => toA'[1] = toA[1]
        /\ Len(toA) = 0 => toA'[1] = m
    <3>1. m.req = r /\ m.next = next
      BY <2>7
    <3>2. toA' = Append(toA, m)
      BY <1>3, <2>7
    <3>. QED BY <1>0, <3>1, <3>2, OneMore, Zenon
  <2>9. CASE Len(toS) = 1
    <3>1. s = r /\ toS' = <<>> /\ 1 .. Len(toS') = {}
      BY <1>1, <1>7, <2>3, <2>9
    <3>2. After(r, next)'
      BY <1>1, <1>2, <1>5, <2>2, <2>5, <2>6, <3>1, AnswerSent
    <3>3. Back(r)'
      <4>1. Len(toA') <= 2 /\ (Len(toA') = 2 => Len(toA) = 1)
        <5>1. \A x \in Nat : (x = 0 \/ x = 1) => x + 1 <= 2 /\ (x + 1 = 2 => x = 1)
          OBVIOUS
        <5>2. Len(toA) = 0 \/ Len(toA) = 1
          BY <2>4, Zenon
        <5>. QED BY <1>6, <2>8, <5>1, <5>2, Zenon
      <4>2. toA'[Len(toA')].req = r /\ toA' # <<>>
        BY <2>8
      <4>3. Len(toA') = 2 => toA'[1].req.tp \in Dones /\ r.tp \in {"apart", "epart"}
        BY <2>3, <2>8, <3>1, <4>1
      <4>. QED BY <3>1, <4>1, <4>2, <4>3 DEF Back
    <3>4. toA'[Len(toA')].next = next
      BY <2>8
    <3>5. Serving(r)'
      BY <1>3, <2>2, <3>1, <3>2, <3>3, <3>4 DEF Serving
    <3>. QED BY <1>3, <1>4, <1>10, <2>2, <2>6, <3>1, <3>5 DEF Session
  <2>10. CASE Len(toS) = 2
    <3>1. toS[2] = s /\ r.tp \in Dones /\ s.tp \in {"apart", "epart"} /\ Len(toA) = 0
      BY <1>1, <2>3, <2>4, <2>10
    <3>2. IsPart(toS[2]) /\ toS' # <<>> /\ Len(toS') = 1 /\ toS'[1] = s
      BY <1>8, <2>10, <3>1 DEF IsPart
    <3>3. Before(s)'
      BY <1>3, <2>2, <2>6, <3>1, <3>2, NextBefore
    <3>4. Sent(s)'
      <4>1. Len(toA') = 1 /\ toA'[1].req.tp \in Dones
        BY <2>8, <3>1
      <4>. QED BY <3>1, <3>2, <4>1 DEF Sent
    <3>5. Serving(s)'
      BY <1>3, <2>2, <3>3, <3>4 DEF Serving
    <3>6. \A j \in 1 .. Len(toS') : Safe(toS[j])'
      BY <1>9, <2>6, <2>10, <3>2
    <3>. QED BY <1>3, <1>4, <1>10, <2>2, <2>6, <3>5, <3>6 DEF Session
  <2>. QED BY <2>4, <2>9, <2>10
<1>. QED BY <1>4, <1>11, <1>12

LEMMA SyncPartKeeps ==
  ASSUME SInv, Types', OnSyncPart
  PROVE  /\ status' # "DOWN" /\ Node' /\ ReadyIsComplete'
         /\ status' = "SYNC" => Ends' \/ Session'
<1>1. /\ Types /\ status # "DOWN" /\ Server /\ Node /\ ReadyIsComplete
      /\ status = "SYNC" => Ends \/ Session
  BY DEF SInv
<1>2. status \in {"DOWN", "SYNC", "READY"} /\ status' \in {"DOWN", "SYNC", "READY"}
  BY <1>1 DEF Types, NodeTypes
<1>3. CASE status = "SYNC"
  <2>1. Node' /\ ReadyIsComplete' /\ (status' = "SYNC" => Ends' \/ Session')
    BY <1>1, <1>3, HandledEnds, HandledSession
  <2>2. status' # "DOWN"
    <3>1. toS \in Seq(Packages) /\ toS # <<>>
      BY <1>1 DEF OnSyncPart, Types, NetTypes
    <3>2. PICK r \in Packages : r = toS[1]
      BY <3>1, Lengths
    <3>3. /\ r.tp = "fpart" => OnFullPart(r)
          /\ r.tp = "fdone" => OnFullDone(r)
          /\ r.tp = "apart" => OnArchivePart(r)
          /\ r.tp = "adone" => OnArchiveDone(r)
          /\ r.tp = "epart" => OnEventPart(r)
          /\ r.tp = "edone" => OnEventDone(r)
      BY <1>1, <1>3, <3>2, PartStep
    <3>4. r \in Requests
      BY PackageFacts
    <3>5. r.tp \in {"fpart", "fdone", "apart", "adone", "epart", "edone"}
      BY <3>4 DEF Requests
    <3>6. status' = status \/ status' = "READY"
      BY <3>3, <3>5 DEF OnFullPart, OnFullDone, OnArchivePart, OnArchiveDone, OnEventPart,
                        OnEventDone
    <3>. QED BY <1>1, <3>6
  <2>. QED BY <2>1, <2>2
<1>4. CASE status = "READY"
  <2>1. UNCHANGED <<made, ccidA, scidA, stored, archA, memA, queueA, ccid, scid, data,
                    queue, store, arch, cast, status>>
    BY <1>4 DEF OnSyncPart, server, disk
  <2>2. Node'
    BY <1>1, <2>1, SameCalm
  <2>. QED BY <1>1, <1>4, <2>1, <2>2 DEF ReadyIsComplete
<1>. QED BY <1>1, <1>2, <1>3, <1>4
-----------------------------------------------------------------------------
(* Every step keeps the invariant.                                         *)

LEMMA ReadySame ==
  ASSUME ReadyIsComplete, UNCHANGED <<made, data, queue, cast, status>>
  PROVE  ReadyIsComplete'
BY DEF ReadyIsComplete

(* Nothing changes but what A and S will do next.                          *)
LEMMA SteadyKeeps ==
  ASSUME SInv, Types', Server', Node', Steady, status' = status,
         UNCHANGED <<toA, open, flag>>,
         status = "SYNC" => \A f \in ask' \cup syncers' : f \in ask \cup syncers \/ Waits(f)',
         away = "SYNCING" /\ syncers # {}
           => /\ away' = "SYNCING" /\ syncers' # {}
              /\ UNCHANGED <<archA, scidA, stored>>
  PROVE  SInv'
<1>1. /\ Types /\ status # "DOWN" /\ Node /\ Copied /\ ReadyIsComplete
      /\ status = "SYNC" => Ends \/ Session
  BY DEF SInv, Node
<1>2. data = 1 .. ccid /\ data' = 1 .. ccid'
  BY <1>1 DEF Node, Within
<1>3. ReadyIsComplete'
  BY <1>1, <1>2, SteadyReady
<1>4. status = "SYNC" => Ends' \/ Session'
  BY <1>1, SteadyEnds, SteadySession
<1>. QED BY <1>1, <1>3, <1>4 DEF SInv

LEMMA SInvServer ==
  ASSUME SInv, Types', Make \/ CommitA \/ WorkFinish \/ GoSoon \/ GoAway \/ ComeBack
  PROVE  SInv'
<1>1. Types /\ status # "DOWN" /\ Server /\ Node
  BY DEF SInv
<1>2. UNCHANGED <<toA, open, flag, syncers, ask, status>>
  BY DEF Make, CommitA, WorkFinish, GoSoon, GoAway, ComeBack, session, net
<1>3. \A f \in ask' \cup syncers' : f \in ask \cup syncers \/ Waits(f)'
  BY <1>2
<1>4. CASE Make
  <2>1. Server' /\ Node' /\ Steady /\ UNCHANGED <<archA, scidA, stored>>
    BY <1>1, <1>4, MakeCalm
  <2>2. away' = away
    BY <1>4 DEF Make
  <2>. QED BY <1>2, <1>3, <2>1, <2>2, SteadyKeeps
<1>5. CASE CommitA
  <2>1. Server' /\ Node' /\ Steady /\ UNCHANGED <<archA, scidA, stored>>
    BY <1>1, <1>5, CommitCalm
  <2>2. away' = away
    BY <1>5 DEF CommitA
  <2>. QED BY <1>2, <1>3, <2>1, <2>2, SteadyKeeps
<1>6. CASE WorkFinish
  <2>1. Server' /\ Node' /\ Steady /\ away = "WORKING"
    BY <1>1, <1>6, WorkCalm
  <2>. QED BY <1>2, <1>3, <2>1, SteadyKeeps
<1>7. CASE GoSoon \/ GoAway \/ ComeBack
  <2>1. /\ UNCHANGED <<made, ccidA, scidA, stored, archA, memA, queueA, ccid, scid, data,
                       queue, store, arch, cast, toS>>
        /\ ~(away = "SYNCING" /\ syncers # {})
    BY <1>7 DEF GoSoon, GoAway, ComeBack, memory, disk, net
  <2>2. Server' /\ Node' /\ Steady
    BY <1>1, <2>1, SameCalm
  <2>. QED BY <1>2, <1>3, <2>1, <2>2, SteadyKeeps
<1>. QED BY <1>4, <1>5, <1>6, <1>7

(* S asks for the change behind its last one when it has applied what it   *)
(* can apply.                                                              *)
LEMMA AsksForNext ==
  ASSUME Types, Types', Node, ~Runnable, UNCHANGED <<ccid, scid>>
  PROVE  Waits(ccid + 1)'
<1>1. ccid \in Nat /\ scid \in Nat /\ queue \subseteq Queued
  BY Numbers
<1>2. scid <= ccid
  <2> SUFFICES ASSUME ~(scid <= ccid) PROVE FALSE
    OBVIOUS
  <2>1. ccid + 1 \in ccid + 1 .. scid
    BY <1>1
  <2>2. PICK c \in queue : c.id = ccid + 1
    BY <2>1 DEF Node, Filled, Got
  <2>3. First(queue) \in queue /\ \A e \in queue : First(queue).id <= e.id
    BY <1>1, <2>2, FirstIsLowest
  <2>4. First(queue).id <= ccid + 1 /\ queue # {}
    BY <2>2, <2>3
  <2>. QED BY <2>4 DEF Runnable
<1>3. \A x, y \in Nat : y <= x => x + 1 <= x + 1 /\ y < x + 1
  OBVIOUS
<1>4. ccid' + 1 <= ccid' + 1 /\ scid' < ccid' + 1
  BY <1>1, <1>2, <1>3
<1>. QED BY <1>4 DEF Waits

LEMMA SInvNode ==
  ASSUME SInv, Types', OnReqSync \/ FindAwayNode \/ OnChange \/ Loop \/ LinkUp
  PROVE  SInv'
<1>1. Types /\ status # "DOWN" /\ Server /\ Node
  BY DEF SInv
<1>2. UNCHANGED <<toA, open, flag, status, away>>
  BY DEF OnReqSync, FindAwayNode, OnChange, Loop, LinkUp, server, session, net
<1>3. CASE OnReqSync
  <2>1. UNCHANGED <<made, ccidA, scidA, stored, archA, memA, queueA, ccid, scid, data,
                    queue, store, arch, cast, toS>>
    BY <1>3 DEF OnReqSync, server, memory, disk
  <2>2. Server' /\ Node' /\ Steady
    BY <1>1, <2>1, SameCalm
  <2>3. PICK f \in ask : syncers' = IF away = "READY" THEN syncers ELSE {f}
    BY <1>3 DEF OnReqSync
  <2>4. ask' = {}
    BY <1>3 DEF OnReqSync
  <2>5. \A g \in ask' \cup syncers' : g \in ask \cup syncers
    BY <2>3, <2>4
  <2>6. away = "SYNCING" /\ syncers # {} => away' = "SYNCING" /\ syncers' # {}
    BY <1>2, <2>3
  <2>. QED BY <1>2, <2>1, <2>2, <2>5, <2>6, SteadyKeeps
<1>4. CASE FindAwayNode
  <2>1. UNCHANGED <<made, ccidA, scidA, stored, archA, memA, queueA, ccid, scid, data,
                    queue, store, arch, cast, toS, syncers>>
    BY <1>4 DEF FindAwayNode, server, session, disk
  <2>2. Server' /\ Node' /\ Steady
    BY <1>1, <2>1, SameCalm
  <2>3. (ask' = {ccid + 1} /\ ~Runnable) \/ ask' = ask
    BY <1>4 DEF FindAwayNode
  <2>4. ~Runnable => Waits(ccid + 1)'
    BY <1>1, <2>1, AsksForNext
  <2>5. \A f \in ask' \cup syncers' : f \in ask \cup syncers \/ Waits(f)'
    BY <2>1, <2>3, <2>4
  <2>. QED BY <1>2, <2>1, <2>2, <2>5, SteadyKeeps
<1>5. CASE OnChange
  <2>1. Server' /\ Node' /\ Steady /\ UNCHANGED <<archA, scidA, stored>>
    BY <1>1, <1>5, ChangeCalm
  <2>2. UNCHANGED <<ask, syncers>>
    BY <1>5 DEF OnChange, session
  <2>. QED BY <1>2, <2>1, <2>2, SteadyKeeps
<1>6. CASE Loop
  <2>1. Server' /\ Node' /\ Steady /\ UNCHANGED <<archA, scidA, stored>>
    BY <1>1, <1>6, LoopCalm
  <2>2. UNCHANGED <<ask, syncers>>
    BY <1>6 DEF Loop, session, net
  <2>. QED BY <1>2, <2>1, <2>2, SteadyKeeps
<1>7. CASE LinkUp
  <2>1. UNCHANGED <<made, ccidA, scidA, stored, archA, memA, queueA, ccid, scid, data,
                    queue, store, arch, cast, toS, ask, syncers>>
    BY <1>7 DEF LinkUp, server, session, memory, disk
  <2>2. Server' /\ Node' /\ Steady
    BY <1>1, <2>1, SameCalm
  <2>. QED BY <1>2, <2>1, <2>2, SteadyKeeps
<1>. QED BY <1>3, <1>4, <1>5, <1>6, <1>7

LEMMA SInvSession ==
  ASSUME SInv, Types', Serve \/ OnResponse \/ RequestFails \/ LinkDown \/ OnSyncPart
  PROVE  SInv'
<1>1. /\ Types /\ status # "DOWN" /\ Server /\ Node /\ ReadyIsComplete
      /\ status = "SYNC" => Ends \/ Session
  BY DEF SInv
<1>2. CASE Serve \/ OnResponse \/ RequestFails \/ LinkDown
  <2>1. UNCHANGED <<made, ccidA, scidA, stored, archA, memA, queueA, ccid, scid, data,
                    queue, store, arch, cast, status>>
    BY <1>2 DEF Serve, OnResponse, RequestFails, LinkDown, server, memory, disk
  <2>2. Server' /\ Node'
    BY <1>1, <2>1, SameCalm
  <2>3. ReadyIsComplete'
    BY <1>1, <2>1, ReadySame
  <2>4. status = "SYNC" => Ends' \/ Session'
    BY <1>1, <1>2, ServeKeeps, ResponseKeeps, FailureKeeps, LinkKeeps
  <2>. QED BY <1>1, <2>1, <2>2, <2>3, <2>4 DEF SInv
<1>3. CASE OnSyncPart
  <2>1. UNCHANGED <<made, queueA, ccidA, scidA, stored, archA, memA>>
    BY <1>3 DEF OnSyncPart, server
  <2>2. Server'
    BY <1>1, <2>1, ServerSame
  <2>. QED BY <1>3, <2>2, SyncPartKeeps DEF SInv
<1>. QED BY <1>2, <1>3

LEMMA SInvUnchanged == ASSUME SInv, Types', UNCHANGED vars PROVE SInv'
<1>1. Types /\ Server /\ Node
  BY DEF SInv
<1>2. UNCHANGED <<made, ccidA, scidA, stored, archA, memA, queueA, ccid, scid, data,
                  queue, store, arch, cast, toS, toA, open, flag, ask, syncers, away, status>>
  BY DEF vars, server, session, memory, disk, net
<1>3. Server' /\ Node' /\ Steady
  BY <1>1, <1>2, SameCalm
<1>. QED BY <1>2, <1>3, SteadyKeeps

LEMMA SInvStep == ASSUME "crash" \notin Faults PROVE SInv /\ [Next]_vars => SInv'
<1> SUFFICES ASSUME SInv, [Next]_vars PROVE SInv'
  OBVIOUS
<1>1. Types'
  BY TypesStep DEF SInv
<1>2. ~Crash /\ ~Restart /\ ~Rebuild
  BY DEF SInv, Crash, Restart, Rebuild
<1>. QED BY <1>1, <1>2, SInvServer, SInvNode, SInvSession, SInvUnchanged
     DEF Next, StepA, StepS

LEMMA SInvInit == Init => SInv
<1> SUFFICES ASSUME Init PROVE SInv
  OBVIOUS
<1>0. Types
  BY InitTypes
<1>1. /\ made \in Nat /\ ccidA \in Nat /\ scidA \in Nat /\ stored \in Nat
      /\ ccid \in Nat /\ scid \in Nat
  BY <1>0, Numbers
<1>2. /\ queueA = {} /\ ccidA = made /\ queue = {} /\ arch = {} /\ cast = {} /\ ask = {}
      /\ toS = <<>> /\ toA = <<>> /\ syncers = {} /\ flag = FALSE /\ open = {}
      /\ status = "SYNC" /\ ccid <= made /\ scid = ccid /\ data = 1 .. ccid
  BY DEF Init
<1>3. PICK from \in 1 .. stored + 1 :
        /\ scidA \in stored .. made
        /\ archA = IF from <= scidA THEN {[first |-> from, last |-> scidA]} ELSE {}
        /\ memA = scidA + 1 .. made
  BY DEF Init
<1>4. from \in Nat /\ stored <= scidA /\ scidA <= made /\ from <= stored + 1
  BY <1>1, <1>3
<1>5. Server
  <2>1. Ordered
    BY <1>1, <1>2, <1>3, <1>4 DEF Ordered
  <2>2. \A f \in archA : f.first = from /\ f.last = scidA /\ from <= scidA
    BY <1>3
  <2>3. Chained
    <3>1. ASSUME NEW f \in archA, NEW i \in f.first .. scidA PROVE InFile(archA, i)
      BY <1>1, <1>4, <2>2 DEF InFile
    <3>. QED BY <1>1, <2>2, <3>1 DEF Chained
  <2>4. Apart
    BY <1>3 DEF Apart
  <2>5. Begins
    <3>1. ASSUME stored < scidA PROVE \E f \in archA : f.first <= stored + 1
      <4>1. from <= scidA
        BY <1>1, <1>4, <3>1
      <4>. QED BY <1>3, <1>4, <4>1
    <3>. QED BY <3>1 DEF Begins
  <2>. QED BY <2>1, <2>3, <2>4, <2>5 DEF Server
<1>6. Node
  <2>0. Got = {} /\ ccid + 1 .. scid = {}
    BY <1>1, <1>2 DEF Got
  <2>1. Within
    BY <1>2, <2>0 DEF Within
  <2>2. Filled
    BY <1>2, <2>0 DEF Filled
  <2>3. Stuck
    BY <1>1, <1>2, <2>0 DEF Stuck
  <2>4. Copied
    BY <1>2 DEF Copied
  <2>. QED BY <2>1, <2>2, <2>3, <2>4 DEF Node
<1>7. Session
  <2>1. 1 .. Len(toS) = {}
    BY <1>2
  <2>2. Idle
    BY <1>2 DEF Idle
  <2>. QED BY <1>2, <2>1, <2>2 DEF Session
<1>. QED BY <1>0, <1>2, <1>5, <1>6, <1>7 DEF SInv, ReadyIsComplete

(* As long as S does not die it never passes over a change, however often  *)
(* its connection breaks or a request times out, and whatever the cluster  *)
(* makes meanwhile: the parts of a synchronization, which may be applied   *)
(* over a gap (TI_CPKG_FLAG_ALLOW_GAP), come when there is none.           *)
THEOREM NoHoleHolds == ASSUME "crash" \notin Faults PROVE Spec => []NoHole
<1>1. Init => SInv
  BY SInvInit
<1>2. SInv /\ [Next]_vars => SInv'
  BY SInvStep
<1>3. SInv => NoHole
  BY DEF SInv, Node, Within, NoHole
<1>. QED BY <1>1, <1>2, <1>3, PTL DEF Spec

(* As long as S does not die it is READY (nodes__on_req_syncedone) only    *)
(* when every change of the cluster is in its data, in its queue or on its *)
(* way to it.                                                              *)
THEOREM ReadyIsCompleteHolds ==
  ASSUME "crash" \notin Faults PROVE Spec => []ReadyIsComplete
<1>1. Init => SInv
  BY SInvInit
<1>2. SInv /\ [Next]_vars => SInv'
  BY SInvStep
<1>3. SInv => ReadyIsComplete
  BY DEF SInv
<1>. QED BY <1>1, <1>2, <1>3, PTL DEF Spec
=============================================================================
