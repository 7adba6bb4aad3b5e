--------------------------- MODULE ChangesProofs ----------------------------
(***************************************************************************)
(* Proofs about the agreement on change ids, the queue of changes and the  *)
(* votes, for a cluster of any size and any number of changes.  All but    *)
(* the last part hold under every combination of faults.                   *)
(***************************************************************************)
EXTENDS Changes, FiniteSetTheorems, SequenceTheorems, TLAPS

(* What makes NoDoubleVote inductive: a node gives away only ids below its *)
(* next id, and an id that it skipped and may still give away was not      *)
(* given away yet.                                                         *)
VotesBelowNext ==
  \A n \in Nodes :
    /\ \A v \in votes[n] : v.id < next_change_id[n] /\ v.id \notin skipped_ids[n]
    /\ \A i \in skipped_ids[n] : i < next_change_id[n]

IInv == TypeOK /\ VotesBelowNext /\ NoDoubleVote

Channels == [Nodes \X Nodes -> Seq(Message)]
-----------------------------------------------------------------------------
(* The packages that nodes send are packages.                              *)
LEMMA MessageMade ==
  ASSUME NEW id \in Nat
  PROVE  /\ [tp |-> "req", id |-> id] \in Message
         /\ [tp |-> "missing", id |-> id] \in Message
         /\ \A op \in Ops : [tp |-> "cpkg", id |-> id, op |-> op] \in Message
         /\ \A a \in {"accept", "reject", "collision"}, k \in Nat :
              [tp |-> "res", id |-> id, answer |-> a, n |-> k] \in Message
BY DEF Message

(* What a package holds.                                                   *)
LEMMA MessageRead ==
  ASSUME NEW msg \in Message
  PROVE  /\ msg.id \in Nat
         /\ msg.tp = "cpkg" => msg.op \in Ops
         /\ msg.tp = "res" => /\ msg.answer \in {"accept", "reject", "collision"}
                              /\ msg.n \in Nat
BY DEF Message

LEMMA SendType ==
  ASSUME NEW ch \in Channels, NEW n \in Nodes, NEW S, NEW msg \in Message
  PROVE  Send(ch, n, S, msg) \in Channels
<1>1. \A p \in Nodes \X Nodes : Append(ch[p], msg) \in Seq(Message)
  BY AppendProperties DEF Channels
<1>. QED BY <1>1 DEF Send, Channels

LEMMA ReceiveType ==
  ASSUME chan \in Channels, NEW m \in Nodes, NEW n \in Nodes, NEW tp,
         HeadIs(m, n, tp)
  PROVE  /\ Receive(m, n) \in Channels
         /\ Head(chan[<<m, n>>]) \in Message
         /\ Head(chan[<<m, n>>]).tp = tp
<1>1. chan[<<m, n>>] \in Seq(Message) /\ chan[<<m, n>>] # <<>>
  BY DEF Channels, HeadIs
<1>2. /\ Tail(chan[<<m, n>>]) \in Seq(Message)
      /\ Head(chan[<<m, n>>]) \in Message
  BY <1>1, HeadTailProperties
<1>. QED BY <1>2 DEF Receive, Channels, HeadIs
-----------------------------------------------------------------------------
(* A change that is pushed leaves a queue.                                 *)
LEMMA PushType ==
  ASSUME NEW s \in Seq(QueueEntry), NEW c \in QueueEntry
  PROVE  Push(s, c) \in Seq(QueueEntry)
<1> DEFINE Before == {i \in 1 .. Len(s) : s[i].id <= c.id}
           k == Cardinality(Before)
<1>1. Len(s) \in Nat
  BY LenProperties
<1>2. k \in Nat /\ k <= Len(s)
  <2>1. IsFiniteSet(1 .. Len(s)) /\ Cardinality(1 .. Len(s)) = Len(s)
    BY <1>1, FS_Interval
  <2>2. Before \subseteq 1 .. Len(s)
    OBVIOUS
  <2>. QED BY <2>1, <2>2, FS_Subset, FS_CardinalityType
<1>3. Push(s, c) = SubSeq(s, 1, k) \o <<c>> \o SubSeq(s, k + 1, Len(s))
  <2>1. (k + 1) - 1 = k
    BY <1>2
  <2>. QED BY <2>1 DEF Push, InsertAt
<1> HIDE DEF k
<1>4. /\ SubSeq(s, 1, k) \in Seq(QueueEntry)
      /\ SubSeq(s, k + 1, Len(s)) \in Seq(QueueEntry)
  BY <1>1, <1>2, SubSeqProperties
<1>5. <<c>> \in Seq(QueueEntry)
  OBVIOUS
<1>6. SubSeq(s, 1, k) \o <<c>> \in Seq(QueueEntry)
  BY <1>4, <1>5, ConcatProperties
<1>. QED BY <1>3, <1>4, <1>6, ConcatProperties

LEMMA WithoutType ==
  ASSUME NEW s \in Seq(QueueEntry), NEW At \in SUBSET (1 .. Len(s))
  PROVE  Without(s, At) \in Seq(QueueEntry)
<1>1. CASE At = {}
  BY <1>1 DEF Without
<1>2. CASE At # {}
  <2> DEFINE i == CHOOSE j \in At : TRUE
  <2>1. i \in 1 .. Len(s) /\ Len(s) \in Nat
    BY <1>2, LenProperties
  <2>2. Without(s, At) = SubSeq(s, 1, i - 1) \o SubSeq(s, i + 1, Len(s))
    BY <1>2 DEF Without, RemoveAt
  <2> HIDE DEF i
  <2>3. /\ SubSeq(s, 1, i - 1) \in Seq(QueueEntry)
        /\ SubSeq(s, i + 1, Len(s)) \in Seq(QueueEntry)
    BY <2>1, SubSeqProperties
  <2>. QED BY <2>2, <2>3, ConcatProperties
<1>. QED BY <1>1, <1>2

(* A change that becomes ready stays a change.                             *)
LEMMA ReadyType ==
  ASSUME NEW s \in Seq(QueueEntry), NEW At
  PROVE  [i \in DOMAIN s |-> IF i \in At THEN [s[i] EXCEPT !.ready = TRUE] ELSE s[i]]
           \in Seq(QueueEntry)
<1> DEFINE t == [i \in DOMAIN s |->
                   IF i \in At THEN [s[i] EXCEPT !.ready = TRUE] ELSE s[i]]
<1>1. Len(s) \in Nat /\ DOMAIN s = 1 .. Len(s) /\ \A i \in DOMAIN s : s[i] \in QueueEntry
  BY LenProperties, ElementOfSeq
<1>2. \A c \in QueueEntry : [c EXCEPT !.ready = TRUE] \in QueueEntry
  BY DEF QueueEntry
<1>3. \A i \in DOMAIN s : t[i] \in QueueEntry
  BY <1>1, <1>2
<1>4. t \in [1 .. Len(s) -> QueueEntry]
  BY <1>1, <1>3
<1>. QED BY <1>1, <1>4, IsASeq
-----------------------------------------------------------------------------
(* Counting an answer leaves a vote counter.                               *)
LEMMA CountAnswerType ==
  ASSUME NEW q \in QuorumRecords, NEW tp \in Answers, NEW k \in Nat,
         NEW lower \in BOOLEAN
  PROVE  CountAnswer(q, tp, k, lower) \in QuorumRecords
<1>1. /\ q.accepted \in Nat /\ q.rejected \in Nat /\ q.collisions \in Nat
      /\ q.requests \in Nat /\ q.diff_requests \in Int /\ q.win_collision \in BOOLEAN
  BY DEF QuorumRecords
<1>2. CASE tp = "accept"
  BY <1>1, <1>2 DEF CountAnswer, QuorumRecords
<1>3. CASE tp = "reject"
  BY <1>1, <1>3 DEF CountAnswer, QuorumRecords
<1>4. CASE tp = "collision"
  <2> DEFINE d == IF q.requests > k THEN 1 ELSE IF q.requests < k THEN -1 ELSE 0
             w == q.win_collision /\ ~(q.requests = k /\ lower)
  <2>1. q.collisions + 1 \in Nat /\ q.diff_requests + d \in Int
    BY <1>1
  <2>2. w \in BOOLEAN
    OBVIOUS
  <2>3. CountAnswer(q, tp, k, lower) =
          [q EXCEPT !.collisions = q.collisions + 1,
                    !.diff_requests = q.diff_requests + d, !.win_collision = w]
    BY <1>4, Zenon DEF CountAnswer
  <2> HIDE DEF d, w
  <2>. QED BY <2>1, <2>2, <2>3 DEF QuorumRecords
<1>5. CASE tp = "error"
  <2>1. /\ q.requests \div 2 \in Nat
        /\ (IF q.requests = 0 THEN 0 ELSE q.requests - 1) \in Nat
    BY <1>1
  <2>. QED BY <2>1, <1>5 DEF CountAnswer, ShrinkOne, QuorumRecords
<1>. QED BY <1>2, <1>3, <1>4, <1>5 DEF Answers

(* The vote counter of a new question, over the nodes that are connected.  *)
LEMMA NewRoundType ==
  ASSUME NEW n \in Nodes
  PROVE  ShrinkBy(QuorumNew(Cardinality(Nodes), NodesQuorum(n)),
                  Cardinality(Nodes) - 1 - Cardinality(Peers(n))) \in QuorumRecords
<1> DEFINE N == Cardinality(Nodes)
           P == Cardinality(Peers(n))
<1>1. N \in Nat /\ IsFiniteSet(Nodes \ {n}) /\ Cardinality(Nodes \ {n}) = N - 1
  BY NodesAssumption, FS_CardinalityType, FS_RemoveElement
<1>2. N >= 1
  BY <1>1, FS_CardinalityType
<1>3. P \in Nat /\ P <= N - 1
  BY <1>1, FS_Subset, FS_CardinalityType DEF Peers
<1>4. NodesQuorum(n) \in Nat
  BY <1>1 DEF NodesQuorum
<1> HIDE DEF N, P
<1> DEFINE q == QuorumNew(N, NodesQuorum(n))
<1>5. q \in QuorumRecords /\ q.requests = N - 1
  <2>1. N \div 2 \in Nat /\ (IF N = 0 THEN 0 ELSE N - 1) = N - 1 /\ N - 1 \in Nat
    BY <1>1, <1>2
  <2> DEFINE b == [accepted |-> 0, rejected |-> 0, collisions |-> 0,
                   requests |-> N, quorum |-> NodesQuorum(n),
                   accept_threshold |-> 0, diff_requests |-> 0,
                   win_collision |-> TRUE]
  <2>2. b \in QuorumRecords /\ b.requests = N
    BY <1>1, <1>4 DEF QuorumRecords
  <2>3. q = ShrinkOne(b)
    BY DEF QuorumNew
  <2> HIDE DEF b, q
  <2>4. q = [b EXCEPT !.accept_threshold = N \div 2, !.requests = N - 1]
    BY <2>1, <2>2, <2>3 DEF ShrinkOne
  <2>. QED BY <2>1, <2>2, <2>4 DEF QuorumRecords
<1> HIDE DEF q
<1>6. ShrinkBy(q, N - 1 - P) \in QuorumRecords
  <2>1. q.requests - (N - 1 - P) \in Nat /\ (q.requests - (N - 1 - P) + 1) \div 2 \in Nat
    BY <1>1, <1>2, <1>3, <1>5
  <2>. QED BY <1>5, <2>1 DEF ShrinkBy, QuorumRecords
<1>. QED BY <1>6 DEF q, N, P
-----------------------------------------------------------------------------
(* Nothing is given away and no next id goes down.                         *)
LEMMA VotesKept ==
  ASSUME IInv, votes' = votes, skipped_ids' = skipped_ids,
         next_change_id' \in [Nodes -> Nat],
         \A n \in Nodes : next_change_id[n] <= next_change_id'[n]
  PROVE  VotesBelowNext' /\ NoDoubleVote'
<1>1. NoDoubleVote'
  BY DEF IInv, NoDoubleVote
<1>2. VotesBelowNext'
  <2> SUFFICES ASSUME NEW n \in Nodes
               PROVE  /\ \A v \in votes[n] : v.id < next_change_id'[n] /\ v.id \notin skipped_ids[n]
                      /\ \A i \in skipped_ids[n] : i < next_change_id'[n]
    BY DEF VotesBelowNext
  <2>1. next_change_id[n] \in Nat /\ next_change_id'[n] \in Nat
        /\ next_change_id[n] <= next_change_id'[n]
    BY DEF IInv, TypeOK
  <2>2. /\ \A v \in votes[n] : v.id \in Nat
        /\ \A i \in skipped_ids[n] : i \in Nat
    BY DEF IInv, TypeOK
  <2>. QED BY <2>1, <2>2 DEF IInv, VotesBelowNext
<1>. QED BY <1>1, <1>2

(* Node n gives id to node m: an id that it has not given away, with a     *)
(* next id above it and not among its skipped ids from now on.             *)
LEMMA VoteGiven ==
  ASSUME IInv, NEW n \in Nodes, NEW m \in Nodes, NEW id \in Nat,
         NEW next \in Nat, NEW skipped \in SUBSET Nat,
         next_change_id' = [next_change_id EXCEPT ![n] = next],
         skipped_ids' = [skipped_ids EXCEPT ![n] = skipped],
         votes' = [votes EXCEPT ![n] = @ \cup {[id |-> id, for |-> m]}],
         next_change_id[n] <= next, id < next, id \notin skipped,
         \A v \in votes[n] : v.id # id /\ v.id \notin skipped,
         \A i \in skipped : i < next
  PROVE  votes' \in [Nodes -> SUBSET [id: Nat, for: Nodes]]
         /\ VotesBelowNext' /\ NoDoubleVote'
<1>1. votes' \in [Nodes -> SUBSET [id: Nat, for: Nodes]]
  BY DEF IInv, TypeOK
<1>2. /\ votes'[n] = votes[n] \cup {[id |-> id, for |-> m]}
      /\ next_change_id'[n] = next
      /\ skipped_ids'[n] = skipped
      /\ \A k \in Nodes \ {n} : /\ votes'[k] = votes[k]
                                /\ next_change_id'[k] = next_change_id[k]
                                /\ skipped_ids'[k] = skipped_ids[k]
  BY DEF IInv, TypeOK
<1>3. NoDoubleVote'
  <2> SUFFICES ASSUME NEW k \in Nodes, NEW v \in votes'[k], NEW w \in votes'[k], v.id = w.id
               PROVE  v.for = w.for
    BY DEF NoDoubleVote
  <2>1. CASE k # n
    BY <1>2, <2>1 DEF IInv, NoDoubleVote
  <2>2. CASE k = n
    BY <1>2, <2>2 DEF IInv, NoDoubleVote
  <2>. QED BY <2>1, <2>2
<1>4. VotesBelowNext'
  <2> SUFFICES ASSUME NEW k \in Nodes
               PROVE  /\ \A v \in votes'[k] : v.id < next_change_id'[k] /\ v.id \notin skipped_ids'[k]
                      /\ \A i \in skipped_ids'[k] : i < next_change_id'[k]
    BY DEF VotesBelowNext
  <2>1. CASE k # n
    BY <1>2, <2>1 DEF IInv, VotesBelowNext
  <2>2. CASE k = n
    <3>1. \A v \in votes[n] : v.id \in Nat /\ v.id < next_change_id[n]
      BY DEF IInv, TypeOK, VotesBelowNext
    <3>2. next_change_id[n] \in Nat
      BY DEF IInv, TypeOK
    <3>3. \A v \in votes'[n] : v.id < next /\ v.id \notin skipped
      BY <1>2, <3>1, <3>2
    <3>. QED BY <1>2, <2>2, <3>3
  <2>. QED BY <2>1, <2>2
<1>. QED BY <1>1, <1>3, <1>4
-----------------------------------------------------------------------------
(* Everything that a step of a round, or a new question, changes is as it  *)
(* has to be afterwards.                                                   *)
RoundKeeps ==
  /\ next_change_id' \in [Nodes -> Nat]
  /\ queue' \in [Nodes -> Seq(QueueEntry)]
  /\ rounds' \in [Nodes -> SUBSET Round]
  /\ chan' \in Channels
  /\ votes' \in [Nodes -> SUBSET [id: Nat, for: Nodes]]
  /\ VotesBelowNext' /\ NoDoubleVote'

(* Asking for the next id: it is above every id that was given away.       *)
LEMMA ReqChangeIdKeeps ==
  ASSUME IInv, NEW n \in Nodes, NEW op \in Ops, NEW rest \in Seq(QueueEntry),
         NEW ch \in Channels, NEW others \in SUBSET Round,
         ReqChangeId(n, op, rest, ch, others), skipped_ids' = skipped_ids
  PROVE  RoundKeeps
<1> DEFINE id == next_change_id[n]
           q == ShrinkBy(QuorumNew(Cardinality(Nodes), NodesQuorum(n)),
                         Cardinality(Nodes) - 1 - Cardinality(Peers(n)))
           won == QuorumGo(q) = "win"
           c == [id |-> id, op |-> op, tp |-> "master", ready |-> won,
                 requests |-> q.requests]
           r == [id |-> id, op |-> op, q |-> q, wait |-> Peers(n)]
<1>1. q \in QuorumRecords
  BY NewRoundType
<1>2. id \in Nat
  BY DEF IInv, TypeOK
<1>3. /\ next_change_id' = [next_change_id EXCEPT ![n] = id + 1]
      /\ queue' = [queue EXCEPT ![n] = Push(rest, c)]
      /\ rounds' = [rounds EXCEPT ![n] = IF won THEN others ELSE others \cup {r}]
      /\ chan' = Send(ch, n, Peers(n), [tp |-> "req", id |-> id])
      /\ votes' = [votes EXCEPT ![n] = @ \cup {[id |-> id, for |-> n]}]
  BY Zenon DEF ReqChangeId
<1>4. won \in BOOLEAN
  OBVIOUS
<1> HIDE DEF q, won
<1>5. q.requests \in Nat
  BY <1>1 DEF QuorumRecords
<1>6. c \in QueueEntry
  BY <1>2, <1>4, <1>5 DEF QueueEntry
<1>7. r \in Round
  BY <1>1, <1>2 DEF Round, Peers
<1>8. next_change_id' \in [Nodes -> Nat]
  BY <1>2, <1>3 DEF IInv, TypeOK
<1>9. queue' \in [Nodes -> Seq(QueueEntry)]
  <2>1. Push(rest, c) \in Seq(QueueEntry)
    BY <1>6, PushType
  <2> HIDE DEF c
  <2>. QED BY <1>3, <2>1 DEF IInv, TypeOK
<1>10. rounds' \in [Nodes -> SUBSET Round]
  <2> HIDE DEF r
  <2>. QED BY <1>3, <1>7 DEF IInv, TypeOK
<1>11. chan' \in Channels
  BY <1>2, <1>3, MessageMade, SendType
<1>12. /\ votes' \in [Nodes -> SUBSET [id: Nat, for: Nodes]]
       /\ VotesBelowNext' /\ NoDoubleVote'
  <2>1. /\ skipped_ids' = [skipped_ids EXCEPT ![n] = skipped_ids[n]]
        /\ skipped_ids[n] \in SUBSET Nat
    BY DEF IInv, TypeOK
  <2>2. id + 1 \in Nat /\ id <= id + 1 /\ id < id + 1
    BY <1>2
  <2>3. \A v \in votes[n] : v.id \in Nat /\ v.id < id /\ v.id \notin skipped_ids[n]
    BY DEF IInv, TypeOK, VotesBelowNext
  <2>4. \A i \in skipped_ids[n] : i \in Nat /\ i < id
    BY <2>1 DEF IInv, VotesBelowNext
  <2>5. \A v \in votes[n] : v.id # id /\ v.id \notin skipped_ids[n]
    BY <1>2, <2>3
  <2>6. id \notin skipped_ids[n] /\ \A i \in skipped_ids[n] : i < id + 1
    BY <1>2, <2>4
  <2> HIDE DEF id
  <2>7. next_change_id[n] <= id + 1
    BY <2>2 DEF id
  <2>8. /\ next_change_id' = [next_change_id EXCEPT ![n] = id + 1] /\ id \in Nat
        /\ votes' = [votes EXCEPT ![n] = @ \cup {[id |-> id, for |-> n]}]
    BY <1>2, <1>3
  <2>. QED BY <2>1, <2>2, <2>5, <2>6, <2>7, <2>8, VoteGiven
<1>. QED BY <1>8, <1>9, <1>10, <1>11, <1>12 DEF RoundKeeps

(* A step of a round that asks nothing gives away nothing.                 *)
LEMMA RoundStays ==
  ASSUME IInv, UNCHANGED <<next_change_id, votes, skipped_ids>>,
         queue' \in [Nodes -> Seq(QueueEntry)],
         rounds' \in [Nodes -> SUBSET Round], chan' \in Channels
  PROVE  RoundKeeps
<1>1. /\ next_change_id' \in [Nodes -> Nat]
      /\ votes' \in [Nodes -> SUBSET [id: Nat, for: Nodes]]
  BY DEF IInv, TypeOK
<1>2. \A n \in Nodes : next_change_id[n] <= next_change_id'[n]
  BY DEF IInv, TypeOK
<1>. QED BY <1>1, <1>2, VotesKept DEF RoundKeeps

LEMMA QuorumStepKeeps ==
  ASSUME IInv, NEW n \in Nodes, NEW m \in Nodes, NEW r \in rounds[n],
         NEW q \in QuorumRecords, NEW ch \in Channels,
         QuorumStep(n, r, m, q, ch), skipped_ids' = skipped_ids
  PROVE  RoundKeeps /\ reply' \in [Ops -> Replies]
<1>1. r \in Round /\ rounds[n] \in SUBSET Round /\ queue[n] \in Seq(QueueEntry)
  BY DEF IInv, TypeOK
<1>2. r.op \in Ops
  BY <1>1 DEF Round
<1>3. /\ [rounds EXCEPT ![n] = @ \ {r}] \in [Nodes -> SUBSET Round]
      /\ queue \in [Nodes -> Seq(QueueEntry)]
      /\ reply \in [Ops -> Replies]
      /\ [reply EXCEPT ![r.op] = "error"] \in [Ops -> Replies]
  BY <1>1, <1>2 DEF IInv, TypeOK, Replies
<1>4. CASE /\ rounds' = [rounds EXCEPT ![n] =
                           (@ \ {r}) \cup {[r EXCEPT !.q = q, !.wait = @ \ {m}]}]
           /\ chan' = ch
           /\ UNCHANGED <<next_change_id, queue, reply, votes>>
  <2> DEFINE s == [r EXCEPT !.q = q, !.wait = r.wait \ {m}]
  <2>1. s \in Round
    BY <1>1 DEF Round
  <2>2. rounds' = [rounds EXCEPT ![n] = (rounds[n] \ {r}) \cup {s}]
    BY <1>4 DEF IInv, TypeOK
  <2> HIDE DEF s
  <2>3. rounds' \in [Nodes -> SUBSET Round]
    BY <1>1, <2>1, <2>2 DEF IInv, TypeOK
  <2>. QED BY <1>3, <1>4, <2>3, RoundStays
<1>5. CASE OnWin(n, r, ch)
  <2> DEFINE s == queue[n]
             t == [i \in DOMAIN s |-> IF i \in MasterAt(s, r.op)
                                      THEN [s[i] EXCEPT !.ready = TRUE] ELSE s[i]]
  <2>1. t \in Seq(QueueEntry)
    BY <1>1, ReadyType
  <2>2. queue' = [queue EXCEPT ![n] = t]
    BY <1>5 DEF OnWin, IInv, TypeOK
  <2> HIDE DEF t
  <2>3. queue' \in [Nodes -> Seq(QueueEntry)]
    BY <1>3, <2>1, <2>2
  <2>. QED BY <1>3, <1>5, <2>3, RoundStays DEF OnWin
<1>6. CASE OnLose(n, r, ch)
  <2> DEFINE rest == Without(queue[n], MasterAt(queue[n], r.op))
  <2>1. rest \in Seq(QueueEntry)
    <3>1. MasterAt(queue[n], r.op) \in SUBSET (1 .. Len(queue[n]))
      BY DEF MasterAt
    <3>. QED BY <1>1, <3>1, WithoutType
  <2>2. CASE ReqChangeId(n, r.op, rest, ch, rounds[n] \ {r}) /\ UNCHANGED reply
    <3>1. rounds[n] \ {r} \in SUBSET Round
      BY <1>1
    <3>. QED BY <1>2, <1>3, <2>1, <2>2, <3>1, ReqChangeIdKeeps
  <2>3. CASE /\ rounds' = [rounds EXCEPT ![n] = @ \ {r}]
             /\ queue' = [queue EXCEPT ![n] = rest]
             /\ reply' = [reply EXCEPT ![r.op] = "error"]
             /\ chan' = ch
             /\ UNCHANGED <<next_change_id, votes>>
    <3> HIDE DEF rest
    <3>1. queue' \in [Nodes -> Seq(QueueEntry)]
      BY <1>3, <2>1, <2>3
    <3>. QED BY <1>3, <2>3, <3>1, RoundStays
  <2>. QED BY <1>6, <2>2, <2>3 DEF OnLose
<1>. QED BY <1>4, <1>5, <1>6 DEF QuorumStep
-----------------------------------------------------------------------------
(* One lemma per action.                                                   *)

LEMMA CreateNewChangeKeeps ==
  ASSUME IInv, NEW op \in Ops, CreateNewChange(op)
  PROVE  IInv'
<1> DEFINE n == Home[op]
<1>1. n \in Nodes
  BY HomeAssumption
<1>2. CASE /\ reply' = [reply EXCEPT ![op] = "waiting"]
           /\ ReqChangeId(n, op, queue[n], chan, rounds[n])
           /\ UNCHANGED <<ccid, skipped_ids, req_id, links, log>>
  <2> HIDE DEF n
  <2>1. queue[n] \in Seq(QueueEntry) /\ chan \in Channels /\ rounds[n] \in SUBSET Round
    BY <1>1 DEF IInv, TypeOK, Channels
  <2>2. RoundKeeps
    BY <1>1, <1>2, <2>1, ReqChangeIdKeeps
  <2>3. reply' \in [Ops -> Replies]
    BY <1>2 DEF IInv, TypeOK, Replies
  <2>. QED BY <1>2, <2>2, <2>3 DEF IInv, TypeOK, RoundKeeps, Channels
<1>3. CASE /\ reply' = [reply EXCEPT ![op] = "error"]
           /\ UNCHANGED <<ccid, next_change_id, skipped_ids, queue, rounds,
                          req_id, chan, links, log, votes>>
  <2>1. reply' \in [Ops -> Replies]
    BY <1>3 DEF IInv, TypeOK, Replies
  <2>. QED BY <1>3, <2>1 DEF IInv, TypeOK, VotesBelowNext, NoDoubleVote
<1>. QED BY <1>2, <1>3, Zenon DEF CreateNewChange

(* What ti_changes_accept_id answers: an id that is accepted was not given *)
(* away before, and cannot be given away again.                            *)
LEMMA AcceptIdFacts ==
  ASSUME IInv, NEW n \in Nodes, NEW id \in Nat
  PROVE  LET r == AcceptId(n, id) IN
         /\ r.answer \in {"accept", "reject", "collision"}
         /\ r.n \in Nat
         /\ r.next \in Nat /\ next_change_id[n] <= r.next
         /\ r.skipped \in SUBSET Nat
         /\ \A v \in votes[n] : v.id \notin r.skipped
         /\ \A i \in r.skipped : i < r.next
         /\ r.answer = "accept" =>
              /\ id < r.next /\ id \notin r.skipped
              /\ \A v \in votes[n] : v.id # id
<1> DEFINE next == next_change_id[n]
           queued == IdAt(queue[n], id)
           open == {i \in skipped_ids[n] : i > ccid[n]}
           r == AcceptId(n, id)
<1>1. next \in Nat /\ skipped_ids[n] \in SUBSET Nat /\ queue[n] \in Seq(QueueEntry)
  BY DEF IInv, TypeOK
<1>2. \A v \in votes[n] : v.id \in Nat /\ v.id < next /\ v.id \notin skipped_ids[n]
  BY DEF IInv, TypeOK, VotesBelowNext
<1>3. \A i \in skipped_ids[n] : i \in Nat /\ i < next
  BY <1>1 DEF IInv, VotesBelowNext
<1>4. CASE id >= next
  <2>1. r = [answer |-> "accept", n |-> 0, next |-> id + 1,
             skipped |-> skipped_ids[n] \cup (next .. id - 1)]
    BY <1>1, <1>4 DEF AcceptId
  <2> HIDE DEF r, next
  <2>2. \A v \in votes[n] : v.id # id /\ v.id \notin r.skipped
    BY <1>1, <1>2, <1>4, <2>1
  <2>3. \A i \in r.skipped : i \in Nat /\ i < id + 1 /\ i # id
    BY <1>1, <1>3, <1>4, <2>1
  <2>4. next <= id + 1 /\ id + 1 \in Nat /\ id < id + 1
    BY <1>1, <1>4
  <2>. QED BY <2>1, <2>2, <2>3, <2>4 DEF r, next
<1>5. CASE id < next /\ queued # {}
  <2> DEFINE i == CHOOSE j \in queued : TRUE
             c == queue[n][i]
  <2>1. i \in 1 .. Len(queue[n])
    BY <1>5 DEF IdAt
  <2>2. c \in QueueEntry
    BY <1>1, <2>1, ElementOfSeq
  <2>3. c.requests \in Nat
    BY <2>2 DEF QueueEntry
  <2>4. r = [answer |-> IF c.tp = "master" THEN "collision" ELSE "reject",
             n |-> c.requests, next |-> next, skipped |-> skipped_ids[n]]
    BY <1>1, <1>5 DEF AcceptId
  <2> HIDE DEF r, next, c
  <2>5. next <= next
    BY <1>1
  <2>. QED BY <1>1, <1>2, <1>3, <2>3, <2>4, <2>5 DEF r, next
<1>6. CASE id < next /\ queued = {}
  <2>1. r = [answer |-> IF id \in open THEN "accept" ELSE "reject",
             n |-> 0, next |-> next, skipped |-> open \ {id}]
    BY <1>1, <1>6 DEF AcceptId
  <2>2. open \subseteq skipped_ids[n]
    OBVIOUS
  <2> HIDE DEF r, next, open
  <2>3. next <= next
    BY <1>1
  <2>. QED BY <1>1, <1>2, <1>3, <1>6, <2>1, <2>2, <2>3 DEF r, next
<1>. QED BY <1>1, <1>4, <1>5, <1>6

LEMMA OnReqChangeIdKeeps ==
  ASSUME IInv, NEW m \in Nodes, NEW n \in Nodes, OnReqChangeId(m, n)
  PROVE  IInv'
<1> DEFINE id == Head(chan[<<m, n>>]).id
           r == AcceptId(n, id)
           res == [tp |-> "res", id |-> id, answer |-> r.answer, n |-> r.n]
<1>1. chan \in Channels
  BY DEF IInv, TypeOK, Channels
<1>2. Receive(m, n) \in Channels /\ id \in Nat
  <2>1. HeadIs(m, n, "req")
    BY DEF OnReqChangeId
  <2>. QED BY <1>1, <2>1, ReceiveType, MessageRead
<1>3. /\ next_change_id' = [next_change_id EXCEPT ![n] = r.next]
      /\ skipped_ids' = [skipped_ids EXCEPT ![n] = r.skipped]
      /\ chan' = Send(Receive(m, n), n, {m}, res)
      /\ votes' = IF r.answer = "accept"
                  THEN [votes EXCEPT ![n] = @ \cup {[id |-> id, for |-> m]}]
                  ELSE votes
      /\ UNCHANGED <<ccid, queue, rounds, req_id, links, reply, log>>
  BY DEF OnReqChangeId
<1> HIDE DEF id
<1>4. /\ r.answer \in {"accept", "reject", "collision"}
      /\ r.n \in Nat
      /\ r.next \in Nat /\ next_change_id[n] <= r.next
      /\ r.skipped \in SUBSET Nat
      /\ \A v \in votes[n] : v.id \notin r.skipped
      /\ \A i \in r.skipped : i < r.next
      /\ r.answer = "accept" =>
           /\ id < r.next /\ id \notin r.skipped
           /\ \A v \in votes[n] : v.id # id
  BY <1>2, AcceptIdFacts
<1> HIDE DEF r
<1>5. chan' \in Channels
  <2>1. res \in Message
    BY <1>2, <1>4, MessageMade
  <2> HIDE DEF res
  <2>. QED BY <1>2, <1>3, <2>1, SendType
<1>6. /\ next_change_id' \in [Nodes -> Nat]
      /\ skipped_ids' \in [Nodes -> SUBSET Nat]
  BY <1>3, <1>4 DEF IInv, TypeOK
<1>7. /\ votes' \in [Nodes -> SUBSET [id: Nat, for: Nodes]]
      /\ VotesBelowNext' /\ NoDoubleVote'
  <2>1. CASE r.answer = "accept"
    <3>1. votes' = [votes EXCEPT ![n] = @ \cup {[id |-> id, for |-> m]}]
      BY <1>3, <2>1
    <3>2. /\ next_change_id[n] <= r.next /\ id < r.next /\ id \notin r.skipped
          /\ \A v \in votes[n] : v.id # id /\ v.id \notin r.skipped
      BY <1>4, <2>1
    <3>3. r.next \in Nat /\ r.skipped \in SUBSET Nat /\ \A i \in r.skipped : i < r.next
      BY <1>4
    <3>4. /\ next_change_id' = [next_change_id EXCEPT ![n] = r.next]
          /\ skipped_ids' = [skipped_ids EXCEPT ![n] = r.skipped]
      BY <1>3
    <3>. QED BY <1>2, <3>1, <3>2, <3>3, <3>4, VoteGiven
  <2>2. CASE r.answer # "accept"
    <3>1. votes' = votes
      BY <1>3, <2>2
    <3>2. NoDoubleVote' /\ votes' \in [Nodes -> SUBSET [id: Nat, for: Nodes]]
      BY <3>1 DEF IInv, TypeOK, NoDoubleVote
    <3>3. VotesBelowNext'
      <4> SUFFICES ASSUME NEW k \in Nodes
                   PROVE  /\ \A v \in votes[k] : v.id < next_change_id'[k] /\ v.id \notin skipped_ids'[k]
                          /\ \A i \in skipped_ids'[k] : i < next_change_id'[k]
        BY <3>1 DEF VotesBelowNext
      <4>1. CASE k # n
        BY <1>3, <4>1 DEF IInv, TypeOK, VotesBelowNext
      <4>2. CASE k = n
        <5>1. next_change_id'[n] = r.next /\ skipped_ids'[n] = r.skipped
          BY <1>3 DEF IInv, TypeOK
        <5>2. \A v \in votes[n] : v.id \in Nat /\ v.id < next_change_id[n]
          BY DEF IInv, TypeOK, VotesBelowNext
        <5>3. next_change_id[n] \in Nat
          BY DEF IInv, TypeOK
        <5>4. \A v \in votes[n] : v.id < r.next
          BY <1>4, <5>2, <5>3
        <5>. QED BY <1>4, <4>2, <5>1, <5>4
      <4>. QED BY <4>1, <4>2
    <3>. QED BY <3>2, <3>3
  <2>. QED BY <2>1, <2>2
<1>. QED BY <1>3, <1>5, <1>6, <1>7 DEF IInv, TypeOK, Channels

(* Everything but what a round touches is as it was.                       *)
LEMMA RoundRest ==
  ASSUME IInv, RoundKeeps, reply' \in [Ops -> Replies],
         UNCHANGED <<ccid, skipped_ids, req_id, links, log>>
  PROVE  IInv'
BY DEF IInv, TypeOK, RoundKeeps, Channels

LEMMA OnResponseKeeps ==
  ASSUME IInv, NEW m \in Nodes, NEW n \in Nodes, OnResponse(m, n)
  PROVE  IInv'
<1> DEFINE a == Head(chan[<<m, n>>])
<1>1. chan \in Channels /\ HeadIs(m, n, "res")
  BY DEF IInv, TypeOK, Channels, OnResponse
<1>2. Receive(m, n) \in Channels /\ a \in Message /\ a.tp = "res"
  BY <1>1, ReceiveType
<1>3. a.answer \in Answers /\ a.n \in Nat
  BY <1>2, MessageRead DEF Answers
<1>4. UNCHANGED <<ccid, skipped_ids, req_id, links, log>>
  BY DEF OnResponse
<1>5. ASSUME NEW r \in rounds[n],
             QuorumStep(n, r, m, CountAnswer(r.q, a.answer, a.n, m < n), Receive(m, n))
      PROVE  IInv'
  <2> DEFINE q == CountAnswer(r.q, a.answer, a.n, m < n)
  <2>1. r.q \in QuorumRecords
    BY DEF IInv, TypeOK, Round
  <2>2. (m < n) \in BOOLEAN
    BY NodesAssumption
  <2>3. q \in QuorumRecords
    BY <1>3, <2>1, <2>2, CountAnswerType
  <2>4. RoundKeeps /\ reply' \in [Ops -> Replies]
    BY <1>2, <1>4, <1>5, <2>3, QuorumStepKeeps
  <2>. QED BY <1>4, <2>4, RoundRest
<1>6. CASE /\ chan' = Receive(m, n)
           /\ UNCHANGED <<next_change_id, queue, rounds, reply, votes>>
  <2>1. /\ queue' \in [Nodes -> Seq(QueueEntry)]
        /\ rounds' \in [Nodes -> SUBSET Round]
        /\ reply' \in [Ops -> Replies]
    BY <1>6 DEF IInv, TypeOK
  <2>2. RoundKeeps
    BY <1>2, <1>4, <1>6, <2>1, RoundStays
  <2>. QED BY <1>4, <2>1, <2>2, RoundRest
<1>. QED BY <1>5, <1>6 DEF OnResponse

LEMMA RequestFailsKeeps ==
  ASSUME IInv, NEW m \in Nodes, NEW n \in Nodes, RequestFails(n, m)
  PROVE  IInv'
<1>1. PICK r \in rounds[n] :
        QuorumStep(n, r, m, CountAnswer(r.q, "error", 0, FALSE), chan)
  BY DEF RequestFails
<1>2. UNCHANGED <<ccid, skipped_ids, req_id, links, log>>
  BY DEF RequestFails
<1>3. CountAnswer(r.q, "error", 0, FALSE) \in QuorumRecords
  <2>1. r.q \in QuorumRecords
    BY DEF IInv, TypeOK, Round
  <2>. QED BY <2>1, CountAnswerType DEF Answers
<1>4. chan \in Channels
  BY DEF IInv, TypeOK, Channels
<1>5. RoundKeeps /\ reply' \in [Ops -> Replies]
  BY <1>1, <1>2, <1>3, <1>4, QuorumStepKeeps
<1>. QED BY <1>2, <1>5, RoundRest

LEMMA AddChangeKeeps ==
  ASSUME IInv, NEW m \in Nodes, NEW n \in Nodes, AddChange(m, n)
  PROVE  IInv'
<1> DEFINE c == Head(chan[<<m, n>>])
           at == IdAt(queue[n], c.id)
           e == [id |-> c.id, op |-> c.op, tp |-> "cpkg", ready |-> TRUE,
                 requests |-> 0]
           fresh == c.id > ccid[n]
           taken == \E i \in at : queue[n][i].ready
<1>1. chan \in Channels /\ HeadIs(m, n, "cpkg")
  BY DEF IInv, TypeOK, Channels, AddChange
<1>2. Receive(m, n) \in Channels /\ c \in Message /\ c.tp = "cpkg"
  BY <1>1, ReceiveType
<1>3. c.id \in Nat /\ c.op \in Ops
  BY <1>2, MessageRead
<1>4. /\ chan' = Receive(m, n)
      /\ next_change_id' = [next_change_id EXCEPT ![n] =
           IF fresh /\ c.id >= @ THEN c.id + 1 ELSE @]
      /\ queue' = [queue EXCEPT ![n] =
           IF fresh /\ ~taken THEN Push(Without(queue[n], at), e) ELSE @]
      /\ UNCHANGED <<ccid, skipped_ids, rounds, req_id, links, reply, log, votes>>
  BY DEF AddChange
<1>5. queue[n] \in Seq(QueueEntry) /\ Push(Without(queue[n], at), e) \in Seq(QueueEntry)
  <2>1. queue[n] \in Seq(QueueEntry) /\ at \in SUBSET (1 .. Len(queue[n]))
    BY DEF IInv, TypeOK, IdAt
  <2>2. Without(queue[n], at) \in Seq(QueueEntry)
    BY <2>1, WithoutType
  <2>3. e \in QueueEntry
    BY <1>3 DEF QueueEntry
  <2>. QED BY <2>1, <2>2, <2>3, PushType
<1> HIDE DEF c, at, e, taken, fresh
<1>6. queue' \in [Nodes -> Seq(QueueEntry)]
  BY <1>4, <1>5 DEF IInv, TypeOK
<1>7. /\ next_change_id' \in [Nodes -> Nat]
      /\ \A k \in Nodes : next_change_id[k] <= next_change_id'[k]
  BY <1>3, <1>4 DEF IInv, TypeOK
<1>8. VotesBelowNext' /\ NoDoubleVote'
  BY <1>4, <1>7, VotesKept
<1>. QED BY <1>2, <1>4, <1>6, <1>7, <1>8 DEF IInv, TypeOK, Channels
-----------------------------------------------------------------------------
(* Steps that leave the next ids and the votes alone.                      *)
LEMMA VotesAlone ==
  ASSUME IInv, UNCHANGED <<next_change_id, skipped_ids, votes>>
  PROVE  VotesBelowNext' /\ NoDoubleVote'
BY DEF IInv, VotesBelowNext, NoDoubleVote

LEMMA RunFirstType ==
  ASSUME TypeOK, NEW n \in Nodes, queue[n] # <<>>, RunFirst(n, Head(queue[n]))
  PROVE  /\ ccid' \in [Nodes -> Nat]
         /\ log' \in [Nodes -> SUBSET [id: Nat, op: Ops]]
         /\ queue' \in [Nodes -> Seq(QueueEntry)]
         /\ chan' \in [Nodes \X Nodes -> Seq(Message)]
         /\ reply' \in [Ops -> Replies]
<1> DEFINE c == Head(queue[n])
           msg == [tp |-> "cpkg", id |-> c.id, op |-> c.op]
<1>1. queue[n] \in Seq(QueueEntry)
  BY DEF TypeOK
<1>2. c \in QueueEntry /\ Tail(queue[n]) \in Seq(QueueEntry)
  BY <1>1, HeadTailProperties
<1>3. c.id \in Nat /\ c.op \in Ops
  BY <1>2 DEF QueueEntry
<1>4. Send(chan, n, Peers(n), msg) \in Channels
  <2>1. msg \in Message
    BY <1>3, MessageMade
  <2>2. chan \in Channels
    BY DEF TypeOK, Channels
  <2> HIDE DEF msg
  <2>. QED BY <2>1, <2>2, SendType
<1>5. /\ ccid' = [ccid EXCEPT ![n] = c.id]
      /\ log' = [log EXCEPT ![n] = @ \cup {[id |-> c.id, op |-> c.op]}]
      /\ queue' = [queue EXCEPT ![n] = Tail(queue[n])]
      /\ \/ chan' = Send(chan, n, Peers(n), msg) /\ reply' = [reply EXCEPT ![c.op] = "ok"]
         \/ UNCHANGED <<chan, reply>>
  BY DEF RunFirst, TypeOK
<1> HIDE DEF c, msg
<1>6. ccid' \in [Nodes -> Nat] /\ log' \in [Nodes -> SUBSET [id: Nat, op: Ops]]
  BY <1>3, <1>5 DEF TypeOK
<1>7. queue' \in [Nodes -> Seq(QueueEntry)]
  BY <1>2, <1>5 DEF TypeOK
<1>8. chan' \in [Nodes \X Nodes -> Seq(Message)]
  BY <1>4, <1>5 DEF TypeOK, Channels
<1>9. reply' \in [Ops -> Replies]
  BY <1>3, <1>5 DEF TypeOK, Replies
<1>. QED BY <1>6, <1>7, <1>8, <1>9

LEMMA NodeStepKeeps ==
  ASSUME IInv, NEW n \in Nodes, NodeStep(n)
  PROVE  IInv'
<1>1. CASE LoopProcess(n)
  BY <1>1, RunFirstType, VotesAlone DEF LoopProcess, IInv, TypeOK
<1>2. CASE LoopKill(n)
  <2>1. Tail(queue[n]) \in Seq(QueueEntry)
    BY <1>2, HeadTailProperties DEF LoopKill, IInv, TypeOK
  <2>2. queue' \in [Nodes -> Seq(QueueEntry)]
    BY <1>2, <2>1 DEF LoopKill, IInv, TypeOK
  <2>. QED BY <1>2, <2>2, VotesAlone DEF LoopKill, IInv, TypeOK
<1>3. CASE LoopMissing(n)
  <2> DEFINE msg == [tp |-> "missing", id |-> ccid[n] + 1]
  <2>1. ccid[n] + 1 \in Nat
    BY DEF IInv, TypeOK
  <2>2. msg \in Message
    BY <2>1, MessageMade
  <2>3. PICK m \in Peers(n) : chan' = Send(chan, n, {m}, msg)
    BY <1>3 DEF LoopMissing
  <2> HIDE DEF msg
  <2>4. chan' \in [Nodes \X Nodes -> Seq(Message)]
    BY <2>2, <2>3, SendType DEF IInv, TypeOK, Channels
  <2>5. req_id' \in [Nodes -> Nat]
    BY <1>3, <2>1 DEF LoopMissing, IInv, TypeOK
  <2>. QED BY <1>3, <2>4, <2>5, VotesAlone DEF LoopMissing, IInv, TypeOK
<1>4. CASE LoopGap(n)
  <2>1. UNCHANGED <<next_change_id, skipped_ids, rounds, req_id, links, votes>>
    BY <1>4 DEF LoopGap
  <2>2. CASE RunFirst(n, Head(queue[n]))
    <3>1. queue[n] # <<>>
      BY <1>4 DEF LoopGap, Gap
    <3>. QED BY <2>1, <2>2, <3>1, RunFirstType, VotesAlone DEF IInv, TypeOK
  <2>3. CASE /\ ccid' = [ccid EXCEPT ![n] = @ + 1]
             /\ UNCHANGED <<queue, log, chan, reply>>
    <3>1. ccid' \in [Nodes -> Nat]
      BY <2>3 DEF IInv, TypeOK
    <3>. QED BY <2>1, <2>3, <3>1, VotesAlone DEF IInv, TypeOK
  <2>. QED BY <1>4, <2>2, <2>3 DEF LoopGap
<1>. QED BY <1>1, <1>2, <1>3, <1>4 DEF NodeStep

LEMMA OnMissingChangeKeeps ==
  ASSUME IInv, NEW m \in Nodes, NEW n \in Nodes, OnMissingChange(m, n)
  PROVE  IInv'
<1> DEFINE id == Head(chan[<<m, n>>]).id
<1>1. chan \in Channels /\ HeadIs(m, n, "missing")
  BY DEF IInv, TypeOK, Channels, OnMissingChange
<1>2. Receive(m, n) \in Channels /\ id \in Nat
  BY <1>1, ReceiveType, MessageRead
<1>3. chan' \in Channels
  <2>1. CASE chan' = Receive(m, n)
    BY <1>2, <2>1
  <2>2. ASSUME NEW e \in log[n],
               chan' = Send(Receive(m, n), n, {m}, [tp |-> "cpkg", id |-> id, op |-> e.op])
        PROVE  chan' \in Channels
    <3>1. e.op \in Ops
      BY DEF IInv, TypeOK
    <3> HIDE DEF id
    <3>2. [tp |-> "cpkg", id |-> id, op |-> e.op] \in Message
      BY <1>2, <3>1, MessageMade
    <3>. QED BY <1>2, <2>2, <3>2, SendType
  <2>. QED BY <2>1, <2>2 DEF OnMissingChange
<1>. QED BY <1>3, VotesAlone DEF OnMissingChange, IInv, TypeOK, Channels

LEMMA LinkKeeps ==
  ASSUME IInv, NEW p \in SUBSET Nodes, LinkDown(p) \/ LinkUp(p)
  PROVE  IInv'
<1>1. CASE LinkDown(p)
  <2>1. chan' \in [Nodes \X Nodes -> Seq(Message)]
    BY <1>1, EmptySeq DEF LinkDown, IInv, TypeOK
  <2>. QED BY <1>1, <2>1, VotesAlone DEF LinkDown, IInv, TypeOK
<1>2. CASE LinkUp(p)
  BY <1>2, VotesAlone DEF LinkUp, IInv, TypeOK
<1>. QED BY <1>1, <1>2
-----------------------------------------------------------------------------
LEMMA InitIInv == Init => IInv
<1> SUFFICES ASSUME Init PROVE IInv
  OBVIOUS
<1>1. TypeOK
  <2>1. <<>> \in Seq(QueueEntry) /\ <<>> \in Seq(Message)
    BY EmptySeq
  <2>. QED BY <2>1 DEF Init, TypeOK, FirstId, Replies
<1>2. VotesBelowNext /\ NoDoubleVote
  BY DEF Init, VotesBelowNext, NoDoubleVote
<1>. QED BY <1>1, <1>2 DEF IInv

LEMMA NextIInv == IInv /\ [Next]_vars => IInv'
<1> SUFFICES ASSUME IInv, [Next]_vars PROVE IInv'
  OBVIOUS
<1>1. ASSUME NEW op \in Ops, CreateNewChange(op) PROVE IInv'
  BY <1>1, CreateNewChangeKeeps
<1>2. ASSUME NEW n \in Nodes, NodeStep(n) PROVE IInv'
  BY <1>2, NodeStepKeeps
<1>3. ASSUME NEW m \in Nodes, NEW n \in Nodes, PackageStep(m, n) PROVE IInv'
  <2>1. CASE OnReqChangeId(m, n)
    BY <2>1, OnReqChangeIdKeeps
  <2>2. CASE OnResponse(m, n)
    BY <2>2, OnResponseKeeps
  <2>3. CASE AddChange(m, n)
    BY <2>3, AddChangeKeeps
  <2>4. CASE OnMissingChange(m, n)
    BY <2>4, OnMissingChangeKeeps
  <2>5. CASE RequestFails(m, n)
    BY <2>5, RequestFailsKeeps
  <2>. QED BY <1>3, <2>1, <2>2, <2>3, <2>4, <2>5 DEF PackageStep
<1>4. ASSUME NEW p \in SUBSET Nodes, LinkDown(p) \/ LinkUp(p) PROVE IInv'
  BY <1>4, LinkKeeps
<1>5. CASE UNCHANGED vars
  BY <1>5 DEF vars, IInv, TypeOK, VotesBelowNext, NoDoubleVote
<1>. QED BY <1>1, <1>2, <1>3, <1>4, <1>5 DEF Next

(* Every reachable state of the agreement on ids has the types of TypeOK:  *)
(* no handler of ti/changes.c reads an answer, a queue entry or a vote     *)
(* counter that is not one.                                                *)
THEOREM ChangesTypeCorrect == Spec => []TypeOK
<1>1. IInv => TypeOK
  BY DEF IInv
<1>. QED BY InitIInv, NextIInv, <1>1, PTL DEF Spec

(* No node ever gives one id to two nodes, in a cluster of any size, with  *)
(* lost connections, requests that time out, gaps that are skipped and     *)
(* changes that are killed: the promise of ti_changes_accept_id.           *)
THEOREM NoDoubleVoteHolds == Spec => []NoDoubleVote
<1>1. IInv => NoDoubleVote
  BY DEF IInv
<1>. QED BY InitIInv, NextIInv, <1>1, PTL DEF Spec
-----------------------------------------------------------------------------
(***************************************************************************)
(* The queue of changes and what becomes of a change: ids go up in every   *)
(* queue, a change is applied under one id, and clients are told the truth.*)
(***************************************************************************)

(* What a queue or a channel holds.                                        *)
Entries(s) == {s[i] : i \in 1 .. Len(s)}

(* The ids of a queue go up.                                               *)
Sorted(s) == \A i, j \in 1 .. Len(s) : i < j => s[i].id < s[j].id
-----------------------------------------------------------------------------
LEMMA EntryRead ==
  ASSUME NEW s \in Seq(QueueEntry)
  PROVE  /\ \A i \in 1 .. Len(s) : s[i] \in QueueEntry /\ s[i].id \in Nat
         /\ \A c \in Entries(s) : /\ c \in QueueEntry
                                  /\ c.id \in Nat /\ c.op \in Ops
                                  /\ c.tp \in {"master", "cpkg"} /\ c.ready \in BOOLEAN
<1>1. \A i \in 1 .. Len(s) : s[i] \in QueueEntry
  BY ElementOfSeq
<1>2. \A c \in QueueEntry : /\ c.id \in Nat /\ c.op \in Ops
                            /\ c.tp \in {"master", "cpkg"} /\ c.ready \in BOOLEAN
  BY DEF QueueEntry
<1>. QED BY <1>1, <1>2 DEF Entries

(* A set of positions that is closed downwards is an interval.             *)
LEMMA DownwardClosed ==
  ASSUME NEW L \in Nat, NEW B \in SUBSET (1 .. L),
         \A i \in 1 .. L, j \in B : i <= j => i \in B
  PROVE  Cardinality(B) \in 0 .. L /\ B = 1 .. Cardinality(B)
<1> DEFINE k == Cardinality(B)
<1>1. IsFiniteSet(1 .. L) /\ Cardinality(1 .. L) = L
  BY FS_Interval
<1>2. IsFiniteSet(B) /\ k \in Nat /\ k <= L
  BY <1>1, FS_Subset, FS_CardinalityType
<1>3. ASSUME NEW j \in B PROVE j <= k
  <2>1. 1 .. j \in SUBSET B
    OBVIOUS
  <2>2. Cardinality(1 .. j) = j
    BY FS_Interval
  <2>3. Cardinality(1 .. j) <= k
    BY <1>2, <2>1, FS_Subset
  <2>. QED BY <2>2, <2>3
<1>4. B \in SUBSET (1 .. k)
  BY <1>2, <1>3
<1>5. IsFiniteSet(1 .. k) /\ Cardinality(1 .. k) = k
  BY <1>2, FS_Interval
<1>6. B = 1 .. k
  BY <1>4, <1>5, FS_Subset
<1>. QED BY <1>2, <1>6

(* What is where after a change was put behind the first k ones.           *)
LEMMA InsertElements ==
  ASSUME NEW s \in Seq(QueueEntry), NEW c \in QueueEntry, NEW k \in 0 .. Len(s)
  PROVE  LET t == InsertAt(s, k + 1, c) IN
         /\ Len(t) = Len(s) + 1
         /\ \A i \in 1 .. k : t[i] = s[i]
         /\ t[k + 1] = c
         /\ \A i \in k + 1 .. Len(s) : t[i + 1] = s[i]
<1> DEFINE a == SubSeq(s, 1, k)
           b == SubSeq(s, k + 1, Len(s))
           t == InsertAt(s, k + 1, c)
<1>1. Len(s) \in Nat /\ k \in Nat /\ k <= Len(s) /\ \A i \in 1 .. Len(s) : s[i] \in QueueEntry
  BY LenProperties, ElementOfSeq
<1>2. /\ a \in Seq(QueueEntry) /\ Len(a) = k
      /\ \A i \in 1 .. k : a[i] = s[i]
  BY <1>1, SubSeqProperties
<1>3. /\ b \in Seq(QueueEntry) /\ Len(b) = Len(s) - k
      /\ \A i \in 1 .. Len(s) - k : b[i] = s[k + i]
  <2>1. \A i \in k + 1 .. Len(s) : s[i] \in QueueEntry
    BY <1>1
  <2>2. /\ b \in Seq(QueueEntry)
        /\ Len(b) = IF k + 1 <= Len(s) THEN Len(s) - (k + 1) + 1 ELSE 0
        /\ \A i \in 1 .. Len(s) - (k + 1) + 1 : b[i] = s[(k + 1) + i - 1]
    BY <1>1, <2>1, SubSeqProperties
  <2> HIDE DEF b
  <2>. QED BY <1>1, <2>2
<1>4. t = a \o <<c>> \o b
  <2>1. (k + 1) - 1 = k
    BY <1>1
  <2>. QED BY <2>1 DEF InsertAt
<1> HIDE DEF a, b, t
<1>5. <<c>> \in Seq(QueueEntry) /\ Len(<<c>>) = 1 /\ <<c>>[1] = c
  OBVIOUS
<1> DEFINE d == <<c>>
           u == a \o d
<1> HIDE DEF d
<1>6. /\ u \in Seq(QueueEntry) /\ Len(u) = k + 1
      /\ \A i \in 1 .. k + 1 : u[i] = IF i <= k THEN a[i] ELSE d[i - k]
  <2>1. d \in Seq(QueueEntry) /\ Len(d) = 1
    BY <1>5 DEF d
  <2>2. /\ u \in Seq(QueueEntry) /\ Len(u) = Len(a) + Len(d)
        /\ \A i \in 1 .. Len(a) + Len(d) :
             u[i] = IF i <= Len(a) THEN a[i] ELSE d[i - Len(a)]
    BY <1>2, <2>1, ConcatProperties
  <2>. QED BY <1>2, <2>1, <2>2
<1> HIDE DEF u
<1>7. /\ Len(t) = k + 1 + (Len(s) - k)
      /\ \A i \in 1 .. k + 1 + (Len(s) - k) : t[i] = IF i <= k + 1 THEN u[i] ELSE b[i - (k + 1)]
  <2>1. t = u \o b
    BY <1>4 DEF u, d
  <2>2. /\ Len(t) = Len(u) + Len(b)
        /\ \A i \in 1 .. Len(u) + Len(b) :
             t[i] = IF i <= Len(u) THEN u[i] ELSE b[i - Len(u)]
    BY <1>3, <1>6, <2>1, ConcatProperties
  <2>. QED BY <1>3, <1>6, <2>2
<1>8. Len(t) = Len(s) + 1
  BY <1>1, <1>7
<1>9. \A i \in 1 .. k : t[i] = s[i]
  BY <1>1, <1>2, <1>6, <1>7
<1>10. t[k + 1] = c
  <2>1. u[k + 1] = d[1]
    BY <1>1, <1>6
  <2>. QED BY <1>1, <1>5, <1>7, <2>1 DEF d
<1>11. ASSUME NEW i \in k + 1 .. Len(s) PROVE t[i + 1] = s[i]
  <2>1. t[i + 1] = b[(i + 1) - (k + 1)]
    BY <1>1, <1>7
  <2>2. (i + 1) - (k + 1) = i - k /\ i - k \in 1 .. Len(s) - k /\ k + (i - k) = i
    BY <1>1
  <2>. QED BY <1>3, <2>1, <2>2
<1>. QED BY <1>8, <1>9, <1>10, <1>11 DEF t

(* A change with an id that is not queued is pushed to its place.          *)
LEMMA PushFacts ==
  ASSUME NEW s \in Seq(QueueEntry), NEW c \in QueueEntry, Sorted(s),
         \A e \in Entries(s) : e.id # c.id
  PROVE  /\ Sorted(Push(s, c))
         /\ Entries(Push(s, c)) = Entries(s) \cup {c}
<1> DEFINE Before == {i \in 1 .. Len(s) : s[i].id <= c.id}
           k == Cardinality(Before)
           t == Push(s, c)
<1>1. Len(s) \in Nat /\ \A i \in 1 .. Len(s) : s[i] \in QueueEntry
  BY LenProperties, ElementOfSeq
<1>2. c.id \in Nat /\ \A i \in 1 .. Len(s) : s[i].id \in Nat /\ s[i].id # c.id
  BY <1>1 DEF QueueEntry, Entries
<1>3. \A i \in 1 .. Len(s), j \in Before : i <= j => i \in Before
  BY <1>1, <1>2 DEF Sorted
<1>4. k \in 0 .. Len(s) /\ Before = 1 .. k
  <2>1. Before \in SUBSET (1 .. Len(s))
    OBVIOUS
  <2> HIDE DEF Before
  <2>. QED BY <1>1, <1>3, <2>1, DownwardClosed
<1>5. t = InsertAt(s, k + 1, c)
  BY DEF Push
<1> HIDE DEF k, t
<1>6. /\ Len(t) = Len(s) + 1
      /\ \A i \in 1 .. k : t[i] = s[i]
      /\ t[k + 1] = c
      /\ \A i \in k + 1 .. Len(s) : t[i + 1] = s[i]
  BY <1>4, <1>5, InsertElements
<1>7. /\ \A i \in 1 .. k : s[i].id < c.id
      /\ \A i \in k + 1 .. Len(s) : c.id < s[i].id
  <2>1. \A i \in 1 .. Len(s) : i \in Before <=> s[i].id <= c.id
    OBVIOUS
  <2> HIDE DEF Before
  <2>2. \A i \in 1 .. Len(s) : i <= k <=> s[i].id <= c.id
    BY <1>1, <1>4, <2>1
  <2>. QED BY <1>1, <1>2, <1>4, <2>2
<1>8. \A i \in k + 2 .. Len(s) + 1 : t[i] = s[i - 1] /\ i - 1 \in k + 1 .. Len(s)
  <2> SUFFICES ASSUME NEW i \in k + 2 .. Len(s) + 1
               PROVE  t[i] = s[i - 1] /\ i - 1 \in k + 1 .. Len(s)
    OBVIOUS
  <2>1. i - 1 \in k + 1 .. Len(s) /\ (i - 1) + 1 = i
    BY <1>1, <1>4
  <2>. QED BY <1>6, <2>1
<1>9. Sorted(t)
  <2> SUFFICES ASSUME NEW i \in 1 .. Len(s) + 1, NEW j \in 1 .. Len(s) + 1, i < j
               PROVE  t[i].id < t[j].id
    BY <1>6 DEF Sorted
  <2>1. CASE j <= k
    <3>1. i \in 1 .. k /\ j \in 1 .. k /\ i \in 1 .. Len(s) /\ j \in 1 .. Len(s)
      BY <1>1, <1>4, <2>1
    <3>2. s[i].id < s[j].id
      BY <3>1 DEF Sorted
    <3>. QED BY <1>6, <3>1, <3>2
  <2>2. CASE j = k + 1
    BY <1>1, <1>4, <1>6, <1>7, <2>2
  <2>3. CASE j > k + 1
    <3>1. t[j] = s[j - 1] /\ j - 1 \in k + 1 .. Len(s)
      BY <1>1, <1>4, <1>8, <2>3
    <3>2. CASE i <= k
      <4>1. t[i] = s[i] /\ i < j - 1 /\ i \in 1 .. Len(s) /\ j - 1 \in 1 .. Len(s)
        BY <1>1, <1>4, <1>6, <2>3, <3>2
      <4>. QED BY <3>1, <4>1 DEF Sorted
    <3>3. CASE i = k + 1
      BY <1>6, <1>7, <3>1, <3>3
    <3>4. CASE i > k + 1
      <4>1. t[i] = s[i - 1] /\ i - 1 \in 1 .. Len(s) /\ j - 1 \in 1 .. Len(s) /\ i - 1 < j - 1
        BY <1>1, <1>4, <1>8, <2>3, <3>4
      <4>. QED BY <3>1, <4>1 DEF Sorted
    <3>. QED BY <1>4, <3>2, <3>3, <3>4
  <2>. QED BY <1>4, <2>1, <2>2, <2>3
<1>10. Entries(t) \subseteq Entries(s) \cup {c}
  <2> SUFFICES ASSUME NEW i \in 1 .. Len(s) + 1 PROVE t[i] \in Entries(s) \cup {c}
    BY <1>6 DEF Entries
  <2>1. CASE i <= k
    BY <1>1, <1>4, <1>6, <2>1 DEF Entries
  <2>2. CASE i = k + 1
    BY <1>6, <2>2
  <2>3. CASE i > k + 1
    <3>1. t[i] = s[i - 1] /\ i - 1 \in 1 .. Len(s)
      BY <1>1, <1>4, <1>8, <2>3
    <3>. QED BY <3>1 DEF Entries
  <2>. QED BY <1>4, <2>1, <2>2, <2>3
<1>11. Entries(s) \cup {c} \subseteq Entries(t)
  <2>1. c \in Entries(t)
    BY <1>1, <1>4, <1>6 DEF Entries
  <2>2. ASSUME NEW i \in 1 .. Len(s) PROVE s[i] \in Entries(t)
    <3>1. CASE i <= k
      BY <1>1, <1>4, <1>6, <3>1 DEF Entries
    <3>2. CASE i > k
      <4>1. s[i] = t[i + 1] /\ i + 1 \in 1 .. Len(t)
        BY <1>1, <1>4, <1>6, <3>2
      <4>. QED BY <4>1 DEF Entries
    <3>. QED BY <1>4, <3>1, <3>2
  <2>. QED BY <2>1, <2>2 DEF Entries
<1>. QED BY <1>9, <1>10, <1>11 DEF t

(* One change is taken out of a queue, at a place of At; the queue is as   *)
(* it was when there is no such place.                                     *)
LEMMA WithoutFacts ==
  ASSUME NEW s \in Seq(QueueEntry), NEW At \in SUBSET (1 .. Len(s)), Sorted(s)
  PROVE  /\ Sorted(Without(s, At))
         /\ At = {} => Without(s, At) = s
         /\ At # {} => \E i \in At : Entries(Without(s, At)) = Entries(s) \ {s[i]}
<1>1. CASE At = {}
  BY <1>1 DEF Without
<1>2. CASE At # {}
  <2> DEFINE i == CHOOSE j \in At : TRUE
             a == SubSeq(s, 1, i - 1)
             b == SubSeq(s, i + 1, Len(s))
             t == Without(s, At)
  <2>1. i \in At /\ i \in 1 .. Len(s) /\ Len(s) \in Nat
    BY <1>2, LenProperties
  <2>2. t = a \o b
    BY <1>2 DEF Without, RemoveAt
  <2> HIDE DEF i
  <2>3. \A j \in 1 .. Len(s) : s[j] \in QueueEntry /\ s[j].id \in Nat
    BY EntryRead
  <2>4. /\ a \in Seq(QueueEntry) /\ Len(a) = i - 1
        /\ \A j \in 1 .. i - 1 : a[j] = s[j]
    <3>1. \A j \in 1 .. i - 1 : s[j] \in QueueEntry
      BY <2>1, <2>3
    <3>2. /\ a \in Seq(QueueEntry) /\ Len(a) = IF 1 <= i - 1 THEN (i - 1) - 1 + 1 ELSE 0
          /\ \A j \in 1 .. (i - 1) - 1 + 1 : a[j] = s[1 + j - 1]
      BY <2>1, <3>1, SubSeqProperties
    <3> HIDE DEF a
    <3>. QED BY <2>1, <3>2
  <2>5. /\ b \in Seq(QueueEntry) /\ Len(b) = Len(s) - i
        /\ \A j \in 1 .. Len(s) - i : b[j] = s[i + j]
    <3>1. \A j \in i + 1 .. Len(s) : s[j] \in QueueEntry
      BY <2>1, <2>3
    <3>2. /\ b \in Seq(QueueEntry)
          /\ Len(b) = IF i + 1 <= Len(s) THEN Len(s) - (i + 1) + 1 ELSE 0
          /\ \A j \in 1 .. Len(s) - (i + 1) + 1 : b[j] = s[(i + 1) + j - 1]
      BY <2>1, <3>1, SubSeqProperties
    <3> HIDE DEF b
    <3>. QED BY <2>1, <3>2
  <2> HIDE DEF a, b, t
  <2>6. /\ Len(t) = Len(a) + Len(b)
        /\ \A j \in 1 .. Len(a) + Len(b) : t[j] = IF j <= Len(a) THEN a[j] ELSE b[j - Len(a)]
    BY <2>2, <2>4, <2>5, ConcatProperties
  <2>7. Len(t) = Len(s) - 1
    BY <2>1, <2>4, <2>5, <2>6
  <2>8. \A j \in 1 .. i - 1 : t[j] = s[j]
    BY <2>1, <2>4, <2>5, <2>6
  <2>9. ASSUME NEW j \in i .. Len(s) - 1 PROVE t[j] = s[j + 1]
    <3>1. t[j] = b[j - (i - 1)]
      <4>1. j \in 1 .. Len(a) + Len(b) /\ ~(j <= Len(a)) /\ Len(a) = i - 1
        BY <2>1, <2>4, <2>5
      <4>. QED BY <2>6, <4>1
    <3>2. j - (i - 1) \in 1 .. Len(s) - i /\ i + (j - (i - 1)) = j + 1
      BY <2>1
    <3>. QED BY <2>5, <3>1, <3>2
  <2>10. Sorted(t)
    <3> SUFFICES ASSUME NEW j \in 1 .. Len(s) - 1, NEW k \in 1 .. Len(s) - 1, j < k
                 PROVE  t[j].id < t[k].id
      BY <2>7 DEF Sorted
    <3>1. CASE k < i
      BY <2>1, <2>8, <3>1 DEF Sorted
    <3>2. CASE j < i /\ k >= i
      <4>1. t[j] = s[j] /\ t[k] = s[k + 1] /\ j < k + 1 /\ j \in 1 .. Len(s) /\ k + 1 \in 1 .. Len(s)
        BY <2>1, <2>8, <2>9, <3>2
      <4>. QED BY <4>1 DEF Sorted
    <3>3. CASE j >= i
      <4>1. /\ t[j] = s[j + 1] /\ t[k] = s[k + 1] /\ j + 1 < k + 1
            /\ j + 1 \in 1 .. Len(s) /\ k + 1 \in 1 .. Len(s)
        BY <2>1, <2>9, <3>3
      <4>. QED BY <4>1 DEF Sorted
    <3>. QED BY <2>1, <3>1, <3>2, <3>3
  <2>11. ASSUME NEW j \in 1 .. Len(s), j # i PROVE s[j] # s[i]
    <3>1. s[j].id < s[i].id \/ s[i].id < s[j].id
      BY <2>1, <2>11 DEF Sorted
    <3>. QED BY <2>1, <2>3, <3>1
  <2>12. Entries(t) \subseteq Entries(s) \ {s[i]}
    <3> SUFFICES ASSUME NEW j \in 1 .. Len(s) - 1 PROVE t[j] \in Entries(s) \ {s[i]}
      BY <2>7 DEF Entries
    <3>1. CASE j < i
      BY <2>1, <2>8, <2>11, <3>1 DEF Entries
    <3>2. CASE j >= i
      <4>1. t[j] = s[j + 1] /\ j + 1 \in 1 .. Len(s) /\ j + 1 # i
        BY <2>1, <2>9, <3>2
      <4>. QED BY <2>11, <4>1 DEF Entries
    <3>. QED BY <2>1, <3>1, <3>2
  <2>13. Entries(s) \ {s[i]} \subseteq Entries(t)
    <3> SUFFICES ASSUME NEW j \in 1 .. Len(s), j # i PROVE s[j] \in Entries(t)
      BY DEF Entries
    <3>1. CASE j < i
      BY <2>1, <2>7, <2>8, <3>1 DEF Entries
    <3>2. CASE j > i
      <4>1. j - 1 \in i .. Len(s) - 1 /\ (j - 1) + 1 = j /\ j - 1 \in 1 .. Len(t)
        BY <2>1, <2>7, <3>2
      <4>2. t[j - 1] = s[j]
        BY <2>9, <4>1
      <4>. QED BY <4>1, <4>2 DEF Entries
    <3>. QED BY <2>1, <3>1, <3>2
  <2>. QED BY <1>2, <2>1, <2>10, <2>12, <2>13 DEF t
<1>. QED BY <1>1, <1>2

(* The first change is taken out of a queue: the others have higher ids.   *)
LEMMA TailFacts ==
  ASSUME NEW s \in Seq(QueueEntry), s # <<>>, Sorted(s)
  PROVE  /\ Sorted(Tail(s))
         /\ Head(s) \in Entries(s)
         /\ Entries(Tail(s)) = Entries(s) \ {Head(s)}
         /\ \A e \in Entries(s) : e = Head(s) \/ Head(s).id < e.id
<1>1. Len(s) \in Nat /\ Len(s) >= 1 /\ Head(s) = s[1]
  BY LenProperties, EmptySeq
<1>2. Len(Tail(s)) = Len(s) - 1 /\ \A i \in 1 .. Len(s) - 1 : Tail(s)[i] = s[i + 1]
  BY <1>1, HeadTailProperties
<1>3. \A i \in 1 .. Len(s) : s[i].id \in Nat
  BY EntryRead
<1>4. Head(s) \in Entries(s)
  BY <1>1 DEF Entries
<1>5. \A i \in 1 .. Len(s) : i = 1 \/ s[1].id < s[i].id
  BY <1>1 DEF Sorted
<1>6. \A e \in Entries(s) : e = Head(s) \/ Head(s).id < e.id
  BY <1>1, <1>5 DEF Entries
<1>7. Sorted(Tail(s))
  <2> SUFFICES ASSUME NEW i \in 1 .. Len(s) - 1, NEW j \in 1 .. Len(s) - 1, i < j
               PROVE  s[i + 1].id < s[j + 1].id
    BY <1>2 DEF Sorted
  <2>1. i + 1 \in 1 .. Len(s) /\ j + 1 \in 1 .. Len(s) /\ i + 1 < j + 1
    BY <1>1
  <2>. QED BY <2>1 DEF Sorted
<1>8. Entries(Tail(s)) \subseteq Entries(s) \ {Head(s)}
  <2> SUFFICES ASSUME NEW i \in 1 .. Len(s) - 1 PROVE s[i + 1] \in Entries(s) \ {s[1]}
    BY <1>1, <1>2 DEF Entries
  <2>1. i + 1 \in 1 .. Len(s) /\ i + 1 # 1
    BY <1>1
  <2>2. s[1].id < s[i + 1].id /\ s[1].id \in Nat
    BY <1>1, <1>3, <1>5, <2>1
  <2>3. s[i + 1] # s[1]
    BY <2>2
  <2>. QED BY <2>1, <2>3 DEF Entries
<1>9. Entries(s) \ {Head(s)} \subseteq Entries(Tail(s))
  <2> SUFFICES ASSUME NEW i \in 1 .. Len(s), i # 1 PROVE s[i] \in Entries(Tail(s))
    BY <1>1 DEF Entries
  <2>1. i - 1 \in 1 .. Len(s) - 1 /\ (i - 1) + 1 = i
    BY <1>1
  <2>2. Tail(s)[i - 1] = s[i]
    BY <1>2, <2>1
  <2>. QED BY <1>2, <2>1, <2>2 DEF Entries
<1>. QED BY <1>4, <1>6, <1>7, <1>8, <1>9

(* The entry of a change that won becomes ready, the rest stays.           *)
Readied(c, op) == IF c.tp = "master" /\ c.op = op THEN [c EXCEPT !.ready = TRUE] ELSE c

LEMMA ReadyFacts ==
  ASSUME NEW s \in Seq(QueueEntry), NEW op, Sorted(s)
  PROVE  LET t == [i \in DOMAIN s |-> IF i \in MasterAt(s, op)
                                      THEN [s[i] EXCEPT !.ready = TRUE] ELSE s[i]]
         IN  Sorted(t) /\ Entries(t) = {Readied(c, op) : c \in Entries(s)}
<1> DEFINE t == [i \in DOMAIN s |-> IF i \in MasterAt(s, op)
                                    THEN [s[i] EXCEPT !.ready = TRUE] ELSE s[i]]
<1>1. Len(s) \in Nat /\ DOMAIN s = 1 .. Len(s) /\ \A i \in 1 .. Len(s) : s[i] \in QueueEntry
  BY LenProperties, ElementOfSeq
<1>2. Len(t) = Len(s)
  <2>1. t \in Seq(QueueEntry) /\ DOMAIN t = 1 .. Len(s)
    BY <1>1, ReadyType
  <2> HIDE DEF t
  <2>. QED BY <1>1, <2>1, LenProperties
<1>3. \A i \in 1 .. Len(s) : t[i] = Readied(s[i], op)
  BY <1>1 DEF Readied, MasterAt
<1>4. \A c \in QueueEntry : Readied(c, op).id = c.id
  BY DEF Readied, QueueEntry
<1> HIDE DEF t
<1>5. \A i \in 1 .. Len(s) : t[i].id = s[i].id
  BY <1>1, <1>3, <1>4
<1>6. Sorted(t)
  BY <1>2, <1>5 DEF Sorted
<1>7. Entries(t) = {Readied(c, op) : c \in Entries(s)}
  BY <1>2, <1>3 DEF Entries
<1>. QED BY <1>6, <1>7 DEF t
-----------------------------------------------------------------------------
(* IdsInOrder in terms of what a queue holds.                              *)
InOrder(s, lo, hi) == Sorted(s) /\ \A c \in Entries(s) : lo < c.id /\ c.id < hi

QueuesInOrder ==
  \A n \in Nodes :
    /\ ccid[n] < next_change_id[n]
    /\ InOrder(queue[n], ccid[n], next_change_id[n])

OInv == IInv /\ QueuesInOrder

(* Asking for the next id puts the change behind the rest of the queue,    *)
(* with a round unless it is ready at once.                                *)
Asked(n, op, rest, others) ==
  \E c \in QueueEntry :
    /\ c.id = next_change_id[n] /\ c.op = op /\ c.tp = "master"
    /\ Entries(queue'[n]) = Entries(rest) \cup {c}
    /\ \/ rounds'[n] = others
       \/ /\ ~c.ready
          /\ \E r \in Round : r.op = op /\ rounds'[n] = others \cup {r}

LEMMA ReqChangeIdFacts ==
  ASSUME TypeOK, NEW n \in Nodes, NEW op \in Ops, NEW rest \in Seq(QueueEntry),
         NEW ch, NEW others, ReqChangeId(n, op, rest, ch, others),
         Sorted(rest), \A e \in Entries(rest) : e.id < next_change_id[n]
  PROVE  /\ next_change_id' = [next_change_id EXCEPT ![n] = @ + 1]
         /\ \A k \in Nodes \ {n} : queue'[k] = queue[k] /\ rounds'[k] = rounds[k]
         /\ Sorted(queue'[n])
         /\ Asked(n, op, rest, others)
         /\ chan' = Send(ch, n, Peers(n), [tp |-> "req", id |-> next_change_id[n]])
<1> DEFINE id == next_change_id[n]
           q == ShrinkBy(QuorumNew(Cardinality(Nodes), NodesQuorum(n)),
                         Cardinality(Nodes) - 1 - Cardinality(Peers(n)))
           won == QuorumGo(q) = "win"
           c == [id |-> id, op |-> op, tp |-> "master", ready |-> won,
                 requests |-> q.requests]
           r == [id |-> id, op |-> op, q |-> q, wait |-> Peers(n)]
<1>1. q \in QuorumRecords /\ id \in Nat
  BY NewRoundType DEF TypeOK
<1>2. /\ next_change_id' = [next_change_id EXCEPT ![n] = id + 1]
      /\ queue' = [queue EXCEPT ![n] = Push(rest, c)]
      /\ rounds' = [rounds EXCEPT ![n] = IF won THEN others ELSE others \cup {r}]
      /\ chan' = Send(ch, n, Peers(n), [tp |-> "req", id |-> id])
  BY Zenon DEF ReqChangeId
<1>3. won \in BOOLEAN
  OBVIOUS
<1> HIDE DEF q, won
<1>4. c \in QueueEntry
  <2>1. q.requests \in Nat
    BY <1>1 DEF QuorumRecords
  <2>. QED BY <1>1, <1>3, <2>1 DEF QueueEntry
<1>5. r \in Round /\ r.op = op
  BY <1>1 DEF Round, Peers
<1>6. c.id = id /\ c.op = op /\ c.tp = "master" /\ c.ready = won
  OBVIOUS
<1> HIDE DEF c, r
<1>7. \A e \in Entries(rest) : e.id # c.id
  BY <1>1, <1>6, EntryRead
<1>8. Sorted(Push(rest, c)) /\ Entries(Push(rest, c)) = Entries(rest) \cup {c}
  BY <1>4, <1>7, PushFacts
<1>9. /\ queue'[n] = Push(rest, c)
      /\ rounds'[n] = IF won THEN others ELSE others \cup {r}
      /\ \A k \in Nodes \ {n} : queue'[k] = queue[k] /\ rounds'[k] = rounds[k]
  BY <1>2 DEF TypeOK
<1>10. Asked(n, op, rest, others)
  BY <1>4, <1>5, <1>6, <1>8, <1>9 DEF Asked
<1>. QED BY <1>2, <1>8, <1>9, <1>10

(* What the queue of a master that lost holds before it asks again: the    *)
(* same, without the entry of the change that lost.                        *)
LEMMA LostFacts ==
  ASSUME NEW s \in Seq(QueueEntry), NEW op, Sorted(s),
         \A c, d \in Entries(s) :
           c.tp = "master" /\ d.tp = "master" /\ c.op = op /\ d.op = op => c = d
  PROVE  LET rest == Without(s, MasterAt(s, op)) IN
         Entries(rest) = {c \in Entries(s) : ~(c.tp = "master" /\ c.op = op)}
<1> DEFINE At == MasterAt(s, op)
           rest == Without(s, At)
<1>1. At \in SUBSET (1 .. Len(s))
  BY DEF MasterAt
<1>2. \A i \in 1 .. Len(s) : i \in At <=> s[i].tp = "master" /\ s[i].op = op
  BY DEF MasterAt
<1>3. CASE At = {}
  <2>1. rest = s
    BY <1>1, <1>3, WithoutFacts
  <2>. QED BY <1>2, <1>3, <2>1 DEF Entries
<1>4. CASE At # {}
  <2>1. PICK i \in At : Entries(rest) = Entries(s) \ {s[i]}
    BY <1>1, <1>4, WithoutFacts
  <2>2. s[i] \in Entries(s) /\ s[i].tp = "master" /\ s[i].op = op
    BY <1>1, <1>2 DEF Entries
  <2> HIDE DEF rest
  <2>3. \A c \in Entries(s) : c = s[i] <=> c.tp = "master" /\ c.op = op
    BY <2>2
  <2>4. Entries(rest) = {c \in Entries(s) : ~(c.tp = "master" /\ c.op = op)}
    BY <2>1, <2>3
  <2>. QED BY <2>4 DEF rest
<1>. QED BY <1>3, <1>4

(* The queue without the change of an id.                                  *)
LEMMA IdGone ==
  ASSUME NEW s \in Seq(QueueEntry), NEW id, Sorted(s)
  PROVE  LET rest == Without(s, IdAt(s, id)) IN
         /\ Sorted(rest)
         /\ Entries(rest) = {c \in Entries(s) : c.id # id}
<1> DEFINE At == IdAt(s, id)
           rest == Without(s, At)
<1>1. At \in SUBSET (1 .. Len(s)) /\ \A i \in 1 .. Len(s) : i \in At <=> s[i].id = id
  BY DEF IdAt
<1>2. Sorted(rest)
  BY <1>1, WithoutFacts
<1>3. CASE At = {}
  <2>1. rest = s
    BY <1>1, <1>3, WithoutFacts
  <2>. QED BY <1>1, <1>2, <1>3, <2>1 DEF Entries
<1>4. CASE At # {}
  <2>1. PICK i \in At : Entries(rest) = Entries(s) \ {s[i]}
    BY <1>1, <1>4, WithoutFacts
  <2>2. i \in 1 .. Len(s) /\ s[i] \in Entries(s) /\ s[i].id = id
    BY <1>1 DEF Entries
  <2>3. ASSUME NEW j \in 1 .. Len(s), s[j].id = id PROVE s[j] = s[i]
    <3>1. ~(s[i].id < s[j].id) /\ ~(s[j].id < s[i].id)
      BY <2>2, <2>3, EntryRead
    <3>2. i = j
      BY <2>2, <3>1, LenProperties DEF Sorted
    <3>. QED BY <3>2
  <2> HIDE DEF rest
  <2>4. \A c \in Entries(s) : c = s[i] <=> c.id = id
    BY <2>2, <2>3 DEF Entries
  <2>5. Entries(rest) = {c \in Entries(s) : c.id # id}
    BY <2>1, <2>4
  <2>. QED BY <1>2, <2>5 DEF rest
<1>. QED BY <1>3, <1>4
-----------------------------------------------------------------------------
(* Every step keeps the queues in order.                                   *)

(* Only the queue and the ids of node n change.                            *)
LEMMA OneQueue ==
  ASSUME QueuesInOrder, NEW n \in Nodes,
         \A k \in Nodes \ {n} : /\ ccid'[k] = ccid[k] /\ queue'[k] = queue[k]
                                /\ next_change_id'[k] = next_change_id[k],
         ccid'[n] < next_change_id'[n],
         InOrder(queue'[n], ccid'[n], next_change_id'[n])
  PROVE  QueuesInOrder'
<1> SUFFICES ASSUME NEW k \in Nodes
             PROVE  /\ ccid'[k] < next_change_id'[k]
                    /\ InOrder(queue'[k], ccid'[k], next_change_id'[k])
  BY DEF QueuesInOrder, InOrder, Sorted, Entries
<1>1. CASE k = n
  BY <1>1
<1>2. CASE k # n
  <2>1. ccid'[k] = ccid[k] /\ queue'[k] = queue[k] /\ next_change_id'[k] = next_change_id[k]
    BY <1>2
  <2>. QED BY <2>1 DEF QueuesInOrder
<1>. QED BY <1>1, <1>2

LEMMA QueuesAlone ==
  ASSUME QueuesInOrder, UNCHANGED <<ccid, next_change_id, queue>>
  PROVE  QueuesInOrder'
BY DEF QueuesInOrder, InOrder, Sorted, Entries

(* A question for the next id, after some changes left the queue.          *)
LEMMA ReqChangeIdOrdered ==
  ASSUME OInv, NEW n \in Nodes, NEW op \in Ops, NEW rest \in Seq(QueueEntry),
         NEW ch, NEW others, ReqChangeId(n, op, rest, ch, others), ccid' = ccid,
         Sorted(rest), Entries(rest) \subseteq Entries(queue[n])
  PROVE  QueuesInOrder'
<1>1. TypeOK /\ QueuesInOrder
  BY DEF OInv, IInv
<1>2. next_change_id[n] \in Nat /\ ccid[n] \in Nat /\ ccid[n] < next_change_id[n]
  BY <1>1 DEF TypeOK, QueuesInOrder
<1>3. \A e \in Entries(rest) : e.id \in Nat /\ ccid[n] < e.id /\ e.id < next_change_id[n]
  BY <1>1, EntryRead DEF QueuesInOrder, InOrder
<1>4. /\ next_change_id' = [next_change_id EXCEPT ![n] = @ + 1]
      /\ \A k \in Nodes \ {n} : queue'[k] = queue[k]
      /\ Sorted(queue'[n])
      /\ Asked(n, op, rest, others)
  BY <1>1, <1>3, ReqChangeIdFacts
<1>5. /\ next_change_id'[n] = next_change_id[n] + 1
      /\ \A k \in Nodes \ {n} : next_change_id'[k] = next_change_id[k]
  BY <1>1, <1>4 DEF TypeOK
<1>6. PICK c \in QueueEntry : c.id = next_change_id[n] /\ Entries(queue'[n]) = Entries(rest) \cup {c}
  BY <1>4 DEF Asked
<1>7. \A e \in Entries(queue'[n]) : ccid[n] < e.id /\ e.id < next_change_id[n] + 1
  BY <1>2, <1>3, <1>6
<1>8. InOrder(queue'[n], ccid'[n], next_change_id'[n])
  BY <1>4, <1>5, <1>7 DEF InOrder
<1>. QED BY <1>1, <1>2, <1>4, <1>5, <1>8, OneQueue

LEMMA QuorumStepOrdered ==
  ASSUME OInv, NEW n \in Nodes, NEW m \in Nodes, NEW r \in rounds[n], NEW q, NEW ch,
         QuorumStep(n, r, m, q, ch), ccid' = ccid
  PROVE  QueuesInOrder'
<1>1. TypeOK /\ QueuesInOrder
  BY DEF OInv, IInv
<1>2. /\ queue[n] \in Seq(QueueEntry) /\ r.op \in Ops
      /\ ccid[n] < next_change_id[n]
      /\ Sorted(queue[n])
      /\ \A c \in Entries(queue[n]) : ccid[n] < c.id /\ c.id < next_change_id[n]
  BY <1>1 DEF TypeOK, Round, QueuesInOrder, InOrder
<1>3. CASE UNCHANGED <<next_change_id, queue>>
  BY <1>1, <1>3, QueuesAlone
<1>4. CASE OnWin(n, r, ch)
  <2> DEFINE s == queue[n]
             t == [i \in DOMAIN s |-> IF i \in MasterAt(s, r.op)
                                      THEN [s[i] EXCEPT !.ready = TRUE] ELSE s[i]]
  <2>1. Sorted(t) /\ Entries(t) = {Readied(c, r.op) : c \in Entries(s)}
    BY <1>2, ReadyFacts
  <2>2. queue' = [queue EXCEPT ![n] = t] /\ next_change_id' = next_change_id
    BY <1>1, <1>4 DEF OnWin, TypeOK
  <2> HIDE DEF t
  <2>3. queue'[n] = t /\ \A k \in Nodes \ {n} : queue'[k] = queue[k]
    BY <1>1, <2>2 DEF TypeOK
  <2>4. \A c \in QueueEntry : Readied(c, r.op).id = c.id
    BY DEF Readied, QueueEntry
  <2>5. \A c \in Entries(t) : ccid[n] < c.id /\ c.id < next_change_id[n]
    BY <1>2, <2>1, <2>4, EntryRead
  <2>6. InOrder(queue'[n], ccid'[n], next_change_id'[n])
    BY <2>1, <2>2, <2>3, <2>5 DEF InOrder
  <2>. QED BY <1>1, <1>2, <2>2, <2>3, <2>6, OneQueue
<1>5. CASE OnLose(n, r, ch)
  <2> DEFINE rest == Without(queue[n], MasterAt(queue[n], r.op))
  <2>1. MasterAt(queue[n], r.op) \in SUBSET (1 .. Len(queue[n]))
    BY DEF MasterAt
  <2>2. rest \in Seq(QueueEntry) /\ Sorted(rest) /\ Entries(rest) \subseteq Entries(queue[n])
    BY <1>2, <2>1, WithoutType, WithoutFacts
  <2>3. CASE ReqChangeId(n, r.op, rest, ch, rounds[n] \ {r})
    BY <1>2, <2>2, <2>3, ReqChangeIdOrdered
  <2>4. CASE queue' = [queue EXCEPT ![n] = rest] /\ UNCHANGED next_change_id
    <3> HIDE DEF rest
    <3>1. queue'[n] = rest /\ \A k \in Nodes \ {n} : queue'[k] = queue[k]
      BY <1>1, <2>4 DEF TypeOK
    <3>2. InOrder(queue'[n], ccid'[n], next_change_id'[n])
      BY <1>2, <2>2, <2>4, <3>1 DEF InOrder
    <3>. QED BY <1>1, <1>2, <2>4, <3>1, <3>2, OneQueue
  <2>. QED BY <1>5, <2>3, <2>4 DEF OnLose
<1>. QED BY <1>3, <1>4, <1>5 DEF QuorumStep

LEMMA PackageStepOrdered ==
  ASSUME OInv, NEW m \in Nodes, NEW n \in Nodes, PackageStep(m, n)
  PROVE  QueuesInOrder'
<1>1. TypeOK /\ QueuesInOrder /\ IInv
  BY DEF OInv, IInv
<1>2. CASE OnReqChangeId(m, n)
  <2> DEFINE id == Head(chan[<<m, n>>]).id
             r == AcceptId(n, id)
  <2>1. id \in Nat
    BY <1>1, <1>2, ReceiveType, MessageRead DEF OnReqChangeId, TypeOK, Channels
  <2>2. next_change_id' = [next_change_id EXCEPT ![n] = r.next] /\ UNCHANGED <<ccid, queue>>
    BY <1>2 DEF OnReqChangeId
  <2> HIDE DEF id
  <2>3. r.next \in Nat /\ next_change_id[n] <= r.next
    BY <1>1, <2>1, AcceptIdFacts
  <2> HIDE DEF r
  <2>4. /\ next_change_id'[n] = r.next
        /\ \A k \in Nodes \ {n} : next_change_id'[k] = next_change_id[k]
    BY <1>1, <2>2 DEF TypeOK
  <2>5. /\ ccid[n] \in Nat /\ next_change_id[n] \in Nat /\ ccid[n] < next_change_id[n]
        /\ Sorted(queue[n])
        /\ \A c \in Entries(queue[n]) : c.id \in Nat /\ ccid[n] < c.id /\ c.id < next_change_id[n]
    BY <1>1, EntryRead DEF TypeOK, QueuesInOrder, InOrder
  <2>6. InOrder(queue'[n], ccid'[n], next_change_id'[n])
    BY <2>2, <2>3, <2>4, <2>5 DEF InOrder
  <2>7. ccid'[n] < next_change_id'[n]
    BY <2>2, <2>3, <2>4, <2>5
  <2>. QED BY <1>1, <2>2, <2>4, <2>6, <2>7, OneQueue
<1>3. CASE OnResponse(m, n)
  <2>1. ccid' = ccid
    BY <1>3 DEF OnResponse
  <2>2. CASE UNCHANGED <<next_change_id, queue>>
    BY <1>1, <2>1, <2>2, QueuesAlone
  <2>3. CASE \E r \in rounds[n] : \E q, ch : QuorumStep(n, r, m, q, ch)
    BY <2>1, <2>3, QuorumStepOrdered
  <2>. QED BY <1>3, <2>2, <2>3, Zenon DEF OnResponse
<1>4. CASE RequestFails(m, n)
  <2>1. PICK r \in rounds[m] :
          QuorumStep(m, r, n, CountAnswer(r.q, "error", 0, FALSE), chan)
    BY <1>4 DEF RequestFails
  <2>2. ccid' = ccid
    BY <1>4 DEF RequestFails
  <2>. QED BY <2>1, <2>2, QuorumStepOrdered
<1>5. CASE AddChange(m, n)
  <2> DEFINE c == Head(chan[<<m, n>>])
             at == IdAt(queue[n], c.id)
             e == [id |-> c.id, op |-> c.op, tp |-> "cpkg", ready |-> TRUE,
                   requests |-> 0]
             rest == Without(queue[n], at)
             fresh == c.id > ccid[n]
             taken == \E i \in at : queue[n][i].ready
  <2>1. c.id \in Nat /\ c.op \in Ops
    BY <1>1, <1>5, ReceiveType, MessageRead DEF AddChange, TypeOK, Channels
  <2>2. /\ next_change_id' = [next_change_id EXCEPT ![n] =
             IF fresh /\ c.id >= @ THEN c.id + 1 ELSE @]
        /\ queue' = [queue EXCEPT ![n] = IF fresh /\ ~taken THEN Push(rest, e) ELSE @]
        /\ ccid' = ccid
    BY <1>5 DEF AddChange
  <2>3. /\ queue[n] \in Seq(QueueEntry) /\ ccid[n] \in Nat /\ next_change_id[n] \in Nat
        /\ ccid[n] < next_change_id[n]
        /\ Sorted(queue[n])
        /\ \A d \in Entries(queue[n]) : d.id \in Nat /\ ccid[n] < d.id /\ d.id < next_change_id[n]
    BY <1>1, EntryRead DEF TypeOK, QueuesInOrder, InOrder
  <2>4. rest \in Seq(QueueEntry)
    BY <2>3, WithoutType DEF IdAt
  <2>5. Sorted(rest) /\ Entries(rest) = {d \in Entries(queue[n]) : d.id # c.id}
    BY <2>3, IdGone
  <2>6. e \in QueueEntry /\ e.id = c.id
    BY <2>1 DEF QueueEntry
  <2> HIDE DEF c, at, e, rest, taken
  <2>7. Sorted(Push(rest, e)) /\ Entries(Push(rest, e)) = Entries(rest) \cup {e}
    BY <2>4, <2>5, <2>6, PushFacts
  <2>8. /\ next_change_id'[n] = IF fresh /\ c.id >= next_change_id[n] THEN c.id + 1 ELSE next_change_id[n]
        /\ queue'[n] = IF fresh /\ ~taken THEN Push(rest, e) ELSE queue[n]
        /\ \A k \in Nodes \ {n} : queue'[k] = queue[k] /\ next_change_id'[k] = next_change_id[k]
    BY <1>1, <2>2 DEF TypeOK
  <2>9. ccid'[n] < next_change_id'[n] /\ next_change_id[n] <= next_change_id'[n]
        /\ next_change_id'[n] \in Nat
    BY <2>1, <2>2, <2>3, <2>8
  <2>10. CASE fresh /\ ~taken
    <3>1. \A d \in Entries(queue'[n]) : ccid[n] < d.id /\ d.id < next_change_id'[n]
      BY <2>1, <2>3, <2>5, <2>6, <2>7, <2>8, <2>9, <2>10
    <3>2. InOrder(queue'[n], ccid'[n], next_change_id'[n])
      BY <2>2, <2>7, <2>8, <2>10, <3>1 DEF InOrder
    <3>. QED BY <1>1, <2>2, <2>8, <2>9, <3>2, OneQueue
  <2>11. CASE ~(fresh /\ ~taken)
    <3>1. queue'[n] = queue[n]
      BY <2>8, <2>11
    <3>2. \A d \in Entries(queue[n]) : ccid[n] < d.id /\ d.id < next_change_id'[n]
      BY <2>3, <2>9
    <3>3. InOrder(queue'[n], ccid'[n], next_change_id'[n])
      BY <2>2, <2>3, <3>1, <3>2 DEF InOrder
    <3>. QED BY <1>1, <2>2, <2>8, <2>9, <3>3, OneQueue
  <2>. QED BY <2>10, <2>11
<1>6. CASE OnMissingChange(m, n)
  BY <1>1, <1>6, QueuesAlone DEF OnMissingChange
<1>. QED BY <1>2, <1>3, <1>4, <1>5, <1>6 DEF PackageStep

(* The first change of the queue is run, or dropped: the ids behind it are *)
(* above the id that is committed now.                                     *)
LEMMA FirstGone ==
  ASSUME OInv, NEW n \in Nodes, queue[n] # <<>>, next_change_id' = next_change_id,
         queue' = [queue EXCEPT ![n] = Tail(@)],
         ccid' = [ccid EXCEPT ![n] = Head(queue[n]).id] \/ ccid' = ccid
  PROVE  QueuesInOrder'
<1> DEFINE s == queue[n]
<1>1. TypeOK /\ QueuesInOrder
  BY DEF OInv, IInv
<1>2. /\ s \in Seq(QueueEntry) /\ ccid[n] \in Nat /\ next_change_id[n] \in Nat
      /\ ccid[n] < next_change_id[n]
      /\ Sorted(s)
      /\ \A c \in Entries(s) : c.id \in Nat /\ ccid[n] < c.id /\ c.id < next_change_id[n]
  BY <1>1, EntryRead DEF TypeOK, QueuesInOrder, InOrder
<1>3. /\ Sorted(Tail(s)) /\ Head(s) \in Entries(s)
      /\ Entries(Tail(s)) = Entries(s) \ {Head(s)}
      /\ \A e \in Entries(s) : e = Head(s) \/ Head(s).id < e.id
  BY <1>2, TailFacts
<1>4. /\ queue'[n] = Tail(s) /\ next_change_id'[n] = next_change_id[n]
      /\ ccid'[n] = Head(s).id \/ ccid'[n] = ccid[n]
      /\ \A k \in Nodes \ {n} : queue'[k] = queue[k] /\ ccid'[k] = ccid[k]
  BY <1>1 DEF TypeOK
<1> HIDE DEF s
<1>5. \A e \in Entries(Tail(s)) : ccid'[n] < e.id /\ e.id < next_change_id[n]
  BY <1>2, <1>3, <1>4
<1>6. InOrder(queue'[n], ccid'[n], next_change_id'[n]) /\ ccid'[n] < next_change_id'[n]
  BY <1>2, <1>3, <1>4, <1>5 DEF InOrder
<1>. QED BY <1>1, <1>4, <1>6, OneQueue

LEMMA NodeStepOrdered ==
  ASSUME OInv, NEW n \in Nodes, NodeStep(n)
  PROVE  QueuesInOrder'
<1>1. TypeOK /\ QueuesInOrder
  BY DEF OInv, IInv
<1>2. CASE LoopProcess(n)
  BY <1>2, FirstGone DEF LoopProcess, RunFirst
<1>3. CASE LoopKill(n)
  BY <1>3, FirstGone DEF LoopKill
<1>4. CASE LoopMissing(n)
  BY <1>1, <1>4, QueuesAlone DEF LoopMissing
<1>5. CASE LoopGap(n)
  <2>1. queue[n] # <<>> /\ Head(queue[n]).id > ccid[n] + 1 /\ next_change_id' = next_change_id
    BY <1>5 DEF LoopGap, Gap
  <2>2. CASE RunFirst(n, Head(queue[n]))
    BY <2>1, <2>2, FirstGone DEF RunFirst
  <2>3. CASE ccid' = [ccid EXCEPT ![n] = @ + 1] /\ UNCHANGED queue
    <3> DEFINE s == queue[n]
    <3>1. /\ s \in Seq(QueueEntry) /\ ccid[n] \in Nat /\ next_change_id[n] \in Nat
          /\ ccid[n] < next_change_id[n]
          /\ Sorted(s)
          /\ \A c \in Entries(s) : c.id \in Nat /\ ccid[n] < c.id /\ c.id < next_change_id[n]
      BY <1>1, EntryRead DEF TypeOK, QueuesInOrder, InOrder
    <3>2. /\ Head(s) \in Entries(s)
          /\ \A e \in Entries(s) : e = Head(s) \/ Head(s).id < e.id
      BY <2>1, <3>1, TailFacts
    <3>3. /\ ccid'[n] = ccid[n] + 1 /\ queue'[n] = s /\ next_change_id'[n] = next_change_id[n]
          /\ \A k \in Nodes \ {n} : ccid'[k] = ccid[k]
      BY <1>1, <2>1, <2>3 DEF TypeOK
    <3>4. Head(s).id > ccid[n] + 1
      BY <2>1
    <3> HIDE DEF s
    <3>5. \A e \in Entries(s) : ccid'[n] < e.id
      BY <3>1, <3>2, <3>3, <3>4
    <3>6. InOrder(queue'[n], ccid'[n], next_change_id'[n]) /\ ccid'[n] < next_change_id'[n]
      BY <3>1, <3>2, <3>3, <3>4, <3>5 DEF InOrder
    <3>. QED BY <1>1, <2>1, <2>3, <3>3, <3>6, OneQueue
  <2>. QED BY <1>5, <2>2, <2>3 DEF LoopGap
<1>. QED BY <1>2, <1>3, <1>4, <1>5 DEF NodeStep

LEMMA CreateOrdered ==
  ASSUME OInv, NEW op \in Ops, CreateNewChange(op)
  PROVE  QueuesInOrder'
<1>1. TypeOK /\ QueuesInOrder /\ Home[op] \in Nodes
  BY HomeAssumption DEF OInv, IInv
<1>2. CASE ReqChangeId(Home[op], op, queue[Home[op]], chan, rounds[Home[op]]) /\ ccid' = ccid
  <2>1. queue[Home[op]] \in Seq(QueueEntry) /\ Sorted(queue[Home[op]])
    BY <1>1 DEF TypeOK, QueuesInOrder, InOrder
  <2>. QED BY <1>1, <1>2, <2>1, ReqChangeIdOrdered
<1>3. CASE UNCHANGED <<ccid, next_change_id, queue>>
  BY <1>1, <1>3, QueuesAlone
<1>. QED BY <1>2, <1>3, Zenon DEF CreateNewChange

LEMMA InitOInv == Init => OInv
<1> SUFFICES ASSUME Init PROVE QueuesInOrder
  BY InitIInv DEF OInv
<1>1. \A n \in Nodes : ccid[n] = 1 /\ next_change_id[n] = 2 /\ queue[n] = <<>>
  BY DEF Init, FirstId
<1>. QED BY <1>1 DEF QueuesInOrder, InOrder, Sorted, Entries

LEMMA NextOInv == OInv /\ [Next]_vars => OInv'
<1> SUFFICES ASSUME OInv, [Next]_vars PROVE OInv'
  OBVIOUS
<1>1. IInv'
  BY NextIInv DEF OInv
<1>2. QueuesInOrder'
  <2>1. ASSUME NEW p \in SUBSET Nodes, LinkDown(p) \/ LinkUp(p) PROVE QueuesInOrder'
    BY <2>1, QueuesAlone DEF LinkDown, LinkUp, OInv
  <2>2. CASE UNCHANGED vars
    BY <2>2, QueuesAlone DEF vars, OInv
  <2>. QED BY <2>1, <2>2, CreateOrdered, NodeStepOrdered, PackageStepOrdered DEF Next
<1>. QED BY <1>1, <1>2 DEF OInv

LEMMA OrderSeen == OInv => IdsInOrder
<1> SUFFICES ASSUME OInv, NEW n \in Nodes, NEW i \in 1 .. Len(queue[n])
             PROVE  /\ ccid[n] < queue[n][i].id /\ queue[n][i].id < next_change_id[n]
                    /\ \A j \in 1 .. i - 1 : queue[n][j].id < queue[n][i].id
  BY DEF IdsInOrder, OInv, QueuesInOrder
<1>1. /\ Sorted(queue[n])
      /\ \A c \in Entries(queue[n]) : ccid[n] < c.id /\ c.id < next_change_id[n]
  BY DEF OInv, QueuesInOrder, InOrder
<1>2. Len(queue[n]) \in Nat
  BY LenProperties DEF OInv, IInv, TypeOK
<1>3. \A j \in 1 .. i - 1 : j \in 1 .. Len(queue[n]) /\ j < i
  BY <1>2
<1>. QED BY <1>1, <1>3 DEF Sorted, Entries

(* In every queue the ids go up, start above the last committed id and     *)
(* stay below the next id, whatever was asked again, killed, skipped or    *)
(* pushed out by a change package: changes__loop, which only looks at the  *)
(* first change, never meets an id that is committed already.              *)
THEOREM IdsInOrderHolds == Spec => []IdsInOrder
BY InitOInv, NextOInv, OrderSeen, PTL DEF Spec
-----------------------------------------------------------------------------
(* What becomes of a change: its home, the node it was sent to, is the     *)
(* only one that runs it as its master, and every other node has it from   *)
(* there.                                                                  *)
Packages(ch) == {c \in UNION {Entries(ch[p]) : p \in Nodes \X Nodes} : c.tp = "cpkg"}

AsApplied(c) == [id |-> c.id, op |-> c.op]

(* What a node applied is committed there.                                 *)
LogBelow == \A n \in Nodes : \A e \in log[n] : e.id <= ccid[n]

(* A change is queued as master, and voted on, at its home only.           *)
AtHome ==
  \A n \in Nodes :
    /\ \A c \in Entries(queue[n]) : c.tp = "master" => Home[c.op] = n
    /\ \A r \in rounds[n] : Home[r.op] = n

(* What another node applied, has queued or is sent was applied at the     *)
(* home of the change, under the same id.                                  *)
FromHome ==
  /\ \A n \in Nodes : \A e \in log[n] : e \in log[Home[e.op]]
  /\ \A n \in Nodes : \A c \in Entries(queue[n]) :
       c.tp = "cpkg" => AsApplied(c) \in log[Home[c.op]]
  /\ \A c \in Packages(chan) : AsApplied(c) \in log[Home[c.op]]

(* At its home n a change is applied (it is in L), or it is queued once    *)
(* (in Q) and voted on in one round at most (in R); what is voted on is    *)
(* not ready.                                                              *)
Placed(n, L, Q, R) ==
  /\ \A e, f \in L : Home[e.op] = n /\ e.op = f.op => e = f
  /\ \A c, d \in Q : c.tp = "master" /\ d.tp = "master" /\ c.op = d.op => c = d
  /\ \A r, s \in R : r.op = s.op => r = s
  /\ \A e \in L : Home[e.op] = n =>
       /\ \A c \in Q : c.tp = "master" => c.op # e.op
       /\ \A r \in R : r.op # e.op
  /\ \A c \in Q, r \in R : c.tp = "master" /\ c.op = r.op => ~c.ready

OnePlace == \A n \in Nodes : Placed(n, log[n], Entries(queue[n]), rounds[n])

(* What the client of op knows is so at its home.                          *)
TrueOf(op, known, L, Q, R) ==
  /\ known = "ok" => \E e \in L : e.op = op
  /\ known \in {"unsent", "error"} =>
       /\ \A e \in L : e.op # op
       /\ \A c \in Q : c.tp = "master" => c.op # op
       /\ \A r \in R : r.op # op

Told ==
  \A op \in Ops :
    TrueOf(op, reply[op], log[Home[op]], Entries(queue[Home[op]]), rounds[Home[op]])

HomeInv == LogBelow /\ AtHome /\ FromHome /\ OnePlace /\ Told

HInv == OInv /\ HomeInv
-----------------------------------------------------------------------------
(* What is on its way after a package was sent, received or lost.          *)
LEMMA SendPackages ==
  ASSUME NEW ch \in Channels, NEW n \in Nodes, NEW S, NEW msg \in Message
  PROVE  \A c \in Packages(Send(ch, n, S, msg)) :
           c \in Packages(ch) \/ (c = msg /\ msg.tp = "cpkg")
<1>1. ASSUME NEW p \in Nodes \X Nodes
      PROVE  Entries(Send(ch, n, S, msg)[p]) \subseteq Entries(ch[p]) \cup {msg}
  <2>1. ch[p] \in Seq(Message) /\ Len(ch[p]) \in Nat
    BY LenProperties DEF Channels
  <2>2. Send(ch, n, S, msg)[p] = Append(ch[p], msg) \/ Send(ch, n, S, msg)[p] = ch[p]
    BY DEF Send
  <2>3. Entries(Append(ch[p], msg)) = Entries(ch[p]) \cup {msg}
    BY <2>1, AppendProperties DEF Entries
  <2>. QED BY <2>2, <2>3
<1> SUFFICES ASSUME NEW c \in Packages(Send(ch, n, S, msg))
             PROVE  c \in Packages(ch) \/ (c = msg /\ msg.tp = "cpkg")
  OBVIOUS
<1>2. PICK p \in Nodes \X Nodes : c \in Entries(Send(ch, n, S, msg)[p])
  BY DEF Packages
<1>3. c \in Entries(ch[p]) \/ c = msg
  BY <1>1, <1>2
<1>4. c.tp = "cpkg"
  BY DEF Packages
<1>. QED BY <1>3, <1>4 DEF Packages

LEMMA ReceivePackages ==
  ASSUME chan \in Channels, NEW m \in Nodes, NEW n \in Nodes, NEW tp, HeadIs(m, n, tp)
  PROVE  /\ Packages(Receive(m, n)) \subseteq Packages(chan)
         /\ tp = "cpkg" => Head(chan[<<m, n>>]) \in Packages(chan)
<1> DEFINE s == chan[<<m, n>>]
<1>1. s \in Seq(Message) /\ s # <<>> /\ Head(s).tp = tp
  BY DEF Channels, HeadIs
<1>2. Len(s) \in Nat /\ Len(s) >= 1 /\ Head(s) = s[1]
  BY <1>1, LenProperties, EmptySeq
<1>3. Len(Tail(s)) = Len(s) - 1 /\ \A i \in 1 .. Len(s) - 1 : Tail(s)[i] = s[i + 1]
  BY <1>1, <1>2, HeadTailProperties
<1>4. Entries(Tail(s)) \subseteq Entries(s)
  BY <1>2, <1>3 DEF Entries
<1>5. Head(s) \in Entries(s)
  BY <1>2 DEF Entries
<1> HIDE DEF s
<1>6. \A p \in Nodes \X Nodes : Entries(Receive(m, n)[p]) \subseteq Entries(chan[p])
  BY <1>4 DEF Receive, Channels, s
<1>7. Packages(Receive(m, n)) \subseteq Packages(chan)
  BY <1>6 DEF Packages
<1>8. tp = "cpkg" => Head(s) \in Packages(chan)
  BY <1>1, <1>5 DEF Packages, s
<1>. QED BY <1>7, <1>8 DEF s

(* Steps that leave the changes where they are: packages come and go, and  *)
(* an id may be given up.                                                  *)
LEMMA ChangesStay ==
  ASSUME HInv, UNCHANGED <<queue, rounds, reply, log>>, ccid' \in [Nodes -> Nat],
         \A n \in Nodes : ccid[n] <= ccid'[n],
         \A c \in Packages(chan') : AsApplied(c) \in log[Home[c.op]]
  PROVE  HomeInv'
<1>1. AtHome' /\ OnePlace' /\ Told'
  BY DEF HInv, HomeInv, AtHome, OnePlace, Told
<1>2. FromHome'
  BY DEF HInv, HomeInv, FromHome
<1>3. LogBelow'
  <2> SUFFICES ASSUME NEW n \in Nodes, NEW e \in log[n] PROVE e.id <= ccid'[n]
    BY DEF LogBelow
  <2>1. e.id <= ccid[n] /\ ccid[n] <= ccid'[n]
    BY DEF HInv, HomeInv, LogBelow
  <2>2. e.id \in Nat /\ ccid[n] \in Nat /\ ccid'[n] \in Nat
    BY DEF HInv, OInv, IInv, TypeOK
  <2>. QED BY <2>1, <2>2
<1>. QED BY <1>1, <1>2, <1>3 DEF HomeInv

(* Steps of node n that apply nothing.                                     *)
LEMMA OneNode ==
  ASSUME HInv, NEW n \in Nodes, UNCHANGED <<ccid, log>>,
         \A k \in Nodes \ {n} : queue'[k] = queue[k] /\ rounds'[k] = rounds[k],
         \A c \in Packages(chan') : AsApplied(c) \in log[Home[c.op]],
         \A c \in Entries(queue'[n]) : c.tp = "cpkg" => AsApplied(c) \in log[Home[c.op]],
         \A c \in Entries(queue'[n]) : c.tp = "master" => Home[c.op] = n,
         \A r \in rounds'[n] : Home[r.op] = n,
         Placed(n, log[n], Entries(queue'[n]), rounds'[n]),
         \A op \in Ops :
           IF Home[op] = n
           THEN TrueOf(op, reply'[op], log[n], Entries(queue'[n]), rounds'[n])
           ELSE reply'[op] = reply[op]
  PROVE  HomeInv'
<1>1. LogBelow'
  BY DEF HInv, HomeInv, LogBelow
<1>2. AtHome'
  <2> SUFFICES ASSUME NEW k \in Nodes
               PROVE  /\ \A c \in Entries(queue'[k]) : c.tp = "master" => Home[c.op] = k
                      /\ \A r \in rounds'[k] : Home[r.op] = k
    BY DEF AtHome
  <2>. QED BY DEF HInv, HomeInv, AtHome
<1>3. FromHome'
  <2>1. \A k \in Nodes : \A c \in Entries(queue'[k]) :
          c.tp = "cpkg" => AsApplied(c) \in log[Home[c.op]]
    BY DEF HInv, HomeInv, FromHome
  <2>. QED BY <2>1 DEF HInv, HomeInv, FromHome
<1>4. OnePlace'
  <2> SUFFICES ASSUME NEW k \in Nodes
               PROVE  Placed(k, log[k], Entries(queue'[k]), rounds'[k])
    BY DEF OnePlace
  <2>. QED BY DEF HInv, HomeInv, OnePlace
<1>5. Told'
  <2> SUFFICES ASSUME NEW op \in Ops
               PROVE  TrueOf(op, reply'[op], log[Home[op]], Entries(queue'[Home[op]]), rounds'[Home[op]])
    BY DEF Told
  <2>1. Home[op] \in Nodes
    BY HomeAssumption
  <2>. QED BY <2>1 DEF HInv, HomeInv, Told
<1>. QED BY <1>1, <1>2, <1>3, <1>4, <1>5 DEF HomeInv

(* A change is won: it was queued without being ready, or is gone.         *)
LEMMA PlacedReady ==
  ASSUME NEW n, NEW L, NEW Q \in SUBSET QueueEntry, NEW R, NEW r \in R, Placed(n, L, Q, R)
  PROVE  Placed(n, L, {Readied(c, r.op) : c \in Q}, R \ {r})
<1> DEFINE P == {Readied(c, r.op) : c \in Q}
<1>1. \A c \in QueueEntry : /\ Readied(c, r.op).tp = c.tp
                            /\ Readied(c, r.op).op = c.op
                            /\ c.op # r.op => Readied(c, r.op) = c
  BY DEF Readied, QueueEntry
<1>2. \A c \in P : \E d \in Q : c = Readied(d, r.op) /\ c.tp = d.tp /\ c.op = d.op
  BY <1>1
<1>3. \A c, d \in P : c.tp = "master" /\ d.tp = "master" /\ c.op = d.op => c = d
  BY <1>2 DEF Placed
<1>4. \A s \in R \ {r} : s.op # r.op
  BY DEF Placed
<1>5. \A c \in P, s \in R \ {r} : c.tp = "master" /\ c.op = s.op => ~c.ready
  BY <1>1, <1>2, <1>4 DEF Placed
<1>6. \A e \in L : Home[e.op] = n =>
        /\ \A c \in P : c.tp = "master" => c.op # e.op
        /\ \A s \in R \ {r} : s.op # e.op
  BY <1>2 DEF Placed
<1> HIDE DEF P
<1>7. Placed(n, L, P, R \ {r})
  BY <1>3, <1>5, <1>6 DEF Placed
<1>. QED BY <1>7 DEF P

(* A change that is not applied is asked for (again): c is its only entry, *)
(* and it is in one round at most.                                         *)
LEMMA PlacedAsked ==
  ASSUME NEW n, NEW L, NEW Q, NEW R, NEW Q2, NEW R2, NEW op, NEW c,
         Placed(n, L, Q, R), c.op = op,
         \A e \in L : e.op # op,
         \A d \in Q2 : d = c \/ (d \in Q /\ (d.tp = "master" => d.op # op)),
         \A s \in R2 : s.op = op \/ s \in R,
         \A s, t \in R2 : s.op = op /\ t.op = op => s = t,
         \A s \in R2 : s.op = op => ~c.ready
  PROVE  Placed(n, L, Q2, R2)
<1>1. \A d, e \in Q2 : d.tp = "master" /\ e.tp = "master" /\ d.op = e.op => d = e
  BY DEF Placed
<1>2. \A s, t \in R2 : s.op = t.op => s = t
  BY DEF Placed
<1>3. \A d \in Q2, s \in R2 : d.tp = "master" /\ d.op = s.op => ~d.ready
  BY DEF Placed
<1>4. \A e \in L : Home[e.op] = n =>
        /\ \A d \in Q2 : d.tp = "master" => d.op # e.op
        /\ \A s \in R2 : s.op # e.op
  BY DEF Placed
<1>. QED BY <1>1, <1>2, <1>3, <1>4 DEF Placed

(* Changes leave the queue and rounds end.                                 *)
LEMMA PlacedFewer ==
  ASSUME NEW n, NEW L, NEW Q, NEW R, NEW Q2, NEW R2 \in SUBSET R, Placed(n, L, Q, R),
         \A c \in Q2 : c.tp = "master" => c \in Q
  PROVE  Placed(n, L, Q2, R2)
BY DEF Placed
-----------------------------------------------------------------------------
(* Every step keeps changes at home.                                       *)

(* What node n has, in the form the lemmas use it.                         *)
LEMMA NodeFacts ==
  ASSUME HInv, NEW n \in Nodes
  PROVE  /\ queue[n] \in Seq(QueueEntry) /\ Entries(queue[n]) \in SUBSET QueueEntry
         /\ ccid[n] \in Nat /\ next_change_id[n] \in Nat
         /\ rounds[n] \in SUBSET Round /\ chan \in Channels
         /\ Sorted(queue[n])
         /\ \A c \in Entries(queue[n]) :
              /\ c.id \in Nat /\ c.op \in Ops /\ ccid[n] < c.id /\ c.id < next_change_id[n]
              /\ c.tp \in {"master", "cpkg"}
              /\ c.tp = "master" => Home[c.op] = n
              /\ c.tp = "cpkg" => AsApplied(c) \in log[Home[c.op]]
         /\ \A r \in rounds[n] : r.op \in Ops /\ Home[r.op] = n
         /\ Placed(n, log[n], Entries(queue[n]), rounds[n])
         /\ \A op \in Ops : Home[op] = n =>
              TrueOf(op, reply[op], log[n], Entries(queue[n]), rounds[n])
<1>1. TypeOK
  BY DEF HInv, OInv, IInv
<1>2. /\ queue[n] \in Seq(QueueEntry) /\ ccid[n] \in Nat /\ next_change_id[n] \in Nat
      /\ rounds[n] \in SUBSET Round /\ chan \in Channels
  BY <1>1 DEF TypeOK, Channels
<1>3. Entries(queue[n]) \in SUBSET QueueEntry
  BY <1>2, EntryRead
<1>4. \A r \in rounds[n] : r.op \in Ops /\ Home[r.op] = n
  BY <1>2 DEF Round, HInv, HomeInv, AtHome
<1>5. \A c \in Entries(queue[n]) :
        /\ c.id \in Nat /\ c.op \in Ops /\ ccid[n] < c.id /\ c.id < next_change_id[n]
        /\ c.tp \in {"master", "cpkg"}
  BY <1>2, EntryRead DEF HInv, OInv, QueuesInOrder, InOrder
<1>6. Sorted(queue[n])
  BY DEF HInv, OInv, QueuesInOrder, InOrder
<1>7. \A c \in Entries(queue[n]) :
        /\ c.tp = "master" => Home[c.op] = n
        /\ c.tp = "cpkg" => AsApplied(c) \in log[Home[c.op]]
  BY DEF HInv, HomeInv, AtHome, FromHome
<1>8. Placed(n, log[n], Entries(queue[n]), rounds[n])
  BY DEF HInv, HomeInv, OnePlace
<1>9. \A op \in Ops : Home[op] = n =>
        TrueOf(op, reply[op], log[n], Entries(queue[n]), rounds[n])
  BY DEF HInv, HomeInv, Told
<1>. QED BY <1>2, <1>3, <1>4, <1>5, <1>6, <1>7, <1>8, <1>9

(* Asking for an id sends no change package.                               *)
LEMMA ReqPackages ==
  ASSUME NEW ch \in Channels, NEW n \in Nodes, NEW S, NEW msg \in Message, msg.tp # "cpkg",
         \A c \in Packages(ch) : AsApplied(c) \in log[Home[c.op]]
  PROVE  \A c \in Packages(Send(ch, n, S, msg)) : AsApplied(c) \in log[Home[c.op]]
BY SendPackages

(* A change of which the client has no answer, which is not applied and    *)
(* which no other round is about, is asked for.                            *)
LEMMA AskedAtHome ==
  ASSUME HInv, NEW op \in Ops, NEW rest \in Seq(QueueEntry), NEW ch \in Channels,
         NEW others \in SUBSET rounds[Home[op]],
         ReqChangeId(Home[op], op, rest, ch, others), UNCHANGED <<ccid, log>>,
         Sorted(rest),
         Entries(rest) = {c \in Entries(queue[Home[op]]) : ~(c.tp = "master" /\ c.op = op)},
         \A r \in others : r.op # op,
         \A e \in log[Home[op]] : e.op # op,
         reply'[op] = "waiting", \A x \in Ops \ {op} : reply'[x] = reply[x],
         \A c \in Packages(ch) : AsApplied(c) \in log[Home[c.op]]
  PROVE  HomeInv'
<1> DEFINE n == Home[op]
<1>1. n \in Nodes /\ TypeOK
  BY HomeAssumption DEF HInv, OInv, IInv
<1> DEFINE Q == Entries(queue[n])
<1>2. /\ \A c \in Q : /\ c.id < next_change_id[n]
                      /\ c.tp = "master" => Home[c.op] = n
                      /\ c.tp = "cpkg" => AsApplied(c) \in log[Home[c.op]]
      /\ \A r \in rounds[n] : Home[r.op] = n
      /\ Placed(n, log[n], Q, rounds[n])
      /\ \A x \in Ops : Home[x] = n => TrueOf(x, reply[x], log[n], Q, rounds[n])
      /\ next_change_id[n] \in Nat
  BY <1>1, NodeFacts
<1>3. \A e \in Entries(rest) : e.id < next_change_id[n]
  BY <1>2
<1> HIDE DEF n, Q
<1>4. /\ \A k \in Nodes \ {n} : queue'[k] = queue[k] /\ rounds'[k] = rounds[k]
      /\ Asked(n, op, rest, others)
      /\ chan' = Send(ch, n, Peers(n), [tp |-> "req", id |-> next_change_id[n]])
  BY <1>1, <1>3, ReqChangeIdFacts DEF n
<1>5. PICK c \in QueueEntry :
        /\ c.op = op /\ c.tp = "master"
        /\ Entries(queue'[n]) = Entries(rest) \cup {c}
        /\ \/ rounds'[n] = others
           \/ ~c.ready /\ \E r \in Round : r.op = op /\ rounds'[n] = others \cup {r}
  BY <1>4 DEF Asked
<1>6. Entries(queue'[n]) = {d \in Q : ~(d.tp = "master" /\ d.op = op)} \cup {c}
  BY <1>5 DEF Q, n
<1>7. others \in SUBSET rounds[n] /\ (\A e \in log[n] : e.op # op) /\ Home[op] = n
  BY DEF n
<1>8. /\ \A s \in rounds'[n] : s.op = op \/ s \in rounds[n]
      /\ \A s, t \in rounds'[n] : s.op = op /\ t.op = op => s = t
      /\ \A s \in rounds'[n] : s.op = op => ~c.ready
  <2>1. CASE rounds'[n] = others
    BY <1>7, <2>1
  <2>2. ASSUME NEW r, r.op = op, rounds'[n] = others \cup {r}, ~c.ready PROVE <1>8
    <3>1. \A s \in rounds'[n] : s = r \/ (s \in rounds[n] /\ s.op # op)
      BY <1>7, <2>2
    <3>. QED BY <2>2, <3>1
  <2>. QED BY <1>5, <2>1, <2>2
<1>9. Placed(n, log[n], Entries(queue'[n]), rounds'[n])
  <2>1. \A d \in Entries(queue'[n]) : d = c \/ (d \in Q /\ (d.tp = "master" => d.op # op))
    BY <1>6
  <2>. QED BY <1>2, <1>5, <1>7, <1>8, <2>1, PlacedAsked
<1>10. /\ \A d \in Entries(queue'[n]) : d.tp = "cpkg" => AsApplied(d) \in log[Home[d.op]]
       /\ \A d \in Entries(queue'[n]) : d.tp = "master" => Home[d.op] = n
       /\ \A d \in Entries(queue'[n]) : d.op = op \/ d \in Q
  BY <1>2, <1>5, <1>6, <1>7
<1>11. \A r \in rounds'[n] : Home[r.op] = n
  BY <1>2, <1>7, <1>8
<1>12. ASSUME NEW x \in Ops
       PROVE  IF Home[x] = n
              THEN TrueOf(x, reply'[x], log[n], Entries(queue'[n]), rounds'[n])
              ELSE reply'[x] = reply[x]
  <2>1. CASE x = op
    BY <1>7, <2>1 DEF TrueOf
  <2>2. CASE x # op
    <3>1. reply'[x] = reply[x]
      BY <2>2
    <3>. QED BY <1>2, <1>8, <1>10, <2>2, <3>1 DEF TrueOf
  <2>. QED BY <2>1, <2>2
<1>13. \A d \in Packages(chan') : AsApplied(d) \in log[Home[d.op]]
  <2>1. [tp |-> "req", id |-> next_change_id[n]] \in Message
    BY <1>2, MessageMade
  <2>. QED BY <1>1, <1>4, <2>1, ReqPackages
<1>. QED BY <1>1, <1>4, <1>9, <1>10, <1>11, <1>12, <1>13, OneNode

LEMMA CreateHome ==
  ASSUME HInv, NEW op \in Ops, CreateNewChange(op)
  PROVE  HomeInv'
<1> DEFINE n == Home[op]
<1>1. n \in Nodes /\ TypeOK /\ reply[op] = "unsent"
  BY HomeAssumption DEF HInv, OInv, IInv, CreateNewChange
<1>2. TrueOf(op, "unsent", log[n], Entries(queue[n]), rounds[n])
  BY <1>1 DEF HInv, HomeInv, Told
<1>3. /\ \A e \in log[n] : e.op # op
      /\ \A c \in Entries(queue[n]) : c.tp = "master" => c.op # op
      /\ \A r \in rounds[n] : r.op # op
  BY <1>2 DEF TrueOf
<1>4. CASE /\ reply' = [reply EXCEPT ![op] = "waiting"]
           /\ ReqChangeId(n, op, queue[n], chan, rounds[n])
           /\ UNCHANGED <<ccid, skipped_ids, req_id, links, log>>
  <2>1. queue[n] \in Seq(QueueEntry) /\ chan \in Channels /\ Sorted(queue[n])
    BY <1>1, NodeFacts
  <2>2. reply'[op] = "waiting" /\ \A x \in Ops \ {op} : reply'[x] = reply[x]
    BY <1>1, <1>4 DEF TypeOK
  <2>3. \A c \in Packages(chan) : AsApplied(c) \in log[Home[c.op]]
    BY DEF HInv, HomeInv, FromHome
  <2>4. Entries(queue[n]) = {c \in Entries(queue[n]) : ~(c.tp = "master" /\ c.op = op)}
    BY <1>3
  <2>5. rounds[n] \in SUBSET rounds[n] /\ UNCHANGED <<ccid, log>>
    BY <1>4
  <2>6. ReqChangeId(n, op, queue[n], chan, rounds[n])
    BY <1>4
  <2>7. \A r \in rounds[n] : r.op # op
    BY <1>3
  <2>8. \A e \in log[n] : e.op # op
    BY <1>3
  <2>. QED BY <2>1, <2>2, <2>3, <2>4, <2>5, <2>6, <2>7, <2>8, AskedAtHome, Zenon
<1>5. CASE /\ reply' = [reply EXCEPT ![op] = "error"]
           /\ UNCHANGED <<ccid, next_change_id, skipped_ids, queue, rounds,
                          req_id, chan, links, log, votes>>
  <2>1. reply'[op] = "error" /\ \A x \in Ops \ {op} : reply'[x] = reply[x]
    BY <1>1, <1>5 DEF TypeOK
  <2>2. LogBelow' /\ AtHome' /\ FromHome' /\ OnePlace'
    BY <1>5 DEF HInv, HomeInv, LogBelow, AtHome, FromHome, OnePlace
  <2>3. ASSUME NEW x \in Ops
        PROVE  TrueOf(x, reply'[x], log[Home[x]], Entries(queue[Home[x]]), rounds[Home[x]])
    <3>1. CASE x = op
      BY <1>3, <2>1, <3>1 DEF TrueOf
    <3>2. CASE x # op
      BY <2>1, <3>2 DEF HInv, HomeInv, Told
    <3>. QED BY <3>1, <3>2
  <2>4. Told'
    BY <1>5, <2>3 DEF Told
  <2>. QED BY <2>2, <2>4 DEF HomeInv
<1>. QED BY <1>4, <1>5, Zenon DEF CreateNewChange

LEMMA QuorumStepHome ==
  ASSUME HInv, NEW n \in Nodes, NEW m \in Nodes, NEW r \in rounds[n], NEW q,
         NEW ch \in Channels, QuorumStep(n, r, m, q, ch), UNCHANGED <<ccid, log>>,
         \A c \in Packages(ch) : AsApplied(c) \in log[Home[c.op]]
  PROVE  HomeInv'
<1> DEFINE Q == Entries(queue[n])
           R == rounds[n]
           L == log[n]
<1>1. TypeOK
  BY DEF HInv, OInv, IInv
<1>2. /\ queue[n] \in Seq(QueueEntry) /\ Q \in SUBSET QueueEntry /\ R \in SUBSET Round
      /\ Sorted(queue[n])
      /\ \A c \in Q : /\ c.tp = "master" => Home[c.op] = n
                      /\ c.tp = "cpkg" => AsApplied(c) \in log[Home[c.op]]
      /\ \A s \in R : s.op \in Ops /\ Home[s.op] = n
      /\ Placed(n, L, Q, R)
      /\ \A op \in Ops : Home[op] = n => TrueOf(op, reply[op], L, Q, R)
  BY NodeFacts
<1>3. r.op \in Ops /\ Home[r.op] = n /\ \A e \in L : e.op # r.op
  BY <1>2 DEF Placed
<1>4. \A s \in R \ {r} : s.op # r.op
  BY <1>2 DEF Placed
<1>5. reply[r.op] = "waiting"
  <2>1. TrueOf(r.op, reply[r.op], L, Q, R)
    BY <1>2, <1>3
  <2>2. reply[r.op] \in {"unsent", "waiting", "ok", "error"}
    BY <1>1, <1>3 DEF TypeOK, Replies
  <2>. QED BY <1>3, <2>1, <2>2 DEF TrueOf
<1>6. \A c, d \in Q : c.tp = "master" /\ d.tp = "master" /\ c.op = r.op /\ d.op = r.op => c = d
  BY <1>2 DEF Placed
<1>7. CASE /\ rounds' = [rounds EXCEPT ![n] =
                           (@ \ {r}) \cup {[r EXCEPT !.q = q, !.wait = @ \ {m}]}]
           /\ chan' = ch
           /\ UNCHANGED <<next_change_id, queue, reply, votes>>
  <2> DEFINE s == [r EXCEPT !.q = q, !.wait = @ \ {m}]
  <2>1. s.op = r.op
    BY <1>2 DEF Round
  <2> HIDE DEF s, Q, L
  <2>2. /\ rounds'[n] = (R \ {r}) \cup {s}
        /\ \A k \in Nodes \ {n} : rounds'[k] = rounds[k]
    BY <1>1, <1>7 DEF TypeOK, s
  <2> HIDE DEF R
  <2>3. \A t \in rounds'[n] : t = s \/ (t \in R /\ t.op # r.op)
    BY <1>4, <2>2
  <2>4. Placed(n, L, Q, rounds'[n])
    <3>1. \A t, u \in rounds'[n] : t.op = u.op => t = u
      BY <1>2, <2>1, <2>3 DEF Placed
    <3>2. /\ \A e \in L : Home[e.op] = n => \A t \in rounds'[n] : t.op # e.op
          /\ \A c \in Q, t \in rounds'[n] : c.tp = "master" /\ c.op = t.op => ~c.ready
      <4>1. r \in R
        BY DEF R
      <4>. QED BY <1>2, <1>3, <2>1, <2>3, <4>1 DEF Placed
    <3>. QED BY <1>2, <3>1, <3>2 DEF Placed
  <2>5. ASSUME NEW op \in Ops, Home[op] = n PROVE TrueOf(op, reply[op], L, Q, rounds'[n])
    <3>1. CASE op = r.op
      BY <1>5, <3>1 DEF TrueOf
    <3>2. CASE op # r.op
      BY <1>2, <2>1, <2>3, <2>5, <3>2 DEF TrueOf
    <3>. QED BY <3>1, <3>2
  <2>6. \A t \in rounds'[n] : Home[t.op] = n
    BY <1>2, <1>3, <2>1, <2>3
  <2>7. queue' = queue /\ reply' = reply /\ chan' = ch
    BY <1>7
  <2>. QED BY <1>2, <2>2, <2>4, <2>5, <2>6, <2>7, OneNode DEF Q, L
<1>8. CASE OnWin(n, r, ch)
  <2> DEFINE s == queue[n]
             t == [i \in DOMAIN s |-> IF i \in MasterAt(s, r.op)
                                      THEN [s[i] EXCEPT !.ready = TRUE] ELSE s[i]]
             P == {Readied(c, r.op) : c \in Q}
  <2>1. Entries(t) = P
    BY <1>2, ReadyFacts
  <2>2. queue' = [queue EXCEPT ![n] = t] /\ rounds' = [rounds EXCEPT ![n] = R \ {r}]
        /\ chan' = ch /\ reply' = reply
    BY <1>1, <1>8 DEF OnWin, TypeOK
  <2> HIDE DEF t
  <2>3. /\ Entries(queue'[n]) = P /\ rounds'[n] = R \ {r}
        /\ \A k \in Nodes \ {n} : queue'[k] = queue[k] /\ rounds'[k] = rounds[k]
    BY <1>1, <2>1, <2>2 DEF TypeOK
  <2>4. Placed(n, L, P, R \ {r})
    BY <1>2, PlacedReady
  <2>5. \A c \in QueueEntry : /\ Readied(c, r.op).tp = c.tp
                              /\ Readied(c, r.op).op = c.op
                              /\ Readied(c, r.op).id = c.id
    BY DEF Readied, QueueEntry
  <2>6. \A c \in P : \E d \in Q : c.tp = d.tp /\ c.op = d.op /\ c.id = d.id
    BY <1>2, <2>5
  <2> HIDE DEF P, Q, R, L
  <2>7. /\ \A c \in P : c.tp = "master" => Home[c.op] = n
        /\ \A c \in P : c.tp = "cpkg" => AsApplied(c) \in log[Home[c.op]]
    BY <1>2, <2>6 DEF AsApplied
  <2>8. \A op \in Ops : Home[op] = n => TrueOf(op, reply[op], L, P, R \ {r})
    BY <1>2, <2>6 DEF TrueOf
  <2>9. \A s1 \in R \ {r} : Home[s1.op] = n
    BY <1>2
  <2>10. /\ \A c \in Entries(queue'[n]) : c.tp = "cpkg" => AsApplied(c) \in log[Home[c.op]]
         /\ \A c \in Entries(queue'[n]) : c.tp = "master" => Home[c.op] = n
         /\ \A s1 \in rounds'[n] : Home[s1.op] = n
         /\ Placed(n, log[n], Entries(queue'[n]), rounds'[n])
    BY <2>3, <2>4, <2>7, <2>9 DEF L
  <2>11. \A op \in Ops :
           IF Home[op] = n
           THEN TrueOf(op, reply'[op], log[n], Entries(queue'[n]), rounds'[n])
           ELSE reply'[op] = reply[op]
    BY <2>2, <2>3, <2>8 DEF L
  <2>12. \A c \in Packages(chan') : AsApplied(c) \in log[Home[c.op]]
    BY <2>2
  <2>13. \A k \in Nodes \ {n} : queue'[k] = queue[k] /\ rounds'[k] = rounds[k]
    BY <2>3
  <2>. QED BY <2>10, <2>11, <2>12, <2>13, OneNode
<1>9. CASE OnLose(n, r, ch)
  <2> DEFINE rest == Without(queue[n], MasterAt(queue[n], r.op))
  <2>1. MasterAt(queue[n], r.op) \in SUBSET (1 .. Len(queue[n]))
    BY DEF MasterAt
  <2>2. rest \in Seq(QueueEntry) /\ Sorted(rest)
    BY <1>2, <2>1, WithoutType, WithoutFacts
  <2>3. Entries(rest) = {c \in Q : ~(c.tp = "master" /\ c.op = r.op)}
    BY <1>2, <1>6, LostFacts
  <2> HIDE DEF rest
  <2>4. CASE ReqChangeId(n, r.op, rest, ch, R \ {r}) /\ UNCHANGED reply
    BY <1>3, <1>4, <1>5, <2>2, <2>3, <2>4, AskedAtHome
  <2>5. CASE /\ rounds' = [rounds EXCEPT ![n] = @ \ {r}]
             /\ queue' = [queue EXCEPT ![n] = rest]
             /\ reply' = [reply EXCEPT ![r.op] = "error"]
             /\ chan' = ch
    <3>1. /\ queue'[n] = rest /\ rounds'[n] = R \ {r}
          /\ \A k \in Nodes \ {n} : queue'[k] = queue[k] /\ rounds'[k] = rounds[k]
          /\ reply'[r.op] = "error" /\ \A x \in Ops \ {r.op} : reply'[x] = reply[x]
      BY <1>1, <1>3, <2>5 DEF TypeOK
    <3> HIDE DEF Q, R, L
    <3>2. Placed(n, L, Entries(rest), R \ {r})
      <4>1. \A c \in Entries(rest) : c.tp = "master" => c \in Q
        BY <2>3
      <4>. QED BY <1>2, <4>1, PlacedFewer
    <3>3. ASSUME NEW op \in Ops
          PROVE  IF Home[op] = n THEN TrueOf(op, reply'[op], L, Entries(rest), R \ {r})
                 ELSE reply'[op] = reply[op]
      <4>1. CASE op = r.op
        BY <1>3, <1>4, <2>3, <3>1, <4>1 DEF TrueOf
      <4>2. CASE op # r.op
        BY <1>2, <2>3, <3>1, <4>2 DEF TrueOf
      <4>. QED BY <4>1, <4>2
    <3>4. /\ \A c \in Entries(rest) : c.tp = "master" => Home[c.op] = n
          /\ \A c \in Entries(rest) : c.tp = "cpkg" => AsApplied(c) \in log[Home[c.op]]
          /\ \A s \in R \ {r} : Home[s.op] = n
      BY <1>2, <2>3
    <3>5. /\ Placed(n, log[n], Entries(queue'[n]), rounds'[n])
          /\ \A op \in Ops :
               IF Home[op] = n
               THEN TrueOf(op, reply'[op], log[n], Entries(queue'[n]), rounds'[n])
               ELSE reply'[op] = reply[op]
      BY <3>1, <3>2, <3>3 DEF L
    <3>6. /\ \A c \in Entries(queue'[n]) : c.tp = "master" => Home[c.op] = n
          /\ \A c \in Entries(queue'[n]) : c.tp = "cpkg" => AsApplied(c) \in log[Home[c.op]]
          /\ \A s \in rounds'[n] : Home[s.op] = n
          /\ \A c \in Packages(chan') : AsApplied(c) \in log[Home[c.op]]
      BY <2>5, <3>1, <3>4
    <3>7. \A k \in Nodes \ {n} : queue'[k] = queue[k] /\ rounds'[k] = rounds[k]
      BY <3>1
    <3>. QED BY <3>5, <3>6, <3>7, OneNode
  <2>. QED BY <1>9, <2>4, <2>5 DEF OnLose, rest
<1>. QED BY <1>7, <1>8, <1>9 DEF QuorumStep

(* Changes leave the queue of n, and change packages from home come in.    *)
LEMMA FewerMasters ==
  ASSUME HInv, NEW n \in Nodes, UNCHANGED <<ccid, log, rounds, reply>>,
         \A k \in Nodes \ {n} : queue'[k] = queue[k],
         \A c \in Packages(chan') : AsApplied(c) \in log[Home[c.op]],
         \A c \in Entries(queue'[n]) :
           \/ c \in Entries(queue[n])
           \/ c.tp = "cpkg" /\ AsApplied(c) \in log[Home[c.op]]
  PROVE  HomeInv'
<1> DEFINE Q == Entries(queue[n])
           P == Entries(queue'[n])
<1>1. /\ \A c \in Q : /\ c.tp = "master" => Home[c.op] = n
                      /\ c.tp = "cpkg" => AsApplied(c) \in log[Home[c.op]]
      /\ \A s \in rounds[n] : Home[s.op] = n
      /\ Placed(n, log[n], Q, rounds[n])
      /\ \A op \in Ops : Home[op] = n => TrueOf(op, reply[op], log[n], Q, rounds[n])
  BY NodeFacts
<1>2. \A c \in P : c.tp = "master" => c \in Q
  OBVIOUS
<1>3. \A c \in P : c.tp = "cpkg" => AsApplied(c) \in log[Home[c.op]]
  BY <1>1
<1> HIDE DEF P, Q
<1>4. Placed(n, log[n], P, rounds[n])
  BY <1>1, <1>2, PlacedFewer
<1>5. \A op \in Ops : Home[op] = n => TrueOf(op, reply[op], log[n], P, rounds[n])
  BY <1>1, <1>2 DEF TrueOf
<1>6. \A c \in P : c.tp = "master" => Home[c.op] = n
  BY <1>1, <1>2
<1>7. /\ \A op \in Ops : IF Home[op] = n
                         THEN TrueOf(op, reply'[op], log[n], Entries(queue'[n]), rounds'[n])
                         ELSE reply'[op] = reply[op]
      /\ Placed(n, log[n], Entries(queue'[n]), rounds'[n])
      /\ \A c \in Entries(queue'[n]) : c.tp = "cpkg" => AsApplied(c) \in log[Home[c.op]]
      /\ \A c \in Entries(queue'[n]) : c.tp = "master" => Home[c.op] = n
      /\ \A r \in rounds'[n] : Home[r.op] = n
  BY <1>1, <1>3, <1>4, <1>5, <1>6 DEF P
<1>. QED BY <1>7, OneNode

LEMMA AddChangeHome ==
  ASSUME HInv, NEW m \in Nodes, NEW n \in Nodes, AddChange(m, n)
  PROVE  HomeInv'
<1> DEFINE c == Head(chan[<<m, n>>])
           at == IdAt(queue[n], c.id)
           e == [id |-> c.id, op |-> c.op, tp |-> "cpkg", ready |-> TRUE,
                 requests |-> 0]
           rest == Without(queue[n], at)
           fresh == c.id > ccid[n]
           taken == \E i \in at : queue[n][i].ready
<1>1. TypeOK /\ chan \in Channels /\ HeadIs(m, n, "cpkg")
  BY DEF HInv, OInv, IInv, TypeOK, Channels, AddChange
<1>2. c \in Packages(chan) /\ Packages(Receive(m, n)) \subseteq Packages(chan)
  BY <1>1, ReceivePackages
<1>3. \A d \in Packages(chan) : AsApplied(d) \in log[Home[d.op]]
  BY DEF HInv, HomeInv, FromHome
<1>4. c.id \in Nat /\ c.op \in Ops
  BY <1>1, ReceiveType, MessageRead
<1>5. /\ chan' = Receive(m, n)
      /\ queue' = [queue EXCEPT ![n] = IF fresh /\ ~taken THEN Push(rest, e) ELSE @]
      /\ UNCHANGED <<ccid, skipped_ids, rounds, req_id, links, reply, log, votes>>
  BY DEF AddChange
<1>6. queue[n] \in Seq(QueueEntry) /\ Sorted(queue[n])
  BY NodeFacts
<1>7. rest \in Seq(QueueEntry)
  BY <1>6, WithoutType DEF IdAt
<1>8. Sorted(rest) /\ Entries(rest) = {d \in Entries(queue[n]) : d.id # c.id}
  BY <1>6, IdGone
<1>9. e \in QueueEntry /\ e.id = c.id /\ e.tp = "cpkg" /\ e.op = c.op
  BY <1>4 DEF QueueEntry
<1> HIDE DEF c, at, e, rest, taken, fresh
<1>10. Entries(Push(rest, e)) = Entries(rest) \cup {e}
  BY <1>7, <1>8, <1>9, PushFacts
<1>11. /\ queue'[n] = Push(rest, e) \/ queue'[n] = queue[n]
       /\ \A k \in Nodes \ {n} : queue'[k] = queue[k]
  BY <1>1, <1>5 DEF TypeOK
<1>12. AsApplied(e) \in log[Home[e.op]]
  BY <1>2, <1>3, <1>9 DEF AsApplied
<1>13. \A d \in Entries(queue'[n]) :
         d \in Entries(queue[n]) \/ (d.tp = "cpkg" /\ AsApplied(d) \in log[Home[d.op]])
  BY <1>8, <1>9, <1>10, <1>11, <1>12
<1>14. \A d \in Packages(chan') : AsApplied(d) \in log[Home[d.op]]
  BY <1>2, <1>3, <1>5
<1>. QED BY <1>5, <1>11, <1>13, <1>14, FewerMasters

(* The first change is run: at its home when it is there as master, and    *)
(* somewhere else, after its home, when it came as a change package.       *)
LEMMA RunFirstHome ==
  ASSUME HInv, NEW n \in Nodes, queue[n] # <<>>, Head(queue[n]).ready,
         RunFirst(n, Head(queue[n])), rounds' = rounds
  PROVE  HomeInv'
<1> DEFINE c == Head(queue[n])
           a == AsApplied(c)
           Q == Entries(queue[n])
<1>1. TypeOK
  BY DEF HInv, OInv, IInv
<1>2. /\ queue[n] \in Seq(QueueEntry) /\ chan \in Channels /\ Sorted(queue[n])
      /\ ccid[n] \in Nat
      /\ \A d \in Q : /\ d.id \in Nat /\ d.op \in Ops /\ ccid[n] < d.id
                      /\ d.tp \in {"master", "cpkg"}
                      /\ d.tp = "master" => Home[d.op] = n
                      /\ d.tp = "cpkg" => AsApplied(d) \in log[Home[d.op]]
      /\ \A r \in rounds[n] : r.op \in Ops /\ Home[r.op] = n
      /\ Placed(n, log[n], Q, rounds[n])
  BY NodeFacts
<1>3. c \in Q /\ Entries(Tail(queue[n])) = Q \ {c}
  BY <1>2, TailFacts
<1>4. /\ ccid' = [ccid EXCEPT ![n] = c.id]
      /\ log' = [log EXCEPT ![n] = @ \cup {a}]
      /\ queue' = [queue EXCEPT ![n] = Tail(@)]
      /\ IF c.tp = "master"
         THEN /\ chan' = Send(chan, n, Peers(n), [tp |-> "cpkg", id |-> c.id, op |-> c.op])
              /\ reply' = [reply EXCEPT ![c.op] = "ok"]
         ELSE UNCHANGED <<chan, reply>>
  BY DEF RunFirst, AsApplied
<1>5. c.ready /\ a.id = c.id /\ a.op = c.op
  BY DEF AsApplied
<1> HIDE DEF c, a, Q
<1>6. /\ ccid'[n] = c.id /\ log'[n] = log[n] \cup {a} /\ Entries(queue'[n]) = Q \ {c}
      /\ \A k \in Nodes \ {n} : ccid'[k] = ccid[k] /\ log'[k] = log[k] /\ queue'[k] = queue[k]
  BY <1>1, <1>3, <1>4 DEF TypeOK
<1>7. \A k \in Nodes : log[k] \subseteq log'[k]
  BY <1>6
<1>8. c.id \in Nat /\ c.op \in Ops /\ Home[c.op] \in Nodes /\ ccid[n] < c.id
  BY <1>2, <1>3, HomeAssumption
<1>9. \A e \in log[n] : e.id \in Nat /\ e.op \in Ops /\ e.id <= ccid[n]
  BY <1>1 DEF TypeOK, HInv, HomeInv, LogBelow
<1>10. LogBelow'
  <2> SUFFICES ASSUME NEW k \in Nodes, NEW e \in log'[k] PROVE e.id <= ccid'[k]
    BY DEF LogBelow
  <2>1. CASE k = n
    BY <1>2, <1>5, <1>6, <1>8, <1>9, <2>1
  <2>2. CASE k # n
    BY <1>6, <2>2 DEF HInv, HomeInv, LogBelow
  <2>. QED BY <2>1, <2>2
<1>11. AtHome'
  <2> SUFFICES ASSUME NEW k \in Nodes
               PROVE  /\ \A d \in Entries(queue'[k]) : d.tp = "master" => Home[d.op] = k
                      /\ \A r \in rounds[k] : Home[r.op] = k
    BY DEF AtHome
  <2>1. CASE k = n
    BY <1>2, <1>6, <2>1
  <2>2. CASE k # n
    BY <1>6, <2>2 DEF HInv, HomeInv, AtHome
  <2>. QED BY <2>1, <2>2
<1>12. a \in log'[Home[c.op]]
  <2>1. CASE c.tp = "master"
    BY <1>2, <1>3, <1>6, <2>1
  <2>2. CASE c.tp = "cpkg"
    BY <1>2, <1>3, <1>7, <1>8, <2>2 DEF a
  <2>. QED BY <1>2, <1>3, <2>1, <2>2
<1>13. FromHome'
  <2>1. ASSUME NEW k \in Nodes, NEW e \in log'[k] PROVE e \in log'[Home[e.op]]
    <3>1. CASE e \in log[k]
      <4>1. e.op \in Ops /\ e \in log[Home[e.op]]
        BY <1>1, <3>1 DEF TypeOK, HInv, HomeInv, FromHome
      <4>2. Home[e.op] \in Nodes
        BY <4>1, HomeAssumption
      <4>. QED BY <1>7, <4>1, <4>2
    <3>2. CASE e \notin log[k]
      <4>1. e = a
        BY <1>6, <3>2
      <4>. QED BY <1>5, <1>12, <4>1
    <3>. QED BY <3>1, <3>2
  <2>2. ASSUME NEW k \in Nodes, NEW d \in Entries(queue'[k]), d.tp = "cpkg"
        PROVE  AsApplied(d) \in log'[Home[d.op]]
    <3>1. d \in Entries(queue[k])
      BY <1>6 DEF Q
    <3>2. d.op \in Ops /\ AsApplied(d) \in log[Home[d.op]]
      BY <2>2, <3>1, NodeFacts
    <3>3. Home[d.op] \in Nodes
      BY <3>2, HomeAssumption
    <3>. QED BY <1>7, <3>2, <3>3
  <2>3. ASSUME NEW d \in Packages(chan') PROVE AsApplied(d) \in log'[Home[d.op]]
    <3> DEFINE msg == [tp |-> "cpkg", id |-> c.id, op |-> c.op]
    <3>1. msg \in Message /\ AsApplied(msg) = a /\ msg.op = c.op
      BY <1>8, MessageMade DEF AsApplied, a
    <3> HIDE DEF msg
    <3>2. d \in Packages(chan) \/ d = msg
      BY <1>2, <1>4, <3>1, SendPackages DEF msg
    <3>3. CASE d = msg
      BY <1>12, <3>1, <3>3
    <3>4. CASE d \in Packages(chan)
      <4>1. AsApplied(d) \in log[Home[d.op]]
        BY <3>4 DEF HInv, HomeInv, FromHome
      <4>2. d.op \in Ops
        <5>1. PICK p \in Nodes \X Nodes : d \in Entries(chan[p])
          BY <3>4 DEF Packages
        <5>2. chan[p] \in Seq(Message)
          BY <1>2 DEF Channels
        <5>3. d \in Message /\ d.tp = "cpkg"
          BY <3>4, <5>1, <5>2, ElementOfSeq DEF Packages, Entries
        <5>. QED BY <5>3, MessageRead
      <4>3. Home[d.op] \in Nodes
        BY <4>2, HomeAssumption
      <4>. QED BY <1>7, <4>1, <4>3
    <3>. QED BY <3>2, <3>3, <3>4
  <2>. QED BY <2>1, <2>2, <2>3 DEF FromHome
<1>14. /\ c.tp = "cpkg" => Home[c.op] # n
       /\ c.tp = "master" => Home[c.op] = n
  <2>1. ASSUME c.tp = "cpkg", Home[c.op] = n PROVE FALSE
    <3>1. a \in log[n]
      BY <1>2, <1>3, <2>1 DEF a
    <3>. QED BY <1>2, <1>5, <1>8, <1>9, <3>1
  <2>. QED BY <1>2, <1>3, <2>1
<1>15. OnePlace'
  <2> SUFFICES ASSUME NEW k \in Nodes PROVE Placed(k, log'[k], Entries(queue'[k]), rounds[k])
    BY DEF OnePlace
  <2>1. CASE k # n
    BY <1>6, <2>1 DEF HInv, HomeInv, OnePlace
  <2>2. CASE k = n
    <3>1. CASE c.tp = "cpkg"
      <4>1. \A e \in log'[n] : Home[e.op] = n => e \in log[n]
        BY <1>5, <1>6, <1>14, <3>1
      <4>. QED BY <1>2, <1>6, <2>2, <4>1 DEF Placed
    <3>2. CASE c.tp = "master"
      <4>1. \A e \in log[n] : Home[e.op] = n => e.op # c.op
        BY <1>2, <1>3, <3>2 DEF Placed
      <4>2. \A r \in rounds[n] : r.op # c.op
        BY <1>2, <1>3, <1>5, <3>2 DEF Placed
      <4>3. \A d \in Q \ {c} : d.tp = "master" => d.op # c.op
        BY <1>2, <1>3, <3>2 DEF Placed
      <4>4. \A e \in log'[n] : e \in log[n] \/ (e = a /\ e.op = c.op)
        BY <1>5, <1>6
      <4>5. \A e, f \in log'[n] : Home[e.op] = n /\ e.op = f.op => e = f
        BY <1>2, <4>1, <4>4 DEF Placed
      <4>6. \A e \in log'[n] : Home[e.op] = n =>
              /\ \A d \in Q \ {c} : d.tp = "master" => d.op # e.op
              /\ \A r \in rounds[n] : r.op # e.op
        BY <1>2, <4>2, <4>3, <4>4 DEF Placed
      <4>7. Placed(n, log'[n], Q \ {c}, rounds[n])
        BY <1>2, <4>5, <4>6 DEF Placed
      <4>. QED BY <1>6, <2>2, <4>7
    <3>. QED BY <1>2, <1>3, <3>1, <3>2
  <2>. QED BY <2>1, <2>2
<1>16. Told'
  <2> SUFFICES ASSUME NEW op \in Ops
               PROVE  TrueOf(op, reply'[op], log'[Home[op]], Entries(queue'[Home[op]]), rounds[Home[op]])
    BY DEF Told
  <2>1. Home[op] \in Nodes
    BY HomeAssumption
  <2>2. TrueOf(op, reply[op], log[Home[op]], Entries(queue[Home[op]]), rounds[Home[op]])
    BY DEF HInv, HomeInv, Told
  <2>3. CASE op = c.op /\ c.tp = "master"
    <3>1. reply'[op] = "ok"
      BY <1>1, <1>4, <2>3 DEF TypeOK
    <3>. QED BY <1>5, <1>12, <2>3, <3>1 DEF TrueOf
  <2>4. CASE ~(op = c.op /\ c.tp = "master")
    <3>1. reply'[op] = reply[op]
      BY <1>1, <1>4, <2>4 DEF TypeOK
    <3>2. \A e \in log'[Home[op]] : e.op = op => e \in log[Home[op]]
      BY <1>2, <1>3, <1>5, <1>6, <1>14, <2>1, <2>4
    <3>3. Entries(queue'[Home[op]]) \subseteq Entries(queue[Home[op]])
      BY <1>6, <2>1 DEF Q
    <3>. QED BY <1>7, <2>1, <2>2, <3>1, <3>2, <3>3 DEF TrueOf
  <2>. QED BY <2>3, <2>4
<1>. QED BY <1>10, <1>11, <1>13, <1>15, <1>16 DEF HomeInv

LEMMA NodeStepHome ==
  ASSUME HInv, NEW n \in Nodes, NodeStep(n)
  PROVE  HomeInv'
<1>1. TypeOK /\ \A c \in Packages(chan) : AsApplied(c) \in log[Home[c.op]]
  BY DEF HInv, OInv, IInv, HomeInv, FromHome
<1>2. queue[n] \in Seq(QueueEntry) /\ chan \in Channels /\ Sorted(queue[n]) /\ ccid[n] \in Nat
  BY NodeFacts
<1>3. CASE LoopProcess(n)
  BY <1>3, RunFirstHome DEF LoopProcess
<1>4. CASE LoopKill(n)
  <2>1. queue[n] # <<>> /\ queue' = [queue EXCEPT ![n] = Tail(@)]
        /\ UNCHANGED <<ccid, log, rounds, reply, chan>>
    BY <1>4 DEF LoopKill
  <2>2. Entries(Tail(queue[n])) \subseteq Entries(queue[n])
    BY <1>2, <2>1, TailFacts
  <2>3. queue'[n] = Tail(queue[n]) /\ \A k \in Nodes \ {n} : queue'[k] = queue[k]
    BY <1>1, <2>1 DEF TypeOK
  <2>. QED BY <1>1, <2>1, <2>2, <2>3, FewerMasters
<1>5. CASE LoopMissing(n)
  <2> DEFINE msg == [tp |-> "missing", id |-> ccid[n] + 1]
  <2>1. PICK m \in Peers(n) : chan' = Send(chan, n, {m}, msg)
    BY <1>5 DEF LoopMissing
  <2>2. msg \in Message /\ msg.tp # "cpkg"
    <3>1. ccid[n] + 1 \in Nat
      BY <1>2
    <3>. QED BY <3>1, MessageMade
  <2> HIDE DEF msg
  <2>3. \A c \in Packages(chan') : AsApplied(c) \in log[Home[c.op]]
    BY <1>1, <1>2, <2>1, <2>2, ReqPackages
  <2>4. UNCHANGED <<ccid, queue, rounds, reply, log>>
    BY <1>5 DEF LoopMissing
  <2>. QED BY <1>1, <2>3, <2>4, ChangesStay DEF TypeOK
<1>6. CASE LoopGap(n)
  <2>1. queue[n] # <<>> /\ UNCHANGED rounds
    BY <1>6 DEF LoopGap, Gap
  <2>2. CASE Head(queue[n]).ready /\ RunFirst(n, Head(queue[n]))
    BY <2>1, <2>2, RunFirstHome
  <2>3. CASE ccid' = [ccid EXCEPT ![n] = @ + 1] /\ UNCHANGED <<queue, log, chan, reply>>
    <3>1. ccid' \in [Nodes -> Nat] /\ \A k \in Nodes : ccid[k] <= ccid'[k]
      BY <1>1, <2>3 DEF TypeOK
    <3>. QED BY <1>1, <2>1, <2>3, <3>1, ChangesStay
  <2>. QED BY <1>6, <2>2, <2>3 DEF LoopGap
<1>. QED BY <1>3, <1>4, <1>5, <1>6 DEF NodeStep

LEMMA PackageStepHome ==
  ASSUME HInv, NEW m \in Nodes, NEW n \in Nodes, PackageStep(m, n)
  PROVE  HomeInv'
<1>1. TypeOK /\ IInv /\ \A c \in Packages(chan) : AsApplied(c) \in log[Home[c.op]]
  BY DEF HInv, OInv, IInv, HomeInv, FromHome
<1>2. chan \in Channels /\ \A k \in Nodes : ccid[k] <= ccid[k]
  BY <1>1 DEF TypeOK, Channels
<1>3. CASE OnReqChangeId(m, n)
  <2> DEFINE id == Head(chan[<<m, n>>]).id
             r == AcceptId(n, id)
             res == [tp |-> "res", id |-> id, answer |-> r.answer, n |-> r.n]
  <2>1. HeadIs(m, n, "req")
    BY <1>3 DEF OnReqChangeId
  <2>2. Receive(m, n) \in Channels /\ id \in Nat /\ Packages(Receive(m, n)) \subseteq Packages(chan)
    BY <1>2, <2>1, ReceiveType, ReceivePackages, MessageRead
  <2>3. chan' = Send(Receive(m, n), n, {m}, res) /\ UNCHANGED <<ccid, queue, rounds, reply, log>>
    BY <1>3 DEF OnReqChangeId
  <2> HIDE DEF id
  <2>4. r.answer \in {"accept", "reject", "collision"} /\ r.n \in Nat
    BY <1>1, <2>2, AcceptIdFacts
  <2> HIDE DEF r
  <2>5. res \in Message /\ res.tp # "cpkg"
    BY <2>2, <2>4, MessageMade
  <2> HIDE DEF res
  <2>6. \A c \in Packages(chan') : AsApplied(c) \in log[Home[c.op]]
    BY <1>1, <2>2, <2>3, <2>5, ReqPackages
  <2>. QED BY <1>1, <1>2, <2>3, <2>6, ChangesStay DEF TypeOK
<1>4. CASE OnResponse(m, n)
  <2>1. HeadIs(m, n, "res") /\ UNCHANGED <<ccid, log>>
    BY <1>4 DEF OnResponse
  <2>2. Receive(m, n) \in Channels /\ Packages(Receive(m, n)) \subseteq Packages(chan)
    BY <1>2, <2>1, ReceiveType, ReceivePackages
  <2>3. CASE chan' = Receive(m, n) /\ UNCHANGED <<queue, rounds, reply>>
    BY <1>1, <1>2, <2>1, <2>2, <2>3, ChangesStay DEF TypeOK
  <2>4. CASE \E r \in rounds[n] : \E q : QuorumStep(n, r, m, q, Receive(m, n))
    BY <1>1, <2>1, <2>2, <2>4, QuorumStepHome
  <2>. QED BY <1>4, <2>3, <2>4, Zenon DEF OnResponse
<1>5. CASE RequestFails(m, n)
  <2>1. PICK r \in rounds[m] :
          QuorumStep(m, r, n, CountAnswer(r.q, "error", 0, FALSE), chan)
    BY <1>5 DEF RequestFails
  <2>2. UNCHANGED <<ccid, log>>
    BY <1>5 DEF RequestFails
  <2>. QED BY <1>1, <1>2, <2>1, <2>2, QuorumStepHome
<1>6. CASE AddChange(m, n)
  BY <1>6, AddChangeHome
<1>7. CASE OnMissingChange(m, n)
  <2> DEFINE id == Head(chan[<<m, n>>]).id
  <2>1. HeadIs(m, n, "missing") /\ UNCHANGED <<ccid, queue, rounds, reply, log>>
    BY <1>7 DEF OnMissingChange
  <2>2. Receive(m, n) \in Channels /\ id \in Nat /\ Packages(Receive(m, n)) \subseteq Packages(chan)
    BY <1>2, <2>1, ReceiveType, ReceivePackages, MessageRead
  <2>3. CASE chan' = Receive(m, n)
    BY <1>1, <1>2, <2>1, <2>2, <2>3, ChangesStay DEF TypeOK
  <2>4. ASSUME NEW e \in log[n], e.id = id,
               chan' = Send(Receive(m, n), n, {m}, [tp |-> "cpkg", id |-> id, op |-> e.op])
        PROVE  HomeInv'
    <3> DEFINE msg == [tp |-> "cpkg", id |-> id, op |-> e.op]
    <3>1. e \in [id: Nat, op: Ops] /\ e \in log[Home[e.op]]
      BY <1>1 DEF TypeOK, HInv, HomeInv, FromHome
    <3>2. e.op \in Ops /\ AsApplied(e) = e
      BY <3>1 DEF AsApplied
    <3>3. msg.op = e.op /\ AsApplied(msg) = e
      BY <2>4, <3>2 DEF AsApplied
    <3> HIDE DEF id
    <3>4. msg \in Message
      BY <2>2, <3>2, MessageMade
    <3> HIDE DEF msg
    <3>5. chan' = Send(Receive(m, n), n, {m}, msg)
      BY <2>4 DEF msg
    <3>6. \A c \in Packages(chan') : c \in Packages(chan) \/ c = msg
      BY <2>2, <3>4, <3>5, SendPackages
    <3>7. \A c \in Packages(chan') : AsApplied(c) \in log[Home[c.op]]
      BY <1>1, <3>1, <3>3, <3>6
    <3>. QED BY <1>1, <1>2, <2>1, <3>7, ChangesStay DEF TypeOK
  <2>. QED BY <1>7, <2>3, <2>4 DEF OnMissingChange
<1>. QED BY <1>3, <1>4, <1>5, <1>6, <1>7 DEF PackageStep

LEMMA LinkHome ==
  ASSUME HInv, NEW p \in SUBSET Nodes, LinkDown(p) \/ LinkUp(p)
  PROVE  HomeInv'
<1>1. TypeOK /\ \A c \in Packages(chan) : AsApplied(c) \in log[Home[c.op]]
  BY DEF HInv, OInv, IInv, HomeInv, FromHome
<1>2. /\ UNCHANGED <<ccid, queue, rounds, reply, log>>
      /\ \A d \in Nodes \X Nodes : chan'[d] = <<>> \/ chan'[d] = chan[d]
  BY DEF LinkDown, LinkUp
<1>3. Entries(<<>>) = {}
  BY DEF Entries
<1>4. Packages(chan') \subseteq Packages(chan)
  BY <1>2, <1>3 DEF Packages
<1>5. ccid' \in [Nodes -> Nat] /\ \A k \in Nodes : ccid[k] <= ccid'[k]
  BY <1>1, <1>2 DEF TypeOK
<1>. QED BY <1>1, <1>2, <1>4, <1>5, ChangesStay

LEMMA InitHInv == Init => HInv
<1> SUFFICES ASSUME Init PROVE HomeInv
  BY InitOInv DEF HInv
<1>1. /\ \A n \in Nodes : log[n] = {} /\ rounds[n] = {} /\ queue[n] = <<>>
      /\ \A p \in Nodes \X Nodes : chan[p] = <<>>
      /\ \A op \in Ops : reply[op] = "unsent" /\ Home[op] \in Nodes
  BY HomeAssumption DEF Init
<1>2. Entries(<<>>) = {}
  BY DEF Entries
<1>3. Packages(chan) = {}
  BY <1>1, <1>2 DEF Packages
<1>4. LogBelow /\ AtHome /\ FromHome
  BY <1>1, <1>2, <1>3 DEF LogBelow, AtHome, FromHome
<1>5. OnePlace /\ Told
  BY <1>1, <1>2 DEF OnePlace, Placed, Told, TrueOf
<1>. QED BY <1>4, <1>5 DEF HomeInv

LEMMA NextHInv == HInv /\ [Next]_vars => HInv'
<1> SUFFICES ASSUME HInv, [Next]_vars PROVE HInv'
  OBVIOUS
<1>1. OInv'
  BY NextOInv DEF HInv
<1>2. HomeInv'
  <2>1. CASE UNCHANGED vars
    BY <2>1 DEF vars, HInv, HomeInv, LogBelow, AtHome, FromHome, OnePlace, Told
  <2>. QED BY <2>1, CreateHome, NodeStepHome, PackageStepHome, LinkHome DEF Next
<1>. QED BY <1>1, <1>2 DEF HInv

(* Whatever a node applied or is sure to apply is applied at the home of   *)
(* the change, or is the only entry of the change there, and ready.        *)
LEMMA ClaimsAtHome ==
  ASSUME HInv, NEW c \in Claims
  PROVE  /\ c.op \in Ops /\ c = [id |-> c.id, op |-> c.op]
         /\ \/ c \in log[Home[c.op]]
            \/ \E d \in Entries(queue[Home[c.op]]) :
                 d.tp = "master" /\ d.ready /\ d.op = c.op /\ d.id = c.id
<1>1. CASE \E n \in Nodes : c \in log[n]
  <2>1. PICK n \in Nodes : c \in log[n]
    BY <1>1
  <2>2. c \in [id: Nat, op: Ops]
    BY <2>1 DEF HInv, OInv, IInv, TypeOK
  <2>3. c \in log[Home[c.op]]
    BY <2>1 DEF HInv, HomeInv, FromHome
  <2>. QED BY <2>2, <2>3
<1>2. CASE \E n \in Nodes : \E d \in Entries(queue[n]) : d.ready /\ c = [id |-> d.id, op |-> d.op]
  <2>1. PICK n \in Nodes : \E d \in Entries(queue[n]) : d.ready /\ c = [id |-> d.id, op |-> d.op]
    BY <1>2
  <2>2. PICK d \in Entries(queue[n]) : d.ready /\ c = [id |-> d.id, op |-> d.op]
    BY <2>1
  <2>3. /\ d.op \in Ops /\ d.tp \in {"master", "cpkg"}
        /\ d.tp = "master" => Home[d.op] = n
        /\ d.tp = "cpkg" => AsApplied(d) \in log[Home[d.op]]
    BY NodeFacts
  <2>4. c.op = d.op /\ c.id = d.id /\ c = AsApplied(d)
    BY <2>2 DEF AsApplied
  <2>. QED BY <2>2, <2>3, <2>4
<1>3. \/ \E n \in Nodes : c \in log[n]
      \/ \E n \in Nodes : \E d \in Entries(queue[n]) : d.ready /\ c = [id |-> d.id, op |-> d.op]
  <2> DEFINE All == UNION {{queue[n][i] : i \in 1 .. Len(queue[n])} : n \in Nodes}
             Ready == {d \in All : d.ready}
  <2>1. Claims = (UNION {log[n] : n \in Nodes}) \cup {[id |-> d.id, op |-> d.op] : d \in Ready}
    BY Zenon DEF Claims
  <2>2. \A d \in All : \E n \in Nodes : d \in Entries(queue[n])
    BY DEF Entries
  <2> HIDE DEF All
  <2>3. \A d \in Ready : d.ready /\ \E n \in Nodes : d \in Entries(queue[n])
    BY <2>2
  <2> HIDE DEF Ready
  <2>4. c \in UNION {log[n] : n \in Nodes} \/ c \in {[id |-> d.id, op |-> d.op] : d \in Ready}
    BY <2>1
  <2>5. (\E n \in Nodes : c \in log[n]) \/ \E d \in Ready : c = [id |-> d.id, op |-> d.op]
    BY <2>4, Zenon
  <2>. QED BY <2>3, <2>5, Zenon
<1>. QED BY <1>1, <1>2, <1>3

LEMMA HomeSeen == HInv => OneIdPerChange /\ RepliesAreTrue
<1> SUFFICES ASSUME HInv PROVE OneIdPerChange /\ RepliesAreTrue
  OBVIOUS
<1>1. ASSUME NEW c \in Claims, NEW d \in Claims, c.op = d.op PROVE c.id = d.id
  <2> DEFINE n == Home[c.op]
  <2>1. /\ c.op \in Ops
        /\ c \in log[n] \/ \E e \in Entries(queue[n]) : e.tp = "master" /\ e.op = c.op /\ e.id = c.id
    BY ClaimsAtHome
  <2>2. d \in log[n] \/ \E e \in Entries(queue[n]) : e.tp = "master" /\ e.op = c.op /\ e.id = d.id
    BY <1>1, ClaimsAtHome
  <2>3. n \in Nodes
    BY <2>1, HomeAssumption
  <2>4. Placed(n, log[n], Entries(queue[n]), rounds[n])
    BY <2>3, NodeFacts
  <2>. QED BY <1>1, <2>1, <2>2, <2>4 DEF Placed
<1>2. OneIdPerChange
  BY <1>1 DEF OneIdPerChange
<1>3. ASSUME NEW op \in Ops
      PROVE  /\ reply[op] = "ok" => \E e \in log[Home[op]] : e.op = op
             /\ reply[op] = "error" => ~\E c \in Claims : c.op = op
  <2>1. TrueOf(op, reply[op], log[Home[op]], Entries(queue[Home[op]]), rounds[Home[op]])
    BY DEF HInv, HomeInv, Told
  <2>2. ASSUME reply[op] = "error", NEW c \in Claims, c.op = op PROVE FALSE
    <3>1. \/ c \in log[Home[op]]
          \/ \E d \in Entries(queue[Home[op]]) : d.tp = "master" /\ d.op = op
      BY <2>2, ClaimsAtHome
    <3>. QED BY <2>1, <2>2, <3>1 DEF TrueOf
  <2>. QED BY <2>1, <2>2 DEF TrueOf
<1>4. RepliesAreTrue
  BY <1>3 DEF RepliesAreTrue
<1>. QED BY <1>2, <1>4

(* A change is applied under one id, on every node that applies it, also   *)
(* when its master lost an id and asked again, when its entry was pushed   *)
(* out of the queue or killed, and when a package comes twice (once sent   *)
(* by the master and once as an answer to a missing id).                   *)
THEOREM OneIdPerChangeHolds == Spec => []OneIdPerChange
<1>1. HInv => OneIdPerChange
  BY HomeSeen
<1>. QED BY InitHInv, NextHInv, <1>1, PTL DEF Spec

(* A client that is told its change is done finds it on the node it asked, *)
(* and a client that is told it failed knows that no node has applied the  *)
(* change or is sure to apply it (ti_query_response and the error of       *)
(* changes__new_id).                                                       *)
THEOREM RepliesAreTrueHolds == Spec => []RepliesAreTrue
<1>1. HInv => RepliesAreTrue
  BY HomeSeen
<1>. QED BY InitHInv, NextHInv, <1>1, PTL DEF Spec
-----------------------------------------------------------------------------
(***************************************************************************)
(* No two changes win the same id, in a cluster of any size whose          *)
(* connections hold.  Changes may be killed and gaps given up early (the   *)
(* faults "kill" and "gap"), and nodes may ask for the same id at the same *)
(* time.                                                                   *)
(*                                                                         *)
(* The argument is not the overlap of two majorities: a node wins a tie    *)
(* with the nodes that ask for the same id themselves by its lower node    *)
(* id.  A win leaves a proof in the votes, which only grow (Wins), and two *)
(* such proofs for one id contradict each other.                           *)
(***************************************************************************)

NodeCount == Cardinality(Nodes)

Others(n) == Nodes \ {n}

(* By the votes V, node v gave id to node w.                               *)
Gave(V, v, id, w) == [id |-> id, for |-> w] \in V[v]

(* The proof in the votes V that node n won id: the nodes of A gave it the *)
(* id, and are no fewer than those of R, about which nothing is known; all *)
(* others asked for the id themselves, and a tie was won against them.     *)
Wins(V, n, id) ==
  /\ Gave(V, n, id, n)
  /\ \E A, R \in SUBSET Others(n) :
       /\ A \cap R = {}
       /\ \A v \in A : Gave(V, v, id, n)
       /\ \A v \in Others(n) \ (A \cup R) : Gave(V, v, id, v)
       /\ Cardinality(R) <= Cardinality(A)
       /\ Cardinality(R) = Cardinality(A) =>
            \A v \in Others(n) \ (A \cup R) : n < v

(* The counter q counts the answers of the nodes that are not waited for.  *)
Counted(V, n, id, q, wait) ==
  /\ Gave(V, n, id, n)
  /\ q.requests = NodeCount - 1
  /\ q.accept_threshold = NodeCount \div 2
  /\ q.diff_requests = 0
  /\ \E A, R, C \in SUBSET Others(n) :
       /\ A \cap R = {} /\ A \cap C = {} /\ R \cap C = {}
       /\ A \cup R \cup C = Others(n) \ wait
       /\ q.accepted = Cardinality(A)
       /\ q.rejected = Cardinality(R)
       /\ q.collisions = Cardinality(C)
       /\ \A v \in A : Gave(V, v, id, n)
       /\ \A v \in C : Gave(V, v, id, v)
       /\ q.win_collision => \A v \in C : n < v

(* What node n, with the changes Q and the rounds R, stands for.           *)
Electing(n, Q, R, next, V) ==
  /\ \A r \in R : /\ r.id < next /\ r.wait \subseteq Others(n)
                  /\ Counted(V, n, r.id, r.q, r.wait)
  /\ \A r, s \in R : r.id = s.id => r = s
  /\ \A c \in Q : c.tp = "master" =>
       /\ Gave(V, n, c.id, n)
       /\ c.requests = NodeCount - 1
       /\ c.ready => Wins(V, n, c.id)
       /\ \A r \in R : r.op = c.op => r.id = c.id

Elections ==
  \A n \in Nodes :
    Electing(n, Entries(queue[n]), rounds[n], next_change_id[n], votes)

(* Every connection is up.                                                 *)
LinksAll == links = {p \in SUBSET Nodes : Cardinality(p) = 2}

(* The question for id of node n to node m, or its answer, is on its way.  *)
OnRoad(ch, n, m, id) ==
  \/ [tp |-> "req", id |-> id] \in Entries(ch[<<n, m>>])
  \/ \E x \in Entries(ch[<<m, n>>]) : x.tp = "res" /\ x.id = id

InFlight ==
  \A n \in Nodes : \A r \in rounds[n] : \A m \in r.wait : OnRoad(chan, n, m, r.id)

(* What an answer x of node m to node n says is in the votes.              *)
TrueAnswer(V, m, n, x) ==
  x.tp = "res" =>
    /\ x.answer = "accept" => Gave(V, m, x.id, n)
    /\ x.answer = "collision" => Gave(V, m, x.id, m) /\ x.n = NodeCount - 1

TrueAnswers ==
  \A m, n \in Nodes : \A x \in Entries(chan[<<m, n>>]) : TrueAnswer(votes, m, n, x)

(* What is applied was won by the home of the change, and a node applies   *)
(* one change per id.                                                      *)
LogWon ==
  \A n \in Nodes :
    /\ \A e \in log[n] : Wins(votes, Home[e.op], e.id)
    /\ \A e, f \in log[n] : e.id = f.id => e.op = f.op

VoteInv == LinksAll /\ InFlight /\ TrueAnswers /\ Elections /\ LogWon

VInv == HInv /\ VoteInv
-----------------------------------------------------------------------------
LEMMA OthersFinite ==
  ASSUME NEW n \in Nodes
  PROVE  /\ NodeCount \in Nat /\ NodeCount >= 1
         /\ IsFiniteSet(Others(n)) /\ Cardinality(Others(n)) = NodeCount - 1
         /\ \A S \in SUBSET Others(n) : IsFiniteSet(S) /\ Cardinality(S) \in Nat
<1>1. NodeCount \in Nat /\ IsFiniteSet(Others(n)) /\ Cardinality(Others(n)) = NodeCount - 1
  BY NodesAssumption, FS_CardinalityType, FS_RemoveElement DEF NodeCount, Others
<1>2. Cardinality(Others(n)) \in Nat
  BY <1>1, FS_CardinalityType
<1>3. ASSUME NEW S \in SUBSET Others(n) PROVE IsFiniteSet(S) /\ Cardinality(S) \in Nat
  BY <1>1, FS_Subset, FS_CardinalityType
<1>. QED BY <1>1, <1>2, <1>3

(* Of two nodes with the same id in dispute, the nodes that gave it to the *)
(* other one are among those that a winner does not know about.            *)
LEMMA GaveElsewhere ==
  ASSUME NEW V, NEW id, NEW i \in Nodes, NEW j \in Nodes, i # j,
         NEW A \in SUBSET Others(i), NEW R \in SUBSET Others(i), NEW B \in SUBSET Others(j),
         \A v \in Nodes : \A a, b : Gave(V, v, id, a) /\ Gave(V, v, id, b) => a = b,
         Gave(V, i, id, i),
         \A v \in A : Gave(V, v, id, i),
         \A v \in Others(i) \ (A \cup R) : Gave(V, v, id, v),
         \A v \in B : Gave(V, v, id, j)
  PROVE  B \subseteq R /\ i \notin B
<1> SUFFICES ASSUME NEW v \in B PROVE v \in R /\ v # i
  OBVIOUS
<1>1. v \in Nodes /\ v # j /\ Gave(V, v, id, j)
  BY DEF Others
<1>2. v # i
  BY <1>1
<1>3. v \in Others(i)
  BY <1>1, <1>2 DEF Others
<1>4. v \notin A
  BY <1>1
<1>5. CASE v \notin R
  <2>1. Gave(V, v, id, v)
    BY <1>3, <1>4, <1>5
  <2>. QED BY <1>1, <2>1
<1>. QED BY <1>2, <1>5

(* An id has one winner.                                                   *)
LEMMA OneWinner ==
  ASSUME NEW V, NEW id, NEW i \in Nodes, NEW j \in Nodes, i < j,
         \A v \in Nodes : \A a, b : Gave(V, v, id, a) /\ Gave(V, v, id, b) => a = b,
         Wins(V, i, id), Wins(V, j, id)
  PROVE  FALSE
<1>0. i \in Nat /\ j \in Nat /\ i # j
  BY NodesAssumption
<1>1. PICK A \in SUBSET Others(i), R \in SUBSET Others(i) :
        /\ \A v \in A : Gave(V, v, id, i)
        /\ \A v \in Others(i) \ (A \cup R) : Gave(V, v, id, v)
        /\ Cardinality(R) <= Cardinality(A)
  BY DEF Wins
<1>2. PICK B \in SUBSET Others(j), S \in SUBSET Others(j) :
        /\ \A v \in B : Gave(V, v, id, j)
        /\ \A v \in Others(j) \ (B \cup S) : Gave(V, v, id, v)
        /\ Cardinality(S) <= Cardinality(B)
        /\ Cardinality(S) = Cardinality(B) => \A v \in Others(j) \ (B \cup S) : j < v
  BY DEF Wins
<1>3. Gave(V, i, id, i) /\ Gave(V, j, id, j)
  BY DEF Wins
<1>4. B \subseteq R /\ i \notin B
  BY <1>0, <1>1, <1>2, <1>3, GaveElsewhere
<1>5. A \subseteq S
  <2>1. j # i /\ (\A v \in A : Gave(V, v, id, i)) /\ (\A v \in B : Gave(V, v, id, j))
    BY <1>0, <1>1, <1>2
  <2>2. \A v \in Others(j) \ (B \cup S) : Gave(V, v, id, v)
    BY <1>2
  <2>3. \A v \in Nodes : \A a, b : Gave(V, v, id, a) /\ Gave(V, v, id, b) => a = b
    OBVIOUS
  <2>4. B \in SUBSET Others(j) /\ S \in SUBSET Others(j) /\ A \in SUBSET Others(i)
    OBVIOUS
  <2>. QED BY <1>3, <2>1, <2>2, <2>3, <2>4, GaveElsewhere, SMTT(30)
<1>6. /\ IsFiniteSet(A) /\ Cardinality(A) \in Nat /\ IsFiniteSet(R) /\ Cardinality(R) \in Nat
      /\ IsFiniteSet(B) /\ Cardinality(B) \in Nat /\ IsFiniteSet(S) /\ Cardinality(S) \in Nat
  BY OthersFinite
<1>7. Cardinality(B) <= Cardinality(R)
  BY <1>4, <1>6, FS_Subset
<1>8. Cardinality(A) <= Cardinality(S) /\ (Cardinality(S) = Cardinality(A) => S = A)
  BY <1>5, <1>6, FS_Subset
<1>9. Cardinality(S) = Cardinality(A) /\ Cardinality(S) = Cardinality(B)
  BY <1>1, <1>2, <1>6, <1>7, <1>8
<1>10. i \notin S
  BY <1>8, <1>9 DEF Others
<1>11. i \in Others(j) \ (B \cup S)
  BY <1>0, <1>4, <1>10 DEF Others
<1>. QED BY <1>0, <1>2, <1>9, <1>11

(* A counter that says so has won.                                         *)
LEMMA CountedWins ==
  ASSUME NEW V, NEW n \in Nodes, NEW id, NEW q \in QuorumRecords, NEW wait \in SUBSET Others(n),
         Counted(V, n, id, q, wait), QuorumGo(q) = "win"
  PROVE  Wins(V, n, id)
<1>1. PICK A \in SUBSET Others(n), R \in SUBSET Others(n), C \in SUBSET Others(n) :
        /\ A \cap R = {} /\ A \cap C = {} /\ R \cap C = {}
        /\ A \cup R \cup C = Others(n) \ wait
        /\ q.accepted = Cardinality(A)
        /\ q.rejected = Cardinality(R)
        /\ q.collisions = Cardinality(C)
        /\ \A v \in A : Gave(V, v, id, n)
        /\ \A v \in C : Gave(V, v, id, v)
        /\ q.win_collision => \A v \in C : n < v
  BY DEF Counted
<1>2. /\ q.requests = NodeCount - 1 /\ q.accept_threshold = NodeCount \div 2
      /\ q.diff_requests = 0 /\ Gave(V, n, id, n)
  BY DEF Counted
<1>3. /\ NodeCount \in Nat /\ NodeCount >= 1
      /\ IsFiniteSet(Others(n)) /\ Cardinality(Others(n)) = NodeCount - 1
  BY OthersFinite
<1>4. /\ IsFiniteSet(A) /\ Cardinality(A) \in Nat /\ IsFiniteSet(R) /\ Cardinality(R) \in Nat
      /\ IsFiniteSet(C) /\ Cardinality(C) \in Nat /\ IsFiniteSet(wait) /\ Cardinality(wait) \in Nat
  BY OthersFinite
<1>5. CASE q.accepted = q.accept_threshold
  <2> DEFINE S == Others(n) \ A
  <2>1. A \in SUBSET Others(n) /\ S \in SUBSET Others(n) /\ A \cap S = {}
        /\ Others(n) \ (A \cup S) = {}
    OBVIOUS
  <2>2. Cardinality(S) = NodeCount - 1 - Cardinality(A)
    <3>1. Others(n) \cap A = A
      OBVIOUS
    <3>2. Cardinality(S) = Cardinality(Others(n)) - Cardinality(Others(n) \cap A)
      BY <1>3, FS_Difference
    <3>. QED BY <1>3, <3>1, <3>2
  <2>3. Cardinality(S) <= Cardinality(A)
    BY <1>1, <1>2, <1>3, <1>4, <1>5, <2>2
  <2> HIDE DEF S
  <2>. QED BY <1>1, <1>2, <2>1, <2>3 DEF Wins
<1>6. CASE q.accepted # q.accept_threshold
  <2>1. EarlyVerdict(q) # "win"
    BY <1>6 DEF EarlyVerdict
  <2>2. AllAnswered(q) /\ FinalVerdict(q) = "win"
    BY <2>1 DEF QuorumGo
  <2>3. q.accepted + q.rejected + q.collisions >= q.requests
    BY <2>2 DEF AllAnswered
  <2>4. Cardinality(A \cup R \cup C) = Cardinality(A) + Cardinality(R) + Cardinality(C)
    <3>1. IsFiniteSet(A \cup R) /\ Cardinality(A \cup R) = Cardinality(A) + Cardinality(R)
      <4>1. /\ IsFiniteSet(A \cup R)
            /\ Cardinality(A \cup R) = Cardinality(A) + Cardinality(R) - Cardinality(A \cap R)
        BY <1>4, FS_Union
      <4>2. Cardinality(A \cap R) = 0
        BY <1>1, FS_EmptySet
      <4>. QED BY <1>4, <4>1, <4>2
    <3>2. (A \cup R) \cap C = {}
      BY <1>1
    <3>3. Cardinality((A \cup R) \cup C) = Cardinality(A \cup R) + Cardinality(C) - Cardinality((A \cup R) \cap C)
      BY <1>4, <3>1, FS_Union
    <3>4. Cardinality((A \cup R) \cap C) = 0
      BY <3>2, FS_EmptySet
    <3>. QED BY <1>4, <3>1, <3>3, <3>4
  <2>5. Cardinality(A \cup R \cup C) = NodeCount - 1 - Cardinality(wait)
    <3>1. Others(n) \cap wait = wait
      OBVIOUS
    <3>2. A \cup R \cup C = Others(n) \ wait
      BY <1>1
    <3>3. Cardinality(Others(n) \ wait) = Cardinality(Others(n)) - Cardinality(Others(n) \cap wait)
      BY <1>3, FS_Difference
    <3>. QED BY <1>3, <3>1, <3>2, <3>3
  <2>6. Cardinality(wait) = 0
    BY <1>1, <1>2, <1>3, <1>4, <2>3, <2>4, <2>5
  <2>7. wait = {}
    BY <1>4, <2>6, FS_EmptySet
  <2>8. Others(n) \ (A \cup R) = C
    BY <1>1, <2>7
  <2>9. \/ q.accepted > q.rejected
        \/ q.accepted = q.rejected /\ q.win_collision
    <3>1. ~(q.diff_requests < 0)
      BY <1>2
    <3>. QED BY <2>2, <3>1 DEF FinalVerdict
  <2>10. /\ Cardinality(R) <= Cardinality(A)
         /\ Cardinality(R) = Cardinality(A) => \A v \in C : n < v
    BY <1>1, <1>4, <2>9
  <2>. QED BY <1>1, <1>2, <2>8, <2>10 DEF Wins
<1>. QED BY <1>5, <1>6

(* Votes are never taken back.                                             *)
Grows(V, W) == \A v \in Nodes : V[v] \subseteq W[v]

LEMMA WinsStays ==
  ASSUME NEW V, NEW W, Grows(V, W), NEW n \in Nodes, NEW id, Wins(V, n, id)
  PROVE  Wins(W, n, id)
<1>1. PICK A \in SUBSET Others(n), R \in SUBSET Others(n) :
        /\ A \cap R = {}
        /\ \A v \in A : Gave(V, v, id, n)
        /\ \A v \in Others(n) \ (A \cup R) : Gave(V, v, id, v)
        /\ Cardinality(R) <= Cardinality(A)
        /\ Cardinality(R) = Cardinality(A) => \A v \in Others(n) \ (A \cup R) : n < v
  BY DEF Wins
<1>2. /\ \A v \in A : Gave(W, v, id, n)
      /\ \A v \in Others(n) \ (A \cup R) : Gave(W, v, id, v)
      /\ Gave(W, n, id, n)
  BY <1>1 DEF Grows, Gave, Wins, Others
<1>. QED BY <1>1, <1>2 DEF Wins

LEMMA CountedStays ==
  ASSUME NEW V, NEW W, Grows(V, W), NEW n \in Nodes, NEW id, NEW q, NEW wait,
         Counted(V, n, id, q, wait)
  PROVE  Counted(W, n, id, q, wait)
<1>1. PICK A \in SUBSET Others(n), R \in SUBSET Others(n), C \in SUBSET Others(n) :
        /\ A \cap R = {} /\ A \cap C = {} /\ R \cap C = {}
        /\ A \cup R \cup C = Others(n) \ wait
        /\ q.accepted = Cardinality(A)
        /\ q.rejected = Cardinality(R)
        /\ q.collisions = Cardinality(C)
        /\ \A v \in A : Gave(V, v, id, n)
        /\ \A v \in C : Gave(V, v, id, v)
        /\ q.win_collision => \A v \in C : n < v
  BY DEF Counted
<1>2. /\ \A v \in A : Gave(W, v, id, n)
      /\ \A v \in C : Gave(W, v, id, v)
      /\ Gave(W, n, id, n)
  BY <1>1 DEF Grows, Gave, Counted, Others
<1>. QED BY <1>1, <1>2 DEF Counted

LEMMA ElectingStays ==
  ASSUME NEW V, NEW W, Grows(V, W), NEW n \in Nodes, NEW Q, NEW R, NEW next,
         Electing(n, Q, R, next, V)
  PROVE  Electing(n, Q, R, next, W)
<1>1. \A r \in R : r.id < next /\ r.wait \subseteq Others(n) /\ Counted(W, n, r.id, r.q, r.wait)
  BY CountedStays DEF Electing
<1>2. \A c \in Q : c.tp = "master" => Gave(W, n, c.id, n) /\ (c.ready => Wins(W, n, c.id))
  BY WinsStays DEF Electing, Grows, Gave
<1>. QED BY <1>1, <1>2 DEF Electing

LEMMA AnswerStays ==
  ASSUME NEW V, NEW W, Grows(V, W), NEW m \in Nodes, NEW n, NEW x, TrueAnswer(V, m, n, x)
  PROVE  TrueAnswer(W, m, n, x)
BY DEF TrueAnswer, Grows, Gave

LEMMA Linked ==
  ASSUME LinksAll, NEW n \in Nodes, NEW m \in Nodes, m # n
  PROVE  {n, m} \in links
<1>1. Cardinality({n, m}) = 2
  <2>1. IsFiniteSet({n}) /\ Cardinality({n}) = 1
    BY FS_Singleton
  <2>2. {n, m} = {n} \cup {m} /\ m \notin {n}
    OBVIOUS
  <2>3. Cardinality({n} \cup {m}) = IF m \in {n} THEN Cardinality({n}) ELSE Cardinality({n}) + 1
    BY <2>1, FS_AddElement
  <2>. QED BY <2>1, <2>2, <2>3
<1>. QED BY <1>1 DEF LinksAll

(* A new counter, when every node is asked.                                *)
LEMMA NewCounted ==
  ASSUME LinksAll, NEW n \in Nodes, NEW V, NEW id, Gave(V, n, id, n)
  PROVE  LET q == ShrinkBy(QuorumNew(Cardinality(Nodes), NodesQuorum(n)),
                           Cardinality(Nodes) - 1 - Cardinality(Peers(n)))
         IN  /\ Peers(n) = Others(n)
             /\ q.requests = NodeCount - 1
             /\ Counted(V, n, id, q, Peers(n))
<1> DEFINE N == Cardinality(Nodes)
           q == ShrinkBy(QuorumNew(N, NodesQuorum(n)), N - 1 - Cardinality(Peers(n)))
<1>1. ASSUME NEW m \in Nodes \ {n} PROVE {n, m} \in links
  BY Linked
<1>2. Peers(n) = Others(n)
  BY <1>1 DEF Peers, Others
<1>3. N \in Nat /\ N >= 1 /\ Cardinality(Peers(n)) = N - 1
  BY <1>2, OthersFinite DEF NodeCount
<1>4. q = QuorumNew(N, NodesQuorum(n))
  <2>1. N - 1 - Cardinality(Peers(n)) = 0
    BY <1>3
  <2>. QED BY <2>1 DEF ShrinkBy
<1> HIDE DEF q, N
<1>5. /\ q.requests = N - 1 /\ q.accept_threshold = N \div 2 /\ q.diff_requests = 0
      /\ q.accepted = 0 /\ q.rejected = 0 /\ q.collisions = 0
  BY <1>3, <1>4 DEF QuorumNew, ShrinkOne
<1>6. Counted(V, n, id, q, Peers(n))
  <2>1. \E A, R, C \in SUBSET Others(n) :
          /\ A \cap R = {} /\ A \cap C = {} /\ R \cap C = {}
          /\ A \cup R \cup C = Others(n) \ Peers(n)
          /\ q.accepted = Cardinality(A)
          /\ q.rejected = Cardinality(R)
          /\ q.collisions = Cardinality(C)
          /\ \A v \in A : Gave(V, v, id, n)
          /\ \A v \in C : Gave(V, v, id, v)
          /\ q.win_collision => \A v \in C : n < v
    <3> WITNESS {} \in SUBSET Others(n), {} \in SUBSET Others(n), {} \in SUBSET Others(n)
    <3>. QED BY <1>2, <1>5, FS_EmptySet
  <2>. QED BY <1>5, <2>1 DEF Counted, NodeCount, N
<1>. QED BY <1>2, <1>5, <1>6 DEF q, N, NodeCount

(* An answer that is true is counted.                                      *)
LEMMA AnswerCounted ==
  ASSUME NEW V, NEW n \in Nodes, NEW id, NEW q \in QuorumRecords, NEW wait \in SUBSET Others(n),
         Counted(V, n, id, q, wait), NEW m \in wait,
         NEW a \in {"accept", "reject", "collision"}, NEW k,
         a = "accept" => Gave(V, m, id, n),
         a = "collision" => Gave(V, m, id, m) /\ k = NodeCount - 1
  PROVE  Counted(V, n, id, CountAnswer(q, a, k, m < n), wait \ {m})
<1> DEFINE p == CountAnswer(q, a, k, m < n)
           Fits(A, R, C, qq, w) ==
             /\ A \cap R = {} /\ A \cap C = {} /\ R \cap C = {}
             /\ A \cup R \cup C = Others(n) \ w
             /\ qq.accepted = Cardinality(A)
             /\ qq.rejected = Cardinality(R)
             /\ qq.collisions = Cardinality(C)
             /\ \A v \in A : Gave(V, v, id, n)
             /\ \A v \in C : Gave(V, v, id, v)
             /\ qq.win_collision => \A v \in C : n < v
<1>1. PICK A \in SUBSET Others(n), R \in SUBSET Others(n), C \in SUBSET Others(n) :
        Fits(A, R, C, q, wait)
  BY DEF Counted
<1>2. /\ q.requests = NodeCount - 1 /\ q.accept_threshold = NodeCount \div 2
      /\ q.diff_requests = 0 /\ Gave(V, n, id, n)
  BY DEF Counted
<1>3. m \in Others(n) /\ m \in Nat /\ n \in Nat /\ m # n /\ NodeCount \in Nat
  BY NodesAssumption, OthersFinite DEF Others
<1>4. m \notin A /\ m \notin R /\ m \notin C
  BY <1>1
<1>5. /\ IsFiniteSet(A) /\ Cardinality(A) \in Nat /\ IsFiniteSet(R) /\ Cardinality(R) \in Nat
      /\ IsFiniteSet(C) /\ Cardinality(C) \in Nat
  BY OthersFinite
<1>6. /\ Cardinality(A \cup {m}) = Cardinality(A) + 1
      /\ Cardinality(R \cup {m}) = Cardinality(R) + 1
      /\ Cardinality(C \cup {m}) = Cardinality(C) + 1
  BY <1>4, <1>5, FS_AddElement
<1>7. CASE a = "accept"
  <2>1. p = [q EXCEPT !.accepted = @ + 1]
    BY <1>7 DEF CountAnswer
  <2> HIDE DEF p
  <2>2. /\ p.requests = q.requests /\ p.accept_threshold = q.accept_threshold
        /\ p.diff_requests = q.diff_requests /\ p.accepted = q.accepted + 1
        /\ p.rejected = q.rejected /\ p.collisions = q.collisions
        /\ p.win_collision = q.win_collision
    BY <2>1 DEF QuorumRecords
  <2>3. A \cup {m} \in SUBSET Others(n) /\ Fits(A \cup {m}, R, C, p, wait \ {m})
    BY <1>1, <1>3, <1>4, <1>6, <1>7, <2>2
  <2>. QED BY <1>2, <2>2, <2>3 DEF Counted, p
<1>8. CASE a = "reject"
  <2>1. p = [q EXCEPT !.rejected = @ + 1]
    BY <1>8 DEF CountAnswer
  <2> HIDE DEF p
  <2>2. /\ p.requests = q.requests /\ p.accept_threshold = q.accept_threshold
        /\ p.diff_requests = q.diff_requests /\ p.accepted = q.accepted
        /\ p.rejected = q.rejected + 1 /\ p.collisions = q.collisions
        /\ p.win_collision = q.win_collision
    BY <2>1 DEF QuorumRecords
  <2>3. R \cup {m} \in SUBSET Others(n) /\ Fits(A, R \cup {m}, C, p, wait \ {m})
    BY <1>1, <1>3, <1>4, <1>6, <2>2
  <2>. QED BY <1>2, <2>2, <2>3 DEF Counted, p
<1>9. CASE a = "collision"
  <2> DEFINE d == IF q.requests > k THEN 1 ELSE IF q.requests < k THEN -1 ELSE 0
             w == q.win_collision /\ ~(q.requests = k /\ m < n)
  <2>1. p = [q EXCEPT !.collisions = q.collisions + 1,
                      !.diff_requests = q.diff_requests + d, !.win_collision = w]
    BY <1>9, Zenon DEF CountAnswer
  <2>2. d = 0
    BY <1>2, <1>3, <1>9
  <2>3. w => n < m /\ q.win_collision
    BY <1>2, <1>3, <1>9
  <2> HIDE DEF p, d, w
  <2>4. /\ p.requests = q.requests /\ p.accept_threshold = q.accept_threshold
        /\ p.diff_requests = q.diff_requests + d /\ p.accepted = q.accepted
        /\ p.rejected = q.rejected /\ p.collisions = q.collisions + 1
        /\ p.win_collision = w
    BY <2>1 DEF QuorumRecords
  <2>5. p.diff_requests = 0
    BY <1>2, <2>2, <2>4
  <2>6. p.win_collision => \A v \in C \cup {m} : n < v
    BY <1>1, <2>3, <2>4
  <2>7. C \cup {m} \in SUBSET Others(n) /\ Fits(A, R, C \cup {m}, p, wait \ {m})
    BY <1>1, <1>3, <1>4, <1>6, <1>9, <2>4, <2>6
  <2>. QED BY <1>2, <2>4, <2>5, <2>7 DEF Counted, p
<1>. QED BY <1>7, <1>8, <1>9
-----------------------------------------------------------------------------
(* What the channels hold after a package was sent or received.            *)
LEMMA SendEntries ==
  ASSUME NEW ch \in Channels, NEW n \in Nodes, NEW S, NEW msg \in Message,
         NEW a \in Nodes, NEW b \in Nodes
  PROVE  /\ \A x \in Entries(Send(ch, n, S, msg)[<<a, b>>]) :
              x \in Entries(ch[<<a, b>>]) \/ (x = msg /\ a = n /\ b \in S)
         /\ \A x \in Entries(ch[<<a, b>>]) : x \in Entries(Send(ch, n, S, msg)[<<a, b>>])
         /\ a = n /\ b \in S => msg \in Entries(Send(ch, n, S, msg)[<<a, b>>])
<1> DEFINE p == <<a, b>>
<1>1. p \in Nodes \X Nodes /\ p[1] = a /\ p[2] = b
  OBVIOUS
<1> HIDE DEF p
<1>2. ch[p] \in Seq(Message) /\ Len(ch[p]) \in Nat
  BY <1>1, LenProperties DEF Channels
<1>3. Send(ch, n, S, msg)[p] = IF a = n /\ b \in S THEN Append(ch[p], msg) ELSE ch[p]
  BY <1>1 DEF Send
<1>4. Entries(Append(ch[p], msg)) = Entries(ch[p]) \cup {msg}
  BY <1>2, AppendProperties DEF Entries
<1>. QED BY <1>3, <1>4 DEF p

LEMMA SendKeeps ==
  ASSUME NEW ch \in Channels, NEW n \in Nodes, NEW S, NEW msg \in Message,
         NEW a \in Nodes, NEW b \in Nodes
  PROVE  Entries(ch[<<a, b>>]) \subseteq Entries(Send(ch, n, S, msg)[<<a, b>>])
<1> SUFFICES ASSUME NEW x \in Entries(ch[<<a, b>>])
             PROVE  x \in Entries(Send(ch, n, S, msg)[<<a, b>>])
  OBVIOUS
<1>. QED BY SendEntries

LEMMA ReceiveEntries ==
  ASSUME chan \in Channels, NEW m \in Nodes, NEW n \in Nodes, NEW tp, HeadIs(m, n, tp),
         NEW a \in Nodes, NEW b \in Nodes
  PROVE  /\ \A x \in Entries(Receive(m, n)[<<a, b>>]) : x \in Entries(chan[<<a, b>>])
         /\ \A x \in Entries(chan[<<a, b>>]) :
              \/ x \in Entries(Receive(m, n)[<<a, b>>])
              \/ a = m /\ b = n /\ x = Head(chan[<<m, n>>])
         /\ Head(chan[<<m, n>>]) \in Entries(chan[<<m, n>>])
<1> DEFINE s == chan[<<m, n>>]
<1>1. s \in Seq(Message) /\ s # <<>>
  BY DEF Channels, HeadIs
<1>2. Len(s) \in Nat /\ Len(s) >= 1 /\ Head(s) = s[1]
  BY <1>1, LenProperties, EmptySeq
<1>3. Len(Tail(s)) = Len(s) - 1 /\ \A i \in 1 .. Len(s) - 1 : Tail(s)[i] = s[i + 1]
  BY <1>1, <1>2, HeadTailProperties
<1>4. Entries(Tail(s)) \subseteq Entries(s)
  BY <1>2, <1>3 DEF Entries
<1>5. Head(s) \in Entries(s)
  BY <1>2 DEF Entries
<1>6. \A x \in Entries(s) : x \in Entries(Tail(s)) \/ x = Head(s)
  <2> SUFFICES ASSUME NEW i \in 1 .. Len(s), i # 1 PROVE s[i] \in Entries(Tail(s))
    BY <1>2 DEF Entries
  <2>1. i - 1 \in 1 .. Len(s) - 1 /\ (i - 1) + 1 = i
    BY <1>2
  <2>2. Tail(s)[i - 1] = s[i]
    BY <1>3, <2>1
  <2>. QED BY <1>3, <2>1, <2>2 DEF Entries
<1> HIDE DEF s
<1>7. CASE a = m /\ b = n
  <2>1. Receive(m, n)[<<a, b>>] = Tail(s)
    BY <1>7 DEF Receive, Channels, s
  <2>. QED BY <1>4, <1>5, <1>6, <1>7, <2>1 DEF s
<1>8. CASE ~(a = m /\ b = n)
  <2>1. Receive(m, n)[<<a, b>>] = chan[<<a, b>>]
    BY <1>8 DEF Receive, Channels
  <2>. QED BY <1>5, <2>1 DEF s
<1>. QED BY <1>7, <1>8

LEMMA ReceivedWas ==
  ASSUME chan \in Channels, NEW m \in Nodes, NEW n \in Nodes, NEW tp, HeadIs(m, n, tp)
  PROVE  \A a, b \in Nodes : Entries(Receive(m, n)[<<a, b>>]) \subseteq Entries(chan[<<a, b>>])
<1> SUFFICES ASSUME NEW a \in Nodes, NEW b \in Nodes, NEW x \in Entries(Receive(m, n)[<<a, b>>])
             PROVE  x \in Entries(chan[<<a, b>>])
  BY Zenon
<1>1. CASE a = m /\ b = n
  <2> DEFINE s == chan[<<m, n>>]
  <2>1. s \in Seq(Message) /\ s # <<>>
    BY DEF Channels, HeadIs
  <2>2. Len(s) \in Nat /\ Len(Tail(s)) = Len(s) - 1
        /\ \A i \in 1 .. Len(s) - 1 : Tail(s)[i] = s[i + 1]
    BY <2>1, LenProperties, HeadTailProperties, EmptySeq
  <2>3. Entries(Tail(s)) \subseteq Entries(s)
    BY <2>2 DEF Entries
  <2>4. Receive(m, n)[<<m, n>>] = Tail(s)
    BY DEF Receive, Channels
  <2>. QED BY <1>1, <2>3, <2>4
<1>2. CASE ~(a = m /\ b = n)
  <2>1. Receive(m, n)[<<a, b>>] = chan[<<a, b>>]
    BY <1>2 DEF Receive, Channels
  <2>. QED BY <2>1
<1>. QED BY <1>1, <1>2

(* A question that is on its way stays on its way, unless it, or its       *)
(* answer, is what is received.                                            *)
LEMMA RoadReceived ==
  ASSUME chan \in Channels, NEW m \in Nodes, NEW n \in Nodes, NEW tp, HeadIs(m, n, tp),
         NEW k \in Nodes, NEW x \in Nodes, NEW id, OnRoad(chan, k, x, id)
  PROVE  \/ OnRoad(Receive(m, n), k, x, id)
         \/ tp = "res" /\ k = n /\ x = m /\ Head(chan[<<m, n>>]).id = id
         \/ tp = "req" /\ k = m /\ x = n /\ Head(chan[<<m, n>>]).id = id
<1>0. Head(chan[<<m, n>>]).tp = tp
  BY DEF HeadIs
<1>1. CASE [tp |-> "req", id |-> id] \in Entries(chan[<<k, x>>])
  <2>1. \/ [tp |-> "req", id |-> id] \in Entries(Receive(m, n)[<<k, x>>])
        \/ k = m /\ x = n /\ [tp |-> "req", id |-> id] = Head(chan[<<m, n>>])
    BY <1>1, ReceiveEntries
  <2>2. [tp |-> "req", id |-> id].tp = "req" /\ [tp |-> "req", id |-> id].id = id
    OBVIOUS
  <2>3. CASE [tp |-> "req", id |-> id] \in Entries(Receive(m, n)[<<k, x>>])
    BY <2>3 DEF OnRoad
  <2>4. CASE k = m /\ x = n /\ [tp |-> "req", id |-> id] = Head(chan[<<m, n>>])
    BY <1>0, <2>2, <2>4
  <2>. QED BY <2>1, <2>3, <2>4
<1>2. CASE \E y \in Entries(chan[<<x, k>>]) : y.tp = "res" /\ y.id = id
  <2>1. PICK y \in Entries(chan[<<x, k>>]) : y.tp = "res" /\ y.id = id
    BY <1>2
  <2>2. y \in Entries(Receive(m, n)[<<x, k>>]) \/ (x = m /\ k = n /\ y = Head(chan[<<m, n>>]))
    BY ReceiveEntries
  <2>. QED BY <1>0, <2>1, <2>2 DEF OnRoad
<1>. QED BY <1>1, <1>2 DEF OnRoad

LEMMA RoadSent ==
  ASSUME NEW ch \in Channels, NEW n \in Nodes, NEW S, NEW msg \in Message,
         NEW k \in Nodes, NEW x \in Nodes, NEW id, OnRoad(ch, k, x, id)
  PROVE  OnRoad(Send(ch, n, S, msg), k, x, id)
<1>1. Entries(ch[<<k, x>>]) \subseteq Entries(Send(ch, n, S, msg)[<<k, x>>])
  BY SendKeeps
<1>2. Entries(ch[<<x, k>>]) \subseteq Entries(Send(ch, n, S, msg)[<<x, k>>])
  BY SendKeeps
<1>. QED BY <1>1, <1>2 DEF OnRoad
-----------------------------------------------------------------------------
(* What a step has to show.                                                *)

LEMMA ElectionsOne ==
  ASSUME Elections, Grows(votes, votes'), NEW n \in Nodes,
         \A k \in Nodes \ {n} : /\ queue'[k] = queue[k] /\ rounds'[k] = rounds[k]
                                /\ next_change_id'[k] = next_change_id[k],
         Electing(n, Entries(queue'[n]), rounds'[n], next_change_id'[n], votes')
  PROVE  Elections'
<1> SUFFICES ASSUME NEW k \in Nodes
             PROVE  Electing(k, Entries(queue'[k]), rounds'[k], next_change_id'[k], votes')
  BY DEF Elections
<1>1. CASE k = n
  BY <1>1
<1>2. CASE k # n
  <2>1. Electing(k, Entries(queue[k]), rounds[k], next_change_id[k], votes)
    BY DEF Elections
  <2>2. Electing(k, Entries(queue[k]), rounds[k], next_change_id[k], votes')
    BY <2>1, ElectingStays
  <2>. QED BY <1>2, <2>2
<1>. QED BY <1>1, <1>2

LEMMA AnswersSent ==
  ASSUME TrueAnswers, Grows(votes, votes'),
         \A a, b \in Nodes : \A x \in Entries(chan'[<<a, b>>]) :
           x \in Entries(chan[<<a, b>>]) \/ TrueAnswer(votes', a, b, x)
  PROVE  TrueAnswers'
<1> SUFFICES ASSUME NEW a \in Nodes, NEW b \in Nodes, NEW x \in Entries(chan'[<<a, b>>])
             PROVE  TrueAnswer(votes', a, b, x)
  BY DEF TrueAnswers
<1>1. CASE x \in Entries(chan[<<a, b>>])
  <2>1. TrueAnswer(votes, a, b, x)
    BY <1>1 DEF TrueAnswers
  <2>. QED BY <2>1, AnswerStays
<1>. QED BY <1>1

LEMMA LogStays ==
  ASSUME HInv, LogWon, Grows(votes, votes'), log' = log
  PROVE  LogWon'
<1> SUFFICES ASSUME NEW n \in Nodes, NEW e \in log[n] PROVE Wins(votes', Home[e.op], e.id)
  BY DEF LogWon
<1>1. Home[e.op] \in Nodes
  BY HomeAssumption DEF HInv, OInv, IInv, TypeOK
<1>2. Wins(votes, Home[e.op], e.id)
  BY DEF LogWon
<1>. QED BY <1>1, <1>2, WinsStays

LEMMA GrowsSame == ASSUME votes' = votes PROVE Grows(votes, votes')
BY DEF Grows

(* Steps that give away nothing and decide nothing: changes leave a queue, *)
(* change packages come in, and next ids go up.                            *)
LEMMA Quiet ==
  ASSUME HInv, VoteInv, UNCHANGED <<votes, rounds, links>>, LogWon',
         \A n \in Nodes : \A c \in Entries(queue'[n]) : c.tp = "master" => c \in Entries(queue[n]),
         \A n \in Nodes : next_change_id'[n] \in Nat /\ next_change_id[n] <= next_change_id'[n],
         \A a, b \in Nodes : \A x \in Entries(chan'[<<a, b>>]) :
           x \in Entries(chan[<<a, b>>]) \/ x.tp # "res",
         \A k, x \in Nodes : \A id : OnRoad(chan, k, x, id) => OnRoad(chan', k, x, id)
  PROVE  VoteInv'
<1>1. LinksAll'
  BY DEF VoteInv, LinksAll
<1>2. InFlight'
  <2> SUFFICES ASSUME NEW k \in Nodes, NEW r \in rounds[k], NEW m \in r.wait
               PROVE  OnRoad(chan', k, m, r.id)
    BY DEF InFlight
  <2>1. m \in Nodes
    BY DEF VoteInv, Elections, Electing, Others
  <2>2. OnRoad(chan, k, m, r.id)
    BY DEF VoteInv, InFlight
  <2>. QED BY <2>1, <2>2
<1>3. TrueAnswers'
  <2>1. \A a, b \in Nodes : \A x \in Entries(chan'[<<a, b>>]) :
          x \in Entries(chan[<<a, b>>]) \/ TrueAnswer(votes', a, b, x)
    BY DEF TrueAnswer
  <2>. QED BY <2>1, GrowsSame, AnswersSent DEF VoteInv
<1>4. Elections'
  <2> SUFFICES ASSUME NEW k \in Nodes
               PROVE  Electing(k, Entries(queue'[k]), rounds[k], next_change_id'[k], votes)
    BY DEF Elections
  <2>1. Electing(k, Entries(queue[k]), rounds[k], next_change_id[k], votes)
    BY DEF VoteInv, Elections
  <2>2. next_change_id[k] \in Nat /\ \A r \in rounds[k] : r.id \in Nat
    BY DEF HInv, OInv, IInv, TypeOK, Round
  <2>3. \A r \in rounds[k] : r.id < next_change_id'[k]
    BY <2>1, <2>2 DEF Electing
  <2>. QED BY <2>1, <2>3 DEF Electing
<1>. QED BY <1>1, <1>2, <1>3, <1>4 DEF VoteInv
-----------------------------------------------------------------------------
(* A node asks for the next id: it gives it to itself.                     *)
LEMMA AskedVotes ==
  ASSUME HInv, VoteInv, NEW n \in Nodes, NEW op \in Ops, NEW rest \in Seq(QueueEntry),
         NEW ch \in Channels, NEW others \in SUBSET rounds[n],
         ReqChangeId(n, op, rest, ch, others), UNCHANGED <<links, log>>, Sorted(rest),
         Entries(rest) = {c \in Entries(queue[n]) : ~(c.tp = "master" /\ c.op = op)},
         \A s \in others : s.op # op,
         \A a, b \in Nodes : Entries(ch[<<a, b>>]) \subseteq Entries(chan[<<a, b>>]),
         \A s \in others : \A x \in s.wait : OnRoad(ch, n, x, s.id),
         \A k \in Nodes \ {n} : \A s \in rounds[k] : \A x \in s.wait : OnRoad(ch, k, x, s.id)
  PROVE  VoteInv'
<1> DEFINE id == next_change_id[n]
           q == ShrinkBy(QuorumNew(Cardinality(Nodes), NodesQuorum(n)),
                         Cardinality(Nodes) - 1 - Cardinality(Peers(n)))
           won == QuorumGo(q) = "win"
           c == [id |-> id, op |-> op, tp |-> "master", ready |-> won,
                 requests |-> q.requests]
           r == [id |-> id, op |-> op, q |-> q, wait |-> Peers(n)]
           msg == [tp |-> "req", id |-> id]
<1>1. TypeOK /\ id \in Nat /\ q \in QuorumRecords /\ LinksAll
  BY NewRoundType DEF HInv, OInv, IInv, TypeOK, VoteInv
<1>2. /\ next_change_id' = [next_change_id EXCEPT ![n] = id + 1]
      /\ queue' = [queue EXCEPT ![n] = Push(rest, c)]
      /\ rounds' = [rounds EXCEPT ![n] = IF won THEN others ELSE others \cup {r}]
      /\ chan' = Send(ch, n, Peers(n), msg)
      /\ votes' = [votes EXCEPT ![n] = @ \cup {[id |-> id, for |-> n]}]
  BY Zenon DEF ReqChangeId
<1>3. /\ votes'[n] = votes[n] \cup {[id |-> id, for |-> n]}
      /\ \A k \in Nodes \ {n} : votes'[k] = votes[k]
  BY <1>1, <1>2 DEF TypeOK
<1>4. Grows(votes, votes') /\ Gave(votes', n, id, n)
  BY <1>3 DEF Grows, Gave
<1>5. /\ Peers(n) = Others(n) /\ q.requests = NodeCount - 1
      /\ Counted(votes', n, id, q, Peers(n))
  BY <1>1, <1>4, NewCounted
<1>6. won \in BOOLEAN
  OBVIOUS
<1>7. won => Wins(votes', n, id)
  <2> HIDE DEF q
  <2>1. Peers(n) \in SUBSET Others(n)
    BY <1>5
  <2>. QED BY <1>1, <1>5, <2>1, CountedWins
<1> HIDE DEF q, won
<1>8. c \in QueueEntry
  <2>1. q.requests \in Nat
    BY <1>1 DEF QuorumRecords
  <2>. QED BY <1>1, <1>6, <2>1 DEF QueueEntry
<1>9. /\ c.id = id /\ c.op = op /\ c.tp = "master" /\ c.ready = won /\ c.requests = q.requests
      /\ r.id = id /\ r.op = op /\ r.q = q /\ r.wait = Peers(n)
  OBVIOUS
<1> HIDE DEF c, r
<1>10. Electing(n, Entries(queue[n]), rounds[n], id, votes')
  BY <1>4, ElectingStays DEF VoteInv, Elections
<1>11. \A e \in Entries(rest) : e.id # c.id
  <2>1. \A e \in Entries(queue[n]) : e.id \in Nat /\ e.id < id
    BY NodeFacts
  <2>. QED BY <1>1, <1>9, <2>1
<1>12. Entries(Push(rest, c)) = Entries(rest) \cup {c}
  BY <1>8, <1>11, PushFacts
<1>13. /\ Entries(queue'[n]) = Entries(rest) \cup {c}
       /\ rounds'[n] = (IF won THEN others ELSE others \cup {r})
       /\ next_change_id'[n] = id + 1
       /\ \A k \in Nodes \ {n} : /\ queue'[k] = queue[k] /\ rounds'[k] = rounds[k]
                                 /\ next_change_id'[k] = next_change_id[k]
  BY <1>1, <1>2, <1>12 DEF TypeOK
<1>14. \A s \in rounds[n] : s.id \in Nat
  BY <1>1 DEF TypeOK, Round
<1> HIDE DEF id
<1>15. \A s \in rounds'[n] : s \in others \/ s = r
  BY <1>13
<1>16. \A s \in rounds'[n] : /\ s.id < id + 1 /\ s.wait \subseteq Others(n)
                             /\ Counted(votes', n, s.id, s.q, s.wait)
  <2>1. \A s \in others : s.id < id + 1 /\ s.wait \subseteq Others(n)
                          /\ Counted(votes', n, s.id, s.q, s.wait)
    BY <1>1, <1>10, <1>14 DEF Electing
  <2>2. r.id < id + 1
    BY <1>1, <1>9
  <2>. QED BY <1>5, <1>9, <1>15, <2>1, <2>2
<1>17. \A s, t \in rounds'[n] : s.id = t.id => s = t
  <2>1. \A s \in others : s.id # id
    BY <1>1, <1>10, <1>14 DEF Electing
  <2>. QED BY <1>9, <1>10, <1>15, <2>1 DEF Electing
<1>18. ASSUME NEW e \in Entries(rest) \cup {c}, e.tp = "master"
       PROVE  /\ Gave(votes', n, e.id, n)
              /\ e.requests = NodeCount - 1
              /\ e.ready => Wins(votes', n, e.id)
              /\ \A s \in rounds'[n] : s.op = e.op => s.id = e.id
  <2>1. CASE e = c
    BY <1>4, <1>5, <1>7, <1>9, <1>15, <2>1
  <2>2. CASE e \in Entries(queue[n]) /\ e.op # op
    BY <1>9, <1>10, <1>15, <1>18, <2>2 DEF Electing
  <2>. QED BY <1>18, <2>1, <2>2
<1>19. Electing(n, Entries(queue'[n]), rounds'[n], next_change_id'[n], votes')
  BY <1>13, <1>16, <1>17, <1>18 DEF Electing
<1>20. Elections'
  BY <1>4, <1>13, <1>19, ElectionsOne DEF VoteInv
<1>21. msg \in Message /\ msg.tp = "req"
  BY <1>1, MessageMade
<1>22. TrueAnswers'
  <2>1. ASSUME NEW a \in Nodes, NEW b \in Nodes, NEW x \in Entries(chan'[<<a, b>>])
        PROVE  x \in Entries(chan[<<a, b>>]) \/ TrueAnswer(votes', a, b, x)
    <3> HIDE DEF msg
    <3>1. chan' = Send(ch, n, Peers(n), msg)
      BY <1>2
    <3>2. x \in Entries(Send(ch, n, Peers(n), msg)[<<a, b>>])
      BY <3>1
    <3>3. \A y \in Entries(Send(ch, n, Peers(n), msg)[<<a, b>>]) :
            y \in Entries(ch[<<a, b>>]) \/ (y = msg /\ a = n /\ b \in Peers(n))
      BY <1>21, SendEntries, Zenon
    <3>. QED BY <1>21, <3>2, <3>3 DEF TrueAnswer
  <2>. QED BY <1>4, <2>1, AnswersSent DEF VoteInv
<1>23. InFlight'
  <2> SUFFICES ASSUME NEW k \in Nodes, NEW s \in rounds'[k], NEW x \in s.wait
               PROVE  OnRoad(chan', k, x, s.id)
    BY DEF InFlight
  <2>1. x \in Nodes
    BY <1>20 DEF Elections, Electing, Others
  <2>2. CASE k = n /\ s = r
    <3>1. x \in Peers(n) /\ s.id = id
      BY <1>9, <2>2
    <3>2. msg \in Entries(chan'[<<n, x>>])
      <4> HIDE DEF msg
      <4>1. msg \in Entries(Send(ch, n, Peers(n), msg)[<<n, x>>])
        BY <1>21, <2>1, <3>1, SendEntries, Zenon
      <4>. QED BY <1>2, <4>1
    <3>. QED BY <2>2, <3>1, <3>2 DEF OnRoad
  <2>3. CASE ~(k = n /\ s = r)
    <3> HIDE DEF msg
    <3>1. OnRoad(ch, k, x, s.id)
      BY <1>13, <1>15, <2>3
    <3>. QED BY <1>2, <1>21, <2>1, <3>1, RoadSent
  <2>. QED BY <2>2, <2>3
<1>24. LinksAll'
  BY <1>1 DEF LinksAll
<1>25. LogWon'
  BY <1>4, LogStays DEF VoteInv
<1>. QED BY <1>20, <1>22, <1>23, <1>24, <1>25 DEF VoteInv

(* A round goes on, is won or is lost.  Its question to m is answered, and *)
(* all other questions are on their way.                                   *)
LEMMA QuorumStepVotes ==
  ASSUME HInv, VoteInv, NEW n \in Nodes, NEW r \in rounds[n], NEW m \in r.wait,
         NEW q \in QuorumRecords, NEW ch \in Channels,
         Counted(votes, n, r.id, q, r.wait \ {m}),
         QuorumStep(n, r, m, q, ch), UNCHANGED <<links, log>>,
         \A a, b \in Nodes : Entries(ch[<<a, b>>]) \subseteq Entries(chan[<<a, b>>]),
         \A k \in Nodes : \A s \in rounds[k] : \A x \in s.wait :
           (k = n /\ s = r /\ x = m) \/ OnRoad(ch, k, x, s.id)
  PROVE  VoteInv'
<1> DEFINE Q == Entries(queue[n])
           R == rounds[n]
<1>1. TypeOK /\ LinksAll /\ TrueAnswers /\ Elections /\ LogWon
  BY DEF HInv, OInv, IInv, VoteInv
<1>2. /\ queue[n] \in Seq(QueueEntry) /\ Q \in SUBSET QueueEntry /\ R \in SUBSET Round
      /\ Sorted(queue[n]) /\ r.op \in Ops
      /\ Placed(n, log[n], Q, R)
  BY NodeFacts
<1>3. \A s \in R \ {r} : s.op # r.op /\ s.id # r.id
  BY <1>1, <1>2 DEF Placed, Elections, Electing
<1>4. \A c, d \in Q : c.tp = "master" /\ d.tp = "master" /\ c.op = r.op /\ d.op = r.op => c = d
  BY <1>2 DEF Placed
<1>5. Electing(n, Q, R, next_change_id[n], votes)
  BY <1>1 DEF Elections
<1>6. ASSUME UNCHANGED <<votes, next_change_id>>, chan' = ch,
             \A k \in Nodes \ {n} : queue'[k] = queue[k] /\ rounds'[k] = rounds[k],
             Electing(n, Entries(queue'[n]), rounds'[n], next_change_id[n], votes),
             \A s \in rounds'[n] : \/ s \in R \ {r}
                                   \/ s.id = r.id /\ s.wait = r.wait \ {m}
      PROVE  VoteInv'
  <2>1. Grows(votes, votes')
    BY <1>6, GrowsSame
  <2>2. Elections'
    <3>1. \A k \in Nodes \ {n} : /\ queue'[k] = queue[k] /\ rounds'[k] = rounds[k]
                                 /\ next_change_id'[k] = next_change_id[k]
      BY <1>6
    <3>2. Electing(n, Entries(queue'[n]), rounds'[n], next_change_id'[n], votes')
      BY <1>6
    <3>. QED BY <1>1, <2>1, <3>1, <3>2, ElectionsOne
  <2>3. TrueAnswers'
    BY <1>1, <1>6, <2>1, AnswersSent
  <2>4. InFlight'
    <3> SUFFICES ASSUME NEW k \in Nodes, NEW s \in rounds'[k], NEW x \in s.wait
                 PROVE  OnRoad(ch, k, x, s.id)
      BY <1>6 DEF InFlight
    <3>1. CASE k # n
      BY <1>6, <3>1
    <3>2. CASE k = n /\ s \in R \ {r}
      BY <3>2
    <3>3. CASE k = n /\ s.id = r.id /\ s.wait = r.wait \ {m}
      <4>1. x \in r.wait /\ x # m
        BY <3>3
      <4>2. OnRoad(ch, n, x, r.id)
        BY <4>1
      <4>. QED BY <3>3, <4>2
    <3>. QED BY <1>6, <3>1, <3>2, <3>3
  <2>5. LinksAll'
    BY <1>1 DEF LinksAll
  <2>6. LogWon'
    BY <1>1, <2>1, LogStays
  <2>. QED BY <2>2, <2>3, <2>4, <2>5, <2>6 DEF VoteInv
<1>7. CASE /\ rounds' = [rounds EXCEPT ![n] =
                           (@ \ {r}) \cup {[r EXCEPT !.q = q, !.wait = @ \ {m}]}]
           /\ chan' = ch
           /\ UNCHANGED <<next_change_id, queue, reply, votes>>
  <2> DEFINE s == [r EXCEPT !.q = q, !.wait = @ \ {m}]
  <2>1. s.op = r.op /\ s.id = r.id /\ s.q = q /\ s.wait = r.wait \ {m}
    BY <1>2 DEF Round
  <2> HIDE DEF s, Q
  <2>2. /\ rounds'[n] = (R \ {r}) \cup {s}
        /\ \A k \in Nodes \ {n} : rounds'[k] = rounds[k]
    BY <1>1, <1>7 DEF TypeOK, s
  <2>3. r \in R
    OBVIOUS
  <2> HIDE DEF R
  <2>4. \A t \in rounds'[n] : /\ t.id < next_change_id[n] /\ t.wait \subseteq Others(n)
                              /\ Counted(votes, n, t.id, t.q, t.wait)
    <3>1. s.id < next_change_id[n] /\ s.wait \subseteq Others(n)
          /\ Counted(votes, n, s.id, s.q, s.wait)
      BY <1>5, <2>1, <2>3 DEF Electing
    <3>. QED BY <1>5, <2>2, <3>1 DEF Electing
  <2>5. \A t, u \in rounds'[n] : t.id = u.id => t = u
    BY <1>3, <1>5, <2>1, <2>2 DEF Electing
  <2>6. \A c \in Q : c.tp = "master" => \A t \in rounds'[n] : t.op = c.op => t.id = c.id
    BY <1>5, <2>1, <2>2, <2>3 DEF Electing
  <2>7. Electing(n, Q, rounds'[n], next_change_id[n], votes)
    BY <1>5, <2>4, <2>5, <2>6 DEF Electing
  <2>. QED BY <1>6, <1>7, <2>1, <2>2, <2>7 DEF Q
<1>8. CASE QuorumGo(q) = "win" /\ OnWin(n, r, ch)
  <2> DEFINE t == [i \in DOMAIN queue[n] |->
                     IF i \in MasterAt(queue[n], r.op)
                     THEN [queue[n][i] EXCEPT !.ready = TRUE] ELSE queue[n][i]]
             P == {Readied(c, r.op) : c \in Q}
  <2>1. Entries(t) = P
    BY <1>2, ReadyFacts
  <2>2. queue' = [queue EXCEPT ![n] = t] /\ rounds' = [rounds EXCEPT ![n] = R \ {r}]
        /\ chan' = ch /\ UNCHANGED <<next_change_id, votes>>
    BY <1>1, <1>8 DEF OnWin, TypeOK
  <2> HIDE DEF t
  <2>3. /\ Entries(queue'[n]) = P /\ rounds'[n] = R \ {r}
        /\ \A k \in Nodes \ {n} : queue'[k] = queue[k] /\ rounds'[k] = rounds[k]
    BY <1>1, <2>1, <2>2 DEF TypeOK
  <2>4. r \in R
    OBVIOUS
  <2>5. Wins(votes, n, r.id)
    <3>1. r.wait \ {m} \in SUBSET Others(n)
      BY <1>5, <2>4 DEF Electing
    <3>. QED BY <1>8, <3>1, CountedWins
  <2>6. \A c \in QueueEntry : /\ Readied(c, r.op).tp = c.tp /\ Readied(c, r.op).op = c.op
                              /\ Readied(c, r.op).id = c.id
                              /\ Readied(c, r.op).requests = c.requests
                              /\ c.op # r.op => Readied(c, r.op).ready = c.ready
    BY DEF Readied, QueueEntry
  <2>7. ASSUME NEW d \in P, d.tp = "master"
        PROVE  /\ Gave(votes, n, d.id, n)
               /\ d.requests = NodeCount - 1
               /\ d.ready => Wins(votes, n, d.id)
               /\ \A s \in R \ {r} : s.op = d.op => s.id = d.id
    <3>1. PICK c \in Q : d = Readied(c, r.op)
      OBVIOUS
    <3>2. /\ c.tp = "master" /\ d.op = c.op /\ d.id = c.id /\ d.requests = c.requests
          /\ c.op # r.op => d.ready = c.ready
      BY <1>2, <2>6, <2>7, <3>1
    <3>3. /\ Gave(votes, n, c.id, n) /\ c.requests = NodeCount - 1
          /\ c.ready => Wins(votes, n, c.id)
          /\ \A s \in R : s.op = c.op => s.id = c.id
      BY <1>5, <3>2 DEF Electing
    <3>4. CASE c.op = r.op
      BY <2>4, <2>5, <3>2, <3>3, <3>4
    <3>5. CASE c.op # r.op
      BY <3>2, <3>3, <3>5
    <3>. QED BY <3>4, <3>5
  <2> HIDE DEF P, Q, R
  <2>8. Electing(n, P, R \ {r}, next_change_id[n], votes)
    BY <1>5, <2>7 DEF Electing
  <2>9. \A s \in rounds'[n] : s \in R \ {r}
    BY <2>3
  <2>. QED BY <1>6, <2>2, <2>3, <2>8, <2>9
<1>9. CASE OnLose(n, r, ch)
  <2> DEFINE rest == Without(queue[n], MasterAt(queue[n], r.op))
  <2>1. MasterAt(queue[n], r.op) \in SUBSET (1 .. Len(queue[n]))
    BY DEF MasterAt
  <2>2. rest \in Seq(QueueEntry) /\ Sorted(rest)
    BY <1>2, <2>1, WithoutType, WithoutFacts
  <2>3. Entries(rest) = {c \in Q : ~(c.tp = "master" /\ c.op = r.op)}
    BY <1>2, <1>4, LostFacts
  <2> HIDE DEF rest
  <2>4. CASE ReqChangeId(n, r.op, rest, ch, R \ {r})
    <3>1. /\ \A s \in R \ {r} : s.op # r.op
          /\ \A s \in R \ {r} : \A x \in s.wait : OnRoad(ch, n, x, s.id)
          /\ \A k \in Nodes \ {n} : \A s \in rounds[k] : \A x \in s.wait : OnRoad(ch, k, x, s.id)
          /\ R \ {r} \in SUBSET rounds[n]
      BY <1>3
    <3>. QED BY <1>2, <2>2, <2>3, <2>4, <3>1, AskedVotes
  <2>5. CASE /\ rounds' = [rounds EXCEPT ![n] = @ \ {r}]
             /\ queue' = [queue EXCEPT ![n] = rest]
             /\ chan' = ch
             /\ UNCHANGED <<next_change_id, votes>>
    <3>1. /\ queue'[n] = rest /\ rounds'[n] = R \ {r}
          /\ \A k \in Nodes \ {n} : queue'[k] = queue[k] /\ rounds'[k] = rounds[k]
      BY <1>1, <2>5 DEF TypeOK
    <3> HIDE DEF Q, R
    <3>2. Electing(n, Entries(rest), R \ {r}, next_change_id[n], votes)
      BY <1>5, <2>3 DEF Electing
    <3>. QED BY <1>6, <2>5, <3>1, <3>2
  <2>. QED BY <1>9, <2>4, <2>5 DEF OnLose, rest
<1>. QED BY <1>7, <1>8, <1>9 DEF QuorumStep

LEMMA OnResponseVotes ==
  ASSUME HInv, VoteInv, NEW m \in Nodes, NEW n \in Nodes, OnResponse(m, n)
  PROVE  VoteInv'
<1> DEFINE a == Head(chan[<<m, n>>])
           mine == {r \in rounds[n] : r.id = a.id /\ m \in r.wait}
           ch == Receive(m, n)
<1>1. TypeOK /\ chan \in Channels /\ HeadIs(m, n, "res") /\ UNCHANGED <<links, log>>
  BY DEF HInv, OInv, IInv, TypeOK, Channels, OnResponse
<1>2. ch \in Channels /\ a \in Message /\ a.tp = "res"
  BY <1>1, ReceiveType
<1>3. a.answer \in {"accept", "reject", "collision"} /\ a.n \in Nat
  BY <1>2, MessageRead
<1>4. \A x, y \in Nodes : Entries(ch[<<x, y>>]) \subseteq Entries(chan[<<x, y>>])
  BY <1>1, ReceivedWas
<1>5. TrueAnswer(votes, m, n, a)
  BY <1>1, ReceiveEntries DEF VoteInv, TrueAnswers
<1>6. ASSUME NEW k \in Nodes, NEW s \in rounds[k], NEW x \in s.wait
      PROVE  OnRoad(ch, k, x, s.id) \/ (k = n /\ x = m /\ s.id = a.id)
  <2>1. x \in Nodes /\ OnRoad(chan, k, x, s.id)
    BY DEF VoteInv, Elections, Electing, Others, InFlight
  <2>. QED BY <1>1, <2>1, RoadReceived
<1>7. \A r, s \in rounds[n] : r.id = s.id => r = s
  BY DEF VoteInv, Elections, Electing
<1> HIDE DEF ch
<1>8. ASSUME NEW r \in mine, QuorumStep(n, r, m, CountAnswer(r.q, a.answer, a.n, m < n), ch)
      PROVE  VoteInv'
  <2> DEFINE q == CountAnswer(r.q, a.answer, a.n, m < n)
  <2>1. r \in rounds[n] /\ r.id = a.id /\ m \in r.wait
    OBVIOUS
  <2> HIDE DEF a
  <2>2. r.q \in QuorumRecords /\ (m < n) \in BOOLEAN
    BY <1>1, <2>1 DEF TypeOK, Round
  <2>3. q \in QuorumRecords
    <3>1. a.answer \in Answers
      BY <1>3 DEF Answers
    <3>. QED BY <1>3, <2>2, <3>1, CountAnswerType
  <2>4. Counted(votes, n, r.id, r.q, r.wait) /\ r.wait \in SUBSET Others(n)
    BY <2>1 DEF VoteInv, Elections, Electing
  <2>5. /\ a.answer = "accept" => Gave(votes, m, r.id, n)
        /\ a.answer = "collision" => Gave(votes, m, r.id, m) /\ a.n = NodeCount - 1
    BY <1>2, <1>5, <2>1 DEF TrueAnswer
  <2>6. Counted(votes, n, r.id, q, r.wait \ {m})
    BY <1>3, <2>1, <2>2, <2>4, <2>5, AnswerCounted
  <2>7. \A k \in Nodes : \A s \in rounds[k] : \A x \in s.wait :
          (k = n /\ s = r /\ x = m) \/ OnRoad(ch, k, x, s.id)
    BY <1>6, <1>7, <2>1
  <2> HIDE DEF q, mine
  <2>8. QuorumStep(n, r, m, q, ch)
    BY <1>8 DEF q
  <2>. QED BY <1>1, <1>2, <1>4, <2>1, <2>3, <2>6, <2>7, <2>8, QuorumStepVotes
<1>9. CASE mine = {} /\ chan' = ch /\ UNCHANGED <<next_change_id, queue, rounds, reply, votes>>
  <2>1. ASSUME NEW k \in Nodes, NEW s \in rounds[k], NEW x \in s.wait
        PROVE  OnRoad(ch, k, x, s.id)
    BY <1>6, <1>9
  <2>2. InFlight'
    BY <1>9, <2>1 DEF InFlight
  <2>3. TrueAnswers'
    BY <1>4, <1>9, GrowsSame, AnswersSent DEF VoteInv
  <2>4. Elections' /\ LinksAll' /\ LogWon'
    BY <1>1, <1>9 DEF VoteInv, Elections, LinksAll, LogWon
  <2>. QED BY <2>2, <2>3, <2>4 DEF VoteInv
<1>. QED BY <1>8, <1>9 DEF OnResponse, ch

(* Who answers "collision" asks for the id itself.                         *)
LEMMA CollisionFacts ==
  ASSUME HInv, NEW n \in Nodes, NEW id \in Nat, AcceptId(n, id).answer = "collision"
  PROVE  \E c \in Entries(queue[n]) :
           c.tp = "master" /\ c.id = id /\ AcceptId(n, id).n = c.requests
<1> DEFINE next == next_change_id[n]
           queued == IdAt(queue[n], id)
           open == {i \in skipped_ids[n] : i > ccid[n]}
           r == AcceptId(n, id)
           j == CHOOSE i \in queued : TRUE
           c == queue[n][j]
<1>1. next \in Nat
  BY NodeFacts
<1>2. CASE id >= next
  <2>1. r = [answer |-> "accept", n |-> 0, next |-> id + 1,
             skipped |-> skipped_ids[n] \cup (next .. id - 1)]
    BY <1>1, <1>2 DEF AcceptId
  <2> HIDE DEF r, next
  <2>2. r.answer = "accept"
    BY <2>1
  <2>. QED BY <2>2 DEF r
<1>3. CASE id < next /\ queued = {}
  <2>1. r = [answer |-> IF id \in open THEN "accept" ELSE "reject",
             n |-> 0, next |-> next, skipped |-> open \ {id}]
    BY <1>1, <1>3 DEF AcceptId
  <2> HIDE DEF r, open
  <2>2. r.answer \in {"accept", "reject"}
    BY <2>1
  <2>. QED BY <2>2 DEF r
<1>4. CASE id < next /\ queued # {}
  <2>1. j \in queued
    BY <1>4
  <2>2. j \in 1 .. Len(queue[n]) /\ c.id = id
    BY <2>1 DEF IdAt
  <2>3. r = [answer |-> IF c.tp = "master" THEN "collision" ELSE "reject",
             n |-> c.requests, next |-> next, skipped |-> skipped_ids[n]]
    BY <1>1, <1>4 DEF AcceptId
  <2>4. c \in Entries(queue[n])
    BY <2>2 DEF Entries
  <2> HIDE DEF c, r
  <2>5. c.tp = "master" /\ r.n = c.requests
    <3>1. r.answer = "collision"
      BY DEF r
    <3>. QED BY <2>3, <3>1
  <2>. QED BY <2>2, <2>4, <2>5 DEF r
<1>. QED BY <1>1, <1>2, <1>3, <1>4

(* A question is answered, and the answer is on its way instead.           *)
LEMMA OnReqChangeIdVotes ==
  ASSUME HInv, VoteInv, NEW m \in Nodes, NEW n \in Nodes, OnReqChangeId(m, n)
  PROVE  VoteInv'
<1> DEFINE id == Head(chan[<<m, n>>]).id
           r == AcceptId(n, id)
           res == [tp |-> "res", id |-> id, answer |-> r.answer, n |-> r.n]
           ch == Receive(m, n)
<1>1. /\ TypeOK /\ IInv /\ chan \in Channels /\ HeadIs(m, n, "req")
      /\ LinksAll /\ InFlight /\ TrueAnswers /\ Elections /\ LogWon
  BY DEF HInv, OInv, IInv, TypeOK, Channels, VoteInv, OnReqChangeId
<1>2. ch \in Channels /\ id \in Nat
  BY <1>1, ReceiveType, MessageRead
<1>3. /\ next_change_id' = [next_change_id EXCEPT ![n] = r.next]
      /\ chan' = Send(ch, n, {m}, res)
      /\ votes' = IF r.answer = "accept"
                  THEN [votes EXCEPT ![n] = @ \cup {[id |-> id, for |-> m]}]
                  ELSE votes
      /\ UNCHANGED <<queue, rounds, links, log>>
  BY DEF OnReqChangeId
<1>4. \A k, x \in Nodes : \A i : OnRoad(chan, k, x, i) =>
        OnRoad(ch, k, x, i) \/ (k = m /\ x = n /\ i = id)
  BY <1>1, RoadReceived
<1>5. \A x, y \in Nodes : Entries(ch[<<x, y>>]) \subseteq Entries(chan[<<x, y>>])
  BY <1>1, ReceivedWas
<1> HIDE DEF id, ch
<1>6. /\ r.answer \in {"accept", "reject", "collision"} /\ r.n \in Nat
      /\ r.next \in Nat /\ next_change_id[n] <= r.next
  BY <1>1, <1>2, AcceptIdFacts
<1>7. r.answer = "collision" =>
        \E c \in Entries(queue[n]) : c.tp = "master" /\ c.id = id /\ r.n = c.requests
  BY <1>2, CollisionFacts
<1> HIDE DEF r
<1>8. Grows(votes, votes') /\ (r.answer = "accept" => Gave(votes', n, id, m))
  BY <1>1, <1>3 DEF TypeOK, Grows, Gave
<1>9. Electing(n, Entries(queue[n]), rounds[n], next_change_id[n], votes')
  BY <1>1, <1>8, ElectingStays DEF Elections
<1>10. r.answer = "collision" => Gave(votes', n, id, n) /\ r.n = NodeCount - 1
  BY <1>7, <1>9 DEF Electing
<1>11. /\ res \in Message /\ res.tp = "res" /\ res.id = id
       /\ res.answer = r.answer /\ res.n = r.n
  BY <1>2, <1>6, MessageMade
<1> HIDE DEF res
<1>12. TrueAnswer(votes', n, m, res)
  BY <1>8, <1>10, <1>11 DEF TrueAnswer
<1>13. TrueAnswers'
  <2>1. ASSUME NEW a \in Nodes, NEW b \in Nodes, NEW x \in Entries(chan'[<<a, b>>])
        PROVE  x \in Entries(chan[<<a, b>>]) \/ TrueAnswer(votes', a, b, x)
    <3>1. x \in Entries(Send(ch, n, {m}, res)[<<a, b>>])
      BY <1>3
    <3>2. \A y \in Entries(Send(ch, n, {m}, res)[<<a, b>>]) :
            y \in Entries(ch[<<a, b>>]) \/ (y = res /\ a = n /\ b \in {m})
      BY <1>2, <1>11, SendEntries, Zenon
    <3>3. x \in Entries(ch[<<a, b>>]) \/ (x = res /\ a = n /\ b = m)
      BY <3>1, <3>2
    <3>. QED BY <1>5, <1>12, <3>3
  <2>. QED BY <1>1, <1>8, <2>1, AnswersSent
<1>14. InFlight'
  <2> SUFFICES ASSUME NEW k \in Nodes, NEW s \in rounds[k], NEW x \in s.wait
               PROVE  OnRoad(chan', k, x, s.id)
    BY <1>3 DEF InFlight
  <2>1. x \in Nodes /\ OnRoad(chan, k, x, s.id)
    BY <1>1 DEF Elections, Electing, Others, InFlight
  <2>2. CASE OnRoad(ch, k, x, s.id)
    <3>1. OnRoad(Send(ch, n, {m}, res), k, x, s.id)
      BY <1>2, <1>11, <2>1, <2>2, RoadSent
    <3>. QED BY <1>3, <3>1
  <2>3. CASE k = m /\ x = n /\ s.id = id
    <3>1. m \in {m}
      OBVIOUS
    <3>2. res \in Entries(Send(ch, n, {m}, res)[<<n, m>>])
      BY <1>2, <1>11, <3>1, SendEntries, Zenon
    <3>3. res \in Entries(chan'[<<n, m>>])
      BY <1>3, <3>2
    <3>. QED BY <1>11, <2>3, <3>3 DEF OnRoad
  <2>. QED BY <1>4, <2>1, <2>2, <2>3
<1>15. Elections'
  <2>1. \A k \in Nodes \ {n} : /\ queue'[k] = queue[k] /\ rounds'[k] = rounds[k]
                               /\ next_change_id'[k] = next_change_id[k]
    BY <1>1, <1>3 DEF TypeOK
  <2>2. next_change_id'[n] = r.next /\ next_change_id[n] \in Nat
    BY <1>1, <1>3 DEF TypeOK
  <2>3. \A s \in rounds[n] : s.id \in Nat
    BY <1>1 DEF TypeOK, Round
  <2>4. \A s \in rounds[n] : s.id < r.next
    BY <1>6, <1>9, <2>2, <2>3 DEF Electing
  <2>5. Electing(n, Entries(queue[n]), rounds[n], r.next, votes')
    BY <1>9, <2>4 DEF Electing
  <2>6. Electing(n, Entries(queue'[n]), rounds'[n], next_change_id'[n], votes')
    BY <1>3, <2>2, <2>5
  <2>. QED BY <1>1, <1>8, <2>1, <2>6, ElectionsOne
<1>16. LinksAll'
  BY <1>1, <1>3 DEF LinksAll
<1>17. LogWon'
  BY <1>1, <1>3, <1>8, LogStays
<1>. QED BY <1>13, <1>14, <1>15, <1>16, <1>17 DEF VoteInv

(* While every connection is up and requests do not time out, no question  *)
(* is given up on.                                                         *)
LEMMA NoRequestFails ==
  ASSUME HInv, VoteInv, "request" \notin Faults, NEW n \in Nodes, NEW m \in Nodes
  PROVE  ~RequestFails(n, m)
<1> SUFFICES ASSUME RequestFails(n, m) PROVE FALSE
  OBVIOUS
<1>1. PICK r \in rounds[n] :
        /\ m \in r.wait
        /\ \/ {n, m} \notin links
           \/ /\ ~\E i \in 1 .. Len(chan[<<n, m>>]) :
                    chan[<<n, m>>][i] = [tp |-> "req", id |-> r.id]
              /\ ~\E i \in 1 .. Len(chan[<<m, n>>]) :
                    chan[<<m, n>>][i].tp = "res" /\ chan[<<m, n>>][i].id = r.id
  BY DEF RequestFails
<1>2. OnRoad(chan, n, m, r.id)
  BY <1>1 DEF VoteInv, InFlight
<1>3. m # n
  BY <1>1 DEF VoteInv, Elections, Electing, Others
<1>4. {n, m} \in links
  BY <1>3, Linked DEF VoteInv
<1>. QED BY <1>1, <1>2, <1>4 DEF OnRoad, Entries

(* The channels after a package that is not part of a vote came or went.   *)
LEMMA QuietSend ==
  ASSUME NEW ch \in Channels, NEW n \in Nodes, NEW S, NEW msg \in Message, msg.tp # "res"
  PROVE  /\ \A a, b \in Nodes : \A x \in Entries(Send(ch, n, S, msg)[<<a, b>>]) :
              x \in Entries(ch[<<a, b>>]) \/ x.tp # "res"
         /\ \A k, x \in Nodes : \A id : OnRoad(ch, k, x, id) => OnRoad(Send(ch, n, S, msg), k, x, id)
<1>1. ASSUME NEW a \in Nodes, NEW b \in Nodes, NEW x \in Entries(Send(ch, n, S, msg)[<<a, b>>])
      PROVE  x \in Entries(ch[<<a, b>>]) \/ x.tp # "res"
  <2>1. \A y \in Entries(Send(ch, n, S, msg)[<<a, b>>]) :
          y \in Entries(ch[<<a, b>>]) \/ (y = msg /\ a = n /\ b \in S)
    BY SendEntries, Zenon
  <2>. QED BY <2>1
<1>2. \A k, x \in Nodes : \A id : OnRoad(ch, k, x, id) => OnRoad(Send(ch, n, S, msg), k, x, id)
  BY RoadSent, Zenon
<1>. QED BY <1>1, <1>2

LEMMA QuietReceive ==
  ASSUME chan \in Channels, NEW m \in Nodes, NEW n \in Nodes, NEW tp \in {"cpkg", "missing"},
         HeadIs(m, n, tp)
  PROVE  /\ \A a, b \in Nodes : \A x \in Entries(Receive(m, n)[<<a, b>>]) : x \in Entries(chan[<<a, b>>])
         /\ \A k, x \in Nodes : \A id : OnRoad(chan, k, x, id) => OnRoad(Receive(m, n), k, x, id)
<1>1. \A a, b \in Nodes : Entries(Receive(m, n)[<<a, b>>]) \subseteq Entries(chan[<<a, b>>])
  BY ReceivedWas
<1>2. ASSUME NEW k \in Nodes, NEW x \in Nodes, NEW id, OnRoad(chan, k, x, id)
      PROVE  OnRoad(Receive(m, n), k, x, id)
  BY <1>2, RoadReceived
<1>. QED BY <1>1, <1>2

LEMMA NextIdStays ==
  ASSUME HInv, next_change_id' = next_change_id
  PROVE  \A n \in Nodes : next_change_id'[n] \in Nat /\ next_change_id[n] <= next_change_id'[n]
BY DEF HInv, OInv, IInv, TypeOK

LEMMA LogSame ==
  ASSUME LogWon, UNCHANGED <<votes, log>>
  PROVE  LogWon'
BY DEF LogWon

LEMMA AddChangeVotes ==
  ASSUME HInv, VoteInv, NEW m \in Nodes, NEW n \in Nodes, AddChange(m, n)
  PROVE  VoteInv'
<1> DEFINE c == Head(chan[<<m, n>>])
           at == IdAt(queue[n], c.id)
           e == [id |-> c.id, op |-> c.op, tp |-> "cpkg", ready |-> TRUE,
                 requests |-> 0]
           rest == Without(queue[n], at)
           fresh == c.id > ccid[n]
           taken == \E i \in at : queue[n][i].ready
<1>1. TypeOK /\ chan \in Channels /\ HeadIs(m, n, "cpkg")
  BY DEF HInv, OInv, IInv, TypeOK, Channels, AddChange
<1>2. c.id \in Nat /\ c.op \in Ops
  BY <1>1, ReceiveType, MessageRead
<1>3. /\ chan' = Receive(m, n)
      /\ next_change_id' = [next_change_id EXCEPT ![n] =
             IF fresh /\ c.id >= @ THEN c.id + 1 ELSE @]
      /\ queue' = [queue EXCEPT ![n] = IF fresh /\ ~taken THEN Push(rest, e) ELSE @]
      /\ UNCHANGED <<votes, rounds, links, log>>
  BY DEF AddChange
<1>4. queue[n] \in Seq(QueueEntry) /\ Sorted(queue[n])
  BY NodeFacts
<1>5. rest \in Seq(QueueEntry)
  BY <1>4, WithoutType DEF IdAt
<1>6. Sorted(rest) /\ Entries(rest) = {d \in Entries(queue[n]) : d.id # c.id}
  BY <1>4, IdGone
<1>7. e \in QueueEntry /\ e.id = c.id /\ e.tp = "cpkg"
  BY <1>2 DEF QueueEntry
<1> HIDE DEF c, at, e, rest, taken
<1>8. Entries(Push(rest, e)) = Entries(rest) \cup {e}
  BY <1>5, <1>6, <1>7, PushFacts
<1>9. /\ queue'[n] = Push(rest, e) \/ queue'[n] = queue[n]
      /\ \A k \in Nodes \ {n} : queue'[k] = queue[k]
  BY <1>1, <1>3 DEF TypeOK
<1>10. \A k \in Nodes : \A d \in Entries(queue'[k]) : d.tp = "master" => d \in Entries(queue[k])
  BY <1>6, <1>7, <1>8, <1>9
<1>11. \A k \in Nodes : next_change_id'[k] \in Nat /\ next_change_id[k] <= next_change_id'[k]
  BY <1>1, <1>2, <1>3 DEF TypeOK
<1>12. LogWon'
  BY <1>3, LogSame DEF VoteInv
<1>13. /\ \A a, b \in Nodes : \A x \in Entries(chan'[<<a, b>>]) : x \in Entries(chan[<<a, b>>])
       /\ \A k, x \in Nodes : \A id : OnRoad(chan, k, x, id) => OnRoad(chan', k, x, id)
  BY <1>1, <1>3, QuietReceive
<1>14. UNCHANGED <<votes, rounds, links>>
  BY <1>3
<1>. QED BY <1>10, <1>11, <1>12, <1>13, <1>14, Quiet

LEMMA OnMissingChangeVotes ==
  ASSUME HInv, VoteInv, NEW m \in Nodes, NEW n \in Nodes, OnMissingChange(m, n)
  PROVE  VoteInv'
<1> DEFINE id == Head(chan[<<m, n>>]).id
           ch == Receive(m, n)
<1>1. TypeOK /\ chan \in Channels /\ HeadIs(m, n, "missing")
  BY DEF HInv, OInv, IInv, TypeOK, Channels, OnMissingChange
<1>2. ch \in Channels /\ id \in Nat
  BY <1>1, ReceiveType, MessageRead
<1>3. UNCHANGED <<next_change_id, votes, rounds, links, log, queue>>
  BY DEF OnMissingChange
<1>4. /\ \A a, b \in Nodes : \A x \in Entries(ch[<<a, b>>]) : x \in Entries(chan[<<a, b>>])
      /\ \A k, x \in Nodes : \A i : OnRoad(chan, k, x, i) => OnRoad(ch, k, x, i)
  BY <1>1, QuietReceive
<1> HIDE DEF ch
<1>5. LogWon' /\ \A k \in Nodes : next_change_id'[k] \in Nat /\ next_change_id[k] <= next_change_id'[k]
  BY <1>3, LogSame, NextIdStays DEF VoteInv
<1>6. /\ \A a, b \in Nodes : \A x \in Entries(chan'[<<a, b>>]) :
           x \in Entries(chan[<<a, b>>]) \/ x.tp # "res"
      /\ \A k, x \in Nodes : \A i : OnRoad(chan, k, x, i) => OnRoad(chan', k, x, i)
  <2>1. CASE chan' = ch
    BY <1>4, <2>1
  <2>2. ASSUME NEW e \in log[n],
               chan' = Send(ch, n, {m}, [tp |-> "cpkg", id |-> id, op |-> e.op])
        PROVE  <1>6
    <3> DEFINE msg == [tp |-> "cpkg", id |-> id, op |-> e.op]
    <3> HIDE DEF id
    <3>1. e.op \in Ops
      BY <1>1 DEF TypeOK
    <3>2. msg \in Message /\ msg.tp # "res"
      BY <1>2, <3>1, MessageMade
    <3> HIDE DEF msg
    <3>3. chan' = Send(ch, n, {m}, msg)
      BY <2>2 DEF msg
    <3>4. /\ \A a, b \in Nodes : \A x \in Entries(Send(ch, n, {m}, msg)[<<a, b>>]) :
               x \in Entries(ch[<<a, b>>]) \/ x.tp # "res"
          /\ \A k, x \in Nodes : \A i : OnRoad(ch, k, x, i) => OnRoad(Send(ch, n, {m}, msg), k, x, i)
      BY <1>2, <3>2, QuietSend
    <3>. QED BY <1>4, <3>3, <3>4
  <2>. QED BY <2>1, <2>2 DEF OnMissingChange, ch
<1>7. \A k \in Nodes : \A c \in Entries(queue'[k]) : c.tp = "master" => c \in Entries(queue[k])
  BY <1>3
<1>8. UNCHANGED <<votes, rounds, links>>
  BY <1>3
<1>. QED BY <1>5, <1>6, <1>7, <1>8, Quiet

(* The first change of a queue is run: it was won by its home.             *)
LEMMA RunFirstVotes ==
  ASSUME HInv, VoteInv, NEW n \in Nodes, queue[n] # <<>>, Head(queue[n]).ready,
         RunFirst(n, Head(queue[n])), UNCHANGED <<next_change_id, votes, rounds, links>>
  PROVE  VoteInv'
<1> DEFINE c == Head(queue[n])
           e == [id |-> c.id, op |-> c.op]
<1>1. TypeOK /\ chan \in Channels /\ LogWon
  BY DEF HInv, OInv, IInv, TypeOK, Channels, VoteInv
<1>2. /\ queue[n] \in Seq(QueueEntry) /\ Sorted(queue[n])
      /\ \A d \in Entries(queue[n]) :
           /\ d.id \in Nat /\ d.op \in Ops /\ ccid[n] < d.id /\ d.tp \in {"master", "cpkg"}
           /\ d.tp = "master" => Home[d.op] = n
           /\ d.tp = "cpkg" => AsApplied(d) \in log[Home[d.op]]
      /\ ccid[n] \in Nat
  BY NodeFacts
<1>3. c \in Entries(queue[n]) /\ Entries(Tail(queue[n])) = Entries(queue[n]) \ {c}
  BY <1>2, TailFacts
<1>4. /\ log' = [log EXCEPT ![n] = @ \cup {e}]
      /\ queue' = [queue EXCEPT ![n] = Tail(@)]
      /\ chan' = (IF c.tp = "master"
                  THEN Send(chan, n, Peers(n), [tp |-> "cpkg", id |-> c.id, op |-> c.op])
                  ELSE chan)
  BY DEF RunFirst
<1>5. c.ready
  OBVIOUS
<1> HIDE DEF c
<1>6. c.id \in Nat /\ c.op \in Ops /\ ccid[n] < c.id /\ c.tp \in {"master", "cpkg"}
  BY <1>2, <1>3
<1>7. Wins(votes, Home[c.op], c.id)
  <2>1. CASE c.tp = "master"
    <3>1. Home[c.op] = n
      BY <1>2, <1>3, <2>1
    <3>2. Electing(n, Entries(queue[n]), rounds[n], next_change_id[n], votes)
      BY DEF VoteInv, Elections
    <3>. QED BY <1>3, <1>5, <2>1, <3>1, <3>2 DEF Electing
  <2>2. CASE c.tp = "cpkg"
    <3>1. AsApplied(c) \in log[Home[c.op]] /\ Home[c.op] \in Nodes
      BY <1>2, <1>3, <1>6, <2>2, HomeAssumption
    <3>2. AsApplied(c).op = c.op /\ AsApplied(c).id = c.id
      BY DEF AsApplied
    <3>. QED BY <1>1, <3>1, <3>2 DEF LogWon
  <2>. QED BY <1>6, <2>1, <2>2
<1>8. e.id = c.id /\ e.op = c.op
  OBVIOUS
<1> HIDE DEF e
<1>9. log'[n] = log[n] \cup {e} /\ \A k \in Nodes \ {n} : log'[k] = log[k]
  BY <1>1, <1>4 DEF TypeOK
<1>10. \A f \in log[n] : f.id # e.id
  <2>1. \A f \in log[n] : f.id \in Nat /\ f.id <= ccid[n]
    BY <1>1 DEF TypeOK, HInv, HomeInv, LogBelow
  <2>. QED BY <1>2, <1>6, <1>8, <2>1
<1>11. LogWon'
  <2> SUFFICES ASSUME NEW k \in Nodes
               PROVE  /\ \A f \in log'[k] : Wins(votes, Home[f.op], f.id)
                      /\ \A f, g \in log'[k] : f.id = g.id => f.op = g.op
    BY DEF LogWon
  <2>1. /\ \A f \in log[k] : Wins(votes, Home[f.op], f.id)
        /\ \A f, g \in log[k] : f.id = g.id => f.op = g.op
    BY <1>1 DEF LogWon
  <2>2. CASE k = n
    <3>1. \A f \in log'[k] : Wins(votes, Home[f.op], f.id)
      BY <1>7, <1>8, <1>9, <2>1, <2>2
    <3>2. \A f, g \in log'[k] : f.id = g.id => f.op = g.op
      BY <1>9, <1>10, <2>1, <2>2
    <3>. QED BY <3>1, <3>2
  <2>3. CASE k # n
    BY <1>9, <2>1, <2>3
  <2>. QED BY <2>2, <2>3
<1>12. \A k \in Nodes : \A d \in Entries(queue'[k]) : d.tp = "master" => d \in Entries(queue[k])
  <2>1. queue'[n] = Tail(queue[n]) /\ \A k \in Nodes \ {n} : queue'[k] = queue[k]
    BY <1>1, <1>4 DEF TypeOK
  <2>. QED BY <1>3, <2>1
<1>13. /\ \A a, b \in Nodes : \A x \in Entries(chan'[<<a, b>>]) :
            x \in Entries(chan[<<a, b>>]) \/ x.tp # "res"
       /\ \A k, x \in Nodes : \A i : OnRoad(chan, k, x, i) => OnRoad(chan', k, x, i)
  <2> DEFINE msg == [tp |-> "cpkg", id |-> c.id, op |-> c.op]
  <2>1. msg \in Message /\ msg.tp # "res"
    BY <1>6, MessageMade
  <2>2. chan' = Send(chan, n, Peers(n), msg) \/ chan' = chan
    BY <1>4
  <2> HIDE DEF msg
  <2>3. /\ \A a, b \in Nodes : \A x \in Entries(Send(chan, n, Peers(n), msg)[<<a, b>>]) :
             x \in Entries(chan[<<a, b>>]) \/ x.tp # "res"
        /\ \A k, x \in Nodes : \A i : OnRoad(chan, k, x, i) => OnRoad(Send(chan, n, Peers(n), msg), k, x, i)
    BY <1>1, <2>1, QuietSend
  <2>4. CASE chan' = Send(chan, n, Peers(n), msg)
    BY <2>3, <2>4
  <2>5. CASE chan' = chan
    BY <2>5
  <2>. QED BY <2>2, <2>4, <2>5
<1>14. \A k \in Nodes : next_change_id'[k] \in Nat /\ next_change_id[k] <= next_change_id'[k]
  BY NextIdStays
<1>. QED BY <1>11, <1>12, <1>13, <1>14, Quiet

LEMMA NodeStepVotes ==
  ASSUME HInv, VoteInv, NEW n \in Nodes, NodeStep(n)
  PROVE  VoteInv'
<1>1. TypeOK /\ chan \in Channels /\ LogWon
  BY DEF HInv, OInv, IInv, TypeOK, Channels, VoteInv
<1>2. queue[n] \in Seq(QueueEntry) /\ Sorted(queue[n]) /\ ccid[n] \in Nat
  BY NodeFacts
<1>3. CASE LoopProcess(n)
  BY <1>3, RunFirstVotes DEF LoopProcess
<1>4. CASE LoopKill(n)
  <2>1. queue[n] # <<>> /\ queue' = [queue EXCEPT ![n] = Tail(@)]
        /\ UNCHANGED <<next_change_id, votes, rounds, links, log, chan>>
    BY <1>4 DEF LoopKill
  <2>2. Entries(Tail(queue[n])) \subseteq Entries(queue[n])
    BY <1>2, <2>1, TailFacts
  <2>3. queue'[n] = Tail(queue[n]) /\ \A k \in Nodes \ {n} : queue'[k] = queue[k]
    BY <1>1, <2>1 DEF TypeOK
  <2>4. \A k \in Nodes : \A c \in Entries(queue'[k]) : c.tp = "master" => c \in Entries(queue[k])
    BY <2>2, <2>3
  <2>5. LogWon' /\ \A k \in Nodes : next_change_id'[k] \in Nat /\ next_change_id[k] <= next_change_id'[k]
    BY <1>1, <2>1, LogSame, NextIdStays
  <2>6. UNCHANGED <<votes, rounds, links>> /\ chan' = chan
    BY <2>1
  <2>. QED BY <2>4, <2>5, <2>6, Quiet
<1>5. CASE LoopMissing(n)
  <2> DEFINE msg == [tp |-> "missing", id |-> ccid[n] + 1]
  <2>1. PICK m \in Peers(n) : chan' = Send(chan, n, {m}, msg)
    BY <1>5 DEF LoopMissing
  <2>2. msg \in Message /\ msg.tp # "res"
    <3>1. ccid[n] + 1 \in Nat
      BY <1>2
    <3>. QED BY <3>1, MessageMade
  <2> HIDE DEF msg
  <2>3. UNCHANGED <<next_change_id, votes, rounds, links, log, queue>>
    BY <1>5 DEF LoopMissing
  <2>4. LogWon' /\ \A k \in Nodes : next_change_id'[k] \in Nat /\ next_change_id[k] <= next_change_id'[k]
    BY <1>1, <2>3, LogSame, NextIdStays
  <2>5. /\ \A a, b \in Nodes : \A x \in Entries(Send(chan, n, {m}, msg)[<<a, b>>]) :
             x \in Entries(chan[<<a, b>>]) \/ x.tp # "res"
        /\ \A k, x \in Nodes : \A i : OnRoad(chan, k, x, i) => OnRoad(Send(chan, n, {m}, msg), k, x, i)
    BY <1>1, <2>2, QuietSend
  <2>6. /\ \A a, b \in Nodes : \A x \in Entries(chan'[<<a, b>>]) :
             x \in Entries(chan[<<a, b>>]) \/ x.tp # "res"
        /\ \A k, x \in Nodes : \A i : OnRoad(chan, k, x, i) => OnRoad(chan', k, x, i)
    BY <2>1, <2>5
  <2>7. \A k \in Nodes : \A c \in Entries(queue'[k]) : c.tp = "master" => c \in Entries(queue[k])
    BY <2>3
  <2>8. UNCHANGED <<votes, rounds, links>>
    BY <2>3
  <2>. QED BY <2>4, <2>6, <2>7, <2>8, Quiet
<1>6. CASE LoopGap(n)
  <2>1. queue[n] # <<>> /\ UNCHANGED <<next_change_id, votes, rounds, links>>
    BY <1>6 DEF LoopGap, Gap
  <2>2. CASE Head(queue[n]).ready /\ RunFirst(n, Head(queue[n]))
    BY <2>1, <2>2, RunFirstVotes
  <2>3. CASE UNCHANGED <<queue, log, chan, reply>>
    <3>1. LogWon' /\ \A k \in Nodes : next_change_id'[k] \in Nat /\ next_change_id[k] <= next_change_id'[k]
      BY <1>1, <2>1, <2>3, LogSame, NextIdStays
    <3>2. UNCHANGED <<votes, rounds, links>> /\ chan' = chan /\ queue' = queue
      BY <2>1, <2>3
    <3>. QED BY <3>1, <3>2, Quiet
  <2>. QED BY <1>6, <2>2, <2>3 DEF LoopGap
<1>. QED BY <1>3, <1>4, <1>5, <1>6 DEF NodeStep

LEMMA CreateVotes ==
  ASSUME HInv, VoteInv, NEW op \in Ops, CreateNewChange(op)
  PROVE  VoteInv'
<1> DEFINE n == Home[op]
<1>1. n \in Nodes /\ TypeOK /\ reply[op] = "unsent" /\ chan \in Channels
  BY HomeAssumption DEF HInv, OInv, IInv, TypeOK, Channels, CreateNewChange
<1>2. TrueOf(op, "unsent", log[n], Entries(queue[n]), rounds[n])
  BY <1>1 DEF HInv, HomeInv, Told
<1>3. /\ \A c \in Entries(queue[n]) : c.tp = "master" => c.op # op
      /\ \A r \in rounds[n] : r.op # op
  BY <1>2 DEF TrueOf
<1>4. CASE ReqChangeId(n, op, queue[n], chan, rounds[n]) /\ UNCHANGED <<links, log>>
  <2>1. queue[n] \in Seq(QueueEntry) /\ Sorted(queue[n])
    BY <1>1, NodeFacts
  <2>2. Entries(queue[n]) = {c \in Entries(queue[n]) : ~(c.tp = "master" /\ c.op = op)}
    BY <1>3
  <2>3. /\ \A s \in rounds[n] : \A x \in s.wait : OnRoad(chan, n, x, s.id)
        /\ \A k \in Nodes \ {n} : \A s \in rounds[k] : \A x \in s.wait : OnRoad(chan, k, x, s.id)
    BY <1>1 DEF VoteInv, InFlight
  <2>4. \A a, b \in Nodes : Entries(chan[<<a, b>>]) \subseteq Entries(chan[<<a, b>>])
    OBVIOUS
  <2>5. \A r \in rounds[n] : r.op # op
    BY <1>3
  <2>6. rounds[n] \in SUBSET rounds[n]
    OBVIOUS
  <2> HIDE DEF n
  <2>. QED BY <1>1, <1>4, <2>1, <2>2, <2>3, <2>4, <2>5, <2>6, AskedVotes
<1>5. CASE UNCHANGED <<next_change_id, queue, rounds, chan, links, log, votes>>
  <2>1. LogWon' /\ \A k \in Nodes : next_change_id'[k] \in Nat /\ next_change_id[k] <= next_change_id'[k]
    BY <1>5, LogSame, NextIdStays DEF VoteInv
  <2>2. UNCHANGED <<votes, rounds, links>> /\ chan' = chan /\ queue' = queue
    BY <1>5
  <2>. QED BY <2>1, <2>2, Quiet
<1>. QED BY <1>4, <1>5, Zenon DEF CreateNewChange

LEMMA InitVInv == Init => VInv
<1> SUFFICES ASSUME Init PROVE VoteInv
  BY InitHInv DEF VInv
<1>1. /\ \A n \in Nodes : log[n] = {} /\ rounds[n] = {} /\ queue[n] = <<>>
      /\ \A p \in Nodes \X Nodes : chan[p] = <<>>
  BY DEF Init
<1>2. Entries(<<>>) = {}
  BY DEF Entries
<1>3. LinksAll
  BY DEF Init, LinksAll
<1>4. InFlight /\ TrueAnswers /\ LogWon
  BY <1>1, <1>2 DEF InFlight, TrueAnswers, LogWon
<1>5. Elections
  BY <1>1, <1>2 DEF Elections, Electing
<1>. QED BY <1>3, <1>4, <1>5 DEF VoteInv

LEMMA NextVInv ==
  ASSUME Fragile = {}, "request" \notin Faults
  PROVE  VInv /\ [Next]_vars => VInv'
<1> SUFFICES ASSUME VInv, [Next]_vars PROVE VInv'
  OBVIOUS
<1>1. HInv /\ VoteInv /\ HInv'
  BY NextHInv DEF VInv
<1>2. CASE UNCHANGED vars
  <2>1. VoteInv'
    BY <1>1, <1>2 DEF vars, VoteInv, LinksAll, InFlight, TrueAnswers, Elections, LogWon
  <2>. QED BY <1>1, <2>1 DEF VInv
<1>3. ASSUME NEW m \in Nodes, NEW n \in Nodes, PackageStep(m, n) PROVE VoteInv'
  <2>1. ~RequestFails(m, n)
    BY <1>1, NoRequestFails
  <2>. QED BY <1>1, <1>3, <2>1, OnReqChangeIdVotes, OnResponseVotes, AddChangeVotes,
              OnMissingChangeVotes DEF PackageStep
<1>4. ASSUME NEW p \in SUBSET Nodes, Cardinality(p) = 2, LinkDown(p) \/ LinkUp(p) PROVE FALSE
  BY <1>1, <1>4 DEF LinkDown, LinkUp, VoteInv, LinksAll
<1>5. CASE Next
  <2>1. VoteInv'
    BY <1>1, <1>3, <1>4, <1>5, CreateVotes, NodeStepVotes DEF Next
  <2>. QED BY <1>1, <2>1 DEF VInv
<1>. QED BY <1>2, <1>5

(* What any node applied, or is sure to apply, was won by the home of the  *)
(* change; and a node wins an id for one change only.                      *)
LEMMA VotesSeen == VInv => OneChangePerId
<1> SUFFICES ASSUME VInv, NEW c \in Claims, NEW d \in Claims, c.id = d.id PROVE c.op = d.op
  BY DEF OneChangePerId
<1>1. HInv /\ VoteInv /\ TypeOK /\ NoDoubleVote /\ LogBelow /\ LogWon
  BY DEF VInv, VoteInv, HInv, HomeInv, OInv, IInv
<1>2. ASSUME NEW e \in Claims
      PROVE  /\ e.op \in Ops /\ Home[e.op] \in Nodes /\ Wins(votes, Home[e.op], e.id)
             /\ \/ e \in log[Home[e.op]]
                \/ \E x \in Entries(queue[Home[e.op]]) : x.id = e.id /\ x.op = e.op
  <2>1. /\ e.op \in Ops
        /\ \/ e \in log[Home[e.op]]
           \/ \E x \in Entries(queue[Home[e.op]]) :
                x.tp = "master" /\ x.ready /\ x.op = e.op /\ x.id = e.id
    BY <1>1, ClaimsAtHome
  <2>2. Home[e.op] \in Nodes
    BY <2>1, HomeAssumption
  <2>3. Electing(Home[e.op], Entries(queue[Home[e.op]]), rounds[Home[e.op]],
                 next_change_id[Home[e.op]], votes)
    BY <1>1, <2>2 DEF VoteInv, Elections
  <2>4. Wins(votes, Home[e.op], e.id)
    <3>1. CASE e \in log[Home[e.op]]
      BY <1>1, <2>2, <3>1 DEF LogWon
    <3>2. ASSUME NEW x \in Entries(queue[Home[e.op]]),
                 x.tp = "master", x.ready, x.op = e.op, x.id = e.id
          PROVE  Wins(votes, Home[e.op], e.id)
      BY <2>3, <3>2 DEF Electing
    <3>. QED BY <2>1, <3>1, <3>2
  <2>. QED BY <2>1, <2>2, <2>4
<1>3. \A v \in Nodes : \A a, b : Gave(votes, v, c.id, a) /\ Gave(votes, v, c.id, b) => a = b
  <2> SUFFICES ASSUME NEW v \in Nodes, NEW a, NEW b,
                      Gave(votes, v, c.id, a), Gave(votes, v, c.id, b)
               PROVE  a = b
    OBVIOUS
  <2>1. [id |-> c.id, for |-> a] \in votes[v] /\ [id |-> c.id, for |-> b] \in votes[v]
    BY DEF Gave
  <2>. QED BY <1>1, <2>1 DEF NoDoubleVote
<1> DEFINE i == Home[c.op]
           j == Home[d.op]
<1>4. i \in Nodes /\ j \in Nodes /\ Wins(votes, i, c.id) /\ Wins(votes, j, c.id)
  <2>1. i \in Nodes /\ Wins(votes, i, c.id)
    BY <1>2
  <2>2. j \in Nodes /\ Wins(votes, j, d.id)
    BY <1>2
  <2>. QED BY <2>1, <2>2
<1>5. i = j
  <2> HIDE DEF i, j
  <2>1. i \in Nat /\ j \in Nat
    BY <1>4, NodesAssumption
  <2>2. ~(i < j) /\ ~(j < i)
    BY <1>3, <1>4, OneWinner
  <2>. QED BY <2>1, <2>2
<1>6. /\ c \in log[i] \/ \E x \in Entries(queue[i]) : x.id = c.id /\ x.op = c.op
      /\ d \in log[i] \/ \E x \in Entries(queue[i]) : x.id = c.id /\ x.op = d.op
  BY <1>2, <1>5
<1>7. /\ \A e \in log[i] : e.id \in Nat /\ e.id <= ccid[i]
      /\ \A x \in Entries(queue[i]) : x.id \in Nat /\ ccid[i] < x.id
      /\ ccid[i] \in Nat
  BY <1>1, <1>4, NodeFacts DEF TypeOK, LogBelow
<1>8. \A x, y \in Entries(queue[i]) : x.id = y.id => x = y
  <2>1. queue[i] \in Seq(QueueEntry) /\ Sorted(queue[i]) /\ Len(queue[i]) \in Nat
    BY <1>1, <1>4, NodeFacts, LenProperties
  <2>2. \A k \in 1 .. Len(queue[i]) : queue[i][k].id \in Nat
    BY <2>1, EntryRead
  <2>3. \A k, l \in 1 .. Len(queue[i]) : queue[i][k].id = queue[i][l].id => k = l
    BY <2>1, <2>2 DEF Sorted
  <2>. QED BY <2>3 DEF Entries
<1> HIDE DEF i, j
<1>9. CASE c \in log[i] /\ d \in log[i]
  BY <1>1, <1>4, <1>9 DEF LogWon
<1>10. CASE c \in log[i] /\ d \notin log[i]
  BY <1>6, <1>7, <1>10
<1>11. CASE c \notin log[i] /\ d \in log[i]
  BY <1>6, <1>7, <1>11
<1>12. CASE c \notin log[i] /\ d \notin log[i]
  BY <1>6, <1>8, <1>12
<1>. QED BY <1>9, <1>10, <1>11, <1>12

(* No two changes ever win, or are applied under, the same id, in a        *)
(* cluster of any size, an even number of nodes included, as long as no    *)
(* connection breaks and no request times out: masters may ask for the     *)
(* same id at the same time, lose and ask again, an undecided change may   *)
(* be killed and a gap given up at any time (changes__on_req_change_id,    *)
(* ti_changes_accept_id, ti_quorum_go, changes__loop).  When a connection  *)
(* breaks in the middle of a round it is false (run changes_split).        *)
THEOREM OneChangePerIdHolds ==
  ASSUME Fragile = {}, "request" \notin Faults
  PROVE  Spec => []OneChangePerId
BY InitVInv, NextVInv, VotesSeen, PTL DEF Spec
=============================================================================
