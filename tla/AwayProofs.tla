----------------------------- MODULE AwayProofs -----------------------------
(***************************************************************************)
(* Proofs about the turns in away mode, for any number of nodes and any    *)
(* timers.                                                                 *)
(*                                                                         *)
(* First the types.  Then that a node stays READY: a node that accepts     *)
(* another is itself ACCEPTED when it does, and no node wins without an    *)
(* accept, so the nodes that are Safe (idle, ACCEPTED, or asking while no  *)
(* node has accepted it) cannot all go.  For this an answer must not be    *)
(* taken for the answer to a later question: while a question or an answer *)
(* is on its way, or a vote open, the timer that asks again has not run    *)
(* out (Timely).                                                           *)
(***************************************************************************)
EXTENDS Away, FiniteSetTheorems, TLAPS

Up == Statuses \ {"OFFLINE"}
Asks == [tp: {"req"}]
Replies == [tp: {"res"}, answer: {"accept", "reject"}]
Infos == [tp: {"status"}, status: Up]
Packages == Asks \cup Replies \cup Infos

Longest == SleepBase + SleepStep * (Cardinality(Nodes) - 1)
Sleeps == SleepBase .. Longest
Waits == (0 .. BlockTime) \cup (0 .. SoonTimer)

Types ==
  /\ away \in [Nodes -> AwayStatuses]
  /\ away_node_id \in [Nodes -> Nodes]
  /\ status \in [Nodes -> Up]
  /\ known \in [Pairs -> Statuses]
  /\ vote \in [Nodes -> SUBSET [q: QuorumRecords, wait: SUBSET Nodes]]
  /\ sleep \in [Nodes -> Sleeps]
  /\ due \in [Nodes -> 0 .. Longest]
  /\ waiter \in [Nodes -> Waits]
  /\ chan \in [Pairs -> Seq(Packages)]

Sessions ==
  /\ changes \subseteq Nodes
  /\ asked \in [Nodes -> SUBSET Nodes] /\ syncers \in [Nodes -> SUBSET Nodes]
  /\ flags \in [Nodes -> SUBSET Nodes] /\ served \in [Nodes -> SUBSET Nodes]
-----------------------------------------------------------------------------
(* The operators of the model.                                             *)

LEMMA Size == Cardinality(Nodes) \in Nat /\ Cardinality(Nodes) >= 2
BY AwayNodesAssumption, FS_CardinalityType

LEMMA SmallestOne ==
  ASSUME NEW S \in SUBSET Nat, S # {}
  PROVE  \E x \in S : \A y \in S : x <= y
<1>1. PICK x \in S : \A y \in S : ~(<<y, x>> \in OpToRel(<, Nat))
  BY WFMin, NatLessThanWellFounded
<1>2. \A y \in S : x <= y
  <2> SUFFICES ASSUME NEW y \in S PROVE x <= y
    OBVIOUS
  <2>1. x \in Nat /\ y \in Nat
    OBVIOUS
  <2>2. ~(y < x)
    BY <1>1, <2>1 DEF OpToRel
  <2>. QED BY <2>1, <2>2
<1>. QED BY <1>2

LEMMA FirstIn ==
  ASSUME NEW S \in SUBSET Nodes, S # {}
  PROVE  First(S) \in S
<1>1. S \in SUBSET Nat
  BY AwayNodesAssumption
<1>2. \E x \in S : \A y \in S : x <= y
  BY <1>1, SmallestOne
<1>. QED BY <1>2 DEF First

LEMMA Times ==
  ASSUME NEW d \in Nat, NEW e \in Nat, d <= e, NEW s \in Nat
  PROVE  d * s \in Nat /\ d * s <= s * e
<1>1. e - d \in Nat
  OBVIOUS
<1>2. PICK k \in Nat : e = d + k
  BY <1>1
<1>3. d * s \in Nat /\ k * s \in Nat
  OBVIOUS
<1>4. s * e = d * s + k * s
  BY <1>2
<1>. QED BY <1>3, <1>4

(* How long a node sleeps, wherever it is behind the node whose turn it is.*)
LEMMA SleepInRange ==
  ASSUME NEW n \in Nodes, NEW a \in Nodes, NEW kn
  PROVE  UpdateSleep(n, a, kn) \in Sleeps
<1> DEFINE N == Cardinality(Nodes)
           at(m) == (Idx(m) - Idx(a) - 1 + N) % N
           turn == {m \in Nodes : m = n \/ kn[<<n, m>>] = "READY"}
           next == CHOOSE m \in turn : \A k \in turn : at(m) <= at(k)
           places == {at(m) : m \in turn}
<1>1. \A m \in Nodes : Idx(m) \in Nat
  <2> SUFFICES ASSUME NEW m \in Nodes PROVE Idx(m) \in Nat
    OBVIOUS
  <2>1. IsFiniteSet({k \in Nodes : k < m})
    BY AwayNodesAssumption, FS_Subset
  <2>. QED BY <2>1, FS_CardinalityType DEF Idx
<1>2. \A m \in Nodes : at(m) \in Nat /\ at(m) <= N - 1
  <2> SUFFICES ASSUME NEW m \in Nodes PROVE at(m) \in Nat /\ at(m) <= N - 1
    OBVIOUS
  <2>1. Idx(m) - Idx(a) - 1 + N \in Int /\ N \in Nat /\ N > 0
    BY <1>1, Size
  <2>. QED BY <2>1
<1>3. PICK x \in places : \A y \in places : x <= y
  <2>1. places \in SUBSET Nat /\ places # {}
    BY <1>2
  <2> HIDE DEF places
  <2>. QED BY <2>1, SmallestOne
<1>4. PICK m \in turn : \A k \in turn : at(m) <= at(k)
  BY <1>3
<1> HIDE DEF at
<1>5. next \in turn /\ at(next) <= at(n)
  BY <1>4
<1>6. UpdateSleep(n, a, kn) = SleepBase + (at(n) - at(next)) * SleepStep
  BY DEF UpdateSleep, at
<1> HIDE DEF next, N
<1> DEFINE d == at(n) - at(next)
<1>7. d \in Nat /\ d <= N - 1 /\ N - 1 \in Nat
  BY <1>2, <1>5, Size DEF N
<1>8. SleepBase \in Nat /\ SleepStep \in Nat
  BY TimersAssumption
<1> HIDE DEF d
<1>9. d * SleepStep \in Nat /\ d * SleepStep <= SleepStep * (N - 1)
  BY <1>7, <1>8, Times
<1>10. UpdateSleep(n, a, kn) = SleepBase + d * SleepStep
  BY <1>6 DEF d
<1>11. SleepStep * (N - 1) \in Nat
  BY <1>7, <1>8
<1>. QED BY <1>8, <1>9, <1>10, <1>11 DEF Sleeps, Longest, N

LEMMA SleepTypes ==
  /\ SleepBase \in Sleeps /\ Longest \in Nat
  /\ Sleeps \subseteq 0 .. Longest /\ \A d \in Sleeps : d > 0
<1>1. Cardinality(Nodes) - 1 \in Nat /\ SleepStep \in Nat /\ SleepBase \in Nat \ {0}
  BY Size, TimersAssumption
<1>2. SleepStep * (Cardinality(Nodes) - 1) \in Nat
  BY <1>1
<1>. QED BY <1>1, <1>2 DEF Sleeps, Longest

LEMMA TurnTypes ==
  ASSUME Types, NEW n \in Nodes, NEW a \in Nodes, NEW kn, SetAwayNode(n, a, kn)
  PROVE  away_node_id' \in [Nodes -> Nodes] /\ sleep' \in [Nodes -> Sleeps]
<1>1. UpdateSleep(n, a, kn) \in Sleeps
  BY SleepInRange
<1>. QED BY <1>1 DEF Types, SetAwayNode

LEMMA SentTypes ==
  ASSUME NEW ch \in [Pairs -> Seq(Packages)], NEW n, NEW S, NEW msg \in Packages
  PROVE  Send(ch, n, S, msg) \in [Pairs -> Seq(Packages)]
BY DEF Send

LEMMA ReadTypes ==
  ASSUME Types, NEW m \in Nodes, NEW n \in Nodes, m # n, chan[<<m, n>>] # <<>>
  PROVE  /\ <<m, n>> \in Pairs
         /\ Head(chan[<<m, n>>]) \in Packages
         /\ Receive(m, n) \in [Pairs -> Seq(Packages)]
<1>1. <<m, n>> \in Pairs
  BY DEF Pairs
<1>2. chan[<<m, n>>] \in Seq(Packages)
  BY <1>1 DEF Types
<1>. QED BY <1>1, <1>2 DEF Types, Receive

LEMMA AboutPackages ==
  /\ [tp |-> "req"] \in Packages
  /\ \A a \in {"accept", "reject"} : [tp |-> "res", answer |-> a] \in Packages
  /\ \A s \in Up : [tp |-> "status", status |-> s] \in Packages
  /\ \A x \in Packages : /\ x.tp = "res" => x.answer \in {"accept", "reject"}
                         /\ x.tp = "status" => x.status \in Up
BY DEF Packages, Asks, Replies, Infos, Up, Statuses

LEMMA BroadcastTypes ==
  ASSUME Types, NEW n \in Nodes, NEW s \in Up, NEW ch \in [Pairs -> Seq(Packages)],
         Broadcast(n, s, ch)
  PROVE  status' \in [Nodes -> Up] /\ chan' \in [Pairs -> Seq(Packages)]
<1>1. [tp |-> "status", status |-> s] \in Packages
  BY AboutPackages
<1>2. chan' \in [Pairs -> Seq(Packages)]
  BY <1>1, SentTypes DEF Broadcast
<1>. QED BY <1>2 DEF Types, Broadcast
-----------------------------------------------------------------------------
(* The vote counter.                                                       *)

(* What the counter of an open vote has besides its type.                  *)
Counter(q) ==
  /\ q \in QuorumRecords
  /\ q.collisions = 0
  /\ q.accept_threshold = (q.requests + 1) \div 2

LEMMA NewCounter ==
  ASSUME NEW n \in Nat \ {0}, NEW quorum \in Nat, NEW k \in Nat, k <= n - 1
  PROVE  LET q == ShrinkBy(QuorumNew(n, quorum), k) IN
         Counter(q) /\ q.accepted = 0 /\ q.quorum = quorum
<1> DEFINE b == [accepted |-> 0, rejected |-> 0, collisions |-> 0,
                 requests |-> n, quorum |-> quorum, accept_threshold |-> 0,
                 diff_requests |-> 0, win_collision |-> TRUE]
           c == QuorumNew(n, quorum)
           q == ShrinkBy(c, k)
<1>1. b \in QuorumRecords /\ b.requests = n /\ b.accepted = 0 /\ b.collisions = 0
      /\ b.quorum = quorum
  BY DEF QuorumRecords
<1>2. c = ShrinkOne(b)
  BY DEF QuorumNew
<1> HIDE DEF b, c
<1>3. n # 0 /\ n - 1 \in Nat /\ n \div 2 \in Nat
  OBVIOUS
<1>4. c = [b EXCEPT !.accept_threshold = n \div 2, !.requests = n - 1]
  BY <1>1, <1>2, <1>3 DEF ShrinkOne
<1>5. /\ c \in QuorumRecords /\ c.requests = n - 1 /\ c.accepted = 0 /\ c.collisions = 0
      /\ c.quorum = quorum /\ c.accept_threshold = n \div 2
  BY <1>1, <1>3, <1>4 DEF QuorumRecords
<1>6. CASE k = 0
  <2>1. q = c
    BY <1>6 DEF ShrinkBy
  <2>2. n \div 2 = (c.requests + 1) \div 2
    BY <1>5
  <2>. QED BY <1>5, <2>1, <2>2 DEF Counter, q, c
<1>7. CASE k # 0
  <2> DEFINE r == n - 1 - k
             t == (r + 1) \div 2
  <2>1. r \in Nat /\ t \in Nat
    BY <1>3
  <2>2. q = [c EXCEPT !.accept_threshold = t, !.requests = r]
    BY <1>5, <1>7 DEF ShrinkBy
  <2>3. t = (r + 1) \div 2
    OBVIOUS
  <2> HIDE DEF r, t, q
  <2>4. /\ q \in QuorumRecords /\ q.requests = r /\ q.accepted = 0 /\ q.collisions = 0
        /\ q.quorum = quorum /\ q.accept_threshold = t
    BY <1>5, <2>1, <2>2 DEF QuorumRecords
  <2>. QED BY <2>3, <2>4 DEF Counter, q, c
<1>. QED BY <1>6, <1>7 DEF c

(* A node is asked whether another may go; it never answers "collision".   *)
LEMMA CountedAnswer ==
  ASSUME NEW q, Counter(q), NEW tp \in {"accept", "reject", "error"}
  PROVE  /\ Counter(CountAnswer(q, tp, 0, FALSE))
         /\ CountAnswer(q, tp, 0, FALSE).quorum = q.quorum
         /\ tp # "accept" => CountAnswer(q, tp, 0, FALSE).accepted = q.accepted
<1> DEFINE r == CountAnswer(q, tp, 0, FALSE)
<1>0. q \in QuorumRecords /\ q.accepted + 1 \in Nat /\ q.rejected + 1 \in Nat
  BY DEF Counter, QuorumRecords
<1>1. CASE tp = "accept"
  <2>1. r = [q EXCEPT !.accepted = q.accepted + 1]
    BY <1>1 DEF CountAnswer
  <2> HIDE DEF r
  <2>2. /\ r \in QuorumRecords /\ r.collisions = q.collisions /\ r.quorum = q.quorum
        /\ r.accept_threshold = q.accept_threshold /\ r.requests = q.requests
    BY <1>0, <2>1 DEF QuorumRecords
  <2>. QED BY <1>1, <2>2 DEF Counter, r
<1>2. CASE tp = "reject"
  <2>1. r = [q EXCEPT !.rejected = q.rejected + 1]
    BY <1>2 DEF CountAnswer
  <2> HIDE DEF r
  <2>2. /\ r \in QuorumRecords /\ r.collisions = q.collisions /\ r.quorum = q.quorum
        /\ r.accept_threshold = q.accept_threshold /\ r.requests = q.requests
        /\ r.accepted = q.accepted
    BY <1>0, <2>1 DEF QuorumRecords
  <2>. QED BY <1>2, <2>2 DEF Counter, r
<1>3. CASE tp = "error"
  <2> DEFINE k == IF q.requests = 0 THEN 0 ELSE q.requests - 1
             t == q.requests \div 2
  <2>1. r = [q EXCEPT !.accept_threshold = t, !.requests = k]
    BY <1>3 DEF CountAnswer, ShrinkOne
  <2>2. k \in Nat /\ t \in Nat /\ t = (k + 1) \div 2
    BY DEF Counter, QuorumRecords
  <2> HIDE DEF k, t
  <2>. QED BY <1>3, <2>1, <2>2 DEF Counter, QuorumRecords
<1>. QED BY <1>1, <1>2, <1>3

(* Without one accept no vote is won, where the quorum is not zero.        *)
LEMMA WinIsAccepted ==
  ASSUME NEW q, Counter(q), q.quorum >= 1, QuorumGo(q) = "win"
  PROVE  q.accepted # 0
<1>1. /\ q.requests \in Nat /\ q.accepted \in Nat /\ q.rejected \in Nat
      /\ q.quorum \in Nat /\ q.diff_requests \in Int /\ q.collisions = 0
      /\ q.accept_threshold = (q.requests + 1) \div 2
  BY DEF Counter, QuorumRecords
<1>2. CASE EarlyVerdict(q) # "none"
  <2>1. EarlyVerdict(q) = "win"
    BY <1>2 DEF QuorumGo
  <2>2. q.requests >= q.quorum /\ q.accepted = q.accept_threshold
    BY <1>1, <2>1 DEF EarlyVerdict
  <2>. QED BY <1>1, <2>2
<1>3. CASE EarlyVerdict(q) = "none"
  <2>1. FinalVerdict(q) = "win"
    BY <1>3 DEF QuorumGo
  <2>2. q.accepted > q.rejected
    BY <1>1, <2>1 DEF FinalVerdict
  <2>. QED BY <1>1, <2>2
<1>. QED BY <1>2, <1>3
-----------------------------------------------------------------------------
(* The types.                                                              *)

Counters == \A n \in Nodes : \A v \in vote[n] : Counter(v.q)

TInv == Types /\ Counters

LEMMA VoteTypes ==
  ASSUME TInv, NEW n \in Nodes, NEW q, Counter(q), NEW wait \in SUBSET Nodes,
         NEW ch \in [Pairs -> Seq(Packages)], OnVote(n, q, wait, ch)
  PROVE  /\ away' \in [Nodes -> AwayStatuses]
         /\ away_node_id' \in [Nodes -> Nodes]
         /\ status' \in [Nodes -> Up]
         /\ vote' \in [Nodes -> SUBSET [q: QuorumRecords, wait: SUBSET Nodes]]
         /\ sleep' \in [Nodes -> Sleeps]
         /\ waiter' \in [Nodes -> Waits]
         /\ chan' \in [Pairs -> Seq(Packages)]
         /\ Counters'
<1>. USE DEF TInv
<1>1. q \in QuorumRecords
  BY DEF Counter
<1>2. CASE QuorumGo(q) = "none"
  <2> DEFINE v == [q |-> q, wait |-> wait]
  <2>1. /\ vote' = [vote EXCEPT ![n] = {v}]
        /\ away' = [away EXCEPT ![n] = "REQ_AWAY"] /\ chan' = ch
        /\ UNCHANGED <<away_node_id, status, sleep, waiter>>
    BY <1>2 DEF OnVote
  <2>2. v \in [q: QuorumRecords, wait: SUBSET Nodes] /\ v.q = q
    BY <1>1
  <2> HIDE DEF v
  <2>3. vote' \in [Nodes -> SUBSET [q: QuorumRecords, wait: SUBSET Nodes]]
    BY <2>1, <2>2 DEF Types
  <2>4. Counters'
    BY <2>1, <2>2, Zenon DEF Types, Counters
  <2>. QED BY <2>1, <2>3, <2>4 DEF Types, AwayStatuses
<1>3. CASE QuorumGo(q) = "win"
  <2>1. /\ vote' = [vote EXCEPT ![n] = {}] /\ away' = [away EXCEPT ![n] = "WAITING"]
        /\ waiter' = [waiter EXCEPT ![n] = SoonTimer]
        /\ SetAwayNode(n, n, known) /\ Broadcast(n, "AWAY_SOON", ch)
    BY <1>3 DEF OnVote
  <2>2. away_node_id' \in [Nodes -> Nodes] /\ sleep' \in [Nodes -> Sleeps]
    BY <2>1, TurnTypes
  <2>3. "AWAY_SOON" \in Up
    BY DEF Up, Statuses
  <2>4. status' \in [Nodes -> Up] /\ chan' \in [Pairs -> Seq(Packages)]
    BY <2>1, <2>3, BroadcastTypes
  <2>5. SoonTimer \in Waits
    BY TimersAssumption DEF Waits
  <2>6. vote' \in [Nodes -> SUBSET [q: QuorumRecords, wait: SUBSET Nodes]]
    BY <2>1 DEF Types
  <2>7. Counters'
    BY <2>1, Zenon DEF Types, Counters
  <2>. QED BY <2>1, <2>2, <2>4, <2>5, <2>6, <2>7 DEF Types, AwayStatuses
<1>4. CASE QuorumGo(q) = "lose"
  <2>1. /\ vote' = [vote EXCEPT ![n] = {}] /\ away' = [away EXCEPT ![n] = "IDLE"]
        /\ chan' = ch /\ UNCHANGED <<away_node_id, status, sleep, waiter>>
    BY <1>4 DEF OnVote
  <2>2. vote' \in [Nodes -> SUBSET [q: QuorumRecords, wait: SUBSET Nodes]]
    BY <2>1 DEF Types
  <2>3. Counters'
    BY <2>1, Zenon DEF Types, Counters
  <2>. QED BY <2>1, <2>2, <2>3 DEF Types, AwayStatuses
<1>. QED BY <1>2, <1>3, <1>4 DEF OnVote

(* The vote of a node that asks: the counter it starts with.               *)
AskedCounter(n) ==
  ShrinkBy(QuorumNew(Cardinality(Nodes), NodesQuorum(n)),
           Cardinality(Nodes) - 1 - Cardinality(Peers(n)))

LEMMA AskedCounts ==
  ASSUME NEW n \in Nodes
  PROVE  /\ Counter(AskedCounter(n)) /\ AskedCounter(n).accepted = 0
         /\ AskedCounter(n).quorum = NodesQuorum(n)
         /\ NodesQuorum(n) \in Nat
<1> DEFINE N == Cardinality(Nodes)
           k == N - 1 - Cardinality(Peers(n))
<1>1. N \in Nat \ {0}
  BY Size
<1>2. /\ IsFiniteSet(Nodes \ {n}) /\ Cardinality(Nodes \ {n}) = N - 1
  BY AwayNodesAssumption, FS_RemoveElement
<1>3. Peers(n) \subseteq Nodes \ {n}
  BY DEF Peers
<1>4. Cardinality(Peers(n)) \in Nat /\ Cardinality(Peers(n)) <= N - 1
  BY <1>2, <1>3, FS_Subset, FS_CardinalityType
<1>5. k \in Nat /\ k <= N - 1
  BY <1>1, <1>4
<1>6. NodesQuorum(n) \in Nat
  BY <1>1 DEF NodesQuorum
<1> HIDE DEF N, k
<1>7. LET q == ShrinkBy(QuorumNew(N, NodesQuorum(n)), k) IN
      Counter(q) /\ q.accepted = 0 /\ q.quorum = NodesQuorum(n)
  BY <1>1, <1>5, <1>6, NewCounter
<1>. QED BY <1>6, <1>7 DEF AskedCounter, N, k

LEMMA InitTypes == Init => TInv
<1> SUFFICES ASSUME Init PROVE TInv
  OBVIOUS
<1>1. Nodes \in SUBSET Nodes /\ Nodes # {}
  <2>1. Nodes # {}
    BY Size, FS_EmptySet
  <2>. QED BY <2>1
<1>2. First(Nodes) \in Nodes
  BY <1>1, FirstIn
<1>3. SleepBase \in Sleeps /\ Longest \in Nat /\ SleepBase <= Longest
  BY SleepTypes, TimersAssumption DEF Sleeps
<1>4. due \in [Nodes -> 0 .. Longest]
  <2>1. 1 .. SleepBase \subseteq 0 .. Longest
    BY <1>3, TimersAssumption
  <2>. QED BY <2>1 DEF Init
<1>5. 0 \in Waits
  BY TimersAssumption DEF Waits
<1>6. vote \in [Nodes -> SUBSET [q: QuorumRecords, wait: SUBSET Nodes]]
  BY DEF Init
<1>7. Counters
  BY DEF Init, Counters
<1>8. chan \in [Pairs -> Seq(Packages)]
  BY DEF Init
<1>9. status \in [Nodes -> Up] /\ known \in [Pairs -> Statuses]
  BY DEF Init, FirstStatus, Up, Statuses
<1>. QED BY <1>2, <1>3, <1>4, <1>5, <1>6, <1>7, <1>8, <1>9
     DEF Init, TInv, Types, AwayStatuses

LEMMA SameCounters == Counters /\ vote' = vote => Counters'
BY DEF Counters

LEMMA TriggerTypes ==
  ASSUME TInv, NEW n \in Nodes, Trigger(n)
  PROVE  TInv'
<1>1. due' \in [Nodes -> 0 .. Longest] /\ known' = known
  BY SleepTypes DEF TInv, Types, Trigger
<1>2. CASE UNCHANGED <<away, away_node_id, status, vote, sleep, waiter, chan>>
  BY <1>1, <1>2, SameCounters DEF TInv, Types
<1>3. CASE /\ AwayOrSoon(n) # {}
           /\ SetAwayNode(n, First(AwayOrSoon(n)), known)
           /\ UNCHANGED <<away, status, vote, waiter, chan>>
  <2>1. AwayOrSoon(n) \in SUBSET Nodes
    BY DEF AwayOrSoon
  <2>2. First(AwayOrSoon(n)) \in Nodes
    BY <1>3, <2>1, FirstIn
  <2>3. away_node_id' \in [Nodes -> Nodes] /\ sleep' \in [Nodes -> Sleeps]
    BY <1>3, <2>2, TurnTypes DEF TInv
  <2>. QED BY <1>1, <1>3, <2>3, SameCounters DEF TInv, Types
<1>4. CASE OnVote(n, AskedCounter(n), Peers(n), Send(chan, n, Peers(n), [tp |-> "req"]))
  <2>1. Counter(AskedCounter(n))
    BY AskedCounts
  <2>2. Send(chan, n, Peers(n), [tp |-> "req"]) \in [Pairs -> Seq(Packages)]
    BY SentTypes, AboutPackages DEF TInv, Types
  <2>3. Peers(n) \in SUBSET Nodes
    BY DEF Peers
  <2>. QED BY <1>1, <1>4, <2>1, <2>2, <2>3, VoteTypes DEF TInv, Types
<1>. QED BY <1>2, <1>3, <1>4 DEF Trigger, AskedCounter

(* What a node that is asked takes for the node to go, and what it says.   *)
Said(n) == IF away[n] = "ACCEPTED" THEN AwayOrSoon(n) ELSE {n}
Pending(n) == IF Said(n) = {} THEN away_node_id[n] ELSE First(Said(n))
Answered(m, n, a) == Send(Receive(m, n), n, {m}, [tp |-> "res", answer |-> a])

LEMMA AskedSteps ==
  ASSUME NEW m \in Nodes, NEW n \in Nodes, OnReqAway(m, n)
  PROVE  /\ HeadIs(m, n, "req")
         /\ \/ /\ away[n] = "IDLE"
               /\ away' = [away EXCEPT ![n] = "ACCEPTED"]
               /\ waiter' = [waiter EXCEPT ![n] = BlockTime]
               /\ SetAwayNode(n, m, known)
               /\ chan' = Answered(m, n, "accept")
            \/ /\ away[n] # "IDLE"
               /\ SetAwayNode(n, Pending(n), known)
               /\ chan' = Answered(m, n, Accept(n, m, Pending(n)))
               /\ UNCHANGED <<away, waiter>>
         /\ UNCHANGED <<status, known, vote, due>>
BY DEF OnReqAway, Said, Pending, Answered

LEMMA ReqTypes ==
  ASSUME TInv, NEW m \in Nodes, NEW n \in Nodes, m # n, OnReqAway(m, n)
  PROVE  TInv'
<1>1. Receive(m, n) \in [Pairs -> Seq(Packages)]
  BY ReadTypes DEF TInv, OnReqAway, HeadIs
<1>2. \A a \in {"accept", "reject"} : Answered(m, n, a) \in [Pairs -> Seq(Packages)]
  <2> SUFFICES ASSUME NEW a \in {"accept", "reject"}
               PROVE  Answered(m, n, a) \in [Pairs -> Seq(Packages)]
    OBVIOUS
  <2>1. [tp |-> "res", answer |-> a] \in Packages
    BY AboutPackages
  <2>. QED BY <1>1, <2>1, SentTypes DEF Answered
<1>3. Pending(n) \in Nodes
  <2>1. Said(n) \in SUBSET Nodes
    BY DEF Said, AwayOrSoon
  <2>2. Said(n) # {} => First(Said(n)) \in Nodes
    BY <2>1, FirstIn
  <2>3. away_node_id[n] \in Nodes
    BY DEF TInv, Types
  <2>. QED BY <2>2, <2>3, Zenon DEF Pending
<1>4. Accept(n, m, Pending(n)) \in {"accept", "reject"}
  BY DEF Accept
<1>5. chan' \in [Pairs -> Seq(Packages)]
  BY <1>2, <1>4, AskedSteps
<1>6. away_node_id' \in [Nodes -> Nodes] /\ sleep' \in [Nodes -> Sleeps]
  BY <1>3, AskedSteps, TurnTypes DEF TInv
<1>7. away' \in [Nodes -> AwayStatuses] /\ waiter' \in [Nodes -> Waits]
  <2>1. BlockTime \in Waits
    BY TimersAssumption DEF Waits
  <2>2. \/ /\ away' = [away EXCEPT ![n] = "ACCEPTED"]
           /\ waiter' = [waiter EXCEPT ![n] = BlockTime]
        \/ UNCHANGED <<away, waiter>>
    BY AskedSteps
  <2>3. "ACCEPTED" \in AwayStatuses
    BY DEF AwayStatuses
  <2>4. away \in [Nodes -> AwayStatuses] /\ waiter \in [Nodes -> Waits]
    BY DEF TInv, Types
  <2>. QED BY <2>1, <2>2, <2>3, <2>4, Zenon
<1>8. UNCHANGED <<status, known, vote, due>>
  BY AskedSteps
<1>. QED BY <1>5, <1>6, <1>7, <1>8, SameCounters DEF TInv, Types

LEMMA ResTypes ==
  ASSUME TInv, NEW m \in Nodes, NEW n \in Nodes, m # n, OnResAway(m, n)
  PROVE  TInv'
<1>1. /\ Receive(m, n) \in [Pairs -> Seq(Packages)]
      /\ Head(chan[<<m, n>>]) \in Packages /\ Head(chan[<<m, n>>]).tp = "res"
  BY ReadTypes DEF TInv, OnResAway, HeadIs
<1>2. UNCHANGED <<known, due>>
  BY DEF OnResAway
<1>3. CASE \E v \in vote[n] :
             OnVote(n, CountAnswer(v.q, Head(chan[<<m, n>>]).answer, 0, FALSE),
                    v.wait \ {m}, Receive(m, n))
  <2> DEFINE a == Head(chan[<<m, n>>]).answer
  <2>1. a \in {"accept", "reject", "error"}
    BY <1>1, AboutPackages
  <2>2. PICK v \in vote[n] :
          OnVote(n, CountAnswer(v.q, a, 0, FALSE), v.wait \ {m}, Receive(m, n))
    BY <1>3
  <2>3. Counter(v.q) /\ v.wait \ {m} \in SUBSET Nodes
    BY DEF TInv, Types, Counters
  <2> HIDE DEF a
  <2>4. Counter(CountAnswer(v.q, a, 0, FALSE))
    BY <2>1, <2>3, CountedAnswer
  <2>. QED BY <1>1, <1>2, <2>2, <2>3, <2>4, VoteTypes DEF TInv, Types
<1>4. CASE /\ vote[n] = {} /\ chan' = Receive(m, n)
           /\ UNCHANGED <<away, away_node_id, status, vote, sleep, waiter>>
  BY <1>1, <1>2, <1>4, SameCounters DEF TInv, Types
<1>. QED BY <1>3, <1>4 DEF OnResAway

LEMMA FailTypes ==
  ASSUME TInv, NEW m \in Nodes, NEW n \in Nodes, RequestFails(m, n)
  PROVE  TInv'
<1>1. PICK v \in vote[n] :
        OnVote(n, CountAnswer(v.q, "error", 0, FALSE), v.wait \ {m}, chan)
  BY DEF RequestFails
<1>2. Counter(v.q) /\ v.wait \ {m} \in SUBSET Nodes
  BY DEF TInv, Types, Counters
<1>3. Counter(CountAnswer(v.q, "error", 0, FALSE))
  BY <1>2, CountedAnswer
<1>4. UNCHANGED <<known, due>>
  BY DEF RequestFails
<1>. QED BY <1>1, <1>2, <1>3, <1>4, VoteTypes DEF TInv, Types

LEMMA StatusTypes ==
  ASSUME TInv, NEW m \in Nodes, NEW n \in Nodes, m # n, OnStatus(m, n)
  PROVE  TInv'
<1> DEFINE s == Head(chan[<<m, n>>]).status
           a == IF s = "AWAY" THEN m ELSE away_node_id[n]
<1>1. /\ Receive(m, n) \in [Pairs -> Seq(Packages)] /\ <<m, n>> \in Pairs
      /\ Head(chan[<<m, n>>]) \in Packages /\ Head(chan[<<m, n>>]).tp = "status"
  BY ReadTypes DEF TInv, OnStatus, HeadIs
<1>2. s \in Up /\ <<n, m>> \in Pairs
  BY <1>1, AboutPackages DEF Pairs
<1>3. known' \in [Pairs -> Statuses]
  BY <1>2 DEF OnStatus, TInv, Types, Up
<1>4. a \in Nodes /\ SetAwayNode(n, a, known')
  BY DEF OnStatus, TInv, Types
<1>5. away_node_id' \in [Nodes -> Nodes] /\ sleep' \in [Nodes -> Sleeps]
  <2>1. UpdateSleep(n, a, known') \in Sleeps
    BY <1>4, SleepInRange
  <2>. QED BY <1>4, <2>1 DEF TInv, Types, SetAwayNode
<1>6. chan' = Receive(m, n) /\ UNCHANGED <<away, status, vote, due, waiter>>
  BY DEF OnStatus
<1>. QED BY <1>1, <1>3, <1>5, <1>6, SameCounters DEF TInv, Types

LEMMA TickTypes == ASSUME TInv, Tick PROVE TInv'
<1>1. \A n \in Nodes : due[n] - 1 \in 0 .. Longest
  BY SleepTypes DEF Tick, TInv, Types
<1>2. \A n \in Nodes : (IF waiter[n] > 0 THEN waiter[n] - 1 ELSE 0) \in Waits
  <2> SUFFICES ASSUME NEW n \in Nodes
               PROVE  (IF waiter[n] > 0 THEN waiter[n] - 1 ELSE 0) \in Waits
    OBVIOUS
  <2>1. BlockTime \in Nat /\ SoonTimer \in Nat /\ waiter[n] \in Waits
    BY TimersAssumption DEF TInv, Types
  <2>. QED BY <2>1 DEF Waits
<1>3. due' \in [Nodes -> 0 .. Longest] /\ waiter' \in [Nodes -> Waits]
  BY <1>1, <1>2, Zenon DEF Tick
<1>4. UNCHANGED <<away, away_node_id, status, known, vote, sleep, chan>>
  BY DEF Tick
<1>. QED BY <1>3, <1>4, SameCounters DEF TInv, Types

LEMMA NodeTypes ==
  ASSUME TInv, NEW n \in Nodes, NodeStep(n)
  PROVE  TInv'
<1>0. {"IDLE", "WORKING", "SYNCING"} \subseteq AwayStatuses /\ {"READY", "AWAY"} \subseteq Up
      /\ chan \in [Pairs -> Seq(Packages)]
  BY DEF AwayStatuses, Up, Statuses, TInv, Types
<1>1. CASE BlockEnds(n)
  BY <1>0, <1>1, SameCounters DEF BlockEnds, TInv, Types
<1>2. CASE GoAway(n)
  <2>1. status' \in [Nodes -> Up] /\ chan' \in [Pairs -> Seq(Packages)]
    BY <1>0, <1>2, BroadcastTypes DEF GoAway, TInv
  <2>. QED BY <1>0, <1>2, <2>1, SameCounters DEF GoAway, TInv, Types
<1>3. CASE WorkFinish(n)
  BY <1>0, <1>3, SameCounters DEF WorkFinish, TInv, Types
<1>4. CASE ComeBack(n)
  <2>1. status' \in [Nodes -> Up] /\ chan' \in [Pairs -> Seq(Packages)]
    BY <1>0, <1>4, BroadcastTypes DEF ComeBack, TInv
  <2>. QED BY <1>0, <1>4, <2>1, SameCounters DEF ComeBack, TInv, Types
<1>5. CASE Serve(n)
  BY <1>5, SameCounters DEF Serve, TInv, Types
<1>. QED BY <1>1, <1>2, <1>3, <1>4, <1>5 DEF NodeStep

(* What nodes that synchronize do, and changes.                            *)
LEMMA SyncTypes ==
  ASSUME TInv, NEW m \in Nodes, NEW n \in Nodes, SyncStep(m, n)
  PROVE  TInv'
<1>1. CASE SyncEnds(m, n)
  <2>1. "READY" \in Up /\ chan \in [Pairs -> Seq(Packages)] /\ Broadcast(m, "READY", chan)
    BY <1>1 DEF SyncEnds, Up, Statuses, TInv, Types
  <2>2. status' \in [Nodes -> Up] /\ chan' \in [Pairs -> Seq(Packages)]
    BY <2>1, BroadcastTypes DEF TInv
  <2>. QED BY <1>1, <2>2, SameCounters DEF SyncEnds, TInv, Types
<1>2. CASE SyncFails(m, n)
  BY <1>2, SameCounters DEF SyncFails, TInv, Types
<1>. QED BY <1>1, <1>2 DEF SyncStep

LEMMA QueueTypes ==
  ASSUME TInv, NEW n \in Nodes, ChangesArrive(n) \/ RunChanges(n) \/ FindAwayNode(n)
  PROVE  TInv'
<1>1. UNCHANGED <<away, away_node_id, status, known, vote, sleep, due, waiter, chan>>
  BY DEF ChangesArrive, RunChanges, FindAwayNode
<1>. QED BY <1>1, SameCounters DEF TInv, Types

LEMMA LinkTypes ==
  ASSUME TInv, NEW p \in Pairs, LinkDown(p) \/ LinkUp(p)
  PROVE  TInv'
<1>1. CASE LinkDown(p)
  <2>1. known' \in [Pairs -> Statuses] /\ chan' \in [Pairs -> Seq(Packages)]
    BY <1>1 DEF LinkDown, TInv, Types, Statuses
  <2>. QED BY <1>1, <2>1, SameCounters DEF LinkDown, TInv, Types
<1>2. CASE LinkUp(p)
  <2>1. \A d \in Pairs : d[2] \in Nodes
    BY DEF Pairs
  <2>2. known' \in [Pairs -> Statuses]
    BY <1>2, <2>1 DEF LinkUp, TInv, Types, Up
  <2>. QED BY <1>2, <2>2, SameCounters DEF LinkUp, TInv, Types
<1>. QED BY <1>1, <1>2

LEMMA NextTypes == TInv /\ [Next]_vars => TInv'
<1> SUFFICES ASSUME TInv, [Next]_vars PROVE TInv'
  OBVIOUS
<1>1. CASE Tick
  BY <1>1, TickTypes
<1>2. ASSUME NEW n \in Nodes, Trigger(n) \/ NodeStep(n) PROVE TInv'
  BY <1>2, TriggerTypes, NodeTypes
<1>3. ASSUME NEW p \in Pairs, PackageStep(p[1], p[2]) PROVE TInv'
  <2>1. p[1] \in Nodes /\ p[2] \in Nodes /\ p[1] # p[2]
    BY DEF Pairs
  <2>. QED BY <1>3, <2>1, ReqTypes, ResTypes, StatusTypes, FailTypes DEF PackageStep
<1>4. ASSUME NEW p \in Pairs, LinkDown(p) \/ LinkUp(p) PROVE TInv'
  BY <1>4, LinkTypes
<1>5. ASSUME NEW n \in Nodes, ChangesArrive(n) \/ RunChanges(n) \/ FindAwayNode(n)
      PROVE  TInv'
  BY <1>5, QueueTypes
<1>6. ASSUME NEW p \in Pairs, SyncStep(p[1], p[2]) PROVE TInv'
  <2>1. p[1] \in Nodes /\ p[2] \in Nodes
    BY DEF Pairs
  <2>. QED BY <1>6, <2>1, SyncTypes
<1>7. CASE UNCHANGED vars
  BY <1>7 DEF vars, TInv, Types, Counters
<1>. QED BY <1>1, <1>2, <1>3, <1>4, <1>5, <1>6, <1>7 DEF Next

LEMMA NextSessions == Sessions /\ [Next]_vars => Sessions'
<1> SUFFICES ASSUME Sessions, [Next]_vars PROVE Sessions'
  OBVIOUS
<1>1. UNCHANGED session => Sessions'
  BY DEF Sessions, session
<1>2. ASSUME NEW n \in Nodes, Trigger(n) \/ NodeStep(n) PROVE Sessions'
  <2>1. CASE Serve(n)
    BY <2>1 DEF Serve, Sessions
  <2>2. CASE ~Serve(n)
    BY <1>1, <1>2, <2>2 DEF Trigger, NodeStep, BlockEnds, GoAway, WorkFinish, ComeBack
  <2>. QED BY <2>1, <2>2
<1>3. ASSUME NEW n \in Nodes, ChangesArrive(n) \/ RunChanges(n) PROVE Sessions'
  BY <1>3 DEF ChangesArrive, RunChanges, Sessions
<1>4. ASSUME NEW m \in Nodes, FindAwayNode(m) PROVE Sessions'
  <2> DEFINE found == IF AwayOrSoon(m) = {} THEN {} ELSE {First(AwayOrSoon(m))}
  <2>1. found \in SUBSET Nodes
    <3>1. AwayOrSoon(m) \in SUBSET Nodes
      BY DEF AwayOrSoon
    <3>. QED BY <3>1, FirstIn
  <2>2. /\ asked' = [asked EXCEPT ![m] = found]
        /\ syncers' = [n \in Nodes |->
             IF n \in found /\ status[n] \in {"AWAY_SOON", "AWAY"} THEN syncers[n] \cup {m}
             ELSE syncers[n]]
        /\ UNCHANGED <<changes, flags, served>>
    BY <1>4 DEF FindAwayNode
  <2> HIDE DEF found
  <2>. QED BY <2>1, <2>2 DEF Sessions
<1>5. ASSUME NEW m \in Nodes, NEW n \in Nodes, SyncStep(m, n) PROVE Sessions'
  BY <1>5 DEF SyncStep, SyncEnds, SyncFails, Sessions
<1>6. ASSUME NEW p \in Pairs, LinkDown(p) PROVE Sessions'
  BY <1>6 DEF LinkDown, Cut, Sessions
<1>7. ASSUME NEW p \in Pairs, PackageStep(p[1], p[2]) \/ LinkUp(p) PROVE Sessions'
  BY <1>1, <1>7 DEF PackageStep, OnReqAway, OnResAway, OnStatus, RequestFails, LinkUp
<1>8. CASE Tick \/ UNCHANGED vars
  BY <1>1, <1>8 DEF Tick, vars
<1>9. \A p \in Pairs : p[1] \in Nodes /\ p[2] \in Nodes
  BY DEF Pairs
<1>. QED BY <1>2, <1>3, <1>4, <1>5, <1>6, <1>7, <1>8, <1>9 DEF Next

LEMMA TypesGive == TInv /\ Sessions => TypeOK
<1> SUFFICES ASSUME TInv, Sessions PROVE TypeOK
  OBVIOUS
<1> DEFINE P == [tp: {"req"}] \cup [tp: {"res"}, answer: Answers] \cup
                [tp: {"status"}, status: Statuses]
<1>1. Packages \subseteq P
  BY DEF Packages, Asks, Replies, Infos, Up, Answers
<1> HIDE DEF P
<1>2. chan \in [Pairs -> Seq(P)]
  BY <1>1 DEF TInv, Types
<1>. QED BY <1>2 DEF TInv, Types, Sessions, TypeOK, P, Up, Sleeps, Waits, Longest

(* Every variable keeps its type: the counters of an open vote, the time   *)
(* between two tries (away__update_sleep) and the timers stay in range for *)
(* any number of nodes and any timers, and the node that is expected to be *)
(* away is always a node.                                                  *)
THEOREM AwayTypeCorrect == Spec => []TypeOK
<1>1. Init => TInv /\ Sessions
  BY InitTypes DEF Init, Sessions
<1>2. TInv /\ Sessions /\ [Next]_vars => TInv' /\ Sessions'
  BY NextTypes, NextSessions
<1>3. TInv /\ Sessions => TypeOK
  BY TypesGive
<1>. QED BY <1>1, <1>2, <1>3, PTL DEF Spec
-----------------------------------------------------------------------------
(* The packages on their way.                                              *)

Held(s) == {s[i] : i \in 1 .. Len(s)}

(* Nothing but the status of a node is sent between the channels a and b.  *)
Quiet(a, b) ==
  \A p \in Pairs : \A x \in Held(b[p]) : x \in Held(a[p]) \/ x.tp = "status"

LEMMA SentHeld ==
  ASSUME NEW ch \in [Pairs -> Seq(Packages)], NEW n, NEW S, NEW msg \in Packages,
         NEW p \in Pairs
  PROVE  \A x \in Held(Send(ch, n, S, msg)[p]) :
           x \in Held(ch[p]) \/ (x = msg /\ p[1] = n /\ p[2] \in S)
<1> SUFFICES ASSUME NEW x \in Held(Send(ch, n, S, msg)[p])
             PROVE  x \in Held(ch[p]) \/ (x = msg /\ p[1] = n /\ p[2] \in S)
  OBVIOUS
<1>1. ch[p] \in Seq(Packages)
  OBVIOUS
<1>2. CASE p[1] = n /\ p[2] \in S
  <2>1. Send(ch, n, S, msg)[p] = Append(ch[p], msg)
    BY <1>2 DEF Send
  <2>2. PICK i \in 1 .. Len(Append(ch[p], msg)) : x = Append(ch[p], msg)[i]
    BY <2>1 DEF Held
  <2>. QED BY <1>1, <1>2, <2>2 DEF Held
<1>3. CASE ~(p[1] = n /\ p[2] \in S)
  BY <1>3 DEF Send
<1>. QED BY <1>2, <1>3

LEMMA ReadHeld ==
  ASSUME Types, NEW m \in Nodes, NEW n \in Nodes, m # n, chan[<<m, n>>] # <<>>,
         NEW p \in Pairs, NEW x \in Held(Receive(m, n)[p])
  PROVE  x \in Held(chan[p])
<1>1. <<m, n>> \in Pairs /\ chan[<<m, n>>] \in Seq(Packages) /\ chan \in [Pairs -> Seq(Packages)]
  BY DEF Types, Pairs
<1>2. CASE p = <<m, n>>
  <2>1. Receive(m, n)[p] = Tail(chan[p])
    BY <1>1, <1>2 DEF Receive
  <2>2. PICK i \in 1 .. Len(Tail(chan[p])) : x = Tail(chan[p])[i]
    BY <2>1 DEF Held
  <2>3. x = chan[p][i + 1] /\ i + 1 \in 1 .. Len(chan[p])
    BY <1>1, <1>2, <2>2
  <2>. QED BY <2>3 DEF Held
<1>3. CASE p # <<m, n>>
  <2>1. Receive(m, n)[p] = chan[p]
    BY <1>1, <1>3 DEF Receive
  <2>. QED BY <2>1
<1>. QED BY <1>2, <1>3

LEMMA HeadHeld ==
  ASSUME Types, NEW m \in Nodes, NEW n \in Nodes, m # n, chan[<<m, n>>] # <<>>
  PROVE  Head(chan[<<m, n>>]) \in Held(chan[<<m, n>>])
<1>1. chan[<<m, n>>] \in Seq(Packages)
  BY DEF Types, Pairs
<1>2. Head(chan[<<m, n>>]) = chan[<<m, n>>][1] /\ 1 \in 1 .. Len(chan[<<m, n>>])
  BY <1>1
<1>. QED BY <1>2 DEF Held

LEMMA BroadcastQuiet ==
  ASSUME NEW ch \in [Pairs -> Seq(Packages)], NEW n, NEW s \in Up, Broadcast(n, s, ch)
  PROVE  Quiet(ch, chan')
<1> DEFINE msg == [tp |-> "status", status |-> s]
<1>0. msg \in Packages
  BY AboutPackages
<1>1. msg.tp = "status"
  OBVIOUS
<1>2. chan' = Send(ch, n, Peers(n), msg)
  BY DEF Broadcast
<1> HIDE DEF msg
<1> SUFFICES ASSUME NEW p \in Pairs, NEW x \in Held(chan'[p])
             PROVE  x \in Held(ch[p]) \/ x.tp = "status"
  BY DEF Quiet
<1>3. \A y \in Held(Send(ch, n, Peers(n), msg)[p]) :
        y \in Held(ch[p]) \/ (y = msg /\ p[1] = n /\ p[2] \in Peers(n))
  BY <1>0, SentHeld, Zenon
<1>4. x \in Held(ch[p]) \/ x = msg
  BY <1>2, <1>3
<1>. QED BY <1>1, <1>4
-----------------------------------------------------------------------------
(* One node stays.                                                         *)

(* A node is READY as long as it has not won, and none synchronizes.       *)
Told ==
  \A n \in Nodes :
    /\ status[n] = "READY" <=> away[n] \in {"IDLE", "ACCEPTED", "REQ_AWAY"}
    /\ status[n] # "SYNCHRONIZING"

(* The votes that are open, none of which can be won without an accept.    *)
Open ==
  \A n \in Nodes : /\ vote[n] = {} <=> away[n] # "REQ_AWAY"
                   /\ \A v \in vote[n] : v.q.quorum >= 1

(* No node asks again while what belongs to its last question is on its    *)
(* way: its trigger timer has not run out.                                 *)
TimelyIn(ch, d) ==
  \A p \in Pairs : \A x \in Held(ch[p]) : /\ x.tp = "req" => d[p[1]] > 0
                                          /\ x.tp = "res" => d[p[2]] > 0
Timely == TimelyIn(chan, due) /\ \A n \in Nodes : vote[n] # {} => due[n] > 0

Connected == Fragile = {} => \A p \in Pairs : known[p] # "OFFLINE"

(* No accept for n is on its way.                                          *)
Unaccepted(n, ch) ==
  \A p \in Pairs : p[2] = n =>
    \A x \in Held(ch[p]) : x.tp = "res" => x.answer # "accept"

(* A node that cannot go away as things are.                               *)
SafeIn(n, ch) ==
  \/ away[n] \in {"IDLE", "ACCEPTED"}
  \/ /\ away[n] = "REQ_AWAY"
     /\ \A v \in vote[n] : v.q.accepted = 0
     /\ Unaccepted(n, ch)
Safe(n) == SafeIn(n, chan)
SomeSafe == \E n \in Nodes : Safe(n)

RInv == TInv /\ Told /\ Open /\ Timely /\ Connected /\ SomeSafe

LEMMA QuietSafe ==
  ASSUME NEW a, NEW b, Quiet(a, b), NEW n, Unaccepted(n, a)
  PROVE  Unaccepted(n, b)
BY DEF Quiet, Unaccepted

LEMMA QuietTimely ==
  ASSUME NEW a, NEW b, Quiet(a, b), NEW d, TimelyIn(a, d)
  PROVE  TimelyIn(b, d)
BY DEF Quiet, TimelyIn

LEMMA ReadQuiet ==
  ASSUME Types, NEW m \in Nodes, NEW n \in Nodes, m # n, chan[<<m, n>>] # <<>>
  PROVE  Quiet(chan, Receive(m, n))
BY ReadHeld DEF Quiet

(* A step of node n that is not safe, or that leaves it safe, and that     *)
(* sends nothing but its status.                                           *)
LEMMA QuietStep ==
  ASSUME RInv, TInv', NEW n \in Nodes, Quiet(chan, chan'),
         UNCHANGED <<vote, due>>,
         away[n] # "REQ_AWAY", away'[n] # "REQ_AWAY",
         \A m \in Nodes \ {n} : away'[m] = away[m] /\ status'[m] = status[m],
         status'[n] = "READY" <=> away'[n] \in {"IDLE", "ACCEPTED", "REQ_AWAY"},
         status'[n] # "SYNCHRONIZING",
         Safe(n) => away'[n] \in {"IDLE", "ACCEPTED"},
         Connected'
  PROVE  RInv'
<1>1. Told'
  BY DEF RInv, Told
<1>2. Open'
  BY DEF RInv, Open
<1>3. Timely'
  BY QuietTimely DEF RInv, Timely
<1>4. SomeSafe'
  <2>1. PICK w \in Nodes : Safe(w)
    BY DEF RInv, SomeSafe
  <2>2. CASE w = n
    BY <2>1, <2>2 DEF SomeSafe, Safe, SafeIn
  <2>3. CASE w # n
    <3>1. away'[w] = away[w] /\ vote'[w] = vote[w]
      BY <2>3
    <3>2. Unaccepted(w, chan) => Unaccepted(w, chan')
      BY QuietSafe
    <3>3. Safe(w)'
      BY <2>1, <3>1, <3>2 DEF Safe, SafeIn
    <3>. QED BY <3>3 DEF SomeSafe
  <2>. QED BY <2>2, <2>3
<1>. QED BY <1>1, <1>2, <1>3, <1>4 DEF RInv

(* The vote of n, with the channels ch.                                    *)
LEMMA VoteStep ==
  ASSUME RInv, TInv', NEW n \in Nodes, NEW q, Counter(q), q.quorum >= 1,
         NEW wait, NEW ch \in [Pairs -> Seq(Packages)],
         OnVote(n, q, wait, ch), away[n] \in {"IDLE", "REQ_AWAY"},
         known' = known, due'[n] > 0, \A m \in Nodes \ {n} : due'[m] = due[m],
         TimelyIn(ch, due'),
         \/ \E w \in Nodes \ {n} : SafeIn(w, ch)
         \/ q.accepted = 0 /\ Unaccepted(n, ch)
  PROVE  RInv'
<1>0. /\ away \in [Nodes -> AwayStatuses] /\ status \in [Nodes -> Up]
      /\ DOMAIN vote = Nodes
  BY DEF RInv, TInv, Types
<1>1. Quiet(ch, chan')
  <2>1. chan' = ch => Quiet(ch, chan')
    BY DEF Quiet
  <2>2. "AWAY_SOON" \in Up
    BY DEF Up, Statuses
  <2>3. Broadcast(n, "AWAY_SOON", ch) => Quiet(ch, chan')
    BY <2>2, BroadcastQuiet
  <2>. QED BY <2>1, <2>3 DEF OnVote
<1>2. \/ away'[n] = "REQ_AWAY" /\ vote'[n] = {[q |-> q, wait |-> wait]} /\ status'[n] = status[n]
      \/ away'[n] = "IDLE" /\ vote'[n] = {} /\ status'[n] = status[n]
      \/ away'[n] = "WAITING" /\ vote'[n] = {} /\ status'[n] = "AWAY_SOON" /\ QuorumGo(q) = "win"
  BY <1>0 DEF OnVote, Broadcast
<1>3. \A m \in Nodes \ {n} : away'[m] = away[m] /\ status'[m] = status[m] /\ vote'[m] = vote[m]
  BY <1>0 DEF OnVote, Broadcast
<1>4. status[n] = "READY"
  BY DEF RInv, Told
<1>5. Told'
  BY <1>2, <1>3, <1>4 DEF RInv, Told
<1>6. Open'
  <2> SUFFICES ASSUME NEW m \in Nodes
               PROVE  /\ vote'[m] = {} <=> away'[m] # "REQ_AWAY"
                      /\ \A v \in vote'[m] : v.q.quorum >= 1
    BY DEF Open
  <2>1. CASE m # n
    BY <1>3, <2>1 DEF RInv, Open
  <2>2. CASE m = n
    <3> DEFINE v == [q |-> q, wait |-> wait]
    <3>1. v.q.quorum >= 1
      OBVIOUS
    <3>2. vote'[n] = {v} \/ vote'[n] = {}
      BY <1>2
    <3>3. vote'[n] = {} <=> away'[n] # "REQ_AWAY"
      BY <1>2
    <3> HIDE DEF v
    <3>. QED BY <2>2, <3>1, <3>2, <3>3, Zenon
  <2>. QED BY <2>1, <2>2
<1>7. Timely'
  <2>1. TimelyIn(chan', due')
    BY <1>1, QuietTimely
  <2>2. \A m \in Nodes : vote'[m] # {} => due'[m] > 0
    BY <1>3 DEF RInv, Timely
  <2>. QED BY <2>1, <2>2 DEF Timely
<1>8. Connected'
  BY DEF RInv, Connected
<1>9. SomeSafe'
  <2>1. ASSUME NEW w \in Nodes \ {n}, SafeIn(w, ch) PROVE SomeSafe'
    <3>1. Unaccepted(w, ch) => Unaccepted(w, chan')
      BY <1>1, QuietSafe
    <3>2. away'[w] = away[w] /\ vote'[w] = vote[w]
      BY <1>3
    <3>3. Safe(w)'
      BY <2>1, <3>1, <3>2 DEF Safe, SafeIn
    <3>. QED BY <3>3 DEF SomeSafe
  <2>2. CASE q.accepted = 0 /\ Unaccepted(n, ch)
    <3>1. QuorumGo(q) # "win"
      BY <2>2, WinIsAccepted
    <3>2. Unaccepted(n, chan')
      BY <1>1, <2>2, QuietSafe
    <3>3. Safe(n)'
      BY <1>2, <2>2, <3>1, <3>2 DEF Safe, SafeIn
    <3>. QED BY <3>3 DEF SomeSafe
  <2>. QED BY <2>1, <2>2
<1>. QED BY <1>5, <1>6, <1>7, <1>8, <1>9 DEF RInv

LEMMA TriggerStays ==
  ASSUME RInv, TInv', NEW n \in Nodes, Trigger(n),
         Fragile = {} \/ Cardinality(Nodes) >= 3
  PROVE  RInv'
<1>0. Types /\ DOMAIN due = Nodes /\ chan \in [Pairs -> Seq(Packages)]
  BY DEF RInv, TInv, Types
<1>1. /\ due[n] = 0 /\ due'[n] > 0 /\ known' = known
      /\ \A m \in Nodes \ {n} : due'[m] = due[m]
  BY <1>0, SleepTypes DEF Trigger, Types
<1>2. TimelyIn(chan, due') /\ \A m \in Nodes : vote[m] # {} => due'[m] > 0
  <2>1. \A p \in Pairs : p[1] \in Nodes /\ p[2] \in Nodes
    BY DEF Pairs
  <2>. QED BY <1>1, <2>1 DEF RInv, Timely, TimelyIn
<1>3. CASE UNCHANGED <<away, status, vote, chan>>
  <2>1. Told' /\ Open' /\ Connected'
    BY <1>1, <1>3 DEF RInv, Told, Open, Connected
  <2>2. Timely'
    BY <1>2, <1>3 DEF Timely
  <2>3. SomeSafe'
    BY <1>3 DEF RInv, SomeSafe, Safe, SafeIn
  <2>. QED BY <2>1, <2>2, <2>3 DEF RInv
<1>4. CASE /\ away[n] = "IDLE"
           /\ OnVote(n, AskedCounter(n), Peers(n), Send(chan, n, Peers(n), [tp |-> "req"]))
  <2> DEFINE msg == [tp |-> "req"]
             ch == Send(chan, n, Peers(n), msg)
             q == AskedCounter(n)
  <2>1. msg \in Packages
    BY AboutPackages
  <2>2. msg.tp = "req"
    OBVIOUS
  <2>3. OnVote(n, q, Peers(n), ch)
    BY <1>4
  <2> HIDE DEF msg
  <2>4. ch \in [Pairs -> Seq(Packages)]
    BY <1>0, <2>1, SentTypes
  <2>5. Counter(q) /\ q.accepted = 0 /\ q.quorum = NodesQuorum(n)
    BY AskedCounts
  <2>6. NodesQuorum(n) >= 1
    <3>1. CASE Cardinality(Nodes) = 2
      <4>1. \A p \in Pairs : known[p] # "OFFLINE"
        BY <3>1 DEF RInv, Connected
      <4>2. PICK m \in Nodes : m # n
        <5>1. SUFFICES ASSUME Nodes = {n} PROVE FALSE
          OBVIOUS
        <5>. QED BY <3>1, <5>1, FS_Singleton
      <4>3. m \in Peers(n)
        BY <4>1, <4>2 DEF Peers, Pairs
      <4>. QED BY <3>1, <4>3 DEF NodesQuorum
    <3>2. CASE Cardinality(Nodes) # 2
      BY <3>2, Size DEF NodesQuorum
    <3>. QED BY <3>1, <3>2
  <2>7. \A p \in Pairs : \A x \in Held(ch[p]) :
          x \in Held(chan[p]) \/ (x = msg /\ p[1] = n)
    <3> SUFFICES ASSUME NEW p \in Pairs
                 PROVE  \A x \in Held(ch[p]) :
                          x \in Held(chan[p]) \/ (x = msg /\ p[1] = n)
      OBVIOUS
    <3>1. \A x \in Held(Send(chan, n, Peers(n), msg)[p]) :
            x \in Held(chan[p]) \/ (x = msg /\ p[1] = n /\ p[2] \in Peers(n))
      BY <1>0, <2>1, SentHeld, Zenon
    <3>. QED BY <3>1
  <2> HIDE DEF ch, q
  <2>8. TimelyIn(ch, due')
    BY <1>1, <1>2, <2>2, <2>7 DEF TimelyIn
  <2>9. Unaccepted(n, ch)
    <3>1. \A p \in Pairs : p[2] = n => \A x \in Held(chan[p]) : x.tp # "res"
      BY <1>1 DEF RInv, Timely, TimelyIn
    <3>. QED BY <2>2, <2>7, <3>1 DEF Unaccepted
  <2>. QED BY <1>1, <1>4, <2>3, <2>4, <2>5, <2>6, <2>8, <2>9, VoteStep
<1>. QED BY <1>3, <1>4 DEF Trigger, AskedCounter

LEMMA ResStays ==
  ASSUME RInv, TInv', NEW m \in Nodes, NEW n \in Nodes, m # n, OnResAway(m, n)
  PROVE  RInv'
<1> DEFINE ch == Receive(m, n)
           a == Head(chan[<<m, n>>]).answer
<1>0. Types /\ chan[<<m, n>>] # <<>>
  BY DEF RInv, TInv, OnResAway, HeadIs
<1>1. /\ ch \in [Pairs -> Seq(Packages)] /\ <<m, n>> \in Pairs
      /\ Head(chan[<<m, n>>]) \in Packages /\ Head(chan[<<m, n>>]).tp = "res"
      /\ Head(chan[<<m, n>>]) \in Held(chan[<<m, n>>])
  BY <1>0, ReadTypes, HeadHeld DEF OnResAway, HeadIs
<1>2. UNCHANGED <<known, due>>
  BY DEF OnResAway
<1>3. Quiet(chan, ch)
  BY <1>0, ReadQuiet
<1>4. a \in {"accept", "reject", "error"}
  BY <1>1, AboutPackages
<1>5. \A w \in Nodes : Safe(w) => SafeIn(w, ch)
  BY <1>3, QuietSafe DEF Safe, SafeIn
<1>6. TimelyIn(ch, due')
  BY <1>2, <1>3, QuietTimely DEF RInv, Timely
<1>7. PICK w \in Nodes : Safe(w)
  BY DEF RInv, SomeSafe
<1>8. CASE \E v \in vote[n] :
             OnVote(n, CountAnswer(v.q, a, 0, FALSE), v.wait \ {m}, ch)
  <2>1. PICK v \in vote[n] :
          OnVote(n, CountAnswer(v.q, a, 0, FALSE), v.wait \ {m}, ch)
    BY <1>8
  <2> DEFINE q == CountAnswer(v.q, a, 0, FALSE)
  <2>2. Counter(v.q) /\ v.q.quorum >= 1 /\ away[n] = "REQ_AWAY" /\ due'[n] > 0
    BY <1>2 DEF RInv, TInv, Counters, Open, Timely
  <2> HIDE DEF a
  <2>3. /\ Counter(q) /\ q.quorum = v.q.quorum
        /\ a # "accept" => q.accepted = v.q.accepted
    BY <1>4, <2>2, CountedAnswer
  <2>4. CASE w = n
    <3>1. v.q.accepted = 0 /\ Unaccepted(n, chan)
      BY <1>7, <2>2, <2>4 DEF Safe, SafeIn
    <3>2. a # "accept"
      <4>1. <<m, n>>[2] = n
        OBVIOUS
      <4>. QED BY <1>1, <3>1, <4>1 DEF Unaccepted, a
    <3>3. q.accepted = 0 /\ Unaccepted(n, ch)
      BY <1>3, <2>3, <3>1, <3>2, QuietSafe
    <3> HIDE DEF q, ch
    <3>. QED BY <1>1, <1>2, <1>6, <2>1, <2>2, <2>3, <3>3, VoteStep DEF q
  <2>5. CASE w # n
    <3>1. w \in Nodes \ {n} /\ SafeIn(w, ch)
      BY <1>5, <1>7, <2>5
    <3> HIDE DEF q, ch
    <3>. QED BY <1>1, <1>2, <1>6, <2>1, <2>2, <2>3, <3>1, VoteStep DEF q
  <2>. QED BY <2>4, <2>5
<1>9. CASE /\ chan' = ch
           /\ UNCHANGED <<away, away_node_id, status, vote, sleep, waiter>>
  <2>1. Told' /\ Open' /\ Connected'
    BY <1>2, <1>9 DEF RInv, Told, Open, Connected
  <2>2. Timely'
    BY <1>2, <1>6, <1>9 DEF RInv, Timely
  <2>3. SomeSafe'
    BY <1>5, <1>7, <1>9 DEF SomeSafe, Safe, SafeIn
  <2>. QED BY <2>1, <2>2, <2>3 DEF RInv
<1>. QED BY <1>8, <1>9 DEF OnResAway

LEMMA FailStays ==
  ASSUME RInv, TInv', NEW m \in Nodes, NEW n \in Nodes, RequestFails(m, n)
  PROVE  RInv'
<1>1. PICK v \in vote[n] :
        OnVote(n, CountAnswer(v.q, "error", 0, FALSE), v.wait \ {m}, chan)
  BY DEF RequestFails
<1> DEFINE q == CountAnswer(v.q, "error", 0, FALSE)
<1>2. UNCHANGED <<known, due>>
  BY DEF RequestFails
<1>3. Counter(v.q) /\ v.q.quorum >= 1 /\ away[n] = "REQ_AWAY" /\ due'[n] > 0
  BY <1>2 DEF RInv, TInv, Counters, Open, Timely
<1>4. Counter(q) /\ q.quorum = v.q.quorum /\ q.accepted = v.q.accepted
  BY <1>3, CountedAnswer
<1>5. PICK w \in Nodes : Safe(w)
  BY DEF RInv, SomeSafe
<1>6. w = n => q.accepted = 0 /\ Unaccepted(n, chan)
  BY <1>3, <1>4, <1>5 DEF Safe, SafeIn
<1>7. w # n => w \in Nodes \ {n} /\ SafeIn(w, chan)
  BY <1>5 DEF Safe
<1>8. TimelyIn(chan, due') /\ chan \in [Pairs -> Seq(Packages)]
  BY <1>2 DEF RInv, Timely, TInv, Types
<1>9. OnVote(n, q, v.wait \ {m}, chan)
  BY <1>1
<1> HIDE DEF q
<1>. QED BY <1>2, <1>3, <1>4, <1>6, <1>7, <1>8, <1>9, VoteStep

LEMMA StatusStays ==
  ASSUME RInv, TInv', NEW m \in Nodes, NEW n \in Nodes, m # n, OnStatus(m, n)
  PROVE  RInv'
<1>0. Types /\ chan[<<m, n>>] # <<>>
  BY DEF RInv, TInv, OnStatus, HeadIs
<1>1. /\ Head(chan[<<m, n>>]) \in Packages /\ Head(chan[<<m, n>>]).tp = "status"
      /\ <<n, m>> \in Pairs
  BY <1>0, ReadTypes DEF OnStatus, HeadIs, Pairs
<1>2. Head(chan[<<m, n>>]).status # "OFFLINE"
  BY <1>1, AboutPackages DEF Up
<1>3. Quiet(chan, chan')
  BY <1>0, ReadQuiet DEF OnStatus
<1>4. UNCHANGED <<away, status, vote, due>>
  BY DEF OnStatus
<1>5. Connected'
  BY <1>0, <1>2 DEF RInv, Connected, OnStatus, Types
<1>6. Told' /\ Open'
  BY <1>4 DEF RInv, Told, Open
<1>7. Timely'
  BY <1>3, <1>4, QuietTimely DEF RInv, Timely
<1>8. SomeSafe'
  BY <1>3, <1>4, QuietSafe DEF RInv, SomeSafe, Safe, SafeIn
<1>. QED BY <1>5, <1>6, <1>7, <1>8 DEF RInv

LEMMA TickStays == ASSUME RInv, TInv', Tick PROVE RInv'
<1>1. UNCHANGED <<away, status, known, vote, chan>>
  BY DEF Tick
<1>2. Told' /\ Open' /\ Connected' /\ SomeSafe'
  BY <1>1 DEF RInv, Told, Open, Connected, SomeSafe, Safe, SafeIn
<1>3. \A n \in Nodes : vote'[n] = {}
  BY <1>1 DEF Tick
<1>4. TimelyIn(chan', due')
  <2>1. \A p \in Pairs : Held(chan'[p]) = {}
    BY <1>1 DEF Tick, Held
  <2>. QED BY <2>1 DEF TimelyIn
<1>. QED BY <1>2, <1>3, <1>4 DEF RInv, Timely

(* A step that only touches the changes and the lists.                     *)
LEMMA SessionStays ==
  ASSUME RInv, TInv',
         UNCHANGED <<away, away_node_id, status, known, vote, sleep, due, waiter, chan>>
  PROVE  RInv'
BY DEF RInv, Told, Open, Connected, Timely, TimelyIn, SomeSafe, Safe, SafeIn, Unaccepted

LEMMA NodeStays ==
  ASSUME RInv, TInv', NEW n \in Nodes, NodeStep(n), ~Serve(n)
  PROVE  RInv'
<1>0. /\ chan \in [Pairs -> Seq(Packages)] /\ {"READY", "AWAY"} \subseteq Up
      /\ DOMAIN away = Nodes /\ DOMAIN status = Nodes
  BY DEF RInv, TInv, Types, Up, Statuses
<1>9. BlockEnds(n) \/ GoAway(n) \/ WorkFinish(n) \/ ComeBack(n)
  BY DEF NodeStep
<1>1. /\ UNCHANGED <<known, vote, due>>
      /\ \A m \in Nodes \ {n} : away'[m] = away[m] /\ status'[m] = status[m]
      /\ away[n] # "REQ_AWAY" /\ away'[n] # "REQ_AWAY"
  BY <1>0, <1>9 DEF BlockEnds, GoAway, WorkFinish, ComeBack, Broadcast
<1>2. Quiet(chan, chan')
  <2>1. chan' = chan => Quiet(chan, chan')
    BY DEF Quiet
  <2>2. \A s \in Up : Broadcast(n, s, chan) => Quiet(chan, chan')
    BY <1>0, BroadcastQuiet
  <2>. QED BY <1>0, <1>9, <2>1, <2>2 DEF BlockEnds, GoAway, WorkFinish, ComeBack
<1>3. /\ status'[n] = "READY" <=> away'[n] \in {"IDLE", "ACCEPTED", "REQ_AWAY"}
      /\ status'[n] # "SYNCHRONIZING"
  BY <1>0, <1>9
     DEF BlockEnds, GoAway, WorkFinish, ComeBack, Broadcast, RInv, Told
<1>4. Safe(n) => away'[n] \in {"IDLE", "ACCEPTED"}
  BY <1>0, <1>9 DEF BlockEnds, GoAway, WorkFinish, ComeBack, Safe, SafeIn
<1>5. Connected'
  BY <1>1 DEF RInv, Connected
<1>. QED BY <1>1, <1>2, <1>3, <1>4, <1>5, QuietStep

LEMMA LinkStays ==
  ASSUME RInv, TInv', NEW p \in Pairs, LinkDown(p) \/ LinkUp(p)
  PROVE  RInv'
<1>1. UNCHANGED <<away, status, vote, due>>
  BY DEF LinkDown, LinkUp
<1>2. Quiet(chan, chan')
  <2>1. \A d \in Pairs : chan'[d] = chan[d] \/ chan'[d] = <<>>
    BY DEF LinkDown, LinkUp
  <2>2. Held(<<>>) = {}
    BY DEF Held
  <2>. QED BY <2>1, <2>2 DEF Quiet
<1>3. Connected'
  <2>1. CASE LinkDown(p)
    BY <2>1 DEF LinkDown, Connected
  <2>2. CASE LinkUp(p)
    <3>1. \A d \in Pairs : status[d[2]] # "OFFLINE"
      BY DEF RInv, TInv, Types, Pairs, Up
    <3>. QED BY <2>2, <3>1 DEF LinkUp, RInv, Connected
  <2>. QED BY <2>1, <2>2
<1>6. Told' /\ Open'
  BY <1>1 DEF RInv, Told, Open
<1>7. Timely'
  BY <1>1, <1>2, QuietTimely DEF RInv, Timely
<1>8. SomeSafe'
  BY <1>1, <1>2, QuietSafe DEF RInv, SomeSafe, Safe, SafeIn
<1>. QED BY <1>3, <1>6, <1>7, <1>8 DEF RInv

(* A node that accepts another stays itself.                               *)
LEMMA ReqStays ==
  ASSUME RInv, TInv', NEW m \in Nodes, NEW n \in Nodes, m # n, OnReqAway(m, n)
  PROVE  RInv'
<1>0. Types /\ chan[<<m, n>>] # <<>> /\ DOMAIN away = Nodes /\ DOMAIN status = Nodes
  BY DEF RInv, TInv, Types, OnReqAway, HeadIs
<1>1. PICK a \in {"accept", "reject"} :
        /\ chan' = Answered(m, n, a)
        /\ a = "accept" => away'[n] = "ACCEPTED"
  <2>1. CASE away[n] = "IDLE"
    BY <1>0, <2>1, AskedSteps
  <2>2. CASE away[n] # "IDLE"
    <3>1. chan' = Answered(m, n, Accept(n, m, Pending(n))) /\ away' = away
      BY <2>2, AskedSteps
    <3>2. Accept(n, m, Pending(n)) \in {"accept", "reject"}
      BY DEF Accept
    <3>3. away[n] # "ACCEPTED" => Pending(n) = n
      BY DEF Pending, Said, First
    <3>4. Accept(n, m, Pending(n)) = "accept" => away[n] = "ACCEPTED"
      BY <3>3 DEF Accept
    <3>. QED BY <3>1, <3>2, <3>4
  <2>. QED BY <2>1, <2>2
<1>2. /\ UNCHANGED <<status, known, vote, due>>
      /\ \A k \in Nodes : away'[k] = away[k] \/ (k = n /\ away[n] = "IDLE" /\ away'[n] = "ACCEPTED")
  BY <1>0, AskedSteps
<1> DEFINE msg == [tp |-> "res", answer |-> a]
<1>3. msg \in Packages
  BY AboutPackages
<1>4. msg.tp = "res" /\ msg.answer = a
  OBVIOUS
<1> HIDE DEF msg
<1>5. \A p \in Pairs : \A x \in Held(chan'[p]) :
        x \in Held(chan[p]) \/ (x = msg /\ p[1] = n /\ p[2] \in {m})
  <2> SUFFICES ASSUME NEW p \in Pairs
               PROVE  \A x \in Held(chan'[p]) :
                        x \in Held(chan[p]) \/ (x = msg /\ p[1] = n /\ p[2] \in {m})
    OBVIOUS
  <2>1. Receive(m, n) \in [Pairs -> Seq(Packages)]
    BY <1>0, ReadTypes
  <2>2. \A x \in Held(Send(Receive(m, n), n, {m}, msg)[p]) :
          x \in Held(Receive(m, n)[p]) \/ (x = msg /\ p[1] = n /\ p[2] \in {m})
    BY <1>3, <2>1, SentHeld, Zenon
  <2>3. \A x \in Held(Receive(m, n)[p]) : x \in Held(chan[p])
    BY <1>0, ReadHeld
  <2>. QED BY <1>1, <2>2, <2>3 DEF Answered, msg
<1>6. Told' /\ Open' /\ Connected'
  BY <1>2 DEF RInv, Told, Open, Connected
<1>7. Timely'
  <2>1. due[m] > 0
    <3>1. <<m, n>> \in Pairs /\ <<m, n>>[1] = m
      BY DEF Pairs
    <3>2. /\ Head(chan[<<m, n>>]) \in Held(chan[<<m, n>>])
          /\ Head(chan[<<m, n>>]).tp = "req"
      BY <1>0, HeadHeld DEF OnReqAway, HeadIs
    <3>. QED BY <3>1, <3>2 DEF RInv, Timely, TimelyIn
  <2>2. TimelyIn(chan', due')
    BY <1>2, <1>4, <1>5, <2>1 DEF RInv, Timely, TimelyIn
  <2>. QED BY <1>2, <2>2 DEF RInv, Timely
<1>8. SomeSafe'
  <2>1. CASE away'[n] = "ACCEPTED"
    BY <2>1 DEF SomeSafe, Safe, SafeIn
  <2>2. CASE away'[n] # "ACCEPTED"
    <3>1. a # "accept"
      BY <1>1, <2>2
    <3>2. PICK w \in Nodes : Safe(w)
      BY DEF RInv, SomeSafe
    <3>3. Unaccepted(w, chan) => Unaccepted(w, chan')
      BY <1>4, <1>5, <3>1 DEF Unaccepted
    <3>4. away'[w] = away[w] /\ vote'[w] = vote[w]
      BY <1>2, <2>2
    <3>5. Safe(w)'
      BY <3>2, <3>3, <3>4 DEF Safe, SafeIn
    <3>. QED BY <3>5 DEF SomeSafe
  <2>. QED BY <2>1, <2>2
<1>. QED BY <1>6, <1>7, <1>8 DEF RInv

LEMMA InitStays ==
  ASSUME Starting = {}, Init
  PROVE  RInv
<1>1. TInv
  BY InitTypes
<1>2. Told /\ Open /\ Connected
  BY DEF Init, FirstStatus, Told, Open, Connected
<1>3. Timely
  <2>1. \A p \in Pairs : Held(chan[p]) = {}
    BY DEF Init, Held
  <2>2. \A n \in Nodes : vote[n] = {}
    BY DEF Init
  <2>. QED BY <2>1, <2>2 DEF Timely, TimelyIn
<1>4. SomeSafe
  <2>1. Nodes # {}
    BY Size, FS_EmptySet
  <2>. QED BY <2>1 DEF Init, SomeSafe, Safe, SafeIn
<1>. QED BY <1>1, <1>2, <1>3, <1>4 DEF RInv

LEMMA NextStays ==
  ASSUME RInv, [Next]_vars, Fragile = {} \/ Cardinality(Nodes) >= 3
  PROVE  RInv'
<1>0. TInv'
  BY NextTypes DEF RInv
<1>1. CASE Tick
  BY <1>0, <1>1, TickStays
<1>2. ASSUME NEW n \in Nodes, Trigger(n) \/ NodeStep(n) PROVE RInv'
  <2>1. CASE Serve(n)
    BY <1>0, <2>1, SessionStays DEF Serve
  <2>. QED BY <1>0, <1>2, <2>1, TriggerStays, NodeStays
<1>3. ASSUME NEW p \in Pairs, PackageStep(p[1], p[2]) PROVE RInv'
  <2>1. p[1] \in Nodes /\ p[2] \in Nodes /\ p[1] # p[2]
    BY DEF Pairs
  <2>. QED BY <1>0, <1>3, <2>1, ReqStays, ResStays, StatusStays, FailStays DEF PackageStep
<1>4. ASSUME NEW p \in Pairs, LinkDown(p) \/ LinkUp(p) PROVE RInv'
  BY <1>0, <1>4, LinkStays
<1>5. ASSUME NEW n \in Nodes, ChangesArrive(n) \/ RunChanges(n) \/ FindAwayNode(n)
      PROVE  RInv'
  BY <1>0, <1>5, SessionStays DEF ChangesArrive, RunChanges, FindAwayNode
<1>6. ASSUME NEW p \in Pairs, SyncStep(p[1], p[2]) PROVE RInv'
  <2>1. status[p[1]] # "SYNCHRONIZING"
    BY DEF RInv, Told, Pairs
  <2>. QED BY <1>0, <1>6, <2>1, SessionStays DEF SyncStep, SyncEnds, SyncFails
<1>7. CASE UNCHANGED vars
  BY <1>0, <1>7, SessionStays DEF vars
<1>. QED BY <1>1, <1>2, <1>3, <1>4, <1>5, <1>6, <1>7 DEF Next

(* Whatever turns the votes take, one node stays READY to answer queries:  *)
(* for any number of nodes, with connections that break, except that of    *)
(* two nodes the connection must hold (alone, each of them needs no one's  *)
(* accept: ti_nodes_quorum is zero).  Nodes that still synchronize are not *)
(* READY, so none does at first.                                           *)
THEOREM SomeNodeReadyHolds ==
  ASSUME Fragile = {} \/ Cardinality(Nodes) >= 3, Starting = {}
  PROVE  Spec => []SomeNodeReady
<1>1. Init => RInv
  BY InitStays
<1>2. RInv /\ [Next]_vars => RInv'
  BY NextStays
<1>3. RInv => SomeNodeReady
  BY DEF RInv, Told, SomeSafe, Safe, SafeIn, SomeNodeReady
<1>. QED BY <1>1, <1>2, <1>3, PTL DEF Spec
=============================================================================
