------------------------- MODULE ChangesLogProofs --------------------------
(***************************************************************************)
(* The change protocol implements the replicated log, in a cluster of any  *)
(* size without faults (Changes refines ReplicatedLog by the mapping of    *)
(* ChangesLog).                                                            *)
(*                                                                         *)
(* The heart of it is what a node may pass over.  An id that a node gives  *)
(* up, or rejects because it is past it, must never be won later.  It is   *)
(* "settled": it was won, every node gave it away, or half of the nodes    *)
(* gave it to another node than themselves (LoseSettled: a round is lost   *)
(* only then).  And it is "barred" when, in addition, nobody who could     *)
(* still win it stands for it.  Both only grow with the votes, and a       *)
(* change that won contradicts them (ReadyIsNew), so a master that runs    *)
(* its change finds every other node below its id.  The rest follows the   *)
(* packages: a change package never overtakes the question for its id      *)
(* (AllAhead), and what was run at its home is applied, queued or on its   *)
(* way everywhere (Delivered).                                             *)
(***************************************************************************)
EXTENDS ChangesProofs, ChangesLog

HistIds == {e.id : e \in History}

(* Whether, by the votes V, node k gave id away, and to another node.      *)
Voted(V, k, id) == \E w \in Nodes : Gave(V, k, id, w)
Elsewhere(V, k, id) == \E w \in Others(k) : Gave(V, k, id, w)

(* Node y still has its change for id in its queue.                        *)
Standing(y, id) == \E c \in Entries(queue[y]) : c.tp = "master" /\ c.id = id

Half(K) == NodeCount <= 2 * Cardinality(K)

(* No node that has not asked for id yet can win it: it was won, every     *)
(* node gave it away, or half of the nodes gave it to another node.        *)
AllVoted(V, id) == \A k \in Nodes : Voted(V, k, id)
Blocked(V, id) == \E K \in SUBSET Nodes : Half(K) /\ \A k \in K : Elsewhere(V, k, id)
Settled(V, H, id) == id \in H \/ AllVoted(V, id) \/ Blocked(V, id)

(* Why node k rejects id.                                                  *)
Refused(V, H, k, id) == Elsewhere(V, k, id) \/ Settled(V, H, id)

(* No node ever wins id.                                                   *)
Barred(id) ==
  \/ AllVoted(votes, id) /\ \A y \in Nodes : ~Standing(y, id)
  \/ \E K \in SUBSET Nodes :
       /\ Half(K)
       /\ \A k \in K : /\ Elsewhere(votes, k, id)
                       /\ \A y \in Nodes : Standing(y, id) => ~Gave(votes, k, id, y)

(* An id is given away to a node that asked for it, and every id below the *)
(* next one was asked for; the node gave it away, skipped it or is past it.*)
VoteIds ==
  \A k \in Nodes :
    /\ \A v \in votes[k] : v.id \in 2 .. MaxId /\ Gave(votes, v.for, v.id, v.for)
    /\ \A id \in 2 .. next_change_id[k] - 1 :
         /\ \E x \in Nodes : Gave(votes, x, id, x)
         /\ id <= ccid[k] \/ id \in skipped_ids[k] \/ Voted(votes, k, id)

(* What nodes ask for.                                                     *)
Questions ==
  \A m, n \in Nodes : \A x \in Entries(chan[<<m, n>>]) :
    /\ x.tp = "req" => Gave(votes, m, x.id, m)
    /\ x.tp = "missing" => x.id < next_change_id[m]

(* A change package does not overtake the question for its id: a node that *)
(* gets it has moved its next id past it.                                  *)
Ahead(s, next) ==
  \A j \in 1 .. Len(s) : s[j].tp = "cpkg" =>
    \/ s[j].id < next
    \/ \E i \in 1 .. j - 1 : s[i] = [tp |-> "req", id |-> s[j].id]
AllAhead == \A m, n \in Nodes : Ahead(chan[<<m, n>>], next_change_id[n])

AskAhead ==
  \A n \in Nodes, id \in Nat : Standing(n, id) =>
    \A m \in Others(n) :
      id < next_change_id[m] \/ [tp |-> "req", id |-> id] \in Entries(chan[<<n, m>>])

Refusals ==
  \A m, n \in Nodes : \A x \in Entries(chan[<<m, n>>]) :
    x.tp = "res" /\ x.answer = "reject" => Refused(votes, HistIds, m, x.id)

(* The rejections a round has counted, and what the nodes it has heard of  *)
(* did.                                                                    *)
Tallied(V, H, n, id, q, wait) ==
  /\ q.quorum <= q.requests
  /\ \E R \in SUBSET (Others(n) \ wait) :
       Cardinality(R) = q.rejected /\ \A k \in R : Refused(V, H, k, id)
  /\ \A k \in Others(n) \ wait : Voted(V, k, id) \/ Settled(V, H, id)
Tally ==
  \A n \in Nodes : \A r \in rounds[n] : Tallied(votes, HistIds, n, r.id, r.q, r.wait)

(* A node that asked for an id and does not stand for it any more: the id  *)
(* is settled.                                                             *)
Lost ==
  \A x \in Nodes, id \in Nat :
    Gave(votes, x, id, x) => Standing(x, id) \/ Settled(votes, HistIds, id)

(* What a node has passed over is never won, and it has the rest.          *)
Passed ==
  \A m \in Nodes : /\ ccid[m] >= 1
                   /\ \A id \in 2 .. ccid[m] : id \in HistIds \/ Barred(id)
Complete == \A n \in Nodes : \A e \in History : e.id <= ccid[n] => e \in log[n]

(* What was run at its home is applied at n, queued there or on its way.   *)
Reaching(h, n, id) ==
  \/ \E c \in Entries(queue[n]) : c.tp = "cpkg" /\ c.id = id
  \/ \E x \in Entries(chan[<<h, n>>]) : x.tp = "cpkg" /\ x.id = id
Delivered ==
  \A n, h \in Nodes : \A e \in log[h] :
    Home[e.op] = h => e.id <= ccid[n] \/ Reaching(h, n, e.id)

LogInv ==
  /\ VoteIds /\ Questions /\ AllAhead /\ AskAhead /\ Refusals
  /\ Tally /\ Lost /\ Passed /\ Complete /\ Delivered

LInv == VInv /\ LogInv
-----------------------------------------------------------------------------
(* What only becomes true: votes are not taken back and the history grows. *)
More == Grows(votes, votes') /\ HistIds \subseteq HistIds'

LEMMA Stays ==
  ASSUME NEW V, NEW W, Grows(V, W), NEW H, NEW I, H \subseteq I, NEW k \in Nodes, NEW id
  PROVE  /\ Voted(V, k, id) => Voted(W, k, id)
         /\ Elsewhere(V, k, id) => Elsewhere(W, k, id)
         /\ AllVoted(V, id) => AllVoted(W, id)
         /\ Blocked(V, id) => Blocked(W, id)
         /\ Settled(V, H, id) => Settled(W, I, id)
         /\ Refused(V, H, k, id) => Refused(W, I, k, id)
<1>1. \A j \in Nodes : Voted(V, j, id) => Voted(W, j, id)
  BY DEF Voted, Grows, Gave
<1>2. \A j \in Nodes : Elsewhere(V, j, id) => Elsewhere(W, j, id)
  BY DEF Elsewhere, Grows, Gave, Others
<1>3. AllVoted(V, id) => AllVoted(W, id)
  BY <1>1 DEF AllVoted
<1>4. Blocked(V, id) => Blocked(W, id)
  BY <1>2 DEF Blocked
<1>5. Settled(V, H, id) => Settled(W, I, id)
  BY <1>3, <1>4 DEF Settled
<1>. QED BY <1>1, <1>2, <1>3, <1>4, <1>5 DEF Refused

LEMMA SettledStays ==
  ASSUME More, NEW id, Settled(votes, HistIds, id)
  PROVE  Settled(votes', HistIds', id)
<1>1. PICK k \in Nodes : TRUE
  BY NodesAssumption
<1>. QED BY <1>1, Stays DEF More

LEMMA RefusedStays ==
  ASSUME More, NEW k \in Nodes, NEW id, Refused(votes, HistIds, k, id)
  PROVE  Refused(votes', HistIds', k, id)
BY Stays DEF More

LEMMA VotedStays ==
  ASSUME More, NEW k \in Nodes, NEW id, Voted(votes, k, id)
  PROVE  Voted(votes', k, id)
BY Stays DEF More

LEMMA TalliedStays ==
  ASSUME More, NEW n \in Nodes, NEW id, NEW q, NEW wait, Tallied(votes, HistIds, n, id, q, wait)
  PROVE  Tallied(votes', HistIds', n, id, q, wait)
<1>1. PICK R \in SUBSET (Others(n) \ wait) :
        Cardinality(R) = q.rejected /\ \A k \in R : Refused(votes, HistIds, k, id)
  BY DEF Tallied
<1>2. \A k \in R : Refused(votes', HistIds', k, id)
  BY <1>1, RefusedStays DEF Others
<1>3. \A k \in Others(n) \ wait : Voted(votes', k, id) \/ Settled(votes', HistIds', id)
  BY VotedStays, SettledStays DEF Tallied, Others
<1>. QED BY <1>1, <1>2, <1>3 DEF Tallied

LEMMA GaveOnce ==
  ASSUME IInv, NEW k \in Nodes, NEW id, NEW a, NEW b, Gave(votes, k, id, a), Gave(votes, k, id, b)
  PROVE  a = b
<1>1. [id |-> id, for |-> a] \in votes[k] /\ [id |-> id, for |-> b] \in votes[k]
  BY DEF Gave
<1>. QED BY <1>1 DEF IInv, NoDoubleVote

LEMMA GaveBelow ==
  ASSUME IInv, NEW k \in Nodes, NEW id, NEW a, Gave(votes, k, id, a)
  PROVE  id \in Nat /\ a \in Nodes /\ id < next_change_id[k] /\ id \notin skipped_ids[k]
<1> DEFINE v == [id |-> id, for |-> a]
<1>1. v \in votes[k] /\ v.id = id /\ v.for = a
  BY DEF Gave
<1> HIDE DEF v
<1>2. v \in [id: Nat, for: Nodes]
  BY <1>1 DEF IInv, TypeOK
<1>3. v.id \in Nat /\ v.for \in Nodes
  BY <1>2
<1>. QED BY <1>1, <1>3 DEF IInv, VotesBelowNext

LEMMA GaveAsked ==
  ASSUME VoteIds, NEW k \in Nodes, NEW id, NEW a, Gave(votes, k, id, a)
  PROVE  id \in 2 .. MaxId /\ Gave(votes, a, id, a)
<1> DEFINE v == [id |-> id, for |-> a]
<1>1. v \in votes[k] /\ v.id = id /\ v.for = a
  BY DEF Gave
<1> HIDE DEF v
<1>2. v.id \in 2 .. MaxId /\ Gave(votes, v.for, v.id, v.for)
  BY <1>1 DEF VoteIds
<1>. QED BY <1>1, <1>2
-----------------------------------------------------------------------------
(* What a step has to show, part by part.                                  *)

LEMMA VoteIdsKept ==
  ASSUME HInv, VoteIds, UNCHANGED <<votes, next_change_id, skipped_ids>>,
         \A k \in Nodes : ccid'[k] \in Nat /\ ccid[k] <= ccid'[k]
  PROVE  VoteIds'
<1>1. \A k \in Nodes : ccid[k] \in Nat
  BY NodeFacts
<1>. QED BY <1>1 DEF VoteIds

LEMMA QuestionsKept ==
  ASSUME VInv, Questions, More,
         \A k \in Nodes : next_change_id'[k] \in Nat /\ next_change_id[k] <= next_change_id'[k],
         \A a, b \in Nodes : \A x \in Entries(chan'[<<a, b>>]) :
           \/ x \in Entries(chan[<<a, b>>])
           \/ /\ x.tp = "req" => Gave(votes', a, x.id, a)
              /\ x.tp = "missing" => x.id < next_change_id'[a]
  PROVE  Questions'
<1> SUFFICES ASSUME NEW a \in Nodes, NEW b \in Nodes, NEW x \in Entries(chan'[<<a, b>>])
             PROVE  /\ x.tp = "req" => Gave(votes', a, x.id, a)
                    /\ x.tp = "missing" => x.id < next_change_id'[a]
  BY DEF Questions
<1>1. CASE x \in Entries(chan[<<a, b>>])
  <2>1. x.id \in Nat
    <3>1. chan[<<a, b>>] \in Seq(Message)
      BY DEF VInv, HInv, OInv, IInv, TypeOK
    <3>2. x \in Message
      BY <1>1, <3>1, ElementOfSeq DEF Entries
    <3>. QED BY <3>2, MessageRead
  <2>2. next_change_id[a] \in Nat
    BY DEF VInv, HInv, OInv, IInv, TypeOK
  <2>3. x.tp = "req" => Gave(votes', a, x.id, a)
    BY <1>1 DEF Questions, More, Grows, Gave
  <2>4. x.tp = "missing" => x.id < next_change_id[a]
    BY <1>1 DEF Questions
  <2>. QED BY <2>1, <2>2, <2>3, <2>4
<1>. QED BY <1>1

LEMMA AskAheadKept ==
  ASSUME VInv, AskAhead,
         \A k \in Nodes : next_change_id'[k] \in Nat /\ next_change_id[k] <= next_change_id'[k],
         \A y \in Nodes, id \in Nat : Standing(y, id)' => Standing(y, id),
         \A a, b \in Nodes, id \in Nat :
           [tp |-> "req", id |-> id] \in Entries(chan[<<a, b>>]) =>
             [tp |-> "req", id |-> id] \in Entries(chan'[<<a, b>>]) \/ id < next_change_id'[b]
  PROVE  AskAhead'
<1> SUFFICES ASSUME NEW n \in Nodes, NEW id \in Nat, Standing(n, id)', NEW m \in Others(n)
             PROVE  id < next_change_id'[m] \/ [tp |-> "req", id |-> id] \in Entries(chan'[<<n, m>>])
  BY DEF AskAhead
<1>1. Standing(n, id) /\ m \in Nodes
  BY DEF Others
<1>2. next_change_id[m] \in Nat
  BY <1>1 DEF VInv, HInv, OInv, IInv, TypeOK
<1>. QED BY <1>1, <1>2 DEF AskAhead

LEMMA RefusalsKept ==
  ASSUME Refusals, More,
         \A a, b \in Nodes : \A x \in Entries(chan'[<<a, b>>]) :
           \/ x \in Entries(chan[<<a, b>>])
           \/ x.tp = "res" /\ x.answer = "reject" => Refused(votes', HistIds', a, x.id)
  PROVE  Refusals'
<1> SUFFICES ASSUME NEW a \in Nodes, NEW b \in Nodes, NEW x \in Entries(chan'[<<a, b>>]),
                    x.tp = "res", x.answer = "reject"
             PROVE  Refused(votes', HistIds', a, x.id)
  BY DEF Refusals
<1>1. CASE x \in Entries(chan[<<a, b>>])
  <2>1. Refused(votes, HistIds, a, x.id)
    BY <1>1 DEF Refusals
  <2>. QED BY <2>1, RefusedStays
<1>. QED BY <1>1

LEMMA TallyKept ==
  ASSUME Tally, More,
         \A k \in Nodes : \A r \in rounds'[k] :
           r \in rounds[k] \/ Tallied(votes', HistIds', k, r.id, r.q, r.wait)
  PROVE  Tally'
<1> SUFFICES ASSUME NEW k \in Nodes, NEW r \in rounds'[k]
             PROVE  Tallied(votes', HistIds', k, r.id, r.q, r.wait)
  BY DEF Tally
<1>1. CASE r \in rounds[k]
  <2>1. Tallied(votes, HistIds, k, r.id, r.q, r.wait)
    BY <1>1 DEF Tally
  <2>. QED BY <2>1, TalliedStays
<1>. QED BY <1>1

LEMMA LostKept ==
  ASSUME Lost, More,
         \A x \in Nodes, id \in Nat :
           Gave(votes', x, id, x) => Gave(votes, x, id, x) \/ Standing(x, id)',
         \A x \in Nodes, id \in Nat :
           Standing(x, id) => Standing(x, id)' \/ Settled(votes', HistIds', id)
  PROVE  Lost'
<1> SUFFICES ASSUME NEW x \in Nodes, NEW id \in Nat, Gave(votes', x, id, x)
             PROVE  Standing(x, id)' \/ Settled(votes', HistIds', id)
  BY DEF Lost
<1>1. Settled(votes, HistIds, id) => Settled(votes', HistIds', id)
  BY SettledStays
<1>. QED BY <1>1 DEF Lost

(* Who is barred stays barred: a node that gave the id to another node     *)
(* gives it to no third, and nobody new stands for it.                     *)
LEMMA BarredStays ==
  ASSUME IInv', More, NEW id, Barred(id),
         \A y \in Nodes : Standing(y, id)' =>
            \/ Standing(y, id)
            \/ /\ ~AllVoted(votes, id)
               /\ \A k \in Nodes : ~Gave(votes, k, id, y)
  PROVE  Barred(id)'
<1>1. CASE AllVoted(votes, id) /\ \A y \in Nodes : ~Standing(y, id)
  <2>1. AllVoted(votes', id)
    <3>1. PICK k \in Nodes : TRUE
      BY NodesAssumption
    <3>. QED BY <1>1, <3>1, Stays DEF More
  <2>2. \A y \in Nodes : ~Standing(y, id)'
    BY <1>1
  <2>. QED BY <2>1, <2>2 DEF Barred
<1>2. ASSUME NEW K \in SUBSET Nodes, Half(K),
             \A k \in K : /\ Elsewhere(votes, k, id)
                          /\ \A y \in Nodes : Standing(y, id) => ~Gave(votes, k, id, y)
      PROVE  Barred(id)'
  <2>1. ASSUME NEW k \in K
        PROVE  /\ Elsewhere(votes', k, id)
               /\ \A y \in Nodes : Standing(y, id)' => ~Gave(votes', k, id, y)
    <3>1. PICK w \in Others(k) : Gave(votes, k, id, w)
      BY <1>2 DEF Elsewhere
    <3>2. Gave(votes', k, id, w)
      BY <3>1 DEF More, Grows, Gave
    <3>3. ASSUME NEW y \in Nodes, Standing(y, id)', Gave(votes', k, id, y) PROVE FALSE
      <4>1. y = w
        <5>1. [id |-> id, for |-> w] \in votes'[k] /\ [id |-> id, for |-> y] \in votes'[k]
          BY <3>2, <3>3 DEF Gave
        <5>. QED BY <5>1 DEF IInv, NoDoubleVote
      <4>2. Gave(votes, k, id, y)
        BY <3>1, <4>1
      <4>. QED BY <1>2, <3>3, <4>2
    <3>. QED BY <3>2, <3>3 DEF Elsewhere
  <2>2. /\ Half(K)
        /\ \A k \in K : /\ Elsewhere(votes', k, id)
                        /\ \A y \in Nodes : Standing(y, id)' => ~Gave(votes', k, id, y)
    BY <1>2, <2>1
  <2>. QED BY <2>2 DEF Barred
<1>. QED BY <1>1, <1>2 DEF Barred

LEMMA PassedKept ==
  ASSUME Passed, IInv', More,
         \A m \in Nodes : ccid[m] \in Nat /\ ccid'[m] \in Nat /\ ccid[m] <= ccid'[m],
         \A m \in Nodes : \A id \in ccid[m] + 1 .. ccid'[m] : id \in HistIds' \/ Barred(id),
         \A y \in Nodes, id \in Nat : Standing(y, id)' =>
            \/ Standing(y, id)
            \/ /\ ~AllVoted(votes, id)
               /\ \A k \in Nodes : ~Gave(votes, k, id, y)
  PROVE  Passed'
<1> SUFFICES ASSUME NEW m \in Nodes
             PROVE  /\ ccid'[m] >= 1
                    /\ \A id \in 2 .. ccid'[m] : id \in HistIds' \/ Barred(id)'
  BY DEF Passed
<1>1. ccid[m] >= 1 /\ \A id \in 2 .. ccid[m] : id \in HistIds \/ Barred(id)
  BY DEF Passed
<1>2. ccid'[m] >= 1
  BY <1>1
<1>3. ASSUME NEW id \in 2 .. ccid'[m] PROVE id \in HistIds' \/ Barred(id)'
  <2>1. id \in Nat /\ (id \in 2 .. ccid[m] \/ id \in ccid[m] + 1 .. ccid'[m])
    OBVIOUS
  <2>2. id \in HistIds \/ id \in HistIds' \/ Barred(id)
    BY <1>1, <2>1
  <2>3. Barred(id) => Barred(id)'
    BY <2>1, BarredStays
  <2>. QED BY <2>2, <2>3 DEF More
<1>. QED BY <1>2, <1>3

(* The same while no node commits.                                         *)
LEMMA PassedStays ==
  ASSUME HInv, Passed, IInv', More, ccid' = ccid,
         \A y \in Nodes, id \in Nat : Standing(y, id)' =>
            \/ Standing(y, id)
            \/ /\ ~AllVoted(votes, id)
               /\ \A k \in Nodes : ~Gave(votes, k, id, y)
  PROVE  Passed'
<1>1. \A m \in Nodes : ccid[m] \in Nat /\ ccid'[m] \in Nat /\ ccid[m] <= ccid'[m]
  BY NodeFacts
<1>2. \A m \in Nodes : \A id \in ccid[m] + 1 .. ccid'[m] : id \in HistIds' \/ Barred(id)
  BY <1>1
<1>. QED BY <1>1, <1>2, PassedKept

LEMMA CompleteKept ==
  ASSUME Complete, UNCHANGED <<log, ccid>>
  PROVE  Complete'
BY DEF Complete, History

LEMMA DeliveredKept ==
  ASSUME Delivered, UNCHANGED <<log, ccid>>,
         \A h, n \in Nodes : \A e \in log[h] :
           Home[e.op] = h /\ Reaching(h, n, e.id) => Reaching(h, n, e.id)' \/ e.id <= ccid[n]
  PROVE  Delivered'
BY DEF Delivered
-----------------------------------------------------------------------------
(* Change packages and questions on their way.                             *)

LEMMA AheadMore ==
  ASSUME NEW s \in Seq(Message), NEW next \in Nat, NEW more \in Nat, next <= more, Ahead(s, next)
  PROVE  Ahead(s, more)
<1>1. \A j \in 1 .. Len(s) : s[j].id \in Nat
  BY ElementOfSeq, MessageRead
<1>. QED BY <1>1 DEF Ahead

LEMMA AheadAppend ==
  ASSUME NEW s \in Seq(Message), NEW next, Ahead(s, next), NEW msg \in Message,
         msg.tp = "cpkg" => msg.id < next \/ [tp |-> "req", id |-> msg.id] \in Entries(s)
  PROVE  Ahead(Append(s, msg), next)
<1> DEFINE t == Append(s, msg)
<1>1. /\ Len(s) \in Nat /\ Len(t) = Len(s) + 1 /\ t[Len(s) + 1] = msg
      /\ \A i \in 1 .. Len(s) : t[i] = s[i]
  BY LenProperties, AppendProperties
<1> HIDE DEF t
<1> SUFFICES ASSUME NEW j \in 1 .. Len(t), t[j].tp = "cpkg"
             PROVE  \/ t[j].id < next
                    \/ \E i \in 1 .. j - 1 : t[i] = [tp |-> "req", id |-> t[j].id]
  BY DEF Ahead, t
<1>2. CASE j = Len(s) + 1
  <2>1. t[j] = msg
    BY <1>1, <1>2
  <2>2. CASE [tp |-> "req", id |-> msg.id] \in Entries(s)
    <3>1. PICK i \in 1 .. Len(s) : s[i] = [tp |-> "req", id |-> msg.id]
      BY <2>2 DEF Entries
    <3>2. i \in 1 .. j - 1 /\ t[i] = [tp |-> "req", id |-> t[j].id]
      BY <1>1, <1>2, <2>1, <3>1
    <3>. QED BY <3>2
  <2>. QED BY <2>1, <2>2
<1>3. CASE j # Len(s) + 1
  <2>1. j \in 1 .. Len(s) /\ t[j] = s[j]
    BY <1>1, <1>3
  <2>2. CASE \E i \in 1 .. j - 1 : s[i] = [tp |-> "req", id |-> s[j].id]
    <3>1. PICK i \in 1 .. j - 1 : s[i] = [tp |-> "req", id |-> s[j].id]
      BY <2>2
    <3>2. i \in 1 .. Len(s)
      BY <1>1, <2>1
    <3>. QED BY <1>1, <2>1, <3>1, <3>2
  <2>. QED BY <2>1, <2>2 DEF Ahead
<1>. QED BY <1>2, <1>3

LEMMA AheadTail ==
  ASSUME NEW s \in Seq(Message), s # <<>>, NEW next \in Nat, NEW more \in Nat, next <= more,
         Ahead(s, next),
         Head(s).tp = "req" => Head(s).id < more
  PROVE  Ahead(Tail(s), more)
<1> DEFINE t == Tail(s)
<1>1. /\ Len(s) \in Nat /\ Len(s) >= 1 /\ Head(s) = s[1] /\ Len(t) = Len(s) - 1
      /\ \A i \in 1 .. Len(s) - 1 : t[i] = s[i + 1]
  BY LenProperties, EmptySeq, HeadTailProperties
<1>2. \A j \in 1 .. Len(s) : s[j].id \in Nat
  BY ElementOfSeq, MessageRead
<1> HIDE DEF t
<1> SUFFICES ASSUME NEW j \in 1 .. Len(t), t[j].tp = "cpkg"
             PROVE  \/ t[j].id < more
                    \/ \E i \in 1 .. j - 1 : t[i] = [tp |-> "req", id |-> t[j].id]
  BY DEF Ahead, t
<1>3. j + 1 \in 1 .. Len(s) /\ t[j] = s[j + 1]
  BY <1>1
<1>4. CASE s[j + 1].id < next
  <2>1. s[j + 1].id \in Nat
    BY <1>2, <1>3
  <2>. QED BY <1>3, <1>4, <2>1
<1>5. CASE \E i \in 1 .. (j + 1) - 1 : s[i] = [tp |-> "req", id |-> s[j + 1].id]
  <2>1. PICK i \in 1 .. (j + 1) - 1 : s[i] = [tp |-> "req", id |-> s[j + 1].id]
    BY <1>5
  <2>2. s[i].tp = "req" /\ s[i].id = s[j + 1].id
    BY <2>1
  <2>3. CASE i = 1
    BY <1>1, <1>3, <2>2, <2>3
  <2>4. CASE i # 1
    <3>1. i - 1 \in 1 .. j - 1 /\ i - 1 \in 1 .. Len(s) - 1 /\ (i - 1) + 1 = i
      BY <1>1, <1>3, <2>4
    <3>2. t[i - 1] = s[i]
      BY <1>1, <3>1
    <3>. QED BY <1>3, <2>1, <3>1, <3>2
  <2>. QED BY <2>3, <2>4
<1>. QED BY <1>3, <1>4, <1>5 DEF Ahead
-----------------------------------------------------------------------------
(* What the invariant says of an id, a round or a change.                  *)

LEMMA QuorumAlways ==
  ASSUME LinksAll, NEW n \in Nodes
  PROVE  Peers(n) = Others(n) /\ HasQuorum(n) /\ NodesQuorum(n) <= NodeCount - 1
<1>1. ASSUME NEW m \in Nodes \ {n} PROVE {n, m} \in links
  BY Linked
<1>2. Peers(n) = Others(n)
  BY <1>1 DEF Peers, Others
<1>3. NodeCount \in Nat /\ NodeCount >= 1 /\ Cardinality(Peers(n)) = NodeCount - 1
  BY <1>2, OthersFinite
<1>4. NodeCount = 2 => Peers(n) # {}
  <2>1. Cardinality({}) = 0
    BY FS_EmptySet
  <2>. QED BY <1>3, <2>1
<1>5. NodesQuorum(n) = NodeCount \div 2
  BY <1>4 DEF NodesQuorum, NodeCount
<1>6. NodeCount \div 2 <= NodeCount - 1
  BY <1>3
<1>. QED BY <1>2, <1>3, <1>5, <1>6 DEF HasQuorum

(* Everybody is heard of when all answers are in.                          *)
LEMMA AllHeard ==
  ASSUME NEW V, NEW n \in Nodes, NEW id, NEW q \in QuorumRecords, NEW wait \in SUBSET Others(n),
         Counted(V, n, id, q, wait), AllAnswered(q)
  PROVE  wait = {}
<1>1. PICK A \in SUBSET Others(n), R \in SUBSET Others(n), C \in SUBSET Others(n) :
        /\ A \cap R = {} /\ A \cap C = {} /\ R \cap C = {}
        /\ A \cup R \cup C = Others(n) \ wait
        /\ q.accepted = Cardinality(A)
        /\ q.rejected = Cardinality(R)
        /\ q.collisions = Cardinality(C)
  BY DEF Counted
<1>2. q.requests = NodeCount - 1
  BY DEF Counted
<1>3. /\ NodeCount \in Nat /\ NodeCount >= 1
      /\ IsFiniteSet(Others(n)) /\ Cardinality(Others(n)) = NodeCount - 1
  BY OthersFinite
<1>4. /\ IsFiniteSet(A) /\ Cardinality(A) \in Nat /\ IsFiniteSet(R) /\ Cardinality(R) \in Nat
      /\ IsFiniteSet(C) /\ Cardinality(C) \in Nat /\ IsFiniteSet(wait) /\ Cardinality(wait) \in Nat
  BY OthersFinite
<1>5. q.accepted + q.rejected + q.collisions >= q.requests
  BY DEF AllAnswered
<1>6. IsFiniteSet(A \cup R) /\ Cardinality(A \cup R) = Cardinality(A) + Cardinality(R)
  <2>1. /\ IsFiniteSet(A \cup R)
        /\ Cardinality(A \cup R) = Cardinality(A) + Cardinality(R) - Cardinality(A \cap R)
    BY <1>4, FS_Union
  <2>2. Cardinality(A \cap R) = 0
    BY <1>1, FS_EmptySet
  <2>. QED BY <1>4, <2>1, <2>2
<1>7. Cardinality((A \cup R) \cup C) = Cardinality(A) + Cardinality(R) + Cardinality(C)
  <2>1. (A \cup R) \cap C = {}
    BY <1>1
  <2>2. Cardinality((A \cup R) \cup C) = Cardinality(A \cup R) + Cardinality(C) - Cardinality((A \cup R) \cap C)
    BY <1>4, <1>6, FS_Union
  <2>3. Cardinality((A \cup R) \cap C) = 0
    BY <2>1, FS_EmptySet
  <2>. QED BY <1>4, <1>6, <2>2, <2>3
<1>8. Cardinality((A \cup R) \cup C) = NodeCount - 1 - Cardinality(wait)
  <2>1. Others(n) \cap wait = wait
    OBVIOUS
  <2>2. (A \cup R) \cup C = Others(n) \ wait
    BY <1>1
  <2>3. Cardinality(Others(n) \ wait) = Cardinality(Others(n)) - Cardinality(Others(n) \cap wait)
    BY <1>3, FS_Difference
  <2>. QED BY <1>3, <2>1, <2>2, <2>3
<1>9. Cardinality(wait) = 0
  BY <1>1, <1>2, <1>3, <1>4, <1>5, <1>7, <1>8
<1>. QED BY <1>4, <1>9, FS_EmptySet

(* An id that a round loses is settled: it is lost early when half of the  *)
(* nodes refuse it, and otherwise after every node was heard of.           *)
LEMMA LoseSettled ==
  ASSUME NEW V, NEW H, NEW n \in Nodes, NEW id, NEW q \in QuorumRecords,
         NEW wait \in SUBSET Others(n), Counted(V, n, id, q, wait),
         Tallied(V, H, n, id, q, wait), QuorumGo(q) = "lose"
  PROVE  Settled(V, H, id)
<1>1. /\ q.requests = NodeCount - 1 /\ q.accept_threshold = NodeCount \div 2
      /\ Gave(V, n, id, n)
  BY DEF Counted
<1>2. /\ q.quorum <= q.requests
      /\ \A k \in Others(n) \ wait : Voted(V, k, id) \/ Settled(V, H, id)
  BY DEF Tallied
<1>3. PICK R \in SUBSET (Others(n) \ wait) :
        Cardinality(R) = q.rejected /\ \A k \in R : Refused(V, H, k, id)
  BY DEF Tallied
<1>4. NodeCount \in Nat /\ NodeCount >= 1
  BY OthersFinite
<1>5. /\ q.quorum \in Nat /\ q.requests \in Nat /\ q.rejected \in Nat
      /\ q.accept_threshold \in Nat
  BY DEF QuorumRecords
<1>6. CASE EarlyVerdict(q) = "lose"
  <2>1. q.rejected + (q.requests % 2) > q.accept_threshold
    BY <1>2, <1>5, <1>6 DEF EarlyVerdict
  <2>2. NodeCount <= 2 * q.rejected
    BY <1>1, <1>4, <1>5, <2>1
  <2>3. Half(R) /\ R \in SUBSET Nodes
    BY <1>3, <2>2 DEF Half, Others
  <2>4. (\A k \in R : Elsewhere(V, k, id)) \/ Settled(V, H, id)
    BY <1>3 DEF Refused
  <2>5. (\A k \in R : Elsewhere(V, k, id)) => Blocked(V, id)
    BY <2>3 DEF Blocked
  <2>. QED BY <2>4, <2>5 DEF Settled
<1>7. CASE EarlyVerdict(q) # "lose"
  <2>1. AllAnswered(q)
    BY <1>7 DEF QuorumGo
  <2>2. wait = {}
    BY <2>1, AllHeard
  <2>3. Voted(V, n, id)
    BY <1>1 DEF Voted
  <2>4. AllVoted(V, id) \/ Settled(V, H, id)
    BY <1>2, <2>2, <2>3 DEF AllVoted, Others
  <2>. QED BY <2>4 DEF Settled
<1>. QED BY <1>6, <1>7

(* The answer of node m is counted.                                        *)
LEMMA AnswerTallied ==
  ASSUME NEW V, NEW H, NEW n \in Nodes, NEW id, NEW q \in QuorumRecords,
         NEW wait \in SUBSET Others(n), Tallied(V, H, n, id, q, wait), NEW m \in wait,
         NEW a \in {"accept", "reject", "collision"}, NEW k, NEW lower,
         a = "accept" => Gave(V, m, id, n),
         a = "collision" => Gave(V, m, id, m),
         a = "reject" => Refused(V, H, m, id)
  PROVE  Tallied(V, H, n, id, CountAnswer(q, a, k, lower), wait \ {m})
<1> DEFINE p == CountAnswer(q, a, k, lower)
<1>1. /\ p.quorum = q.quorum /\ p.requests = q.requests
      /\ p.rejected = IF a = "reject" THEN q.rejected + 1 ELSE q.rejected
  BY DEF CountAnswer, QuorumRecords
<1>2. q.rejected \in Nat
  BY DEF QuorumRecords
<1> HIDE DEF p
<1>3. PICK R \in SUBSET (Others(n) \ wait) :
        Cardinality(R) = q.rejected /\ \A j \in R : Refused(V, H, j, id)
  BY DEF Tallied
<1>4. m \in Others(n) /\ m \in Nodes /\ m \notin R
  BY <1>3 DEF Others
<1>5. \E S \in SUBSET (Others(n) \ (wait \ {m})) :
        Cardinality(S) = p.rejected /\ \A j \in S : Refused(V, H, j, id)
  <2>1. CASE a = "reject"
    <3> DEFINE S == R \cup {m}
    <3>1. IsFiniteSet(R) /\ Cardinality(S) = Cardinality(R) + 1
      <4>1. IsFiniteSet(R)
        BY OthersFinite
      <4>. QED BY <1>4, <4>1, FS_AddElement
    <3>2. S \in SUBSET (Others(n) \ (wait \ {m}))
      BY <1>4
    <3>3. \A j \in S : Refused(V, H, j, id)
      BY <1>3, <2>1
    <3>4. Cardinality(S) = p.rejected
      BY <1>1, <1>3, <2>1, <3>1
    <3> HIDE DEF S
    <3>. QED BY <3>2, <3>3, <3>4
  <2>2. CASE a # "reject"
    <3>1. R \in SUBSET (Others(n) \ (wait \ {m}))
      OBVIOUS
    <3>. QED BY <1>1, <1>3, <2>2, <3>1
  <2>. QED BY <2>1, <2>2
<1>6. ASSUME NEW j \in Others(n) \ (wait \ {m})
      PROVE  Voted(V, j, id) \/ Settled(V, H, id)
  <2>1. CASE j # m
    BY <2>1 DEF Tallied
  <2>2. CASE j = m
    <3>1. a # "reject" => Voted(V, m, id)
      BY <1>4 DEF Voted
    <3>2. a = "reject" => Voted(V, m, id) \/ Settled(V, H, id)
      BY DEF Refused, Elsewhere, Voted, Others
    <3>. QED BY <2>2, <3>1, <3>2
  <2>. QED BY <2>1, <2>2
<1>7. q.quorum <= q.requests
  BY DEF Tallied
<1>. QED BY <1>1, <1>5, <1>6, <1>7 DEF Tallied, p

LEMMA BarredSettled ==
  ASSUME NEW id, Barred(id)
  PROVE  Settled(votes, HistIds, id)
BY DEF Barred, Settled, Blocked

(* A node that rejects an id that was asked for has a reason.              *)
LEMMA RejectRefused ==
  ASSUME LInv, NEW m \in Nodes, NEW n \in Nodes, NEW id \in Nat, Gave(votes, m, id, m),
         AcceptId(n, id).answer = "reject"
  PROVE  Refused(votes, HistIds, n, id)
<1>1. /\ HInv /\ IInv /\ VoteIds /\ Lost /\ Passed
  BY DEF LInv, LogInv, VInv, HInv, OInv
<1>2. id \in 2 .. MaxId
  BY <1>1, GaveAsked
<1>3. ccid[n] \in Nat /\ next_change_id[n] \in Nat
  BY <1>1, NodeFacts
<1>4. id < next_change_id[n]
  BY <1>3 DEF AcceptId
<1>5. CASE IdAt(queue[n], id) # {}
  <2>1. PICK c \in Entries(queue[n]) : c.id = id /\ c.tp # "master"
    <3> DEFINE i == CHOOSE i \in IdAt(queue[n], id) : TRUE
    <3>1. i \in IdAt(queue[n], id)
      BY <1>5
    <3>2. queue[n][i].tp # "master"
      BY <1>3, <1>4, <1>5 DEF AcceptId
    <3> HIDE DEF i
    <3>. QED BY <3>1, <3>2 DEF IdAt, Entries
  <2>2. c.op \in Ops /\ AsApplied(c) \in log[Home[c.op]]
    BY <1>1, <2>1, NodeFacts
  <2>3. Home[c.op] \in Nodes
    BY <2>2, HomeAssumption
  <2>4. AsApplied(c) \in History /\ AsApplied(c).id = id
    BY <2>1, <2>2, <2>3 DEF History, AsApplied
  <2>5. id \in HistIds
    BY <2>4 DEF HistIds
  <2>. QED BY <2>5 DEF Refused, Settled
<1>6. CASE IdAt(queue[n], id) = {}
  <2>1. id \notin {i \in skipped_ids[n] : i > ccid[n]}
    BY <1>3, <1>4, <1>6 DEF AcceptId
  <2>2. id \in 2 .. next_change_id[n] - 1
    BY <1>2, <1>3, <1>4
  <2>3. id <= ccid[n] \/ Voted(votes, n, id)
    <3>1. id <= ccid[n] \/ id \in skipped_ids[n] \/ Voted(votes, n, id)
      BY <1>1, <2>2 DEF VoteIds
    <3>. QED BY <1>3, <2>1, <3>1
  <2>4. CASE id <= ccid[n]
    <3>1. id \in 2 .. ccid[n]
      BY <1>2, <1>3, <2>4
    <3>2. id \in HistIds \/ Barred(id)
      BY <1>1, <3>1 DEF Passed
    <3>3. Settled(votes, HistIds, id)
      BY <3>2, BarredSettled DEF Settled
    <3>. QED BY <3>3 DEF Refused
  <2>5. CASE Voted(votes, n, id)
    <3>1. PICK w \in Nodes : Gave(votes, n, id, w)
      BY <2>5 DEF Voted
    <3>2. CASE w = n
      <4>1. ~Standing(n, id)
        BY <1>6 DEF Standing, Entries, IdAt
      <4>2. Settled(votes, HistIds, id)
        BY <1>1, <3>1, <3>2, <4>1 DEF Lost
      <4>. QED BY <4>2 DEF Refused
    <3>3. CASE w # n
      BY <3>1, <3>3 DEF Refused, Elsewhere, Others
    <3>. QED BY <3>2, <3>3
  <2>. QED BY <2>3, <2>4, <2>5
<1>. QED BY <1>5, <1>6

LEMMA ClaimApplied ==
  ASSUME NEW e \in History
  PROVE  e \in Claims
BY DEF History, Claims

LEMMA ClaimReady ==
  ASSUME NEW n \in Nodes, NEW c \in Entries(queue[n]), c.ready
  PROVE  AsApplied(c) \in Claims
BY DEF Claims, Entries, AsApplied

(* What a node has applied is applied at the home of the change.           *)
LEMMA HistoryRead ==
  ASSUME HInv, NEW e \in History
  PROVE  /\ e \in [id: Nat, op: Ops] /\ e.id \in Nat /\ e.op \in Ops
         /\ Home[e.op] \in Nodes /\ e \in log[Home[e.op]]
<1>1. PICK k \in Nodes : e \in log[k]
  BY DEF History
<1>2. log[k] \in SUBSET [id: Nat, op: Ops]
  BY <1>1 DEF HInv, OInv, IInv, TypeOK
<1>3. e \in [id: Nat, op: Ops]
  BY <1>1, <1>2
<1>4. e.id \in Nat /\ e.op \in Ops
  BY <1>3
<1>. QED BY <1>1, <1>3, <1>4, HomeAssumption DEF HInv, HomeInv, FromHome

(* Who is sure to run its change is the first to do so, and no other node  *)
(* has given up on the id.                                                 *)
LEMMA ReadyIsNew ==
  ASSUME LInv, NEW n \in Nodes, NEW c \in Entries(queue[n]), c.tp = "master", c.ready
  PROVE  /\ c.id \notin HistIds /\ ~Barred(c.id)
         /\ c.id \in 2 .. MaxId
         /\ \A k \in Nodes : ccid[k] < c.id
<1>1. /\ HInv /\ IInv /\ VoteIds /\ Passed /\ OneChangePerId
      /\ Elections
  BY VotesSeen DEF LInv, LogInv, VInv, HInv, OInv, VoteInv
<1>2. c.op \in Ops /\ Home[c.op] = n /\ c.id \in Nat
  BY <1>1, NodeFacts
<1>3. Gave(votes, n, c.id, n) /\ Wins(votes, n, c.id)
  BY <1>1 DEF Elections, Electing
<1>4. c.id \in 2 .. MaxId
  BY <1>1, <1>3, GaveAsked
<1>5. c.id \notin HistIds
  <2> SUFFICES ASSUME c.id \in HistIds PROVE FALSE
    OBVIOUS
  <2>1. PICK e \in History : e.id = c.id
    BY DEF HistIds
  <2>2. e \in log[Home[e.op]]
    BY <1>1, HistoryRead
  <2>3. e \in Claims /\ AsApplied(c) \in Claims
    BY ClaimApplied, ClaimReady
  <2>4. AsApplied(c).id = c.id /\ AsApplied(c).op = c.op
    BY DEF AsApplied
  <2>5. e.op = c.op
    BY <1>1, <2>1, <2>3, <2>4 DEF OneChangePerId
  <2>6. e \in log[n] /\ Home[e.op] = n
    BY <1>2, <2>2, <2>5
  <2>7. Placed(n, log[n], Entries(queue[n]), rounds[n])
    BY <1>1, NodeFacts
  <2>. QED BY <2>5, <2>6, <2>7 DEF Placed
<1>6. ~Barred(c.id)
  <2> DEFINE id == c.id
  <2>1. Standing(n, id)
    BY DEF Standing
  <2>2. ASSUME NEW K \in SUBSET Nodes, Half(K),
               \A k \in K : /\ Elsewhere(votes, k, id)
                            /\ \A y \in Nodes : Standing(y, id) => ~Gave(votes, k, id, y)
        PROVE  FALSE
    <3> HIDE DEF id
    <3>1. PICK A \in SUBSET Others(n), R \in SUBSET Others(n) :
            /\ A \cap R = {}
            /\ \A v \in A : Gave(votes, v, id, n)
            /\ \A v \in Others(n) \ (A \cup R) : Gave(votes, v, id, v)
            /\ Cardinality(R) <= Cardinality(A)
      BY <1>3 DEF Wins, id
    <3>2. ASSUME NEW k \in K PROVE k \in R
      <4>1. ~Gave(votes, k, id, n)
        BY <2>1, <2>2
      <4>2. k \in Others(n) /\ k \notin A
        BY <1>3, <3>1, <4>1 DEF Others, id
      <4>3. PICK w \in Others(k) : Gave(votes, k, id, w)
        BY <2>2 DEF Elsewhere
      <4>4. ~Gave(votes, k, id, k)
        BY <1>1, <4>3, GaveOnce DEF Others
      <4>. QED BY <3>1, <4>2, <4>4
    <3>3. IsFiniteSet(A) /\ IsFiniteSet(R) /\ Cardinality(A) \in Nat /\ Cardinality(R) \in Nat
      BY OthersFinite
    <3>4. IsFiniteSet(K) /\ Cardinality(K) \in Nat /\ Cardinality(K) <= Cardinality(R)
      <4>1. K \in SUBSET R
        BY <3>2
      <4>. QED BY <3>3, <4>1, FS_Subset, FS_CardinalityType
    <3>5. Cardinality(A \cup R) = Cardinality(A) + Cardinality(R)
      <4>1. Cardinality(A \cup R) = Cardinality(A) + Cardinality(R) - Cardinality(A \cap R)
        BY <3>3, FS_Union
      <4>2. Cardinality(A \cap R) = 0
        BY <3>1, FS_EmptySet
      <4>. QED BY <3>3, <4>1, <4>2
    <3>6. NodeCount \in Nat /\ IsFiniteSet(Others(n)) /\ Cardinality(Others(n)) = NodeCount - 1
      BY OthersFinite
    <3>7. Cardinality(A \cup R) <= NodeCount - 1
      <4>1. A \cup R \in SUBSET Others(n)
        OBVIOUS
      <4>. QED BY <3>6, <4>1, FS_Subset
    <3>8. NodeCount <= 2 * Cardinality(K)
      BY <2>2 DEF Half
    <3>. QED BY <3>1, <3>3, <3>4, <3>5, <3>6, <3>7, <3>8
  <2>. QED BY <2>1, <2>2 DEF Barred
<1>7. ASSUME NEW k \in Nodes PROVE ccid[k] < c.id
  <2>1. ccid[k] \in Nat
    BY <1>1, NodeFacts
  <2>2. \A id \in 2 .. ccid[k] : id \in HistIds \/ Barred(id)
    BY <1>1 DEF Passed
  <2>. QED BY <1>4, <1>5, <1>6, <2>1, <2>2
<1>. QED BY <1>4, <1>5, <1>6, <1>7

(* A missing id that cannot arrive any more was never used and never is.   *)
LEMMA GapIsBarred ==
  ASSUME LInv, NEW n \in Nodes, Gap(n), ~OnItsWay(n, ccid[n] + 1)
  PROVE  ccid[n] + 1 \notin HistIds /\ Barred(ccid[n] + 1)
<1> DEFINE id == ccid[n] + 1
<1>1. /\ HInv /\ IInv /\ VoteIds /\ Passed /\ Lost /\ Delivered
  BY DEF LInv, LogInv, VInv, HInv, OInv
<1>2. ccid[n] \in Nat /\ next_change_id[n] \in Nat /\ ccid[n] >= 1
  BY <1>1, NodeFacts DEF Passed
<1>3. id < next_change_id[n]
  <2>1. queue[n] \in Seq(QueueEntry) /\ queue[n] # <<>> /\ Head(queue[n]).id > id
    BY <1>1, NodeFacts DEF Gap
  <2>2. Head(queue[n]) \in Entries(queue[n])
    BY <1>1, <2>1, NodeFacts, TailFacts
  <2>3. Head(queue[n]).id \in Nat /\ Head(queue[n]).id < next_change_id[n]
    BY <1>1, <2>2, NodeFacts
  <2>. QED BY <1>2, <2>1, <2>3
<1>4. id \in Nat /\ id \in 2 .. next_change_id[n] - 1 /\ ~(id <= ccid[n])
  BY <1>2, <1>3
<1>5. ~OnItsWay(n, id)
  OBVIOUS
<1> HIDE DEF id
<1>6. \A y \in Nodes : ~Standing(y, id)
  BY <1>5 DEF OnItsWay, IdAt, Standing, Entries
<1>7. id \notin HistIds
  <2> SUFFICES ASSUME id \in HistIds PROVE FALSE
    OBVIOUS
  <2>1. PICK e \in History : e.id = id
    BY DEF HistIds
  <2>2. e.op \in Ops /\ Home[e.op] \in Nodes /\ e \in log[Home[e.op]]
    BY <1>1, HistoryRead
  <2>3. Reaching(Home[e.op], n, id)
    BY <1>1, <1>4, <2>1, <2>2 DEF Delivered
  <2>4. OnItsWay(n, id)
    BY <2>2, <2>3 DEF Reaching, OnItsWay, IdAt, Entries
  <2>. QED BY <1>5, <2>4
<1>8. PICK x \in Nodes : Gave(votes, x, id, x)
  BY <1>1, <1>4 DEF VoteIds
<1>9. AllVoted(votes, id) \/ Blocked(votes, id)
  BY <1>1, <1>4, <1>6, <1>7, <1>8 DEF Lost, Settled
<1>10. Barred(id)
  BY <1>6, <1>9 DEF Barred, Blocked
<1>. QED BY <1>7, <1>10 DEF id

LEMMA SendAhead ==
  ASSUME NEW ch \in Channels, NEW n \in Nodes, NEW S, NEW msg \in Message,
         NEW a \in Nodes, NEW b \in Nodes, NEW next, Ahead(ch[<<a, b>>], next),
         a = n /\ b \in S /\ msg.tp = "cpkg" =>
           msg.id < next \/ [tp |-> "req", id |-> msg.id] \in Entries(ch[<<a, b>>])
  PROVE  Ahead(Send(ch, n, S, msg)[<<a, b>>], next)
<1>1. ch[<<a, b>>] \in Seq(Message)
  BY DEF Channels
<1>2. CASE a = n /\ b \in S
  <2>1. Send(ch, n, S, msg)[<<a, b>>] = Append(ch[<<a, b>>], msg)
    BY <1>2 DEF Send
  <2>2. Ahead(Append(ch[<<a, b>>], msg), next)
    BY <1>1, <1>2, AheadAppend
  <2>. QED BY <2>1, <2>2
<1>3. CASE ~(a = n /\ b \in S)
  <2>1. Send(ch, n, S, msg)[<<a, b>>] = ch[<<a, b>>]
    BY <1>3 DEF Send
  <2>. QED BY <2>1
<1>. QED BY <1>2, <1>3

LEMMA ReceiveAhead ==
  ASSUME HInv, AllAhead, NEW m \in Nodes, NEW n \in Nodes, NEW tp, HeadIs(m, n, tp),
         NEW more \in [Nodes -> Nat], \A k \in Nodes : next_change_id[k] <= more[k],
         tp = "req" => Head(chan[<<m, n>>]).id < more[n]
  PROVE  \A a, b \in Nodes : Ahead(Receive(m, n)[<<a, b>>], more[b])
<1> SUFFICES ASSUME NEW a \in Nodes, NEW b \in Nodes
             PROVE  Ahead(Receive(m, n)[<<a, b>>], more[b])
  OBVIOUS
<1>1. chan \in Channels /\ next_change_id[b] \in Nat
  BY NodeFacts
<1>2. chan[<<a, b>>] \in Seq(Message) /\ Ahead(chan[<<a, b>>], next_change_id[b])
  BY <1>1 DEF Channels, AllAhead
<1>3. CASE a = m /\ b = n
  <2>1. Receive(m, n)[<<a, b>>] = Tail(chan[<<a, b>>])
    BY <1>1, <1>3 DEF Receive, Channels
  <2>2. chan[<<a, b>>] # <<>> /\ (Head(chan[<<a, b>>]).tp = "req" => Head(chan[<<a, b>>]).id < more[b])
    BY <1>3 DEF HeadIs
  <2>3. Ahead(Tail(chan[<<a, b>>]), more[b])
    BY <1>1, <1>2, <2>2, AheadTail
  <2>. QED BY <2>1, <2>3
<1>4. CASE ~(a = m /\ b = n)
  <2>1. Receive(m, n)[<<a, b>>] = chan[<<a, b>>]
    BY <1>1, <1>4 DEF Receive, Channels
  <2>2. Ahead(chan[<<a, b>>], more[b])
    BY <1>1, <1>2, AheadMore
  <2>. QED BY <2>1, <2>2
<1>. QED BY <1>3, <1>4
-----------------------------------------------------------------------------
(* One lemma per step.                                                     *)

LEMMA LParts ==
  ASSUME LInv
  PROVE  /\ VInv /\ HInv /\ IInv /\ VoteInv /\ LinksAll /\ chan \in Channels
         /\ VoteIds /\ Questions /\ AllAhead /\ AskAhead /\ Refusals
         /\ Tally /\ Lost /\ Passed /\ Complete /\ Delivered
BY DEF LInv, LogInv, VInv, HInv, OInv, VoteInv, IInv, TypeOK, Channels

LEMMA SameHistory ==
  ASSUME log' = log, Grows(votes, votes')
  PROVE  More /\ HistIds' = HistIds /\ History' = History
BY DEF More, HistIds, History

(* Steps that apply nothing and give away nothing: rounds go on, changes   *)
(* leave a queue, change packages and missing ids come and go.             *)
LEMMA QuietLog ==
  ASSUME LInv, VInv', UNCHANGED <<votes, next_change_id, skipped_ids, ccid, log>>,
         \A y \in Nodes, id \in Nat : Standing(y, id)' => Standing(y, id),
         \A y \in Nodes, id \in Nat :
           Standing(y, id) => Standing(y, id)' \/ Settled(votes, HistIds, id),
         \A k \in Nodes : \A r \in rounds'[k] :
           r \in rounds[k] \/ Tallied(votes, HistIds, k, r.id, r.q, r.wait),
         \A a, b \in Nodes : \A x \in Entries(chan'[<<a, b>>]) :
           \/ x \in Entries(chan[<<a, b>>])
           \/ x.tp = "cpkg"
           \/ x.tp = "missing" /\ x.id < next_change_id[a],
         \A a, b \in Nodes : \A x \in Entries(chan[<<a, b>>]) :
           x.tp = "req" => x \in Entries(chan'[<<a, b>>]),
         \A a, b \in Nodes : Ahead(chan'[<<a, b>>], next_change_id[b]),
         \A h, n \in Nodes : \A e \in log[h] :
           Home[e.op] = h /\ Reaching(h, n, e.id) => Reaching(h, n, e.id)' \/ e.id <= ccid[n]
  PROVE  LogInv'
<1>1. More /\ HistIds' = HistIds
  BY SameHistory, GrowsSame
<1>2. /\ VInv /\ HInv /\ VoteIds /\ Questions /\ AskAhead /\ Refusals
      /\ Tally /\ Lost /\ Passed /\ Complete /\ Delivered
  BY LParts
<1>3. /\ \A k \in Nodes : next_change_id'[k] \in Nat /\ next_change_id[k] <= next_change_id'[k]
      /\ \A k \in Nodes : ccid'[k] \in Nat /\ ccid[k] <= ccid'[k]
  BY <1>2, NodeFacts
<1>4. VoteIds'
  BY <1>2, <1>3, VoteIdsKept
<1>5. Questions'
  <2>1. \A a, b \in Nodes : \A x \in Entries(chan'[<<a, b>>]) :
          \/ x \in Entries(chan[<<a, b>>])
          \/ /\ x.tp = "req" => Gave(votes', a, x.id, a)
             /\ x.tp = "missing" => x.id < next_change_id'[a]
    OBVIOUS
  <2>. QED BY <1>1, <1>2, <1>3, <2>1, QuestionsKept
<1>6. AllAhead'
  BY DEF AllAhead
<1>7. AskAhead'
  <2>1. \A a, b \in Nodes, id \in Nat :
          [tp |-> "req", id |-> id] \in Entries(chan[<<a, b>>]) =>
            [tp |-> "req", id |-> id] \in Entries(chan'[<<a, b>>]) \/ id < next_change_id'[b]
    OBVIOUS
  <2>. QED BY <1>2, <1>3, <2>1, AskAheadKept
<1>8. Refusals'
  <2>1. \A a, b \in Nodes : \A x \in Entries(chan'[<<a, b>>]) :
          \/ x \in Entries(chan[<<a, b>>])
          \/ x.tp = "res" /\ x.answer = "reject" => Refused(votes', HistIds', a, x.id)
    OBVIOUS
  <2>. QED BY <1>1, <1>2, <2>1, RefusalsKept
<1>9. Tally'
  <2>1. \A k \in Nodes : \A r \in rounds'[k] :
          r \in rounds[k] \/ Tallied(votes', HistIds', k, r.id, r.q, r.wait)
    BY <1>1
  <2>. QED BY <1>1, <1>2, <2>1, TallyKept
<1>10. Lost'
  <2>1. \A x \in Nodes, id \in Nat :
          Gave(votes', x, id, x) => Gave(votes, x, id, x) \/ Standing(x, id)'
    OBVIOUS
  <2>2. \A x \in Nodes, id \in Nat :
          Standing(x, id) => Standing(x, id)' \/ Settled(votes', HistIds', id)
    BY <1>1
  <2>. QED BY <1>1, <1>2, <2>1, <2>2, LostKept
<1>11. Passed'
  <2>1. IInv'
    BY DEF VInv, HInv, OInv
  <2>. QED BY <1>1, <1>2, <2>1, PassedStays
<1>12. Complete' /\ Delivered'
  BY <1>2, CompleteKept, DeliveredKept
<1>. QED BY <1>4, <1>5, <1>6, <1>7, <1>8, <1>9, <1>10, <1>11, <1>12 DEF LogInv

(* What a queue still holds.                                               *)
LEMMA StandingSame ==
  ASSUME NEW n \in Nodes, \A k \in Nodes \ {n} : queue'[k] = queue[k],
         \A c \in Entries(queue'[n]) : c.tp = "master" =>
           \E d \in Entries(queue[n]) : d.tp = "master" /\ d.id = c.id
  PROVE  \A y \in Nodes, id \in Nat : Standing(y, id)' => Standing(y, id)
<1> SUFFICES ASSUME NEW y \in Nodes, NEW id \in Nat, Standing(y, id)' PROVE Standing(y, id)
  OBVIOUS
<1>1. PICK c \in Entries(queue'[y]) : c.tp = "master" /\ c.id = id
  BY DEF Standing
<1>2. CASE y = n
  BY <1>1, <1>2 DEF Standing
<1>3. CASE y # n
  <2>1. queue'[y] = queue[y]
    BY <1>3
  <2>. QED BY <1>1, <2>1 DEF Standing
<1>. QED BY <1>2, <1>3

LEMMA ReachingKept ==
  ASSUME NEW h \in Nodes, NEW n \in Nodes, NEW id, Reaching(h, n, id),
         \A c \in Entries(queue[n]) : c.tp = "cpkg" =>
           \E d \in Entries(queue'[n]) : d.tp = "cpkg" /\ d.id = c.id,
         \A x \in Entries(chan[<<h, n>>]) : x.tp = "cpkg" => x \in Entries(chan'[<<h, n>>])
  PROVE  Reaching(h, n, id)'
<1>1. CASE \E c \in Entries(queue[n]) : c.tp = "cpkg" /\ c.id = id
  <2>1. \E c \in Entries(queue'[n]) : c.tp = "cpkg" /\ c.id = id
    BY <1>1
  <2>. QED BY <2>1 DEF Reaching
<1>2. CASE \E x \in Entries(chan[<<h, n>>]) : x.tp = "cpkg" /\ x.id = id
  <2>1. \E x \in Entries(chan'[<<h, n>>]) : x.tp = "cpkg" /\ x.id = id
    BY <1>2
  <2>. QED BY <2>1 DEF Reaching
<1>. QED BY <1>1, <1>2 DEF Reaching

(* A node asks for its next id, which nobody asked it for before.  What is *)
(* left of the channels holds all but some answers, and a change of n that *)
(* leaves the queue has lost its id.                                       *)
LEMMA AskedLog ==
  ASSUME LInv, VInv', NEW n \in Nodes, NEW op \in Ops, NEW rest \in Seq(QueueEntry),
         NEW ch \in Channels, NEW others \in SUBSET rounds[n],
         ReqChangeId(n, op, rest, ch, others), UNCHANGED <<ccid, skipped_ids, links, log>>,
         Sorted(rest),
         Entries(rest) = {c \in Entries(queue[n]) : ~(c.tp = "master" /\ c.op = op)},
         \A c \in Entries(queue[n]) :
           c.tp = "master" /\ c.op = op => Settled(votes, HistIds, c.id),
         \A a, b \in Nodes : Entries(ch[<<a, b>>]) \subseteq Entries(chan[<<a, b>>]),
         \A a, b \in Nodes : \A x \in Entries(chan[<<a, b>>]) :
           x \in Entries(ch[<<a, b>>]) \/ x.tp = "res",
         \A a, b \in Nodes : Ahead(ch[<<a, b>>], next_change_id[b])
  PROVE  LogInv'
<1> DEFINE id == next_change_id[n]
           q == ShrinkBy(QuorumNew(Cardinality(Nodes), NodesQuorum(n)),
                         Cardinality(Nodes) - 1 - Cardinality(Peers(n)))
           msg == [tp |-> "req", id |-> id]
<1>1. /\ VInv /\ HInv /\ IInv /\ LinksAll /\ VoteIds /\ Questions /\ AskAhead
      /\ Refusals /\ Tally /\ Lost /\ Passed /\ Complete /\ Delivered
  BY LParts
<1>2. /\ id \in Nat /\ id >= 2 /\ id <= MaxId
  <2>1. ccid[n] \in Nat /\ id \in Nat /\ ccid[n] >= 1
    BY <1>1, NodeFacts DEF Passed
  <2>2. ccid[n] < id
    BY <1>1 DEF HInv, OInv, QueuesInOrder
  <2>3. id <= MaxId
    BY DEF ReqChangeId
  <2>. QED BY <2>1, <2>2, <2>3
<1>3. /\ \A k \in Nodes : next_change_id[k] \in Nat
      /\ \A k \in Nodes : next_change_id'[k] = IF k = n THEN id + 1 ELSE next_change_id[k]
  <2>1. next_change_id \in [Nodes -> Nat]
    BY <1>1 DEF IInv, TypeOK
  <2>2. next_change_id' = [next_change_id EXCEPT ![n] = id + 1]
    BY DEF ReqChangeId
  <2>. QED BY <2>1, <2>2
<1>4. \A k \in Nodes : next_change_id'[k] \in Nat /\ next_change_id[k] <= next_change_id'[k]
  BY <1>2, <1>3
<1>5. /\ \A k \in Nodes \ {n} : votes'[k] = votes[k]
      /\ votes'[n] = votes[n] \cup {[id |-> id, for |-> n]}
  <2>1. votes \in [Nodes -> SUBSET [id: Nat, for: Nodes]]
    BY <1>1 DEF IInv, TypeOK
  <2>2. votes' = [votes EXCEPT ![n] = @ \cup {[id |-> id, for |-> n]}]
    BY DEF ReqChangeId
  <2>. QED BY <2>1, <2>2
<1>6. Grows(votes, votes') /\ Gave(votes', n, id, n)
  BY <1>5 DEF Grows, Gave
<1>7. More /\ HistIds' = HistIds
  BY <1>6, SameHistory
<1>8. ~\E w : Gave(votes, n, id, w)
  <2>1. ASSUME NEW w, Gave(votes, n, id, w) PROVE FALSE
    <3>1. id < id
      BY <1>1, <2>1, GaveBelow
    <3>. QED BY <1>2, <3>1
  <2>. QED BY <2>1
<1>9. \A k \in Nodes : ~Gave(votes, k, id, n)
  BY <1>1, <1>8, GaveAsked
<1>10. Peers(n) = Others(n)
  BY <1>1, QuorumAlways
<1>11. /\ msg \in Message /\ chan' = Send(ch, n, Others(n), msg)
       /\ msg.tp = "req" /\ msg.id = id
  <2>1. msg \in Message
    BY <1>2, MessageMade
  <2>. QED BY <1>10, <2>1 DEF ReqChangeId
<1>12. PICK c \in QueueEntry :
         c.id = id /\ c.op = op /\ c.tp = "master" /\ Entries(queue'[n]) = Entries(rest) \cup {c}
  <2>1. \A e \in Entries(rest) : e.id < id
    BY <1>1, NodeFacts
  <2>2. Asked(n, op, rest, others)
    BY <1>1, <2>1, ReqChangeIdFacts DEF IInv
  <2>. QED BY <2>2 DEF Asked
<1>13. \A k \in Nodes \ {n} : queue'[k] = queue[k] /\ rounds'[k] = rounds[k]
  <2>1. queue \in [Nodes -> Seq(QueueEntry)] /\ rounds \in [Nodes -> SUBSET Round]
    BY <1>1 DEF IInv, TypeOK
  <2>. QED BY <2>1 DEF ReqChangeId
<1>14. \A r \in rounds'[n] :
         \/ r \in others
         \/ r.id = id /\ r.q = q /\ r.wait = Others(n)
  <2>1. rounds \in [Nodes -> SUBSET Round]
    BY <1>1 DEF IInv, TypeOK
  <2>2. \/ rounds' = [rounds EXCEPT ![n] = others]
        \/ rounds' = [rounds EXCEPT ![n] =
             others \cup {[id |-> id, op |-> op, q |-> q, wait |-> Peers(n)]}]
    BY DEF ReqChangeId
  <2>3. \/ rounds'[n] = others
        \/ rounds'[n] = others \cup {[id |-> id, op |-> op, q |-> q, wait |-> Peers(n)]}
    BY <2>1, <2>2
  <2> HIDE DEF q
  <2>. QED BY <1>10, <2>3
<1>15. q.quorum <= q.requests /\ q.rejected = 0
  <2>1. Counted(votes', n, id, q, Peers(n)) /\ q.requests = NodeCount - 1
    BY <1>1, <1>6, NewCounted
  <2>2. NodesQuorum(n) <= NodeCount - 1
    BY <1>1, QuorumAlways
  <2>3. q.quorum = NodesQuorum(n) /\ q.rejected = 0
    BY DEF ShrinkBy, QuorumNew, ShrinkOne
  <2>. QED BY <2>1, <2>2, <2>3
<1> HIDE DEF q, msg, id
<1>16. \A a, b \in Nodes : \A x \in Entries(chan'[<<a, b>>]) :
         x \in Entries(ch[<<a, b>>]) \/ (x = msg /\ a = n /\ b \in Others(n))
  BY <1>11, SendEntries
<1>17. \A a, b \in Nodes : Entries(ch[<<a, b>>]) \subseteq Entries(chan'[<<a, b>>])
  BY <1>11, SendKeeps
<1>18. \A b \in Others(n) : msg \in Entries(chan'[<<n, b>>])
  BY <1>11, SendEntries DEF Others
<1>19. \A y \in Nodes, i \in Nat : Standing(y, i)' => Standing(y, i) \/ (y = n /\ i = id)
  <2> SUFFICES ASSUME NEW y \in Nodes, NEW i \in Nat, Standing(y, i)'
               PROVE  Standing(y, i) \/ (y = n /\ i = id)
    OBVIOUS
  <2>1. PICK d \in Entries(queue'[y]) : d.tp = "master" /\ d.id = i
    BY DEF Standing
  <2>2. CASE y = n
    BY <1>12, <2>1, <2>2 DEF Standing
  <2>3. CASE y # n
    BY <1>13, <2>1, <2>3 DEF Standing
  <2>. QED BY <2>2, <2>3
<1>20. VoteIds'
  <2> SUFFICES ASSUME NEW k \in Nodes
               PROVE  /\ \A v \in votes'[k] : v.id \in 2 .. MaxId /\ Gave(votes', v.for, v.id, v.for)
                      /\ \A i \in 2 .. next_change_id'[k] - 1 :
                           /\ \E x \in Nodes : Gave(votes', x, i, x)
                           /\ i <= ccid'[k] \/ i \in skipped_ids'[k] \/ Voted(votes', k, i)
    BY DEF VoteIds
  <2>1. ASSUME NEW v \in votes'[k] PROVE v.id \in 2 .. MaxId /\ Gave(votes', v.for, v.id, v.for)
    <3>1. CASE v \in votes[k]
      <4>1. v.id \in 2 .. MaxId /\ Gave(votes, v.for, v.id, v.for)
        BY <1>1, <3>1 DEF VoteIds
      <4>2. v.for \in Nodes
        <5>1. votes[k] \in SUBSET [id: Nat, for: Nodes]
          BY <1>1 DEF IInv, TypeOK
        <5>. QED BY <3>1, <5>1
      <4>3. Gave(votes', v.for, v.id, v.for)
        BY <1>6, <4>1, <4>2 DEF Grows, Gave
      <4>. QED BY <4>1, <4>3
    <3>2. CASE v = [id |-> id, for |-> n]
      <4>1. v.id = id /\ v.for = n
        BY <3>2
      <4>2. id \in 2 .. MaxId
        BY <1>2, MaxIdAssumption
      <4>. QED BY <1>6, <4>1, <4>2
    <3>. QED BY <1>5, <3>1, <3>2
  <2>2. ASSUME NEW i \in 2 .. next_change_id'[k] - 1
        PROVE  /\ \E x \in Nodes : Gave(votes', x, i, x)
               /\ i <= ccid'[k] \/ i \in skipped_ids'[k] \/ Voted(votes', k, i)
    <3>1. CASE i \in 2 .. next_change_id[k] - 1
      <4>1. /\ \E x \in Nodes : Gave(votes, x, i, x)
            /\ i <= ccid[k] \/ i \in skipped_ids[k] \/ Voted(votes, k, i)
        BY <1>1, <3>1 DEF VoteIds
      <4>2. \E x \in Nodes : Gave(votes', x, i, x)
        BY <1>6, <4>1 DEF Grows, Gave
      <4>3. Voted(votes, k, i) => Voted(votes', k, i)
        BY <1>7, VotedStays
      <4>. QED BY <4>1, <4>2, <4>3
    <3>2. CASE k = n /\ i = id
      <4>1. Voted(votes', k, i)
        BY <1>6, <3>2 DEF Voted
      <4>. QED BY <1>6, <3>2, <4>1
    <3>3. i \in 2 .. next_change_id[k] - 1 \/ (k = n /\ i = id)
      BY <1>2, <1>3 DEF id
    <3>. QED BY <3>1, <3>2, <3>3
  <2>. QED BY <2>1, <2>2
<1>21. Questions'
  <2>1. \A a, b \in Nodes : \A x \in Entries(chan'[<<a, b>>]) :
          \/ x \in Entries(chan[<<a, b>>])
          \/ /\ x.tp = "req" => Gave(votes', a, x.id, a)
             /\ x.tp = "missing" => x.id < next_change_id'[a]
    <3> SUFFICES ASSUME NEW a \in Nodes, NEW b \in Nodes, NEW x \in Entries(chan'[<<a, b>>])
                 PROVE  \/ x \in Entries(chan[<<a, b>>])
                        \/ /\ x.tp = "req" => Gave(votes', a, x.id, a)
                           /\ x.tp = "missing" => x.id < next_change_id'[a]
      OBVIOUS
    <3>0. x \in Entries(ch[<<a, b>>]) \/ (x = msg /\ a = n)
      BY <1>16
    <3>1. CASE x \in Entries(ch[<<a, b>>])
      <4>1. Entries(ch[<<a, b>>]) \subseteq Entries(chan[<<a, b>>])
        OBVIOUS
      <4>. QED BY <3>1, <4>1
    <3>2. CASE x = msg /\ a = n
      <4>1. x.tp = "req" /\ x.id = id
        BY <1>11, <3>2, Zenon
      <4>2. Gave(votes', a, x.id, a)
        BY <1>6, <3>2, <4>1, Zenon
      <4>3. ~(x.tp = "missing")
        BY <4>1
      <4>. QED BY <4>2, <4>3
    <3>. QED BY <3>0, <3>1, <3>2
  <2>. QED BY <1>1, <1>4, <1>7, <2>1, QuestionsKept
<1>22. AllAhead'
  <2> SUFFICES ASSUME NEW a \in Nodes, NEW b \in Nodes
               PROVE  Ahead(chan'[<<a, b>>], next_change_id'[b])
    BY DEF AllAhead
  <2>1. Ahead(ch[<<a, b>>], next_change_id[b]) /\ ch[<<a, b>>] \in Seq(Message)
    BY DEF Channels
  <2>2. next_change_id[b] \in Nat /\ next_change_id'[b] \in Nat /\ next_change_id[b] <= next_change_id'[b]
    BY <1>3, <1>4
  <2>3. Ahead(ch[<<a, b>>], next_change_id'[b])
    BY <2>1, <2>2, AheadMore
  <2>4. ~(msg.tp = "cpkg")
    BY <1>11
  <2>5. Ahead(Send(ch, n, Others(n), msg)[<<a, b>>], next_change_id'[b])
    <3>1. msg \in Message
      BY <1>11
    <3>2. a = n /\ b \in Others(n) /\ msg.tp = "cpkg" =>
            msg.id < next_change_id'[b] \/ [tp |-> "req", id |-> msg.id] \in Entries(ch[<<a, b>>])
      BY <2>4, Zenon
    <3>. QED BY <2>3, <3>1, <3>2, SendAhead, Zenon
  <2>. QED BY <1>11, <2>5
<1>23. AskAhead'
  <2> SUFFICES ASSUME NEW y \in Nodes, NEW i \in Nat, Standing(y, i)', NEW m \in Others(y)
               PROVE  i < next_change_id'[m] \/ [tp |-> "req", id |-> i] \in Entries(chan'[<<y, m>>])
    BY DEF AskAhead
  <2>1. CASE Standing(y, i)
    <3>1. i < next_change_id[m] \/ [tp |-> "req", id |-> i] \in Entries(chan[<<y, m>>])
      BY <1>1, <2>1 DEF AskAhead
    <3>2. m \in Nodes
      BY DEF Others
    <3>3. CASE i < next_change_id[m]
      BY <1>3, <1>4, <3>2, <3>3
    <3>4. CASE [tp |-> "req", id |-> i] \in Entries(chan[<<y, m>>])
      <4>1. [tp |-> "req", id |-> i] \in Entries(ch[<<y, m>>])
        BY <3>2, <3>4
      <4>. QED BY <1>17, <3>2, <4>1
    <3>. QED BY <3>1, <3>3, <3>4
  <2>2. CASE y = n /\ i = id
    <3>1. msg \in Entries(chan'[<<n, m>>])
      BY <1>18, <2>2
    <3>. QED BY <2>2, <3>1 DEF msg
  <2>. QED BY <1>19, <2>1, <2>2
<1>24. Refusals'
  <2>1. \A a, b \in Nodes : \A x \in Entries(chan'[<<a, b>>]) :
          \/ x \in Entries(chan[<<a, b>>])
          \/ x.tp = "res" /\ x.answer = "reject" => Refused(votes', HistIds', a, x.id)
    BY <1>11, <1>16
  <2>. QED BY <1>1, <1>7, <2>1, RefusalsKept
<1>25. Tally'
  <2>1. Tallied(votes', HistIds', n, id, q, Others(n))
    <3>1. {} \in SUBSET (Others(n) \ Others(n)) /\ Cardinality({}) = 0
      BY FS_EmptySet
    <3>2. \E R \in SUBSET (Others(n) \ Others(n)) :
            Cardinality(R) = q.rejected /\ \A k \in R : Refused(votes', HistIds', k, id)
      BY <1>15, <3>1
    <3>. QED BY <1>15, <3>2 DEF Tallied
  <2>2. ASSUME NEW k \in Nodes, NEW r \in rounds'[k]
        PROVE  r \in rounds[k] \/ Tallied(votes', HistIds', k, r.id, r.q, r.wait)
    <3>1. CASE k = n
      BY <1>14, <2>1, <2>2, <3>1
    <3>2. CASE k # n
      BY <1>13, <2>2, <3>2
    <3>. QED BY <3>1, <3>2
  <2>. QED BY <1>1, <1>7, <2>2, TallyKept
<1>26. Lost'
  <2>1. \E d \in Entries(queue'[n]) : d.tp = "master" /\ d.id = id
    BY <1>12
  <2>2. \A x \in Nodes, i \in Nat :
          Gave(votes', x, i, x) => Gave(votes, x, i, x) \/ Standing(x, i)'
    <3> SUFFICES ASSUME NEW x \in Nodes, NEW i \in Nat, Gave(votes', x, i, x), ~Gave(votes, x, i, x)
                 PROVE  Standing(x, i)'
      OBVIOUS
    <3>1. x = n /\ [id |-> i, for |-> x] = [id |-> id, for |-> n]
      BY <1>5 DEF Gave
    <3>2. x = n /\ i = id
      BY <3>1
    <3>. QED BY <2>1, <3>2 DEF Standing
  <2>3. ASSUME NEW x \in Nodes, NEW i \in Nat, Standing(x, i), ~Standing(x, i)'
        PROVE  Settled(votes', HistIds', i)
    <3>1. PICK d \in Entries(queue[x]) : d.tp = "master" /\ d.id = i
      BY <2>3 DEF Standing
    <3>2. d \notin Entries(queue'[x])
      BY <2>3, <3>1 DEF Standing
    <3>3. x = n /\ d \notin Entries(rest)
      BY <1>12, <1>13, <3>1, <3>2
    <3>4. Settled(votes, HistIds, i)
      BY <3>1, <3>3
    <3>. QED BY <1>7, <3>4, SettledStays
  <2>4. \A x \in Nodes, i \in Nat :
          Standing(x, i) => Standing(x, i)' \/ Settled(votes', HistIds', i)
    BY <2>3
  <2>. QED BY <1>1, <1>7, <2>2, <2>4, LostKept
<1>27. Passed'
  <2>1. IInv'
    BY DEF VInv, HInv, OInv
  <2>2. ~AllVoted(votes, id)
    BY <1>8 DEF AllVoted, Voted
  <2>3. \A y \in Nodes, i \in Nat : Standing(y, i)' =>
          \/ Standing(y, i)
          \/ /\ ~AllVoted(votes, i)
             /\ \A k \in Nodes : ~Gave(votes, k, i, y)
    BY <1>9, <1>19, <2>2
  <2>. QED BY <1>1, <1>7, <2>1, <2>3, PassedStays
<1>28. Complete'
  BY <1>1, CompleteKept
<1>29. Delivered'
  <2>1. ASSUME NEW h \in Nodes, NEW k \in Nodes, NEW i, Reaching(h, k, i)
        PROVE  Reaching(h, k, i)'
    <3>1. \A d \in Entries(queue[k]) : d.tp = "cpkg" =>
            \E e \in Entries(queue'[k]) : e.tp = "cpkg" /\ e.id = d.id
      <4>1. CASE k = n
        BY <1>12, <4>1
      <4>2. CASE k # n
        BY <1>13, <4>2
      <4>. QED BY <4>1, <4>2
    <3>2. \A x \in Entries(chan[<<h, k>>]) : x.tp = "cpkg" => x \in Entries(chan'[<<h, k>>])
      BY <1>17
    <3>. QED BY <2>1, <3>1, <3>2, ReachingKept
  <2>. QED BY <1>1, <2>1, DeliveredKept
<1>. QED BY <1>20, <1>21, <1>22, <1>23, <1>24, <1>25, <1>26, <1>27, <1>28, <1>29 DEF LogInv

LEMMA CreateLog ==
  ASSUME LInv, VInv', NEW op \in Ops, CreateNewChange(op)
  PROVE  LogInv'
<1> DEFINE n == Home[op]
<1>1. n \in Nodes
  BY HomeAssumption
<1>2. /\ HInv /\ LinksAll /\ AllAhead /\ chan \in Channels
  BY LParts
<1>3. HasQuorum(n)
  BY <1>1, <1>2, QuorumAlways
<1>4. /\ reply[op] = "unsent"
      /\ ReqChangeId(n, op, queue[n], chan, rounds[n])
      /\ UNCHANGED <<ccid, skipped_ids, links, log>>
  BY <1>3 DEF CreateNewChange
<1> HIDE DEF n
<1>5. queue[n] \in Seq(QueueEntry) /\ Sorted(queue[n])
  BY <1>1, <1>2, NodeFacts
<1>6. \A c \in Entries(queue[n]) : ~(c.tp = "master" /\ c.op = op)
  <2>1. TrueOf(op, reply[op], log[n], Entries(queue[n]), rounds[n])
    BY <1>1, <1>2, NodeFacts DEF n
  <2>. QED BY <1>4, <2>1 DEF TrueOf
<1>7. Entries(queue[n]) = {c \in Entries(queue[n]) : ~(c.tp = "master" /\ c.op = op)}
  BY <1>6
<1>8. \A c \in Entries(queue[n]) : c.tp = "master" /\ c.op = op => Settled(votes, HistIds, c.id)
  BY <1>6
<1>9. \A a, b \in Nodes : Ahead(chan[<<a, b>>], next_change_id[b])
  BY <1>2 DEF AllAhead
<1>10. /\ rounds[n] \in SUBSET rounds[n]
       /\ \A a, b \in Nodes : Entries(chan[<<a, b>>]) \subseteq Entries(chan[<<a, b>>])
       /\ \A a, b \in Nodes : \A x \in Entries(chan[<<a, b>>]) :
            x \in Entries(chan[<<a, b>>]) \/ x.tp = "res"
  OBVIOUS
<1>. QED BY <1>1, <1>2, <1>4, <1>5, <1>7, <1>8, <1>9, <1>10, AskedLog

(* A round goes on, is won or is lost.                                     *)
LEMMA QuorumStepLog ==
  ASSUME LInv, VInv', NEW n \in Nodes, NEW r \in rounds[n], NEW m \in r.wait,
         NEW q \in QuorumRecords, NEW ch \in Channels,
         Counted(votes, n, r.id, q, r.wait \ {m}),
         Tallied(votes, HistIds, n, r.id, q, r.wait \ {m}),
         QuorumStep(n, r, m, q, ch), UNCHANGED <<ccid, skipped_ids, links, log>>,
         \A a, b \in Nodes : Entries(ch[<<a, b>>]) \subseteq Entries(chan[<<a, b>>]),
         \A a, b \in Nodes : \A x \in Entries(chan[<<a, b>>]) :
           x \in Entries(ch[<<a, b>>]) \/ x.tp = "res",
         \A a, b \in Nodes : Ahead(ch[<<a, b>>], next_change_id[b])
  PROVE  LogInv'
<1>1. /\ HInv /\ IInv /\ LinksAll /\ Elections
  BY LParts DEF VoteInv
<1>2. /\ queue \in [Nodes -> Seq(QueueEntry)] /\ rounds \in [Nodes -> SUBSET Round]
      /\ queue[n] \in Seq(QueueEntry) /\ Sorted(queue[n]) /\ r \in Round
      /\ Placed(n, log[n], Entries(queue[n]), rounds[n])
  BY <1>1, NodeFacts DEF IInv, TypeOK
<1>3. /\ r.wait \subseteq Others(n)
      /\ \A c \in Entries(queue[n]) : c.tp = "master" /\ c.op = r.op => c.id = r.id
  BY <1>1 DEF Elections, Electing
<1>4. ASSUME UNCHANGED <<votes, next_change_id>>, chan' = ch,
             \A y \in Nodes, id \in Nat : Standing(y, id)' => Standing(y, id),
             \A y \in Nodes, id \in Nat : Standing(y, id) => Standing(y, id)',
             \A k \in Nodes : \A s \in rounds'[k] :
               s \in rounds[k] \/ Tallied(votes, HistIds, k, s.id, s.q, s.wait),
             \A k \in Nodes : \A c \in Entries(queue[k]) : c.tp = "cpkg" =>
               \E d \in Entries(queue'[k]) : d.tp = "cpkg" /\ d.id = c.id
      PROVE  LogInv'
  <2>1. \A a, b \in Nodes : \A x \in Entries(chan'[<<a, b>>]) : x \in Entries(chan[<<a, b>>])
    BY <1>4
  <2>2. \A a, b \in Nodes : \A x \in Entries(chan[<<a, b>>]) :
          x.tp # "res" => x \in Entries(chan'[<<a, b>>])
    BY <1>4
  <2>3. \A a, b \in Nodes : Ahead(chan'[<<a, b>>], next_change_id[b])
    BY <1>4
  <2>4. \A h, k \in Nodes : \A e \in log[h] :
          Home[e.op] = h /\ Reaching(h, k, e.id) => Reaching(h, k, e.id)' \/ e.id <= ccid[k]
    <3> SUFFICES ASSUME NEW h \in Nodes, NEW k \in Nodes, NEW id, Reaching(h, k, id)
                 PROVE  Reaching(h, k, id)'
      OBVIOUS
    <3>1. \A x \in Entries(chan[<<h, k>>]) : x.tp = "cpkg" => x \in Entries(chan'[<<h, k>>])
      BY <2>2
    <3>2. \A c \in Entries(queue[k]) : c.tp = "cpkg" =>
            \E d \in Entries(queue'[k]) : d.tp = "cpkg" /\ d.id = c.id
      BY <1>4
    <3>. QED BY <3>1, <3>2, ReachingKept
  <2>. QED BY <1>4, <2>1, <2>2, <2>3, <2>4, QuietLog
<1>5. CASE QuorumGo(q) = "none"
  <2> DEFINE t == [r EXCEPT !.q = q, !.wait = @ \ {m}]
  <2>1. /\ rounds' = [rounds EXCEPT ![n] = (@ \ {r}) \cup {t}]
        /\ chan' = ch /\ UNCHANGED <<next_change_id, queue, reply, votes>>
    BY <1>5 DEF QuorumStep
  <2>2. t.id = r.id /\ t.q = q /\ t.wait = r.wait \ {m}
    BY <1>2 DEF Round
  <2> HIDE DEF t
  <2>3. ASSUME NEW k \in Nodes, NEW s \in rounds'[k]
        PROVE  s \in rounds[k] \/ Tallied(votes, HistIds, k, s.id, s.q, s.wait)
    <3>1. CASE k = n
      <4>1. rounds'[n] = (rounds[n] \ {r}) \cup {t}
        BY <1>2, <2>1
      <4>2. s \in rounds[n] \/ s = t
        BY <2>3, <3>1, <4>1
      <4>. QED BY <2>2, <3>1, <4>2
    <3>2. CASE k # n
      BY <1>2, <2>1, <2>3, <3>2
    <3>. QED BY <3>1, <3>2
  <2>4. \A y \in Nodes, id \in Nat : Standing(y, id)' <=> Standing(y, id)
    BY <2>1 DEF Standing
  <2>. QED BY <1>4, <2>1, <2>3, <2>4
<1>6. CASE QuorumGo(q) = "win"
  <2>1. OnWin(n, r, ch)
    BY <1>6 DEF QuorumStep
  <2> DEFINE t == [i \in DOMAIN queue[n] |-> IF i \in MasterAt(queue[n], r.op)
                     THEN [queue[n][i] EXCEPT !.ready = TRUE] ELSE queue[n][i]]
  <2>2. /\ rounds' = [rounds EXCEPT ![n] = @ \ {r}] /\ queue' = [queue EXCEPT ![n] = t]
        /\ chan' = ch /\ UNCHANGED <<next_change_id, votes>>
    BY <2>1 DEF OnWin
  <2>3. Entries(t) = {Readied(c, r.op) : c \in Entries(queue[n])}
    BY <1>2, ReadyFacts
  <2> HIDE DEF t
  <2>4. /\ queue'[n] = t /\ \A k \in Nodes \ {n} : queue'[k] = queue[k]
        /\ \A k \in Nodes : rounds'[k] \subseteq rounds[k]
    BY <1>2, <2>2
  <2>5. \A c \in Entries(queue[n]) : Readied(c, r.op).tp = c.tp /\ Readied(c, r.op).id = c.id
    BY <1>1, NodeFacts DEF Readied, QueueEntry
  <2>6. \A c \in Entries(queue'[n]) : \E d \in Entries(queue[n]) : d.tp = c.tp /\ d.id = c.id
    BY <2>3, <2>4, <2>5
  <2>7. \A c \in Entries(queue[n]) : \E d \in Entries(queue'[n]) : d.tp = c.tp /\ d.id = c.id
    BY <2>3, <2>4, <2>5
  <2>8. \A y \in Nodes, id \in Nat : Standing(y, id)' => Standing(y, id)
    BY <2>4, <2>6, StandingSame
  <2>9. \A k \in Nodes : \A c \in Entries(queue[k]) :
          \E d \in Entries(queue'[k]) : d.tp = c.tp /\ d.id = c.id
    <3> SUFFICES ASSUME NEW k \in Nodes, NEW c \in Entries(queue[k])
                 PROVE  \E d \in Entries(queue'[k]) : d.tp = c.tp /\ d.id = c.id
      OBVIOUS
    <3>1. CASE k = n
      BY <2>7, <3>1
    <3>2. CASE k # n
      BY <2>4, <3>2
    <3>. QED BY <3>1, <3>2
  <2>10. \A y \in Nodes, id \in Nat : Standing(y, id) => Standing(y, id)'
    <3> SUFFICES ASSUME NEW y \in Nodes, NEW id \in Nat, Standing(y, id) PROVE Standing(y, id)'
      OBVIOUS
    <3>1. PICK c \in Entries(queue[y]) : c.tp = "master" /\ c.id = id
      BY DEF Standing
    <3>2. \E d \in Entries(queue'[y]) : d.tp = "master" /\ d.id = id
      BY <2>9, <3>1
    <3>. QED BY <3>2 DEF Standing
  <2>11. \A k \in Nodes : \A c \in Entries(queue[k]) : c.tp = "cpkg" =>
           \E d \in Entries(queue'[k]) : d.tp = "cpkg" /\ d.id = c.id
    BY <2>9
  <2>12. \A k \in Nodes : \A s \in rounds'[k] :
           s \in rounds[k] \/ Tallied(votes, HistIds, k, s.id, s.q, s.wait)
    BY <2>4
  <2>. QED BY <1>4, <2>2, <2>8, <2>10, <2>11, <2>12
<1>7. CASE QuorumGo(q) = "lose"
  <2> DEFINE rest == Without(queue[n], MasterAt(queue[n], r.op))
  <2>1. HasQuorum(n)
    BY <1>1, QuorumAlways
  <2>2. ReqChangeId(n, r.op, rest, ch, rounds[n] \ {r})
    BY <1>7, <2>1 DEF QuorumStep, OnLose
  <2>3. MasterAt(queue[n], r.op) \in SUBSET (1 .. Len(queue[n]))
    BY DEF MasterAt
  <2>4. rest \in Seq(QueueEntry) /\ Sorted(rest)
    BY <1>2, <2>3, WithoutType, WithoutFacts
  <2>5. Entries(rest) = {c \in Entries(queue[n]) : ~(c.tp = "master" /\ c.op = r.op)}
    BY <1>2, LostFacts DEF Placed
  <2> HIDE DEF rest
  <2>6. Settled(votes, HistIds, r.id)
    <3>1. r.wait \ {m} \in SUBSET Others(n)
      BY <1>3
    <3>. QED BY <1>7, <3>1, LoseSettled
  <2>7. \A c \in Entries(queue[n]) :
          c.tp = "master" /\ c.op = r.op => Settled(votes, HistIds, c.id)
    BY <1>3, <2>6
  <2>8. r.op \in Ops /\ rounds[n] \ {r} \in SUBSET rounds[n]
    BY <1>1, NodeFacts
  <2>. QED BY <2>2, <2>4, <2>5, <2>7, <2>8, AskedLog
<1>. QED BY <1>5, <1>6, <1>7 DEF QuorumStep

LEMMA OnResponseLog ==
  ASSUME LInv, VInv', NEW m \in Nodes, NEW n \in Nodes, OnResponse(m, n)
  PROVE  LogInv'
<1> DEFINE a == Head(chan[<<m, n>>])
           ch == Receive(m, n)
           mine == {r \in rounds[n] : r.id = a.id /\ m \in r.wait}
<1>1. /\ HInv /\ IInv /\ chan \in Channels /\ AllAhead /\ Refusals /\ Tally
      /\ Elections /\ TrueAnswers
  BY LParts DEF VoteInv
<1>2. /\ HeadIs(m, n, "res") /\ UNCHANGED <<ccid, skipped_ids, links, log>>
      /\ \/ \E r \in mine : QuorumStep(n, r, m, CountAnswer(r.q, a.answer, a.n, m < n), ch)
         \/ /\ chan' = ch
            /\ UNCHANGED <<next_change_id, queue, rounds, reply, votes>>
  BY DEF OnResponse
<1>3. ch \in Channels /\ a \in Message /\ a.tp = "res"
  BY <1>1, <1>2, ReceiveType
<1>4. a.answer \in {"accept", "reject", "collision"} /\ a.n \in Nat
  BY <1>3, MessageRead
<1>5. a \in Entries(chan[<<m, n>>])
  BY <1>1, <1>2, ReceiveEntries
<1>6. \A x, y \in Nodes : Entries(ch[<<x, y>>]) \subseteq Entries(chan[<<x, y>>])
  BY <1>1, <1>2, ReceivedWas
<1>7. \A x, y \in Nodes : \A z \in Entries(chan[<<x, y>>]) :
        z \in Entries(ch[<<x, y>>]) \/ z.tp = "res"
  <2> SUFFICES ASSUME NEW x \in Nodes, NEW y \in Nodes, NEW z \in Entries(chan[<<x, y>>])
               PROVE  z \in Entries(ch[<<x, y>>]) \/ z.tp = "res"
    OBVIOUS
  <2>1. z \in Entries(ch[<<x, y>>]) \/ z = a
    BY <1>1, <1>2, ReceiveEntries
  <2>. QED BY <1>3, <2>1
<1>8. \A x, y \in Nodes : Ahead(ch[<<x, y>>], next_change_id[y])
  <2>1. next_change_id \in [Nodes -> Nat] /\ \A k \in Nodes : next_change_id[k] <= next_change_id[k]
    BY <1>1 DEF IInv, TypeOK
  <2>2. "res" = "req" => Head(chan[<<m, n>>]).id < next_change_id[n]
    OBVIOUS
  <2>. QED BY <1>1, <1>2, <2>1, <2>2, ReceiveAhead
<1> HIDE DEF a, ch
<1>9. ASSUME NEW r \in mine, QuorumStep(n, r, m, CountAnswer(r.q, a.answer, a.n, m < n), ch)
      PROVE  LogInv'
  <2> DEFINE q == CountAnswer(r.q, a.answer, a.n, m < n)
  <2>1. r \in rounds[n] /\ r.id = a.id /\ m \in r.wait
    BY <1>9
  <2>2. /\ r.wait \in SUBSET Others(n) /\ Counted(votes, n, r.id, r.q, r.wait)
        /\ Tallied(votes, HistIds, n, r.id, r.q, r.wait)
    BY <1>1, <2>1 DEF Elections, Electing, Tally
  <2>3. r.q \in QuorumRecords
    <3>1. r \in Round
      BY <1>1, <2>1, NodeFacts
    <3>. QED BY <3>1 DEF Round
  <2>4. /\ a.answer = "accept" => Gave(votes, m, r.id, n)
        /\ a.answer = "collision" => Gave(votes, m, r.id, m) /\ a.n = NodeCount - 1
    BY <1>1, <1>3, <1>5, <2>1 DEF TrueAnswers, TrueAnswer
  <2>5. a.answer = "reject" => Refused(votes, HistIds, m, r.id)
    BY <1>1, <1>3, <1>5, <2>1 DEF Refusals
  <2>6. q \in QuorumRecords
    <3>1. a.answer \in Answers /\ a.n \in Nat /\ (m < n) \in BOOLEAN
      BY <1>4 DEF Answers
    <3>. QED BY <2>3, <3>1, CountAnswerType, Zenon
  <2>7. Counted(votes, n, r.id, q, r.wait \ {m})
    BY <1>4, <2>1, <2>2, <2>3, <2>4, AnswerCounted
  <2>8. Tallied(votes, HistIds, n, r.id, q, r.wait \ {m})
    BY <1>4, <2>1, <2>2, <2>3, <2>4, <2>5, AnswerTallied
  <2>9. QuorumStep(n, r, m, q, ch)
    BY <1>9
  <2> HIDE DEF q, mine
  <2>. QED BY <1>2, <1>3, <1>6, <1>7, <1>8, <2>1, <2>6, <2>7, <2>8, <2>9, QuorumStepLog
<1>10. ASSUME chan' = ch, UNCHANGED <<next_change_id, queue, rounds, votes>>
       PROVE  LogInv'
  <2>1. \A y \in Nodes, id \in Nat : Standing(y, id)' <=> Standing(y, id)
    BY <1>10 DEF Standing
  <2>2. \A h, k \in Nodes : \A e \in log[h] :
          Home[e.op] = h /\ Reaching(h, k, e.id) => Reaching(h, k, e.id)' \/ e.id <= ccid[k]
    <3> SUFFICES ASSUME NEW h \in Nodes, NEW k \in Nodes, NEW id, Reaching(h, k, id)
                 PROVE  Reaching(h, k, id)'
      OBVIOUS
    <3>1. \A x \in Entries(chan[<<h, k>>]) : x.tp = "cpkg" => x \in Entries(chan'[<<h, k>>])
      BY <1>7, <1>10
    <3>2. \A c \in Entries(queue[k]) : c.tp = "cpkg" =>
            \E d \in Entries(queue'[k]) : d.tp = "cpkg" /\ d.id = c.id
      BY <1>10
    <3>. QED BY <3>1, <3>2, ReachingKept
  <2>3. /\ \A x, y \in Nodes : \A z \in Entries(chan'[<<x, y>>]) : z \in Entries(chan[<<x, y>>])
        /\ \A x, y \in Nodes : \A z \in Entries(chan[<<x, y>>]) :
             z.tp = "req" => z \in Entries(chan'[<<x, y>>])
        /\ \A x, y \in Nodes : Ahead(chan'[<<x, y>>], next_change_id[y])
        /\ \A k \in Nodes : \A r \in rounds'[k] : r \in rounds[k]
    BY <1>6, <1>7, <1>8, <1>10
  <2>. QED BY <1>2, <1>10, <2>1, <2>2, <2>3, QuietLog
<1>. QED BY <1>2, <1>9, <1>10

(* What becomes of the ids below the next id when an id is asked for.      *)
LEMMA AcceptIdSteps ==
  ASSUME IInv, NEW n \in Nodes, NEW id \in Nat
  PROVE  /\ id < AcceptId(n, id).next
         /\ \A i \in Nat : i < next_change_id[n] /\ i \in skipped_ids[n] =>
              \/ i <= ccid[n] \/ i \in AcceptId(n, id).skipped
              \/ i = id /\ AcceptId(n, id).answer = "accept"
         /\ \A i \in Nat : ~(i < next_change_id[n]) /\ i < AcceptId(n, id).next =>
              \/ i < id /\ i \in AcceptId(n, id).skipped
              \/ i = id /\ AcceptId(n, id).answer = "accept"
<1> DEFINE next == next_change_id[n]
           queued == IdAt(queue[n], id)
           open == {i \in skipped_ids[n] : i > ccid[n]}
           r == AcceptId(n, id)
<1>1. next \in Nat /\ skipped_ids[n] \in SUBSET Nat /\ ccid[n] \in Nat
  BY DEF IInv, TypeOK
<1>2. CASE id >= next
  <2>1. r = [answer |-> "accept", n |-> 0, next |-> id + 1,
             skipped |-> skipped_ids[n] \cup (next .. id - 1)]
    BY <1>1, <1>2 DEF AcceptId
  <2>2. /\ r.answer = "accept" /\ r.next = id + 1
        /\ r.skipped = skipped_ids[n] \cup (next .. id - 1)
    BY <2>1
  <2> HIDE DEF r, next
  <2>3. \A i \in Nat : ~(i < next) /\ i < id + 1 => i = id \/ (i < id /\ i \in next .. id - 1)
    BY <1>1
  <2>4. id < id + 1
    OBVIOUS
  <2>. QED BY <2>2, <2>3, <2>4 DEF r, next
<1>3. CASE id < next /\ queued # {}
  <2>1. r.next = next /\ r.skipped = skipped_ids[n]
    BY <1>1, <1>3 DEF AcceptId
  <2> HIDE DEF r, next
  <2>. QED BY <1>3, <2>1 DEF r, next
<1>4. CASE id < next /\ queued = {}
  <2>1. r = [answer |-> IF id \in open THEN "accept" ELSE "reject",
             n |-> 0, next |-> next, skipped |-> open \ {id}]
    BY <1>1, <1>4 DEF AcceptId
  <2>2. r.next = next /\ r.skipped = open \ {id} /\ (id \in open => r.answer = "accept")
    BY <2>1
  <2>3. \A i \in Nat : i \in skipped_ids[n] => i <= ccid[n] \/ i \in open
    BY <1>1
  <2> HIDE DEF r, next, open
  <2>. QED BY <1>4, <2>2, <2>3 DEF r, next
<1>. QED BY <1>1, <1>2, <1>3, <1>4

LEMMA OnReqChangeIdLog ==
  ASSUME LInv, VInv', NEW m \in Nodes, NEW n \in Nodes, OnReqChangeId(m, n)
  PROVE  LogInv'
<1> DEFINE id == Head(chan[<<m, n>>]).id
           r == AcceptId(n, id)
           res == [tp |-> "res", id |-> id, answer |-> r.answer, n |-> r.n]
           ch == Receive(m, n)
<1>1. /\ VInv /\ HInv /\ IInv /\ chan \in Channels /\ HeadIs(m, n, "req")
      /\ VoteIds /\ Questions /\ AllAhead /\ AskAhead /\ Refusals
      /\ Tally /\ Lost /\ Passed /\ Complete /\ Delivered
  BY LParts DEF OnReqChangeId
<1>2. ch \in Channels /\ id \in Nat /\ Head(chan[<<m, n>>]).tp = "req"
  BY <1>1, ReceiveType, MessageRead
<1>3. /\ next_change_id' = [next_change_id EXCEPT ![n] = r.next]
      /\ skipped_ids' = [skipped_ids EXCEPT ![n] = r.skipped]
      /\ chan' = Send(ch, n, {m}, res)
      /\ votes' = IF r.answer = "accept"
                  THEN [votes EXCEPT ![n] = @ \cup {[id |-> id, for |-> m]}]
                  ELSE votes
      /\ UNCHANGED <<ccid, queue, rounds, links, log>>
  BY DEF OnReqChangeId
<1>4. Gave(votes, m, id, m)
  <2>1. Head(chan[<<m, n>>]) \in Entries(chan[<<m, n>>])
    BY <1>1, ReceiveEntries
  <2>. QED BY <1>1, <1>2, <2>1 DEF Questions
<1>5. id \in 2 .. MaxId /\ id < next_change_id[m]
  BY <1>1, <1>4, GaveAsked, GaveBelow
<1>6. \A x, y \in Nodes : Entries(ch[<<x, y>>]) \subseteq Entries(chan[<<x, y>>])
  BY <1>1, ReceivedWas
<1>7. \A x, y \in Nodes : \A z \in Entries(chan[<<x, y>>]) :
        z \in Entries(ch[<<x, y>>]) \/ (y = n /\ z.tp = "req" /\ z.id = id)
  <2> SUFFICES ASSUME NEW x \in Nodes, NEW y \in Nodes, NEW z \in Entries(chan[<<x, y>>])
               PROVE  z \in Entries(ch[<<x, y>>]) \/ (y = n /\ z.tp = "req" /\ z.id = id)
    OBVIOUS
  <2>1. z \in Entries(ch[<<x, y>>]) \/ (x = m /\ y = n /\ z = Head(chan[<<m, n>>]))
    BY <1>1, ReceiveEntries
  <2>. QED BY <1>2, <2>1
<1>8. /\ r.answer \in {"accept", "reject", "collision"} /\ r.n \in Nat
      /\ r.next \in Nat /\ next_change_id[n] <= r.next
  BY <1>1, <1>2, AcceptIdFacts
<1>9. /\ id < r.next
      /\ \A i \in Nat : i < next_change_id[n] /\ i \in skipped_ids[n] =>
           i <= ccid[n] \/ i \in r.skipped \/ (i = id /\ r.answer = "accept")
      /\ \A i \in Nat : ~(i < next_change_id[n]) /\ i < r.next =>
           (i < id /\ i \in r.skipped) \/ (i = id /\ r.answer = "accept")
  BY <1>1, <1>2, AcceptIdSteps
<1>10. r.answer = "reject" => Refused(votes, HistIds, n, id)
  BY <1>2, <1>4, RejectRefused
<1>11. /\ res \in Message /\ res.tp = "res" /\ res.id = id /\ res.answer = r.answer
  BY <1>2, <1>8, MessageMade
<1> HIDE DEF r, res
<1>12. /\ \A k \in Nodes : next_change_id[k] \in Nat
       /\ next_change_id' \in [Nodes -> Nat]
       /\ \A k \in Nodes : next_change_id[k] <= next_change_id'[k]
       /\ next_change_id'[n] = r.next
       /\ \A k \in Nodes \ {n} : next_change_id'[k] = next_change_id[k]
  <2>1. next_change_id \in [Nodes -> Nat]
    BY <1>1 DEF IInv, TypeOK
  <2>. QED BY <1>3, <1>8, <2>1
<1>13. \A x, y \in Nodes : Ahead(ch[<<x, y>>], next_change_id'[y])
  <2>1. "req" = "req" => Head(chan[<<m, n>>]).id < next_change_id'[n]
    BY <1>9, <1>12
  <2> HIDE DEF id, ch
  <2>2. \A x, y \in Nodes : Ahead(Receive(m, n)[<<x, y>>], next_change_id'[y])
    BY <1>1, <1>12, <2>1, ReceiveAhead, Zenon
  <2>. QED BY <2>2 DEF ch
<1> HIDE DEF id, ch
<1>14. /\ \A k \in Nodes \ {n} : votes'[k] = votes[k] /\ skipped_ids'[k] = skipped_ids[k]
       /\ skipped_ids'[n] = r.skipped
       /\ \A v \in votes'[n] : v \in votes[n] \/ v = [id |-> id, for |-> m]
       /\ Grows(votes, votes')
       /\ r.answer = "accept" => Gave(votes', n, id, m)
  <2>1. /\ votes \in [Nodes -> SUBSET [id: Nat, for: Nodes]]
        /\ skipped_ids \in [Nodes -> SUBSET Nat]
    BY <1>1 DEF IInv, TypeOK
  <2>2. CASE r.answer = "accept"
    BY <1>3, <2>1, <2>2 DEF Grows, Gave
  <2>3. CASE r.answer # "accept"
    BY <1>3, <2>1, <2>3 DEF Grows
  <2>. QED BY <2>2, <2>3
<1>15. More /\ HistIds' = HistIds
  BY <1>3, <1>14, SameHistory
<1>16. \A x, y \in Nodes : \A z \in Entries(chan'[<<x, y>>]) :
         z \in Entries(ch[<<x, y>>]) \/ (z = res /\ x = n /\ y \in {m})
  <2> SUFFICES ASSUME NEW x \in Nodes, NEW y \in Nodes
               PROVE  \A z \in Entries(chan'[<<x, y>>]) :
                        z \in Entries(ch[<<x, y>>]) \/ (z = res /\ x = n /\ y \in {m})
    OBVIOUS
  <2>1. \A z \in Entries(Send(ch, n, {m}, res)[<<x, y>>]) :
          z \in Entries(ch[<<x, y>>]) \/ (z = res /\ x = n /\ y \in {m})
    BY <1>2, <1>11, SendEntries, Zenon
  <2>. QED BY <1>3, <2>1
<1>17. \A x, y \in Nodes : Entries(ch[<<x, y>>]) \subseteq Entries(chan'[<<x, y>>])
  BY <1>2, <1>3, <1>11, SendKeeps
<1>18. \A y \in Nodes, i \in Nat : Standing(y, i)' <=> Standing(y, i)
  BY <1>3 DEF Standing
<1>19. VoteIds'
  <2> SUFFICES ASSUME NEW k \in Nodes
               PROVE  /\ \A v \in votes'[k] : v.id \in 2 .. MaxId /\ Gave(votes', v.for, v.id, v.for)
                      /\ \A i \in 2 .. next_change_id'[k] - 1 :
                           /\ \E x \in Nodes : Gave(votes', x, i, x)
                           /\ i <= ccid'[k] \/ i \in skipped_ids'[k] \/ Voted(votes', k, i)
    BY DEF VoteIds
  <2>1. ASSUME NEW v \in votes'[k] PROVE v.id \in 2 .. MaxId /\ Gave(votes', v.for, v.id, v.for)
    <3>1. CASE v \in votes[k]
      <4>1. v.id \in 2 .. MaxId /\ Gave(votes, v.for, v.id, v.for)
        BY <1>1, <3>1 DEF VoteIds
      <4>2. v.for \in Nodes
        <5>1. votes[k] \in SUBSET [id: Nat, for: Nodes]
          BY <1>1 DEF IInv, TypeOK
        <5>. QED BY <3>1, <5>1
      <4>3. Gave(votes', v.for, v.id, v.for)
        BY <1>14, <4>1, <4>2 DEF Grows, Gave
      <4>. QED BY <4>1, <4>3
    <3>2. CASE v = [id |-> id, for |-> m]
      <4>1. v.id = id /\ v.for = m
        BY <3>2
      <4>2. Gave(votes', m, id, m)
        BY <1>4, <1>14 DEF Grows, Gave
      <4>. QED BY <1>5, <4>1, <4>2
    <3>. QED BY <1>14, <3>1, <3>2
  <2>2. ASSUME NEW i \in 2 .. next_change_id'[k] - 1
        PROVE  /\ \E x \in Nodes : Gave(votes', x, i, x)
               /\ i <= ccid'[k] \/ i \in skipped_ids'[k] \/ Voted(votes', k, i)
    <3>1. i \in Nat /\ i >= 2 /\ i < next_change_id'[k] /\ ccid'[k] = ccid[k]
      BY <1>3, <1>12
    <3>2. r.answer = "accept" => Voted(votes', n, id)
      BY <1>14 DEF Voted
    <3>3. \A x \in Nodes : Gave(votes, x, i, x) => Gave(votes', x, i, x)
      BY <1>14 DEF Grows, Gave
    <3>4. CASE i < next_change_id[k]
      <4>1. i \in 2 .. next_change_id[k] - 1
        BY <1>12, <3>1, <3>4
      <4>2. /\ \E x \in Nodes : Gave(votes, x, i, x)
            /\ i <= ccid[k] \/ i \in skipped_ids[k] \/ Voted(votes, k, i)
        BY <1>1, <4>1 DEF VoteIds
      <4>3. Voted(votes, k, i) => Voted(votes', k, i)
        BY <1>15, VotedStays
      <4>4. CASE k = n
        BY <1>9, <1>14, <3>1, <3>2, <3>3, <3>4, <4>2, <4>3, <4>4
      <4>5. CASE k # n
        BY <1>14, <3>1, <3>3, <4>2, <4>3, <4>5
      <4>. QED BY <4>4, <4>5
    <3>5. CASE ~(i < next_change_id[k])
      <4>1. k = n
        BY <1>12, <3>1, <3>5
      <4>2. (i < id /\ i \in r.skipped) \/ (i = id /\ r.answer = "accept")
        BY <1>9, <1>12, <3>1, <3>5, <4>1
      <4>3. i \in 2 .. next_change_id[m] - 1
        BY <1>5, <1>12, <3>1, <4>2
      <4>4. \E x \in Nodes : Gave(votes, x, i, x)
        BY <1>1, <4>3 DEF VoteIds
      <4>. QED BY <1>14, <3>2, <3>3, <4>1, <4>2, <4>4
    <3>. QED BY <3>4, <3>5
  <2>. QED BY <2>1, <2>2
<1>20. Questions'
  <2>1. \A a, b \in Nodes : \A x \in Entries(chan'[<<a, b>>]) :
          \/ x \in Entries(chan[<<a, b>>])
          \/ /\ x.tp = "req" => Gave(votes', a, x.id, a)
             /\ x.tp = "missing" => x.id < next_change_id'[a]
    BY <1>6, <1>11, <1>16
  <2>. QED BY <1>1, <1>12, <1>15, <2>1, QuestionsKept
<1>21. AllAhead'
  <2> SUFFICES ASSUME NEW a \in Nodes, NEW b \in Nodes
               PROVE  Ahead(chan'[<<a, b>>], next_change_id'[b])
    BY DEF AllAhead
  <2>1. Ahead(ch[<<a, b>>], next_change_id'[b]) /\ ~(res.tp = "cpkg")
    BY <1>11, <1>13
  <2>2. Ahead(Send(ch, n, {m}, res)[<<a, b>>], next_change_id'[b])
    BY <1>2, <1>11, <2>1, SendAhead
  <2>. QED BY <1>3, <2>2
<1>22. AskAhead'
  <2>1. \A a, b \in Nodes, i \in Nat :
          [tp |-> "req", id |-> i] \in Entries(chan[<<a, b>>]) =>
            [tp |-> "req", id |-> i] \in Entries(chan'[<<a, b>>]) \/ i < next_change_id'[b]
    <3> SUFFICES ASSUME NEW a \in Nodes, NEW b \in Nodes, NEW i \in Nat,
                        [tp |-> "req", id |-> i] \in Entries(chan[<<a, b>>])
                 PROVE  [tp |-> "req", id |-> i] \in Entries(chan'[<<a, b>>]) \/ i < next_change_id'[b]
      OBVIOUS
    <3> DEFINE z == [tp |-> "req", id |-> i]
    <3>1. z.id = i /\ z \in Entries(chan[<<a, b>>])
      OBVIOUS
    <3> HIDE DEF z
    <3>2. z \in Entries(ch[<<a, b>>]) \/ (b = n /\ i = id)
      BY <1>7, <3>1
    <3>3. z \in Entries(ch[<<a, b>>]) => z \in Entries(chan'[<<a, b>>])
      BY <1>17
    <3>. QED BY <1>9, <1>12, <3>2, <3>3 DEF z
  <2>. QED BY <1>1, <1>12, <1>18, <2>1, AskAheadKept
<1>23. Refusals'
  <2>1. r.answer = "reject" => Refused(votes', HistIds', n, id)
    BY <1>10, <1>15, RefusedStays
  <2>2. \A a, b \in Nodes : \A x \in Entries(chan'[<<a, b>>]) :
          \/ x \in Entries(chan[<<a, b>>])
          \/ x.tp = "res" /\ x.answer = "reject" => Refused(votes', HistIds', a, x.id)
    BY <1>6, <1>11, <1>16, <2>1
  <2>. QED BY <1>1, <1>15, <2>2, RefusalsKept
<1>24. Tally'
  BY <1>1, <1>3, <1>15, TallyKept
<1>25. Lost'
  <2>1. \A x \in Nodes, i \in Nat :
          Gave(votes', x, i, x) => Gave(votes, x, i, x) \/ Standing(x, i)'
    <3> SUFFICES ASSUME NEW x \in Nodes, NEW i \in Nat, Gave(votes', x, i, x), ~Gave(votes, x, i, x)
                 PROVE  FALSE
      OBVIOUS
    <3>1. x = n /\ [id |-> i, for |-> x] = [id |-> id, for |-> m]
      BY <1>14 DEF Gave
    <3>2. x = m /\ i = id
      BY <3>1
    <3>. QED BY <1>4, <3>2
  <2>. QED BY <1>1, <1>15, <1>18, <2>1, LostKept
<1>26. Passed'
  <2>1. IInv'
    BY DEF VInv, HInv, OInv
  <2>. QED BY <1>1, <1>3, <1>15, <1>18, <2>1, PassedStays
<1>27. Complete'
  BY <1>1, <1>3, CompleteKept
<1>28. Delivered'
  <2>1. ASSUME NEW h \in Nodes, NEW k \in Nodes, NEW i, Reaching(h, k, i)
        PROVE  Reaching(h, k, i)'
    <3>1. \A d \in Entries(queue[k]) : d.tp = "cpkg" =>
            \E e \in Entries(queue'[k]) : e.tp = "cpkg" /\ e.id = d.id
      BY <1>3
    <3>2. \A x \in Entries(chan[<<h, k>>]) : x.tp = "cpkg" => x \in Entries(chan'[<<h, k>>])
      BY <1>7, <1>17
    <3>. QED BY <2>1, <3>1, <3>2, ReachingKept
  <2>. QED BY <1>1, <1>3, <2>1, DeliveredKept
<1>. QED BY <1>19, <1>20, <1>21, <1>22, <1>23, <1>24, <1>25, <1>26, <1>27, <1>28 DEF LogInv

LEMMA AddChangeLog ==
  ASSUME LInv, VInv', NEW m \in Nodes, NEW n \in Nodes, AddChange(m, n)
  PROVE  LogInv'
<1> DEFINE c == Head(chan[<<m, n>>])
           at == IdAt(queue[n], c.id)
           e == [id |-> c.id, op |-> c.op, tp |-> "cpkg", ready |-> TRUE,
                 requests |-> 0]
           rest == Without(queue[n], at)
           fresh == c.id > ccid[n]
           taken == \E i \in at : queue[n][i].ready
<1>1. /\ VInv /\ HInv /\ IInv /\ TypeOK /\ chan \in Channels /\ AllAhead /\ HeadIs(m, n, "cpkg")
      /\ OneChangePerId
  BY LParts, VotesSeen DEF AddChange, IInv
<1>2. c \in Message /\ c.id \in Nat /\ c.op \in Ops /\ c.tp = "cpkg"
  BY <1>1, ReceiveType, MessageRead
<1>3. AsApplied(c) \in log[Home[c.op]]
  BY <1>1, ReceivePackages DEF HInv, HomeInv, FromHome
<1>4. c.id \in HistIds /\ AsApplied(c) \in Claims
  <2>1. Home[c.op] \in Nodes
    BY <1>2, HomeAssumption
  <2>2. AsApplied(c) \in History /\ AsApplied(c).id = c.id
    BY <1>3, <2>1 DEF History, AsApplied
  <2>3. c.id \in HistIds
    BY <2>2 DEF HistIds
  <2>. QED BY <2>2, <2>3, ClaimApplied
<1>5. next_change_id \in [Nodes -> Nat] /\ ccid[n] \in Nat /\ c.id < next_change_id[n]
  <2>1. next_change_id \in [Nodes -> Nat] /\ ccid[n] \in Nat
    BY <1>1 DEF TypeOK
  <2> DEFINE s == chan[<<m, n>>]
  <2>2. s \in Seq(Message) /\ s # <<>> /\ Ahead(s, next_change_id[n])
    BY <1>1 DEF Channels, HeadIs, AllAhead
  <2>3. Len(s) \in Nat /\ Len(s) >= 1 /\ c = s[1]
    <3>1. s \in Seq(Message) /\ s # <<>>
      BY <2>2
    <3> HIDE DEF s
    <3>2. Len(s) \in Nat /\ Len(s) >= 1 /\ Head(s) = s[1]
      BY <3>1, LenProperties, EmptySeq, HeadTailProperties
    <3>. QED BY <3>2 DEF s
  <2>4. 1 \in 1 .. Len(s) /\ 1 .. 1 - 1 = {}
    BY <2>3
  <2>5. c.id < next_change_id[n]
    <3> HIDE DEF s, c
    <3>1. s[1].tp = "cpkg" => s[1].id < next_change_id[n]
      BY <2>2, <2>4 DEF Ahead
    <3>. QED BY <1>2, <2>3, <3>1
  <2>. QED BY <2>1, <2>5
<1>6. /\ chan' = Receive(m, n)
      /\ queue' = [queue EXCEPT ![n] = IF fresh /\ ~taken THEN Push(rest, e) ELSE @]
      /\ next_change_id' = [next_change_id EXCEPT ![n] =
                              IF fresh /\ c.id >= @ THEN c.id + 1 ELSE @]
      /\ UNCHANGED <<ccid, skipped_ids, rounds, links, log, votes>>
  BY DEF AddChange
<1>7. next_change_id' = next_change_id
  <2>1. ~(c.id >= next_change_id[n])
    BY <1>2, <1>5
  <2>. QED BY <1>5, <1>6, <2>1
<1>8. queue[n] \in Seq(QueueEntry) /\ Sorted(queue[n])
  BY <1>1, NodeFacts
<1>9. rest \in Seq(QueueEntry)
  BY <1>8, WithoutType DEF IdAt
<1>10. Sorted(rest) /\ Entries(rest) = {d \in Entries(queue[n]) : d.id # c.id}
  BY <1>8, IdGone
<1>11. e \in QueueEntry /\ e.id = c.id /\ e.tp = "cpkg" /\ e.op = c.op
  BY <1>2 DEF QueueEntry
<1>12. ASSUME fresh, taken
       PROVE  \E d \in Entries(queue[n]) : d.tp = "cpkg" /\ d.id = c.id
  <2>1. PICK d \in Entries(queue[n]) : d.id = c.id /\ d.ready
    BY <1>12 DEF IdAt, Entries
  <2>2. CASE d.tp = "master"
    <3>1. AsApplied(d) \in Claims
      BY <2>1, ClaimReady
    <3>2. /\ AsApplied(d).id = d.id /\ AsApplied(d).op = d.op
          /\ AsApplied(c).id = c.id /\ AsApplied(c).op = c.op
      BY DEF AsApplied
    <3>3. d.op = c.op
      BY <1>1, <1>4, <2>1, <3>1, <3>2 DEF OneChangePerId
    <3>4. Home[d.op] = n /\ Placed(n, log[n], Entries(queue[n]), rounds[n])
      BY <1>1, <2>1, <2>2, NodeFacts
    <3>5. AsApplied(c) \in log[n] /\ Home[AsApplied(c).op] = n
      BY <1>3, <3>2, <3>3, <3>4
    <3>. QED BY <2>1, <2>2, <3>2, <3>3, <3>4, <3>5 DEF Placed
  <2>3. d.tp \in {"master", "cpkg"}
    BY <1>1, <2>1, NodeFacts
  <2>. QED BY <2>1, <2>2, <2>3
<1>13. \A x, y \in Nodes : Entries(chan'[<<x, y>>]) \subseteq Entries(chan[<<x, y>>])
  <2>1. \A x, y \in Nodes : Entries(Receive(m, n)[<<x, y>>]) \subseteq Entries(chan[<<x, y>>])
    BY <1>1, ReceivedWas
  <2>. QED BY <1>6, <2>1
<1>14. \A x, y \in Nodes : \A z \in Entries(chan[<<x, y>>]) :
         z \in Entries(chan'[<<x, y>>]) \/ (y = n /\ z = c)
  <2> SUFFICES ASSUME NEW x \in Nodes, NEW y \in Nodes, NEW z \in Entries(chan[<<x, y>>])
               PROVE  z \in Entries(chan'[<<x, y>>]) \/ (y = n /\ z = c)
    OBVIOUS
  <2>1. z \in Entries(Receive(m, n)[<<x, y>>]) \/ (x = m /\ y = n /\ z = c)
    BY <1>1, ReceiveEntries
  <2>. QED BY <1>6, <2>1
<1>15. \A x, y \in Nodes : Ahead(chan'[<<x, y>>], next_change_id[y])
  <2>1. \A k \in Nodes : next_change_id[k] <= next_change_id[k]
    BY <1>5
  <2>2. "cpkg" = "req" => Head(chan[<<m, n>>]).id < next_change_id[n]
    OBVIOUS
  <2>3. \A x, y \in Nodes : Ahead(Receive(m, n)[<<x, y>>], next_change_id[y])
    BY <1>1, <1>5, <2>1, <2>2, ReceiveAhead
  <2>. QED BY <1>6, <2>3
<1> HIDE DEF c, at, e, rest, taken
<1>16. Entries(Push(rest, e)) = Entries(rest) \cup {e}
  BY <1>9, <1>10, <1>11, PushFacts
<1>17. /\ queue'[n] = IF fresh /\ ~taken THEN Push(rest, e) ELSE queue[n]
       /\ \A k \in Nodes \ {n} : queue'[k] = queue[k]
  BY <1>1, <1>6 DEF TypeOK
<1>18. \A y \in Nodes, id \in Nat : Standing(y, id)' => Standing(y, id)
  <2>1. \A d \in Entries(queue'[n]) : d.tp = "master" => d \in Entries(queue[n])
    BY <1>10, <1>11, <1>16, <1>17
  <2>. QED BY <1>17, <2>1, StandingSame
<1>19. \A y \in Nodes, id \in Nat :
         Standing(y, id) => Standing(y, id)' \/ Settled(votes, HistIds, id)
  <2> SUFFICES ASSUME NEW y \in Nodes, NEW id \in Nat, Standing(y, id), ~Standing(y, id)'
               PROVE  Settled(votes, HistIds, id)
    OBVIOUS
  <2>1. PICK d \in Entries(queue[y]) : d.tp = "master" /\ d.id = id
    BY DEF Standing
  <2>2. d \notin Entries(queue'[y])
    BY <2>1 DEF Standing
  <2>3. d.id = c.id
    BY <1>10, <1>16, <1>17, <2>1, <2>2
  <2>. QED BY <1>4, <2>1, <2>3 DEF Settled
<1>20. ASSUME NEW h \in Nodes, NEW k \in Nodes, NEW id, Reaching(h, k, id)
       PROVE  Reaching(h, k, id)' \/ id <= ccid[k]
  <2>1. \A d \in Entries(queue[k]) : d.tp = "cpkg" =>
          \E b \in Entries(queue'[k]) : b.tp = "cpkg" /\ b.id = d.id
    <3> SUFFICES ASSUME NEW d \in Entries(queue[k]), d.tp = "cpkg"
                 PROVE  \E b \in Entries(queue'[k]) : b.tp = "cpkg" /\ b.id = d.id
      OBVIOUS
    <3>1. CASE d \in Entries(queue'[k])
      BY <3>1
    <3>2. CASE d \notin Entries(queue'[k])
      <4>1. k = n /\ d.id = c.id /\ e \in Entries(queue'[n])
        BY <1>10, <1>16, <1>17, <3>2
      <4>. QED BY <1>11, <4>1
    <3>. QED BY <3>1, <3>2
  <2>2. CASE \E d \in Entries(queue[k]) : d.tp = "cpkg" /\ d.id = id
    <3>1. \E b \in Entries(queue'[k]) : b.tp = "cpkg" /\ b.id = id
      BY <2>1, <2>2
    <3>. QED BY <3>1 DEF Reaching
  <2>3. CASE \E x \in Entries(chan[<<h, k>>]) : x.tp = "cpkg" /\ x.id = id
    <3>1. PICK x \in Entries(chan[<<h, k>>]) : x.tp = "cpkg" /\ x.id = id
      BY <2>3
    <3>2. CASE x \in Entries(chan'[<<h, k>>])
      BY <3>1, <3>2 DEF Reaching
    <3>3. CASE k = n /\ x = c
      <4>1. CASE ~fresh
        BY <1>2, <1>5, <3>1, <3>3, <4>1
      <4>2. CASE fresh /\ taken
        <5>1. \E d \in Entries(queue[n]) : d.tp = "cpkg" /\ d.id = c.id
          BY <1>12, <4>2
        <5>2. \E b \in Entries(queue'[k]) : b.tp = "cpkg" /\ b.id = id
          BY <2>1, <3>1, <3>3, <5>1
        <5>. QED BY <5>2 DEF Reaching
      <4>3. CASE fresh /\ ~taken
        <5>1. e \in Entries(queue'[n])
          BY <1>16, <1>17, <4>3
        <5>2. \E b \in Entries(queue'[k]) : b.tp = "cpkg" /\ b.id = id
          BY <1>11, <3>1, <3>3, <5>1
        <5>. QED BY <5>2 DEF Reaching
      <4>. QED BY <4>1, <4>2, <4>3
    <3>. QED BY <1>14, <3>2, <3>3
  <2>. QED BY <1>20, <2>2, <2>3 DEF Reaching
<1>21. /\ \A x, y \in Nodes : \A z \in Entries(chan'[<<x, y>>]) : z \in Entries(chan[<<x, y>>])
       /\ \A x, y \in Nodes : \A z \in Entries(chan[<<x, y>>]) :
            z.tp = "req" => z \in Entries(chan'[<<x, y>>])
       /\ \A k \in Nodes : \A r \in rounds'[k] : r \in rounds[k]
  BY <1>2, <1>6, <1>13, <1>14
<1>. QED BY <1>6, <1>7, <1>15, <1>18, <1>19, <1>20, <1>21, QuietLog

(* Only packages come and go: nothing is lost but the package received,    *)
(* which asks for no id and brings no change.                              *)
LEMMA PackagesLog ==
  ASSUME LInv, VInv',
         UNCHANGED <<ccid, next_change_id, skipped_ids, queue, rounds, log, votes>>,
         \A a, b \in Nodes : \A x \in Entries(chan'[<<a, b>>]) :
           \/ x \in Entries(chan[<<a, b>>])
           \/ x.tp = "cpkg"
           \/ x.tp = "missing" /\ x.id < next_change_id[a],
         \A a, b \in Nodes : \A x \in Entries(chan[<<a, b>>]) :
           x \in Entries(chan'[<<a, b>>]) \/ x.tp = "missing",
         \A a, b \in Nodes : Ahead(chan'[<<a, b>>], next_change_id[b])
  PROVE  LogInv'
<1>1. \A y \in Nodes, id \in Nat : Standing(y, id)' <=> Standing(y, id)
  BY DEF Standing
<1>2. ASSUME NEW h \in Nodes, NEW k \in Nodes, NEW id, Reaching(h, k, id)
      PROVE  Reaching(h, k, id)'
  <2>1. \A x \in Entries(chan[<<h, k>>]) : x.tp = "cpkg" => x \in Entries(chan'[<<h, k>>])
    OBVIOUS
  <2>2. \A c \in Entries(queue[k]) : c.tp = "cpkg" =>
          \E d \in Entries(queue'[k]) : d.tp = "cpkg" /\ d.id = c.id
    OBVIOUS
  <2>. QED BY <1>2, <2>1, <2>2, ReachingKept
<1>3. \A a, b \in Nodes : \A x \in Entries(chan[<<a, b>>]) :
        x.tp = "req" => x \in Entries(chan'[<<a, b>>])
  OBVIOUS
<1>. QED BY <1>1, <1>2, <1>3, QuietLog

LEMMA OnMissingChangeLog ==
  ASSUME LInv, VInv', NEW m \in Nodes, NEW n \in Nodes, OnMissingChange(m, n)
  PROVE  LogInv'
<1> DEFINE id == Head(chan[<<m, n>>]).id
           ch == Receive(m, n)
<1>1. /\ HInv /\ IInv /\ TypeOK /\ chan \in Channels /\ AllAhead /\ Questions
      /\ HeadIs(m, n, "missing")
  BY LParts DEF OnMissingChange, IInv
<1>2. /\ \/ chan' = ch
         \/ \E e \in log[n] : chan' = Send(ch, n, {m}, [tp |-> "cpkg", id |-> id, op |-> e.op])
      /\ UNCHANGED <<ccid, next_change_id, skipped_ids, queue, rounds, log, votes>>
  BY DEF OnMissingChange
<1>3. ch \in Channels /\ id \in Nat /\ Head(chan[<<m, n>>]).tp = "missing"
  BY <1>1, ReceiveType, MessageRead
<1>4. /\ \A x, y \in Nodes : Entries(ch[<<x, y>>]) \subseteq Entries(chan[<<x, y>>])
      /\ Head(chan[<<m, n>>]) \in Entries(chan[<<m, n>>])
  BY <1>1, ReceivedWas, ReceiveEntries
<1>5. id < next_change_id[m]
  BY <1>1, <1>3, <1>4 DEF Questions
<1>6. \A x, y \in Nodes : \A z \in Entries(chan[<<x, y>>]) :
        z \in Entries(ch[<<x, y>>]) \/ z.tp = "missing"
  <2> SUFFICES ASSUME NEW x \in Nodes, NEW y \in Nodes, NEW z \in Entries(chan[<<x, y>>])
               PROVE  z \in Entries(ch[<<x, y>>]) \/ z.tp = "missing"
    OBVIOUS
  <2>1. z \in Entries(ch[<<x, y>>]) \/ z = Head(chan[<<m, n>>])
    BY <1>1, ReceiveEntries
  <2>. QED BY <1>3, <2>1
<1>7. \A x, y \in Nodes : Ahead(ch[<<x, y>>], next_change_id[y])
  <2>1. next_change_id \in [Nodes -> Nat] /\ \A k \in Nodes : next_change_id[k] <= next_change_id[k]
    BY <1>1 DEF TypeOK
  <2>2. "missing" = "req" => Head(chan[<<m, n>>]).id < next_change_id[n]
    OBVIOUS
  <2>. QED BY <1>1, <2>1, <2>2, ReceiveAhead
<1> HIDE DEF id, ch
<1>8. CASE chan' = ch
  BY <1>2, <1>4, <1>6, <1>7, <1>8, PackagesLog
<1>9. ASSUME NEW op \in Ops, chan' = Send(ch, n, {m}, [tp |-> "cpkg", id |-> id, op |-> op])
      PROVE  LogInv'
  <2> DEFINE msg == [tp |-> "cpkg", id |-> id, op |-> op]
  <2>1. msg \in Message /\ msg.tp = "cpkg" /\ msg.id = id /\ chan' = Send(ch, n, {m}, msg)
    BY <1>3, <1>9, MessageMade
  <2> HIDE DEF msg
  <2>2. \A x, y \in Nodes : \A z \in Entries(chan'[<<x, y>>]) :
          z \in Entries(chan[<<x, y>>]) \/ z.tp = "cpkg"
    <3> SUFFICES ASSUME NEW x \in Nodes, NEW y \in Nodes
                 PROVE  \A z \in Entries(chan'[<<x, y>>]) :
                          z \in Entries(chan[<<x, y>>]) \/ z.tp = "cpkg"
      OBVIOUS
    <3>1. \A z \in Entries(Send(ch, n, {m}, msg)[<<x, y>>]) :
            z \in Entries(ch[<<x, y>>]) \/ (z = msg /\ x = n /\ y \in {m})
      BY <1>3, <2>1, SendEntries, Zenon
    <3>. QED BY <1>4, <2>1, <3>1
  <2>3. \A x, y \in Nodes : Entries(ch[<<x, y>>]) \subseteq Entries(chan'[<<x, y>>])
    BY <1>3, <2>1, SendKeeps
  <2>4. ASSUME NEW x \in Nodes, NEW y \in Nodes PROVE Ahead(chan'[<<x, y>>], next_change_id[y])
    <3>1. y \in {m} => msg.id < next_change_id[y]
      BY <1>5, <2>1
    <3>2. Ahead(Send(ch, n, {m}, msg)[<<x, y>>], next_change_id[y])
      BY <1>3, <1>7, <2>1, <3>1, SendAhead
    <3>. QED BY <2>1, <3>2
  <2>. QED BY <1>2, <1>6, <2>2, <2>3, <2>4, PackagesLog
<1>10. \A e \in log[n] : e.op \in Ops
  <2>1. log[n] \in SUBSET [id: Nat, op: Ops]
    BY <1>1 DEF TypeOK
  <2>. QED BY <2>1
<1>. QED BY <1>2, <1>8, <1>9, <1>10

LEMMA LoopMissingLog ==
  ASSUME LInv, VInv', NEW n \in Nodes, LoopMissing(n)
  PROVE  LogInv'
<1> DEFINE id == ccid[n] + 1
           msg == [tp |-> "missing", id |-> id]
<1>1. HInv /\ chan \in Channels /\ AllAhead
  BY LParts
<1>2. /\ Gap(n) /\ UNCHANGED <<ccid, next_change_id, skipped_ids, queue, rounds, log, votes>>
      /\ \E m \in Peers(n) : chan' = Send(chan, n, {m}, msg)
  BY DEF LoopMissing
<1>3. PICK m \in Peers(n) : chan' = Send(chan, n, {m}, msg)
  BY <1>2
<1>4. id \in Nat /\ id < next_change_id[n]
  <2>1. queue[n] # <<>> /\ Head(queue[n]).id > id
    BY <1>2 DEF Gap
  <2>2. Head(queue[n]) \in Entries(queue[n])
    BY <1>1, <2>1, NodeFacts, TailFacts
  <2>3. ccid[n] \in Nat /\ next_change_id[n] \in Nat /\ Head(queue[n]).id \in Nat
        /\ Head(queue[n]).id < next_change_id[n]
    BY <1>1, <2>2, NodeFacts
  <2>. QED BY <2>1, <2>3
<1> HIDE DEF id
<1>5. msg \in Message /\ msg.tp = "missing" /\ msg.id = id
  BY <1>4, MessageMade
<1> HIDE DEF msg
<1>6. \A x, y \in Nodes : \A z \in Entries(chan'[<<x, y>>]) :
        z \in Entries(chan[<<x, y>>]) \/ (z.tp = "missing" /\ z.id < next_change_id[x])
  <2> SUFFICES ASSUME NEW x \in Nodes, NEW y \in Nodes
               PROVE  \A z \in Entries(chan'[<<x, y>>]) :
                        z \in Entries(chan[<<x, y>>]) \/ (z.tp = "missing" /\ z.id < next_change_id[x])
    OBVIOUS
  <2>1. \A z \in Entries(Send(chan, n, {m}, msg)[<<x, y>>]) :
          z \in Entries(chan[<<x, y>>]) \/ (z = msg /\ x = n /\ y \in {m})
    BY <1>1, <1>5, SendEntries, Zenon
  <2>. QED BY <1>3, <1>4, <1>5, <2>1
<1>7. \A x, y \in Nodes : Entries(chan[<<x, y>>]) \subseteq Entries(chan'[<<x, y>>])
  BY <1>1, <1>3, <1>5, SendKeeps
<1>8. ASSUME NEW x \in Nodes, NEW y \in Nodes PROVE Ahead(chan'[<<x, y>>], next_change_id[y])
  <2>1. Ahead(chan[<<x, y>>], next_change_id[y]) /\ ~(msg.tp = "cpkg")
    BY <1>1, <1>5 DEF AllAhead
  <2>2. Ahead(Send(chan, n, {m}, msg)[<<x, y>>], next_change_id[y])
    BY <1>1, <1>5, <2>1, SendAhead
  <2>. QED BY <1>3, <2>2
<1>. QED BY <1>2, <1>6, <1>7, <1>8, PackagesLog

(* The next change c of node n, after ids that were never used.            *)
Due(n, c) ==
  /\ c \in Entries(queue[n]) /\ c.ready
  /\ \A i \in ccid[n] + 1 .. c.id - 1 : i \notin HistIds /\ Barred(i)

(* What is run next: a change of the node itself goes behind everything    *)
(* that any node has applied, and the node has all of it; any other change *)
(* is the first in the history that the node does not have.                *)
LEMMA DueFacts ==
  ASSUME LInv, NEW n \in Nodes, NEW c, Due(n, c)
  PROVE  /\ \A e \in History : e.id < c.id => e \in log[n]
         /\ \A e \in History : e.id = c.id => e = AsApplied(c)
         /\ c.tp = "master" => /\ \A e \in History : e.id < c.id
                               /\ log[n] = History
         /\ c.tp = "cpkg" => AsApplied(c) \in History \ log[n]
<1>1. /\ HInv /\ IInv /\ Complete /\ OneChangePerId /\ LogBelow
  BY LParts, VotesSeen DEF HInv, HomeInv
<1>2. c \in Entries(queue[n]) /\ c.ready
  BY DEF Due
<1>3. /\ c.id \in Nat /\ c.op \in Ops /\ ccid[n] \in Nat /\ ccid[n] < c.id
      /\ c.tp = "cpkg" => AsApplied(c) \in log[Home[c.op]]
  BY <1>1, <1>2, NodeFacts
<1>4. AsApplied(c).id = c.id /\ AsApplied(c).op = c.op
  BY DEF AsApplied
<1>5. \A e \in History : e.id \in Nat /\ e = [id |-> e.id, op |-> e.op]
  <2> SUFFICES ASSUME NEW e \in History PROVE e.id \in Nat /\ e = [id |-> e.id, op |-> e.op]
    OBVIOUS
  <2>1. e \in [id: Nat, op: Ops]
    BY <1>1, HistoryRead
  <2>. QED BY <2>1
<1>6. ASSUME NEW e \in History, e.id < c.id PROVE e \in log[n]
  <2>1. e.id \in HistIds
    BY DEF HistIds
  <2>2. e.id \notin ccid[n] + 1 .. c.id - 1
    BY <2>1 DEF Due
  <2>3. e.id <= ccid[n]
    BY <1>3, <1>5, <1>6, <2>2
  <2>. QED BY <1>1, <2>3 DEF Complete
<1>7. ASSUME NEW e \in History, e.id = c.id PROVE e = AsApplied(c)
  <2>1. e \in Claims /\ AsApplied(c) \in Claims
    BY <1>2, ClaimApplied, ClaimReady
  <2>2. e.op = c.op
    BY <1>1, <1>4, <1>7, <2>1 DEF OneChangePerId
  <2>. QED BY <1>5, <1>7, <2>2 DEF AsApplied
<1>8. ASSUME c.tp = "master"
      PROVE  (\A e \in History : e.id < c.id) /\ log[n] = History
  <2>1. ASSUME NEW e \in History PROVE e.id < c.id
    <3>1. PICK k \in Nodes : e \in log[k]
      BY DEF History
    <3>2. e.id <= ccid[k] /\ ccid[k] \in Nat
      BY <1>1, <3>1, NodeFacts DEF LogBelow
    <3>3. ccid[k] < c.id
      BY <1>2, <1>8, ReadyIsNew
    <3>. QED BY <1>3, <1>5, <3>2, <3>3
  <2>2. log[n] \subseteq History
    BY DEF History
  <2>. QED BY <1>6, <2>1, <2>2
<1>9. ASSUME c.tp = "cpkg" PROVE AsApplied(c) \in History \ log[n]
  <2>1. Home[c.op] \in Nodes
    BY <1>3, HomeAssumption
  <2>2. AsApplied(c) \in History
    BY <1>3, <1>9, <2>1 DEF History
  <2>3. AsApplied(c) \notin log[n]
    BY <1>1, <1>3, <1>4 DEF LogBelow
  <2>. QED BY <2>2, <2>3
<1>. QED BY <1>6, <1>7, <1>8, <1>9

(* What running the first change does.                                     *)
LEMMA RunFacts ==
  ASSUME IInv, NEW n \in Nodes, NEW c, RunFirst(n, c)
  PROVE  /\ ccid'[n] = c.id /\ \A k \in Nodes \ {n} : ccid'[k] = ccid[k]
         /\ log'[n] = log[n] \cup {AsApplied(c)}
         /\ \A k \in Nodes \ {n} : log'[k] = log[k]
         /\ queue'[n] = Tail(queue[n]) /\ \A k \in Nodes \ {n} : queue'[k] = queue[k]
         /\ History' = History \cup {AsApplied(c)}
<1>1. /\ ccid \in [Nodes -> Nat] /\ queue \in [Nodes -> Seq(QueueEntry)]
      /\ log \in [Nodes -> SUBSET [id: Nat, op: Ops]]
  BY DEF IInv, TypeOK
<1>2. /\ ccid' = [ccid EXCEPT ![n] = c.id] /\ queue' = [queue EXCEPT ![n] = Tail(@)]
      /\ log' = [log EXCEPT ![n] = @ \cup {AsApplied(c)}]
  BY DEF RunFirst, AsApplied
<1>3. /\ ccid'[n] = c.id /\ \A k \in Nodes \ {n} : ccid'[k] = ccid[k]
      /\ log'[n] = log[n] \cup {AsApplied(c)}
      /\ \A k \in Nodes \ {n} : log'[k] = log[k]
      /\ queue'[n] = Tail(queue[n]) /\ \A k \in Nodes \ {n} : queue'[k] = queue[k]
  BY <1>1, <1>2
<1>4. History' = History \cup {AsApplied(c)}
  <2>1. \A e : e \in History' <=> \E k \in Nodes : e \in log'[k]
    BY DEF History
  <2>2. \A e : e \in History <=> \E k \in Nodes : e \in log[k]
    BY DEF History
  <2>3. ASSUME NEW e PROVE e \in History' <=> e \in History \/ e = AsApplied(c)
    <3>1. ASSUME e \in History' PROVE e \in History \/ e = AsApplied(c)
      <4>1. PICK k \in Nodes : e \in log'[k]
        BY <2>1, <3>1
      <4>2. CASE k = n
        BY <1>3, <2>2, <4>1, <4>2
      <4>3. CASE k # n
        BY <1>3, <2>2, <4>1, <4>3
      <4>. QED BY <4>2, <4>3
    <3>2. ASSUME e \in History PROVE e \in History'
      <4>1. PICK k \in Nodes : e \in log[k]
        BY <2>2, <3>2
      <4>2. e \in log'[k]
        BY <1>3, <4>1
      <4>. QED BY <2>1, <4>2
    <3>3. AsApplied(c) \in History'
      BY <1>3, <2>1
    <3>. QED BY <3>1, <3>2, <3>3
  <2>. QED BY <2>3
<1>. QED BY <1>3, <1>4

LEMMA RunFirstLog ==
  ASSUME LInv, VInv', NEW n \in Nodes, queue[n] # <<>>, Due(n, Head(queue[n])),
         RunFirst(n, Head(queue[n])),
         UNCHANGED <<next_change_id, skipped_ids, rounds, links, votes>>
  PROVE  LogInv'
<1> DEFINE c == Head(queue[n])
           e == AsApplied(c)
           msg == [tp |-> "cpkg", id |-> c.id, op |-> c.op]
<1>1. /\ VInv /\ HInv /\ IInv /\ LinksAll /\ chan \in Channels
      /\ VoteIds /\ Questions /\ AllAhead /\ AskAhead /\ Refusals
      /\ Tally /\ Lost /\ Passed /\ Complete /\ Delivered
  BY LParts
<1>2. /\ c \in Entries(queue[n]) /\ c.ready
      /\ \A i \in ccid[n] + 1 .. c.id - 1 : i \notin HistIds /\ Barred(i)
  BY DEF Due
<1>3. /\ c.id \in Nat /\ c.op \in Ops /\ ccid[n] < c.id /\ c.tp \in {"master", "cpkg"}
      /\ \A k \in Nodes : ccid[k] \in Nat /\ next_change_id[k] \in Nat
      /\ c.tp = "master" => Home[c.op] = n
  BY <1>1, <1>2, NodeFacts
<1>4. /\ ccid'[n] = c.id /\ \A k \in Nodes \ {n} : ccid'[k] = ccid[k]
      /\ log'[n] = log[n] \cup {e}
      /\ \A k \in Nodes \ {n} : log'[k] = log[k]
      /\ queue'[n] = Tail(queue[n]) /\ \A k \in Nodes \ {n} : queue'[k] = queue[k]
      /\ History' = History \cup {e}
  BY <1>1, RunFacts
<1>5. Entries(queue'[n]) = Entries(queue[n]) \ {c}
  BY <1>1, <1>4, NodeFacts, TailFacts
<1>6. e.id = c.id /\ e.op = c.op
  BY DEF AsApplied
<1>7. Peers(n) = Others(n)
  BY <1>1, QuorumAlways
<1>8. /\ c.tp = "master" => chan' = Send(chan, n, Others(n), msg)
      /\ c.tp # "master" => chan' = chan
  BY <1>7 DEF RunFirst
<1>9. msg \in Message /\ msg.tp = "cpkg" /\ msg.id = c.id
  BY <1>3, MessageMade
<1>10. /\ \A d \in History : d.id < c.id => d \in log[n]
       /\ \A d \in History : d.id = c.id => d = e
       /\ c.tp = "cpkg" => e \in History
  BY DueFacts
<1> HIDE DEF c, e, msg
<1>11. More
  <2>1. HistIds \subseteq HistIds'
    BY <1>4 DEF HistIds
  <2>. QED BY <2>1, GrowsSame DEF More
<1>12. c.id \in HistIds'
  BY <1>4, <1>6 DEF HistIds
<1>13. /\ \A k \in Nodes : ccid[k] \in Nat /\ ccid'[k] \in Nat /\ ccid[k] <= ccid'[k]
       /\ \A k \in Nodes : next_change_id'[k] \in Nat /\ next_change_id[k] <= next_change_id'[k]
  BY <1>3, <1>4
<1>14. \A x, y \in Nodes : \A z \in Entries(chan'[<<x, y>>]) :
         z \in Entries(chan[<<x, y>>]) \/ z.tp = "cpkg"
  <2>1. CASE c.tp = "master"
    <3> SUFFICES ASSUME NEW x \in Nodes, NEW y \in Nodes
                 PROVE  \A z \in Entries(chan'[<<x, y>>]) :
                          z \in Entries(chan[<<x, y>>]) \/ z.tp = "cpkg"
      OBVIOUS
    <3>1. \A z \in Entries(Send(chan, n, Others(n), msg)[<<x, y>>]) :
            z \in Entries(chan[<<x, y>>]) \/ (z = msg /\ x = n /\ y \in Others(n))
      BY <1>1, <1>9, SendEntries, Zenon
    <3>. QED BY <1>8, <1>9, <2>1, <3>1
  <2>2. CASE c.tp # "master"
    BY <1>8, <2>2
  <2>. QED BY <2>1, <2>2
<1>15. \A x, y \in Nodes : Entries(chan[<<x, y>>]) \subseteq Entries(chan'[<<x, y>>])
  <2>1. CASE c.tp = "master"
    BY <1>1, <1>8, <1>9, <2>1, SendKeeps
  <2>2. CASE c.tp # "master"
    BY <1>8, <2>2
  <2>. QED BY <2>1, <2>2
<1>16. \A y \in Nodes, id \in Nat : Standing(y, id)' => Standing(y, id)
  <2>1. \A d \in Entries(queue'[n]) : d.tp = "master" =>
          \E b \in Entries(queue[n]) : b.tp = "master" /\ b.id = d.id
    BY <1>5
  <2>. QED BY <1>4, <2>1, StandingSame
<1>17. VoteIds'
  BY <1>1, <1>13, VoteIdsKept
<1>18. Questions'
  <2>1. \A a, b \in Nodes : \A x \in Entries(chan'[<<a, b>>]) :
          \/ x \in Entries(chan[<<a, b>>])
          \/ /\ x.tp = "req" => Gave(votes', a, x.id, a)
             /\ x.tp = "missing" => x.id < next_change_id'[a]
    BY <1>14
  <2>. QED BY <1>1, <1>11, <1>13, <2>1, QuestionsKept
<1>19. AllAhead'
  <2> SUFFICES ASSUME NEW a \in Nodes, NEW b \in Nodes
               PROVE  Ahead(chan'[<<a, b>>], next_change_id[b])
    BY DEF AllAhead
  <2>1. Ahead(chan[<<a, b>>], next_change_id[b])
    BY <1>1 DEF AllAhead
  <2>2. CASE c.tp = "master"
    <3>1. Standing(n, c.id)
      BY <1>2, <2>2 DEF Standing
    <3>2. a = n /\ b \in Others(n) =>
            msg.id < next_change_id[b] \/ [tp |-> "req", id |-> msg.id] \in Entries(chan[<<a, b>>])
      BY <1>1, <1>3, <1>9, <3>1 DEF AskAhead
    <3>3. Ahead(Send(chan, n, Others(n), msg)[<<a, b>>], next_change_id[b])
      BY <1>1, <1>9, <2>1, <3>2, SendAhead
    <3>. QED BY <1>8, <2>2, <3>3
  <2>3. CASE c.tp # "master"
    BY <1>8, <2>1, <2>3
  <2>. QED BY <2>2, <2>3
<1>20. AskAhead'
  <2>1. \A a, b \in Nodes, id \in Nat :
          [tp |-> "req", id |-> id] \in Entries(chan[<<a, b>>]) =>
            [tp |-> "req", id |-> id] \in Entries(chan'[<<a, b>>]) \/ id < next_change_id'[b]
    BY <1>15
  <2>. QED BY <1>1, <1>13, <1>16, <2>1, AskAheadKept
<1>21. Refusals'
  <2>1. \A a, b \in Nodes : \A x \in Entries(chan'[<<a, b>>]) :
          \/ x \in Entries(chan[<<a, b>>])
          \/ x.tp = "res" /\ x.answer = "reject" => Refused(votes', HistIds', a, x.id)
    BY <1>14
  <2>. QED BY <1>1, <1>11, <2>1, RefusalsKept
<1>22. Tally'
  BY <1>1, <1>11, TallyKept
<1>23. Lost'
  <2>1. \A x \in Nodes, id \in Nat :
          Standing(x, id) => Standing(x, id)' \/ Settled(votes', HistIds', id)
    <3> SUFFICES ASSUME NEW x \in Nodes, NEW id \in Nat, Standing(x, id), ~Standing(x, id)'
                 PROVE  Settled(votes', HistIds', id)
      OBVIOUS
    <3>1. PICK d \in Entries(queue[x]) : d.tp = "master" /\ d.id = id
      BY DEF Standing
    <3>2. d \notin Entries(queue'[x])
      BY <3>1 DEF Standing
    <3>3. d = c
      BY <1>4, <1>5, <3>1, <3>2
    <3>4. id \in HistIds'
      BY <1>12, <3>1, <3>3
    <3>. QED BY <3>4 DEF Settled
  <2>2. \A x \in Nodes, id \in Nat :
          Gave(votes', x, id, x) => Gave(votes, x, id, x) \/ Standing(x, id)'
    OBVIOUS
  <2>. QED BY <1>1, <1>11, <2>1, <2>2, LostKept
<1>24. Passed'
  <2>1. IInv'
    BY DEF VInv, HInv, OInv
  <2>2. ASSUME NEW k \in Nodes, NEW id \in ccid[k] + 1 .. ccid'[k]
        PROVE  id \in HistIds' \/ Barred(id)
    <3>1. ccid[k] \in Nat /\ ccid'[k] \in Nat
      BY <1>13
    <3>2. k = n
      BY <1>4, <3>1
    <3>3. id = c.id \/ id \in ccid[n] + 1 .. c.id - 1
      BY <1>3, <1>4, <3>1, <3>2
    <3>. QED BY <1>2, <1>12, <3>3
  <2>. QED BY <1>1, <1>11, <1>13, <1>16, <2>1, <2>2, PassedKept
<1>25. Complete'
  <2> SUFFICES ASSUME NEW k \in Nodes, NEW d \in History', d.id <= ccid'[k]
               PROVE  d \in log'[k]
    BY DEF Complete
  <2>1. d \in History \/ d = e
    BY <1>4
  <2>2. d \in History => d.id \in Nat
    BY <1>1, HistoryRead
  <2>3. CASE k = n
    <3>1. d.id \in Nat /\ d.id <= c.id
      BY <1>3, <1>4, <1>6, <2>1, <2>2, <2>3
    <3>2. d = e \/ d \in log[n]
      BY <1>3, <1>10, <2>1, <3>1
    <3>. QED BY <1>4, <2>3, <3>2
  <2>4. CASE k # n
    <3>1. d.id <= ccid[k] /\ log'[k] = log[k]
      BY <1>4, <2>4
    <3>2. d \in History
      <4>1. CASE c.tp = "cpkg"
        BY <1>10, <2>1, <4>1
      <4>2. CASE c.tp = "master"
        <5>1. ccid[k] < c.id
          BY <1>2, <4>2, ReadyIsNew
        <5>2. d # e
          BY <1>3, <1>6, <3>1, <5>1
        <5>. QED BY <2>1, <5>2
      <4>. QED BY <1>3, <4>1, <4>2
    <3>. QED BY <1>1, <3>1, <3>2 DEF Complete
  <2>. QED BY <2>3, <2>4
<1>26. Delivered'
  <2> SUFFICES ASSUME NEW k \in Nodes, NEW h \in Nodes, NEW d \in log'[h], Home[d.op] = h
               PROVE  d.id <= ccid'[k] \/ Reaching(h, k, d.id)'
    BY DEF Delivered
  <2>1. CASE d \in log[h]
    <3>1. d.id \in Nat
      <4>1. d \in History
        BY <2>1 DEF History
      <4>. QED BY <1>1, <4>1, HistoryRead
    <3>2. CASE d.id <= ccid[k]
      BY <1>13, <3>1, <3>2
    <3>3. CASE \E b \in Entries(queue[k]) : b.tp = "cpkg" /\ b.id = d.id
      <4>1. PICK b \in Entries(queue[k]) : b.tp = "cpkg" /\ b.id = d.id
        BY <3>3
      <4>2. CASE b \in Entries(queue'[k])
        BY <4>1, <4>2 DEF Reaching
      <4>3. CASE b \notin Entries(queue'[k])
        <5>1. k = n /\ b = c
          BY <1>4, <1>5, <4>1, <4>3
        <5>. QED BY <1>3, <1>4, <4>1, <5>1
      <4>. QED BY <4>2, <4>3
    <3>4. CASE \E x \in Entries(chan[<<h, k>>]) : x.tp = "cpkg" /\ x.id = d.id
      <4>1. \E x \in Entries(chan'[<<h, k>>]) : x.tp = "cpkg" /\ x.id = d.id
        BY <1>15, <3>4
      <4>. QED BY <4>1 DEF Reaching
    <3>5. d.id <= ccid[k] \/ Reaching(h, k, d.id)
      BY <1>1, <2>1 DEF Delivered
    <3>. QED BY <3>2, <3>3, <3>4, <3>5 DEF Reaching
  <2>2. CASE d \notin log[h]
    <3>1. h = n /\ d = e
      BY <1>4, <2>2
    <3>2. c.tp = "master"
      <4>1. CASE c.tp = "cpkg"
        <5>1. e \in log[Home[e.op]]
          BY <1>1, <1>10, <4>1, HistoryRead
        <5>. QED BY <2>2, <3>1, <5>1
      <4>. QED BY <1>3, <4>1
    <3>3. CASE k = n
      BY <1>3, <1>4, <1>6, <3>1, <3>3
    <3>4. CASE k # n
      <4>1. k \in Others(n)
        BY <3>4 DEF Others
      <4>2. msg \in Entries(Send(chan, n, Others(n), msg)[<<n, k>>])
        BY <1>1, <1>9, <4>1, SendEntries, Zenon
      <4>3. msg \in Entries(chan'[<<h, k>>])
        BY <1>8, <3>1, <3>2, <4>2
      <4>. QED BY <1>6, <1>9, <3>1, <4>3 DEF Reaching
    <3>. QED BY <3>3, <3>4
  <2>. QED BY <2>1, <2>2
<1>. QED BY <1>17, <1>18, <1>19, <1>20, <1>21, <1>22, <1>23, <1>24, <1>25, <1>26 DEF LogInv

(* When the change loop runs the first change, it is due: it is the next   *)
(* one, or the only id before it is never used.                            *)
LEMMA LoopDue ==
  ASSUME Faults = {}, LInv, NEW n \in Nodes
  PROVE  /\ LoopProcess(n) => Due(n, Head(queue[n]))
         /\ LoopGap(n) /\ Head(queue[n]).id = ccid[n] + 2 /\ Head(queue[n]).ready =>
              Due(n, Head(queue[n]))
<1>1. HInv
  BY LParts
<1>2. ASSUME queue[n] # <<>>
      PROVE  Head(queue[n]) \in Entries(queue[n])
  BY <1>1, <1>2, NodeFacts, TailFacts
<1>3. ccid[n] \in Nat
  BY <1>1, NodeFacts
<1>4. ASSUME LoopProcess(n) PROVE Due(n, Head(queue[n]))
  <2>1. queue[n] # <<>> /\ Head(queue[n]).id = ccid[n] + 1 /\ Head(queue[n]).ready
    BY <1>4 DEF LoopProcess
  <2>2. ccid[n] + 1 .. Head(queue[n]).id - 1 = {}
    BY <1>3, <2>1
  <2>. QED BY <1>2, <2>1, <2>2 DEF Due
<1>5. ASSUME LoopGap(n), Head(queue[n]).id = ccid[n] + 2, Head(queue[n]).ready
      PROVE  Due(n, Head(queue[n]))
  <2>1. Gap(n) /\ ~OnItsWay(n, ccid[n] + 1) /\ queue[n] # <<>>
    BY <1>5 DEF LoopGap, Gap
  <2>2. ccid[n] + 1 \notin HistIds /\ Barred(ccid[n] + 1)
    BY <2>1, GapIsBarred
  <2>3. \A i \in ccid[n] + 1 .. Head(queue[n]).id - 1 : i = ccid[n] + 1
    BY <1>3, <1>5
  <2>. QED BY <1>2, <1>5, <2>1, <2>2, <2>3 DEF Due
<1>. QED BY <1>4, <1>5

(* An id that is given up was never used and never is.                     *)
LEMMA SkipLog ==
  ASSUME Faults = {}, LInv, VInv', NEW n \in Nodes, Gap(n), ~OnItsWay(n, ccid[n] + 1),
         ccid' = [ccid EXCEPT ![n] = @ + 1],
         UNCHANGED <<queue, log, chan, next_change_id, skipped_ids, rounds, links, votes>>
  PROVE  LogInv'
<1>1. /\ VInv /\ HInv /\ IInv /\ VoteIds /\ Questions /\ AllAhead /\ AskAhead /\ Refusals
      /\ Tally /\ Lost /\ Passed /\ Complete /\ Delivered
  BY LParts
<1>2. ccid[n] + 1 \notin HistIds /\ Barred(ccid[n] + 1)
  BY GapIsBarred
<1>3. ccid \in [Nodes -> Nat]
  BY <1>1 DEF IInv, TypeOK
<1>4. /\ \A k \in Nodes : ccid[k] \in Nat /\ ccid'[k] \in Nat /\ ccid[k] <= ccid'[k]
      /\ ccid'[n] = ccid[n] + 1 /\ \A k \in Nodes \ {n} : ccid'[k] = ccid[k]
  BY <1>3
<1>5. More /\ HistIds' = HistIds /\ History' = History
  BY SameHistory, GrowsSame
<1>6. \A y \in Nodes, id \in Nat : Standing(y, id)' <=> Standing(y, id)
  BY DEF Standing
<1>7. VoteIds'
  BY <1>1, <1>4, VoteIdsKept
<1>8. Questions' /\ AllAhead' /\ Refusals'
  BY <1>1, <1>5 DEF Questions, AllAhead, Refusals
<1>9. AskAhead'
  BY <1>1, <1>6 DEF AskAhead
<1>10. Tally'
  BY <1>1, <1>5, TallyKept
<1>11. Lost'
  BY <1>1, <1>5, <1>6, LostKept
<1>12. Passed'
  <2>1. IInv'
    BY DEF VInv, HInv, OInv
  <2>2. ASSUME NEW k \in Nodes, NEW id \in ccid[k] + 1 .. ccid'[k]
        PROVE  id \in HistIds' \/ Barred(id)
    <3>1. k = n
      BY <1>4
    <3>2. id = ccid[n] + 1
      BY <1>4, <3>1
    <3>. QED BY <1>2, <3>2
  <2>. QED BY <1>1, <1>4, <1>5, <1>6, <2>1, <2>2, PassedKept
<1>13. Complete'
  <2> SUFFICES ASSUME NEW k \in Nodes, NEW e \in History, e.id <= ccid'[k]
               PROVE  e \in log[k]
    BY <1>5 DEF Complete
  <2>1. e.id \in Nat /\ e.id \in HistIds
    BY <1>1, HistoryRead DEF HistIds
  <2>2. e.id <= ccid[k]
    <3>1. CASE k = n
      <4>1. e.id # ccid[n] + 1
        BY <1>2, <2>1
      <4>. QED BY <1>4, <2>1, <3>1, <4>1
    <3>2. CASE k # n
      BY <1>4, <3>2
    <3>. QED BY <3>1, <3>2
  <2>. QED BY <1>1, <2>2 DEF Complete
<1>14. Delivered'
  <2> SUFFICES ASSUME NEW k \in Nodes, NEW h \in Nodes, NEW e \in log[h], Home[e.op] = h
               PROVE  e.id <= ccid'[k] \/ Reaching(h, k, e.id)'
    BY DEF Delivered
  <2>1. e.id <= ccid[k] \/ Reaching(h, k, e.id)
    BY <1>1 DEF Delivered
  <2>2. Reaching(h, k, e.id) => Reaching(h, k, e.id)'
    BY DEF Reaching
  <2>3. e.id \in Nat
    <3>1. e \in History
      BY DEF History
    <3>. QED BY <1>1, <3>1, HistoryRead
  <2>. QED BY <1>4, <2>1, <2>2, <2>3
<1>. QED BY <1>7, <1>8, <1>9, <1>10, <1>11, <1>12, <1>13, <1>14 DEF LogInv

LEMMA NodeStepLog ==
  ASSUME Faults = {}, LInv, VInv', NEW n \in Nodes, NodeStep(n)
  PROVE  LogInv'
<1>1. ASSUME LoopProcess(n) PROVE LogInv'
  BY <1>1, LoopDue, RunFirstLog DEF LoopProcess
<1>2. ~LoopKill(n)
  BY DEF LoopKill
<1>3. ASSUME LoopMissing(n) PROVE LogInv'
  BY <1>3, LoopMissingLog
<1>4. ASSUME LoopGap(n) PROVE LogInv'
  <2>1. /\ Gap(n) /\ ~OnItsWay(n, ccid[n] + 1) /\ queue[n] # <<>>
        /\ UNCHANGED <<next_change_id, skipped_ids, rounds, links, votes>>
    BY <1>4 DEF LoopGap, Gap
  <2>2. \/ /\ Head(queue[n]).id = ccid[n] + 2 /\ Head(queue[n]).ready
           /\ RunFirst(n, Head(queue[n]))
        \/ /\ ccid' = [ccid EXCEPT ![n] = @ + 1]
           /\ UNCHANGED <<queue, log, chan, reply>>
    BY <1>4 DEF LoopGap
  <2>3. CASE /\ Head(queue[n]).id = ccid[n] + 2 /\ Head(queue[n]).ready
             /\ RunFirst(n, Head(queue[n]))
    <3>1. Due(n, Head(queue[n]))
      BY <1>4, <2>3, LoopDue
    <3>. QED BY <2>1, <2>3, <3>1, RunFirstLog
  <2>4. CASE /\ ccid' = [ccid EXCEPT ![n] = @ + 1]
             /\ UNCHANGED <<queue, log, chan, reply>>
    BY <2>1, <2>4, SkipLog
  <2>. QED BY <2>2, <2>3, <2>4
<1>. QED BY <1>1, <1>2, <1>3, <1>4 DEF NodeStep

LEMMA InitLInv == Init => LInv
<1> SUFFICES ASSUME Init PROVE LInv
  OBVIOUS
<1>1. VInv
  BY InitVInv
<1>2. /\ \A n \in Nodes : /\ ccid[n] = 1 /\ next_change_id[n] = 2 /\ rounds[n] = {}
                          /\ queue[n] = <<>> /\ log[n] = {} /\ votes[n] = {}
      /\ \A a, b \in Nodes : chan[<<a, b>>] = <<>>
  BY DEF Init, FirstId
<1>3. Entries(<<>>) = {}
  BY DEF Entries
<1>4. VoteIds
  BY <1>2 DEF VoteIds
<1>5. Questions /\ Refusals /\ Tally
  BY <1>2, <1>3 DEF Questions, Refusals, Tally
<1>6. AllAhead
  BY <1>2 DEF AllAhead, Ahead
<1>7. AskAhead /\ Lost
  BY <1>2, <1>3 DEF AskAhead, Lost, Standing, Gave
<1>8. Passed
  BY <1>2 DEF Passed
<1>9. Complete /\ Delivered
  BY <1>2 DEF Complete, Delivered, History
<1>. QED BY <1>1, <1>4, <1>5, <1>6, <1>7, <1>8, <1>9 DEF LInv, LogInv

(* Without faults no connection breaks, comes back or gives up a question. *)
LEMMA NoFaults ==
  ASSUME Faults = {}, Fragile = {}, LInv
  PROVE  /\ \A n, m \in Nodes : ~RequestFails(n, m)
         /\ \A p \in {d \in SUBSET Nodes : Cardinality(d) = 2} : ~LinkDown(p) /\ ~LinkUp(p)
<1>1. HInv /\ VoteInv /\ LinksAll
  BY LParts
<1>2. \A n, m \in Nodes : ~RequestFails(n, m)
  BY <1>1, NoRequestFails
<1>3. \A p \in {d \in SUBSET Nodes : Cardinality(d) = 2} : ~LinkDown(p) /\ ~LinkUp(p)
  BY <1>1 DEF LinkDown, LinkUp, LinksAll
<1>. QED BY <1>2, <1>3

LEMMA NextLInv ==
  ASSUME Faults = {}, Fragile = {}
  PROVE  LInv /\ [Next]_vars => LInv'
<1> SUFFICES ASSUME LInv, [Next]_vars PROVE LInv'
  OBVIOUS
<1>1. VInv /\ LogInv
  BY DEF LInv
<1>2. VInv'
  BY <1>1, NextVInv
<1> SUFFICES LogInv'
  BY <1>2 DEF LInv
<1>3. ASSUME UNCHANGED vars PROVE LogInv'
  <2>1. UNCHANGED <<ccid, next_change_id, skipped_ids, queue, rounds, log, votes, chan>>
    BY <1>3 DEF vars
  <2>2. \A a, b \in Nodes : Ahead(chan'[<<a, b>>], next_change_id[b])
    BY <1>1, <2>1 DEF LogInv, AllAhead
  <2>. QED BY <1>2, <2>1, <2>2, PackagesLog
<1>4. ASSUME NEW op \in Ops, CreateNewChange(op) PROVE LogInv'
  BY <1>2, <1>4, CreateLog
<1>5. ASSUME NEW n \in Nodes, NodeStep(n) PROVE LogInv'
  BY <1>2, <1>5, NodeStepLog
<1>6. ASSUME NEW m \in Nodes, NEW n \in Nodes, PackageStep(m, n) PROVE LogInv'
  <2>1. ASSUME OnReqChangeId(m, n) PROVE LogInv'
    BY <1>2, <2>1, OnReqChangeIdLog
  <2>2. ASSUME OnResponse(m, n) PROVE LogInv'
    BY <1>2, <2>2, OnResponseLog
  <2>3. ASSUME AddChange(m, n) PROVE LogInv'
    BY <1>2, <2>3, AddChangeLog
  <2>4. ASSUME OnMissingChange(m, n) PROVE LogInv'
    BY <1>2, <2>4, OnMissingChangeLog
  <2>5. ~RequestFails(m, n)
    BY NoFaults
  <2>. QED BY <1>6, <2>1, <2>2, <2>3, <2>4, <2>5 DEF PackageStep
<1>7. \A p \in {d \in SUBSET Nodes : Cardinality(d) = 2} : ~LinkDown(p) /\ ~LinkUp(p)
  BY NoFaults
<1>. QED BY <1>3, <1>4, <1>5, <1>6, <1>7 DEF Next
-----------------------------------------------------------------------------
(* Every step is a step of the replicated log or leaves it as it is.       *)

(* The first change is run: it is committed at its home, or applied.       *)
LEMMA RunFirstImplements ==
  ASSUME LInv, NEW n \in Nodes, NEW c, Due(n, c), RunFirst(n, c)
  PROVE  Promise!LogNext
<1> DEFINE e == AsApplied(c)
<1>1. HInv /\ IInv
  BY LParts
<1>2. c \in Entries(queue[n]) /\ c.ready
  BY DEF Due
<1>3. /\ c.id \in Nat /\ c.op \in Ops /\ c.tp \in {"master", "cpkg"}
      /\ c.tp = "master" => Home[c.op] = n
      /\ Placed(n, log[n], Entries(queue[n]), rounds[n])
      /\ Home[c.op] = n => TrueOf(c.op, reply[c.op], log[n], Entries(queue[n]), rounds[n])
  BY <1>1, <1>2, NodeFacts
<1>4. History' = History \cup {e} /\ log' = [log EXCEPT ![n] = @ \cup {e}]
  BY <1>1, RunFacts DEF RunFirst, AsApplied
<1>5. e = [id |-> c.id, op |-> c.op] /\ e.id = c.id /\ e.op = c.op
  BY DEF AsApplied
<1> HIDE DEF e
<1>6. CASE c.tp = "master"
  <2>1. log[n] = History /\ \A d \in History : d.id < c.id
    BY <1>6, DueFacts
  <2>2. reply[c.op] = "waiting"
    <3>1. TrueOf(c.op, reply[c.op], log[n], Entries(queue[n]), rounds[n]) /\ Home[c.op] = n
      BY <1>3, <1>6
    <3>2. reply[c.op] \in {"unsent", "waiting", "ok", "error"}
      BY <1>1, <1>3 DEF IInv, TypeOK, Replies
    <3>3. reply[c.op] \notin {"unsent", "error"}
      BY <1>2, <1>6, <3>1 DEF TrueOf
    <3>4. reply[c.op] # "ok"
      <4> SUFFICES ASSUME reply[c.op] = "ok" PROVE FALSE
        OBVIOUS
      <4>1. PICK d \in log[n] : d.op = c.op
        BY <3>1 DEF TrueOf
      <4>2. Home[d.op] = n
        BY <3>1, <4>1
      <4>. QED BY <1>2, <1>3, <1>6, <4>1, <4>2 DEF Placed
    <3>. QED BY <3>2, <3>3, <3>4
  <2>3. c.id \in FirstId + 1 .. MaxId
    BY <1>2, <1>6, ReadyIsNew DEF FirstId
  <2>4. reply' = [reply EXCEPT ![c.op] = "ok"]
    BY <1>6 DEF RunFirst
  <2>5. log' = [log EXCEPT ![n] = History']
    BY <1>4, <2>1
  <2>6. Promise!Commit(c.op)
    BY <1>3, <1>4, <1>5, <1>6, <2>1, <2>2, <2>3, <2>4, <2>5 DEF Promise!Commit
  <2>. QED BY <1>3, <2>6 DEF Promise!LogNext
<1>7. CASE c.tp = "cpkg"
  <2>1. /\ e \in History \ log[n]
        /\ \A d \in History : d.id < c.id => d \in log[n]
    BY <1>7, DueFacts DEF e
  <2>2. \A d \in History \ log[n] : e.id <= d.id
    <3> SUFFICES ASSUME NEW d \in History \ log[n] PROVE e.id <= d.id
      OBVIOUS
    <3>1. d.id \in Nat
      BY <1>1, HistoryRead
    <3>. QED BY <1>3, <1>5, <2>1, <3>1
  <2>3. History' = History /\ reply' = reply
    BY <1>4, <1>7, <2>1 DEF RunFirst
  <2>4. Promise!Apply(n)
    BY <1>4, <2>1, <2>2, <2>3 DEF Promise!Apply
  <2>. QED BY <2>4 DEF Promise!LogNext
<1>. QED BY <1>3, <1>6, <1>7

LEMMA StepImplements ==
  ASSUME Faults = {}, Fragile = {}, LInv, [Next]_vars
  PROVE  [Promise!LogNext]_(Promise!logVars)
<1>1. HInv /\ LinksAll
  BY LParts
<1>2. ASSUME UNCHANGED <<log, reply>> PROVE UNCHANGED Promise!logVars
  BY <1>2 DEF Promise!logVars, History
<1>3. ASSUME UNCHANGED vars PROVE UNCHANGED Promise!logVars
  BY <1>2, <1>3 DEF vars
<1>4. ASSUME NEW op \in Ops, CreateNewChange(op) PROVE Promise!LogNext
  <2>1. HasQuorum(Home[op])
    BY <1>1, QuorumAlways, HomeAssumption
  <2>2. reply[op] = "unsent" /\ reply' = [reply EXCEPT ![op] = "waiting"] /\ log' = log
    BY <1>4, <2>1 DEF CreateNewChange
  <2>3. Promise!Ask(op)
    BY <2>2 DEF Promise!Ask, History
  <2>. QED BY <2>3 DEF Promise!LogNext
<1>5. ASSUME NEW n \in Nodes, NodeStep(n) PROVE [Promise!LogNext]_(Promise!logVars)
  <2>1. ASSUME LoopProcess(n) PROVE Promise!LogNext
    <3>1. Due(n, Head(queue[n])) /\ RunFirst(n, Head(queue[n]))
      BY <2>1, LoopDue DEF LoopProcess
    <3>. QED BY <3>1, RunFirstImplements
  <2>2. ~LoopKill(n)
    BY DEF LoopKill
  <2>3. ASSUME LoopMissing(n) PROVE UNCHANGED Promise!logVars
    BY <1>2, <2>3 DEF LoopMissing
  <2>4. ASSUME LoopGap(n) PROVE [Promise!LogNext]_(Promise!logVars)
    <3>1. \/ /\ Head(queue[n]).id = ccid[n] + 2 /\ Head(queue[n]).ready
             /\ RunFirst(n, Head(queue[n]))
          \/ UNCHANGED <<log, reply>>
      BY <2>4 DEF LoopGap
    <3>2. CASE /\ Head(queue[n]).id = ccid[n] + 2 /\ Head(queue[n]).ready
               /\ RunFirst(n, Head(queue[n]))
      <4>1. Due(n, Head(queue[n]))
        BY <2>4, <3>2, LoopDue
      <4>2. Promise!LogNext
        BY <3>2, <4>1, RunFirstImplements
      <4>. QED BY <4>2
    <3>3. CASE UNCHANGED <<log, reply>>
      BY <1>2, <3>3
    <3>. QED BY <3>1, <3>2, <3>3
  <2>. QED BY <1>5, <2>1, <2>2, <2>3, <2>4 DEF NodeStep
<1>6. ASSUME NEW m \in Nodes, NEW n \in Nodes, PackageStep(m, n) PROVE UNCHANGED Promise!logVars
  <2>1. ~RequestFails(m, n) /\ HasQuorum(n)
    BY <1>1, NoFaults, QuorumAlways
  <2>2. ASSUME OnResponse(m, n) PROVE UNCHANGED <<log, reply>>
    BY <2>1, <2>2 DEF OnResponse, QuorumStep, OnWin, OnLose
  <2>3. ASSUME OnReqChangeId(m, n) \/ AddChange(m, n) \/ OnMissingChange(m, n)
        PROVE  UNCHANGED <<log, reply>>
    BY <2>3 DEF OnReqChangeId, AddChange, OnMissingChange
  <2>. QED BY <1>2, <1>6, <2>1, <2>2, <2>3 DEF PackageStep
<1>7. \A p \in {d \in SUBSET Nodes : Cardinality(d) = 2} : ~LinkDown(p) /\ ~LinkUp(p)
  BY NoFaults
<1>. QED BY <1>3, <1>4, <1>5, <1>6, <1>7 DEF Next

LEMMA InitImplements == Init => Promise!LogInit
<1> SUFFICES ASSUME Init PROVE Promise!LogInit
  OBVIOUS
<1>1. log = [n \in Nodes |-> {}] /\ reply = [op \in Ops |-> "unsent"]
  BY DEF Init
<1>2. History = {}
  BY <1>1 DEF History
<1>. QED BY <1>1, <1>2 DEF Promise!LogInit

(* In a cluster of any size without faults (no connection breaks, no       *)
(* request times out, no change is killed, and a change that is on its way *)
(* arrives before its id is given up), the nodes are one replicated log:   *)
(* a change is run for the first time by its own master, once, behind      *)
(* everything any node has run and after applying all of it, while its     *)
(* client waits; and every node applies the changes in this order and      *)
(* leaves none out, also when it gives up an id in a gap (changes__loop).  *)
THEOREM ImplementsLogHolds ==
  ASSUME Faults = {}, Fragile = {}
  PROVE  Spec => ImplementsLog
<1>1. Init => LInv
  BY InitLInv
<1>2. LInv /\ [Next]_vars => LInv'
  BY NextLInv
<1>3. Init => Promise!LogInit
  BY InitImplements
<1>4. LInv /\ [Next]_vars => [Promise!LogNext]_(Promise!logVars)
  BY StepImplements
<1>. QED BY <1>1, <1>2, <1>3, <1>4, PTL DEF Spec, ImplementsLog, Promise!LogSpec
=============================================================================
