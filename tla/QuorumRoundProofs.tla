------------------------- MODULE QuorumRoundProofs --------------------------
(***************************************************************************)
(* Proofs about one vote counter, for a cluster of any size.               *)
(***************************************************************************)
EXTENDS QuorumRound, TLAPS

(* The counts and the requests on their way add up, and the threshold is   *)
(* a function of the number of nodes that failed.                          *)
Accounting ==
  /\ q.quorum = MinReachable
  /\ q.requests = N - 1 - errors
  /\ q.accepted + q.rejected + q.collisions + waiting = q.requests
  /\ q.accept_threshold = (N - errors) \div 2
  /\ freed <=> AllAnswered(q)
  /\ calls = IF armed THEN 0 ELSE 1
  /\ armed <=> (verdict = "none")
  /\ armed => ~ freed

IInv == TypeOK /\ Accounting /\ WinIsJustified

(* The verdicts are verdicts, and the last one is not "none".              *)
LEMMA GoType ==
  ASSUME NEW r \in QuorumRecords
  PROVE  /\ QuorumGo(r) \in Verdicts
         /\ AllAnswered(r) => QuorumGo(r) # "none"
BY DEF QuorumGo, EarlyVerdict, FinalVerdict, Verdicts

(* A verdict "win" of ti_quorum_go is an early majority or a final tie.    *)
LEMMA GoWin ==
  ASSUME NEW r \in QuorumRecords,
         r.accept_threshold = (r.requests + 1) \div 2,
         QuorumGo(r) = "win"
  PROVE  \/ 2 * (r.accepted + 1) > r.requests + 1
         \/ AllAnswered(r) /\ r.accepted = r.rejected /\ r.collisions > r.diff_requests
         \/ AllAnswered(r) /\ r.accepted > r.rejected /\ r.diff_requests >= 0
<1>1. CASE EarlyVerdict(r) # "none"
  <2>1. r.accepted = r.accept_threshold
    BY <1>1 DEF QuorumGo, EarlyVerdict
  <2>. QED BY <2>1 DEF QuorumRecords
<1>2. CASE EarlyVerdict(r) = "none"
  <2>1. AllAnswered(r) /\ FinalVerdict(r) = "win"
    BY <1>2 DEF QuorumGo
  <2>. QED BY <2>1 DEF FinalVerdict, QuorumRecords
<1>. QED BY <1>1, <1>2

(* A verdict "lose" of ti_quorum_go before all answers are in: too few     *)
(* nodes are left, or too many of them rejected.                           *)
LEMMA GoLose ==
  ASSUME NEW r \in QuorumRecords,
         r.accept_threshold = (r.requests + 1) \div 2,
         QuorumGo(r) = "lose", ~AllAnswered(r)
  PROVE  r.requests < r.quorum \/ r.requests - r.rejected < r.accept_threshold
<1>1. EarlyVerdict(r) = "lose"
  BY DEF QuorumGo
<1>2. r.requests < r.quorum \/ r.rejected + (r.requests % 2) > r.accept_threshold
  BY <1>1 DEF EarlyVerdict
<1>3. r.requests \in Nat /\ r.rejected \in Nat
  BY DEF QuorumRecords
<1>. QED BY <1>2, <1>3

(* The fields of a new counter.                                            *)
LEMMA NewFields ==
  /\ QuorumNew(N, MinReachable) \in QuorumRecords
  /\ QuorumNew(N, MinReachable).accepted = 0
  /\ QuorumNew(N, MinReachable).rejected = 0
  /\ QuorumNew(N, MinReachable).collisions = 0
  /\ QuorumNew(N, MinReachable).quorum = MinReachable
  /\ QuorumNew(N, MinReachable).requests = N - 1
  /\ QuorumNew(N, MinReachable).accept_threshold = N \div 2
<1> USE NAssumption, MinReachableAssumption
<1> DEFINE b == [accepted |-> 0, rejected |-> 0, collisions |-> 0,
                 requests |-> N, quorum |-> MinReachable,
                 accept_threshold |-> 0, diff_requests |-> 0,
                 win_collision |-> TRUE]
<1>1. /\ b \in QuorumRecords
      /\ b.accepted = 0 /\ b.rejected = 0 /\ b.collisions = 0
      /\ b.quorum = MinReachable /\ b.requests = N
  BY DEF QuorumRecords
<1>2. QuorumNew(N, MinReachable) = ShrinkOne(b)
  BY DEF QuorumNew
<1> HIDE DEF b
<1>3. /\ ShrinkOne(b) \in QuorumRecords
      /\ ShrinkOne(b).accepted = 0 /\ ShrinkOne(b).rejected = 0
      /\ ShrinkOne(b).collisions = 0 /\ ShrinkOne(b).quorum = MinReachable
      /\ ShrinkOne(b).requests = N - 1 /\ ShrinkOne(b).accept_threshold = N \div 2
  <2>1. N \div 2 \in Nat /\ N - 1 \in Nat /\ N # 0
    OBVIOUS
  <2>2. ShrinkOne(b) = [b EXCEPT !.accept_threshold = N \div 2, !.requests = N - 1]
    BY <1>1, <2>1 DEF ShrinkOne
  <2>. QED BY <1>1, <2>1, <2>2 DEF QuorumRecords
<1>. QED BY <1>2, <1>3

(* The fields of a counter after k > 0 nodes were left out.                *)
LEMMA ShrinkByFields ==
  ASSUME NEW r \in QuorumRecords, NEW k \in Nat \ {0}, k <= r.requests
  PROVE  LET s == ShrinkBy(r, k) IN
         /\ s \in QuorumRecords
         /\ s.accepted = r.accepted /\ s.rejected = r.rejected
         /\ s.collisions = r.collisions /\ s.quorum = r.quorum
         /\ s.requests = r.requests - k
         /\ s.accept_threshold = (r.requests - k + 1) \div 2
<1>1. /\ r.requests - k \in Nat /\ (r.requests - k + 1) \div 2 \in Nat
      /\ k # 0
  BY DEF QuorumRecords
<1>2. ShrinkBy(r, k) = [r EXCEPT !.accept_threshold = (r.requests - k + 1) \div 2,
                                 !.requests = r.requests - k]
  BY <1>1 DEF ShrinkBy
<1>. QED BY <1>1, <1>2 DEF QuorumRecords

(* What counting a collision does to the fields.                           *)
LEMMA CollisionFields ==
  ASSUME NEW r \in QuorumRecords, NEW d \in Int, NEW w \in BOOLEAN
  PROVE  LET s == [r EXCEPT !.collisions = r.collisions + 1,
                            !.diff_requests = d, !.win_collision = w]
         IN  /\ s \in QuorumRecords
             /\ s.quorum = r.quorum /\ s.requests = r.requests
             /\ s.accepted = r.accepted /\ s.rejected = r.rejected
             /\ s.collisions = r.collisions + 1
             /\ s.accept_threshold = r.accept_threshold
<1> DEFINE s == [r EXCEPT !.collisions = r.collisions + 1,
                          !.diff_requests = d, !.win_collision = w]
<1>1. r.collisions + 1 \in Nat
  BY DEF QuorumRecords
<1>2. s \in QuorumRecords
  BY <1>1, Zenon DEF QuorumRecords
<1>3. /\ s.quorum = r.quorum /\ s.requests = r.requests
      /\ s.accepted = r.accepted /\ s.rejected = r.rejected
      /\ s.collisions = r.collisions + 1
      /\ s.accept_threshold = r.accept_threshold
  BY SMT DEF QuorumRecords
<1>. QED BY <1>2, <1>3

LEMMA InitIInv == Init => IInv
<1> SUFFICES ASSUME Init PROVE IInv OBVIOUS
<1> USE NAssumption, MinReachableAssumption
<1>1. PICK k \in 0 .. (N - 1) :
        LET r == ShrinkBy(QuorumNew(N, MinReachable), k)
            v == QuorumGo(r)
        IN  /\ q = r
            /\ waiting = N - 1 - k
            /\ errors = k
            /\ armed = (v = "none")
            /\ calls = IF v = "none" THEN 0 ELSE 1
            /\ verdict = v
            /\ freed = AllAnswered(r)
  BY DEF Init
<1>2. /\ q \in QuorumRecords
      /\ q.accepted = 0 /\ q.rejected = 0 /\ q.collisions = 0
      /\ q.quorum = MinReachable
      /\ q.requests = N - 1 - k
      /\ q.accept_threshold = (N - k) \div 2
  <2> DEFINE q0 == QuorumNew(N, MinReachable)
  <2>1. /\ q0 \in QuorumRecords
        /\ q0.accepted = 0 /\ q0.rejected = 0 /\ q0.collisions = 0
        /\ q0.quorum = MinReachable /\ q0.requests = N - 1
        /\ q0.accept_threshold = N \div 2
    BY NewFields
  <2>2. q = ShrinkBy(q0, k)
    BY <1>1
  <2> HIDE DEF q0
  <2>3. CASE k = 0
    BY <2>1, <2>2, <2>3 DEF ShrinkBy
  <2>4. CASE k # 0
    BY <2>1, <2>2, <2>4, ShrinkByFields
  <2>. QED BY <2>3, <2>4
<1>3. QuorumGo(q) \in Verdicts /\ (AllAnswered(q) => QuorumGo(q) # "none")
  BY <1>2, GoType
<1>4. /\ armed \in BOOLEAN /\ freed \in BOOLEAN
      /\ armed <=> QuorumGo(q) = "none"
      /\ freed <=> AllAnswered(q)
      /\ verdict = QuorumGo(q)
      /\ calls = IF QuorumGo(q) = "none" THEN 0 ELSE 1
      /\ waiting = N - 1 - k /\ errors = k
  <2>1. /\ armed = (QuorumGo(q) = "none")
        /\ freed = AllAnswered(q)
        /\ verdict = QuorumGo(q)
        /\ calls = IF QuorumGo(q) = "none" THEN 0 ELSE 1
        /\ waiting = N - 1 - k /\ errors = k
    BY <1>1, Zenon
  <2>2. AllAnswered(q) \in BOOLEAN
    BY DEF AllAnswered
  <2>. QED BY <2>1, <2>2, Zenon
<1>5. TypeOK
  BY <1>2, <1>3, <1>4 DEF TypeOK
<1>5a. Accounting
  BY <1>2, <1>3, <1>4 DEF Accounting
<1>6. WinIsJustified
  <2>1. q.accept_threshold = (q.requests + 1) \div 2
    <3>1. q.requests + 1 = N - k
      BY <1>2
    <3>. QED BY <1>2, <3>1
  <2>. QED BY <1>2, <1>4, <2>1, GoWin DEF WinIsJustified
<1>. QED BY <1>5, <1>5a, <1>6 DEF IInv

LEMMA AnswerIInv ==
  ASSUME IInv, NEW tp \in Answers, NEW n \in 0 .. (N - 1), NEW lower \in BOOLEAN,
         Answer(tp, n, lower)
  PROVE  IInv'
<1> USE NAssumption, MinReachableAssumption
<1> DEFINE r == CountAnswer(q, tp, n, lower)
           v == IF armed THEN QuorumGo(r) ELSE "none"
<1>1. /\ waiting > 0 /\ waiting' = waiting - 1
      /\ errors' = IF tp = "error" THEN errors + 1 ELSE errors
      /\ q' = r
      /\ armed' = (armed /\ v = "none")
      /\ calls' = IF v = "none" THEN calls ELSE calls + 1
      /\ verdict' = IF v = "none" THEN verdict ELSE v
      /\ freed' = AllAnswered(r)
  BY DEF Answer, Go
<1>2. /\ q \in QuorumRecords /\ q.requests >= 1
      /\ waiting \in Nat /\ errors \in Nat /\ N - 1 - errors >= 1
  BY <1>1 DEF IInv, TypeOK, Accounting, QuorumRecords
<1>3. /\ r \in QuorumRecords
      /\ r.quorum = MinReachable
      /\ r.requests = N - 1 - errors'
      /\ r.accepted + r.rejected + r.collisions + waiting' = r.requests
      /\ r.accept_threshold = (N - errors') \div 2
      /\ r.accepted >= q.accepted /\ r.requests <= q.requests
  <2>1. CASE tp = "accept"
    BY <1>1, <1>2, <2>1 DEF IInv, Accounting, CountAnswer, QuorumRecords
  <2>2. CASE tp = "reject"
    BY <1>1, <1>2, <2>2 DEF IInv, Accounting, CountAnswer, QuorumRecords
  <2>3. CASE tp = "collision"
    <3> DEFINE d == IF q.requests > n THEN 1 ELSE IF q.requests < n THEN -1 ELSE 0
               w == q.win_collision /\ ~(q.requests = n /\ lower)
               e == q.diff_requests + d
    <3>1. r = [q EXCEPT !.collisions = q.collisions + 1,
                        !.diff_requests = e, !.win_collision = w]
      BY <2>3, Zenon DEF CountAnswer
    <3>2. e \in Int /\ w \in BOOLEAN
      BY <1>2 DEF QuorumRecords
    <3> HIDE DEF d, w, e, r
    <3> DEFINE s == [q EXCEPT !.collisions = q.collisions + 1,
                              !.diff_requests = e, !.win_collision = w]
    <3>3. /\ r \in QuorumRecords
          /\ r.quorum = q.quorum /\ r.requests = q.requests
          /\ r.accepted = q.accepted /\ r.rejected = q.rejected
          /\ r.collisions = q.collisions + 1
          /\ r.accept_threshold = q.accept_threshold
      <4>1. q \in QuorumRecords
        BY <1>2
      <4>2. /\ s \in QuorumRecords
            /\ s.quorum = q.quorum /\ s.requests = q.requests
            /\ s.accepted = q.accepted /\ s.rejected = q.rejected
            /\ s.collisions = q.collisions + 1
            /\ s.accept_threshold = q.accept_threshold
        BY <3>2, <4>1, CollisionFields, Zenon
      <4>. QED BY <3>1, <4>2, Zenon
    <3> HIDE DEF s
    <3>4. /\ errors' = errors /\ waiting' = waiting - 1
      BY <1>1, <2>3
    <3>5. /\ q.quorum = MinReachable /\ q.requests = N - 1 - errors
          /\ q.accepted + q.rejected + q.collisions + waiting = q.requests
          /\ q.accept_threshold = (N - errors) \div 2
      BY DEF IInv, Accounting
    <3>6. /\ q.accepted \in Nat /\ q.rejected \in Nat /\ q.collisions \in Nat
          /\ q.requests \in Nat
      BY <1>2 DEF QuorumRecords
    <3>. QED BY <1>2, <3>3, <3>4, <3>5, <3>6
  <2>4. CASE tp = "error"
    <3>1. r = ShrinkOne(q) /\ q.requests # 0
      BY <1>2, <2>4 DEF CountAnswer, QuorumRecords
    <3>2. /\ r = [q EXCEPT !.accept_threshold = q.requests \div 2,
                           !.requests = q.requests - 1]
          /\ q.requests \div 2 \in Nat /\ q.requests - 1 \in Nat
      BY <1>2, <3>1 DEF ShrinkOne, QuorumRecords
    <3> HIDE DEF r
    <3>3. /\ r \in QuorumRecords
          /\ r.quorum = q.quorum /\ r.requests = q.requests - 1
          /\ r.accepted = q.accepted /\ r.rejected = q.rejected
          /\ r.collisions = q.collisions
          /\ r.accept_threshold = q.requests \div 2
      BY <1>2, <3>2 DEF QuorumRecords
    <3>4. q.requests = N - errors'
      BY <1>1, <1>2, <2>4 DEF IInv, Accounting
    <3>. QED BY <1>1, <1>2, <2>4, <3>3, <3>4 DEF IInv, Accounting, QuorumRecords
  <2>. QED BY <2>1, <2>2, <2>3, <2>4 DEF Answers
<1>4. QuorumGo(r) \in Verdicts /\ (AllAnswered(r) => QuorumGo(r) # "none")
  BY <1>3, GoType
<1>5. TypeOK'
  <2>1. errors' \in 0 .. (N - 1) /\ waiting' \in 0 .. (N - 1)
    BY <1>1, <1>2 DEF IInv, TypeOK
  <2>2. armed' \in BOOLEAN /\ calls' \in Nat /\ verdict' \in Verdicts
    BY <1>1, <1>4 DEF IInv, TypeOK, Verdicts
  <2>3. freed' \in BOOLEAN
    BY <1>1 DEF AllAnswered
  <2>. QED BY <1>1, <1>3, <2>1, <2>2, <2>3 DEF TypeOK
<1>6. Accounting'
  <2>1. (freed <=> AllAnswered(q))'
    BY <1>1
  <2>2. (calls = IF armed THEN 0 ELSE 1)' /\ (armed <=> (verdict = "none"))'
    BY <1>1, <1>4 DEF IInv, Accounting, TypeOK
  <2>3. (armed => ~ freed)'
    BY <1>1, <1>4
  <2>. QED BY <1>1, <1>3, <2>1, <2>2, <2>3 DEF Accounting
<1>7. WinIsJustified'
  <2> SUFFICES ASSUME verdict' = "win"
               PROVE  \/ 2 * (r.accepted + 1) > r.requests + 1
                      \/ AllAnswered(r) /\ r.accepted = r.rejected
                                        /\ r.collisions > r.diff_requests
                      \/ AllAnswered(r) /\ r.accepted > r.rejected
                                        /\ r.diff_requests >= 0
    BY <1>1 DEF WinIsJustified
  <2>1. CASE v = "none"
    <3>1. verdict = "win" /\ ~ freed
      BY <1>1, <1>2, <2>1 DEF IInv, Accounting, AllAnswered, TypeOK, QuorumRecords
    <3>2. 2 * (q.accepted + 1) > q.requests + 1
      BY <3>1 DEF IInv, WinIsJustified
    <3>. QED BY <1>2, <1>3, <3>2 DEF QuorumRecords
  <2>2. CASE v # "none"
    <3>1. QuorumGo(r) = "win"
      BY <1>1, <2>2
    <3>2. r.accept_threshold = (r.requests + 1) \div 2
      BY <1>1, <1>2, <1>3 DEF QuorumRecords
    <3>. QED BY <1>3, <3>1, <3>2, GoWin
  <2>. QED BY <2>1, <2>2
<1>. QED BY <1>5, <1>6, <1>7 DEF IInv

LEMMA NextIInv == IInv /\ [Next]_vars => IInv'
<1> SUFFICES ASSUME IInv, [Next]_vars PROVE IInv' OBVIOUS
<1>1. CASE Next
  <2>0. 0 \in 0 .. (N - 1)
    BY NAssumption
  <2>1. CASE Answer("accept", 0, FALSE)
    BY <2>0, <2>1, AnswerIInv DEF Answers
  <2>2. CASE Answer("reject", 0, FALSE)
    BY <2>0, <2>2, AnswerIInv DEF Answers
  <2>3. CASE Answer("error", 0, FALSE)
    BY <2>0, <2>3, AnswerIInv DEF Answers
  <2>4. CASE \E n \in 0 .. (N - 1), lower \in BOOLEAN : Answer("collision", n, lower)
    BY <2>4, AnswerIInv DEF Answers
  <2>. QED BY <1>1, <2>1, <2>2, <2>3, <2>4 DEF Next
<1>2. CASE UNCHANGED vars
  BY <1>2 DEF IInv, TypeOK, Accounting, WinIsJustified, vars
<1>. QED BY <1>1, <1>2

(* In a cluster of any size, the counter keeps its types.                  *)
THEOREM TypeCorrect == Spec => []TypeOK
<1>1. IInv => TypeOK
  BY DEF IInv
<1>. QED BY InitIInv, NextIInv, <1>1, PTL DEF Spec

(* In a cluster of any size and whatever comes back in whatever order, the *)
(* counter is freed exactly when the last request is back.                 *)
THEOREM FreeIsSafe == Spec => []FreedWhenIdle
<1>1. IInv => FreedWhenIdle
  BY NAssumption DEF IInv, TypeOK, Accounting, FreedWhenIdle, AllAnswered, QuorumRecords
<1>. QED BY InitIInv, NextIInv, <1>1, PTL DEF Spec

(* In a cluster of any size the callback is called at most once, and has   *)
(* been called when the counter is freed.                                  *)
THEOREM OneVerdict == Spec => []CalledOnce
<1>1. IInv => CalledOnce
  BY DEF IInv, TypeOK, Accounting, CalledOnce
<1>. QED BY InitIInv, NextIInv, <1>1, PTL DEF Spec

(* In a cluster of any size a winner holds a majority of the nodes that    *)
(* take part, or has all answers and a tie broken by the collisions.       *)
THEOREM WinJustified == Spec => []WinIsJustified
<1>1. IInv => WinIsJustified
  BY DEF IInv
<1>. QED BY InitIInv, NextIInv, <1>1, PTL DEF Spec

(* In a cluster of any size a node that gives up while answers are still   *)
(* out could not have won with them.                                       *)
THEOREM LoseHopeless == Spec => LoseIsHopeless
<1>1. ASSUME IInv, [Next]_vars, IInv', verdict = "none", verdict' = "lose", ~freed'
      PROVE  q'.requests < q'.quorum \/ q'.requests - q'.rejected < q'.accept_threshold
  <2> USE NAssumption
  <2>1. PICK tp \in Answers, n \in 0 .. (N - 1), lower \in BOOLEAN : Answer(tp, n, lower)
    <3>1. Next /\ 0 \in 0 .. (N - 1)
      BY <1>1 DEF vars
    <3>. QED BY <3>1, Zenon DEF Next, Answers
  <2>2. QuorumGo(q') = "lose"
    <3>1. QuorumGo(CountAnswer(q, tp, n, lower)) = "lose"
      BY <1>1, <2>1 DEF Answer, Go
    <3>. QED BY <2>1, <3>1 DEF Answer, Go
  <2>3. q' \in QuorumRecords /\ ~AllAnswered(q')
    BY <1>1 DEF IInv, TypeOK, Accounting
  <2>4. q'.accept_threshold = (q'.requests + 1) \div 2
    <3>1. q'.requests + 1 = N - errors'
      BY <1>1 DEF IInv, TypeOK, Accounting
    <3>. QED BY <1>1, <3>1 DEF IInv, Accounting
  <2>. QED BY <2>2, <2>3, <2>4, GoLose
<1>2. IInv /\ [Next]_vars /\ IInv' =>
        [(verdict = "none" /\ verdict' = "lose" /\ ~freed') =>
           \/ q'.requests < q'.quorum
           \/ q'.requests - q'.rejected < q'.accept_threshold]_vars
  BY <1>1
<1>. QED BY InitIInv, NextIInv, <1>2, PTL DEF Spec, LoseIsHopeless
=============================================================================
