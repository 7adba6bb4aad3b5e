---------------------------- MODULE TasksProofs -----------------------------
(***************************************************************************)
(* Proofs about scheduled tasks, for any cluster, any tasks and any bound  *)
(* on the time, the changes and the faults.                                *)
(***************************************************************************)
EXTENDS Tasks, Integers, FiniteSetTheorems, TLAPS

TaskTps == {"new", "cancel", "del", "finish"}
Sets == {"new", "finish"}    \* the changes that give a task its time

(* Change i of the log l is about task t and of one of the types T.        *)
Has(l, i, t, T) == l[i].tp \in T /\ l[i].task = t

(* It is the last such change among the first p.                           *)
Latest(l, i, t, T, p) ==
  i \in 1 .. p /\ Has(l, i, t, T) /\ \A j \in i + 1 .. p : ~Has(l, j, t, T)

Deleted(l, t, p) == \E i \in 1 .. p : Has(l, i, t, {"del"})
-----------------------------------------------------------------------------
(* What holds whatever goes wrong.                                         *)

(* A task is made once, and its deletion is the last that is said of it.   *)
GoodLog ==
  /\ Len(log) <= MaxLog /\ \A n \in Nodes : pos[n] <= Len(log)
  /\ \A i \in 1 .. Len(log) :
       /\ log[i].tp \in {"cancel", "del"} => log[i].at = 0
       /\ log[i].tp \in TaskTps =>
            /\ \E j \in 1 .. i : Has(log, j, log[i].task, {"new"})
            /\ \A j \in 1 .. Len(log) : j < i => ~Has(log, j, log[i].task, {"del"})
            /\ log[i].tp = "new" =>
                 \A j \in 1 .. Len(log) : Has(log, j, log[i].task, {"new"}) => j = i

(* What a node has of a task follows from the changes it has applied.      *)
Follows(n, t) ==
  /\ tasks[n][t].here <=> /\ \E i \in 1 .. pos[n] : Has(log, i, t, {"new"})
                          /\ ~Deleted(log, t, pos[n])
  /\ ~tasks[n][t].here =>
       tasks[n][t].run_at = 0 /\ ~tasks[n][t].running /\ ~tasks[n][t].again

(* The time of a task is the one that was set last.                        *)
OnTime(n, t) ==
  tasks[n][t].run_at # 0 =>
    \E i \in 1 .. pos[n] :
      Latest(log, i, t, Sets, pos[n]) /\ tasks[n][t].run_at = log[i].at

(* The task has not run for the change that set its time last.             *)
NotRunFrom(t, from) == \A i \in Places : i >= from => ran[t][i] = 0
Fresh(t) ==
  \A i \in 1 .. Len(log) : Latest(log, i, t, Sets, Len(log)) => NotRunFrom(t, i)
-----------------------------------------------------------------------------
(* Smallest and largest elements.                                          *)

LEMMA MinExists ==
  ASSUME NEW S \in SUBSET Nat, S # {}
  PROVE  Min(S) \in S /\ \A y \in S : Min(S) <= y
<1>1. PICK x \in S : \A y \in S : ~(<<y, x>> \in OpToRel(<, Nat))
  BY WFMin, NatLessThanWellFounded
<1>2. \A y \in S : x <= y
  <2> SUFFICES ASSUME NEW y \in S PROVE x <= y
    OBVIOUS
  <2>1. x \in Nat /\ y \in Nat
    OBVIOUS
  <2>2. ~(y < x)
    BY <1>1, <2>1 DEF OpToRel
  <2>. QED BY <2>1, <2>2
<1>. QED BY <1>2 DEF Min

LEMMA MaxExists ==
  ASSUME NEW S \in SUBSET Nat, S # {}, NEW b \in Nat, \A y \in S : y <= b
  PROVE  Max(S) \in S /\ \A y \in S : y <= Max(S)
<1> DEFINE T == {b - y : y \in S}
<1>1. T \in SUBSET Nat /\ T # {}
  <2>1. \A y \in S : b - y \in Nat
    OBVIOUS
  <2>2. PICK y \in S : TRUE
    OBVIOUS
  <2>3. b - y \in T
    OBVIOUS
  <2>. QED BY <2>1, <2>3
<1>2. PICK x \in T : \A y \in T : ~(<<y, x>> \in OpToRel(<, Nat))
  BY <1>1, WFMin, NatLessThanWellFounded
<1>3. PICK z \in S : x = b - z
  BY <1>2
<1>4. \A y \in S : z >= y
  <2> SUFFICES ASSUME NEW y \in S PROVE z >= y
    OBVIOUS
  <2>1. b - y \in T
    OBVIOUS
  <2>2. ~(b - y < x)
    BY <1>1, <1>2, <2>1 DEF OpToRel
  <2>. QED BY <1>3, <2>2
<1>. QED BY <1>4 DEF Max
-----------------------------------------------------------------------------
(* Types.                                                                  *)

TaskChanges ==
  [tp: {"new", "cancel", "del", "finish"}, task: TaskIds, at: 0 .. MaxTime,
   verr: {"NULL", "ok", "error"}]
NodeChanges == [tp: {"new_node", "del_node"}, node: Nodes]
KindSet == {"change", "async", "future", "finish"}
TaskRecords ==
  [here: BOOLEAN, run_at: 0 .. MaxTime, running: BOOLEAN, again: BOOLEAN,
   verr: {"NULL", "ok", "error"}]

LEMMA TaskTypes ==
  /\ NoTask \in TaskRecords
  /\ \A at \in 0 .. MaxTime, v \in {"NULL", "ok", "error"} : Task(at, v) \in TaskRecords
  /\ \A at \in 0 .. MaxTime, v \in {"NULL", "ok", "error"} :
       /\ Task(at, v).here = TRUE /\ Task(at, v).run_at = at
       /\ Task(at, v).running = FALSE /\ Task(at, v).again = FALSE
       /\ Task(at, v).verr = v
  /\ NoTask.here = FALSE /\ NoTask.run_at = 0 /\ NoTask.running = FALSE
  /\ NoTask.again = FALSE
<1>0. 0 \in 0 .. MaxTime
  BY TaskBoundsAssumption
<1>1. NoTask \in TaskRecords
  BY <1>0 DEF NoTask, TaskRecords
<1>2. ASSUME NEW at \in 0 .. MaxTime, NEW v \in {"NULL", "ok", "error"}
      PROVE  /\ Task(at, v) \in TaskRecords
             /\ Task(at, v).here = TRUE /\ Task(at, v).run_at = at
             /\ Task(at, v).running = FALSE /\ Task(at, v).again = FALSE
             /\ Task(at, v).verr = v
  <2> DEFINE a == [NoTask EXCEPT !.here = TRUE]
             b == [a EXCEPT !.run_at = at]
  <2>1. /\ a \in TaskRecords /\ a.here = TRUE /\ a.running = FALSE /\ a.again = FALSE
    BY <1>1 DEF NoTask, TaskRecords
  <2>2. Task(at, v) = [b EXCEPT !.verr = v]
    BY DEF Task
  <2> HIDE DEF a
  <2>3. /\ b \in TaskRecords /\ b.here = TRUE /\ b.running = FALSE /\ b.again = FALSE
        /\ b.run_at = at
    BY <2>1 DEF TaskRecords
  <2> HIDE DEF b
  <2> DEFINE c == [b EXCEPT !.verr = v]
  <2>4. c \in TaskRecords
    BY <2>3 DEF TaskRecords
  <2>5. /\ c.here = TRUE /\ c.running = FALSE /\ c.again = FALSE
        /\ c.run_at = at /\ c.verr = v
    BY <2>3 DEF TaskRecords
  <2> HIDE DEF c
  <2>6. Task(at, v) = c
    BY <2>2 DEF c
  <2>. QED BY <2>4, <2>5, <2>6
<1>3. NoTask.here = FALSE /\ NoTask.run_at = 0 /\ NoTask.running = FALSE /\ NoTask.again = FALSE
  BY DEF NoTask
<1>4. \A at \in 0 .. MaxTime, v \in {"NULL", "ok", "error"} : Task(at, v) \in TaskRecords
  BY <1>2
<1>5. \A at \in 0 .. MaxTime, v \in {"NULL", "ok", "error"} :
        /\ Task(at, v).here = TRUE /\ Task(at, v).run_at = at
        /\ Task(at, v).running = FALSE /\ Task(at, v).again = FALSE
        /\ Task(at, v).verr = v
  <2> SUFFICES ASSUME NEW at \in 0 .. MaxTime, NEW v \in {"NULL", "ok", "error"}
               PROVE  /\ Task(at, v).here = TRUE /\ Task(at, v).run_at = at
                      /\ Task(at, v).running = FALSE /\ Task(at, v).again = FALSE
                      /\ Task(at, v).verr = v
    BY Zenon
  <2>. QED BY <1>2
<1>. QED BY <1>1, <1>3, <1>4, <1>5, Zenon

(* What the change c makes of the task k.                                  *)
Result(c, k) ==
  IF c.tp \in Sets THEN Task(c.at, c.verr)
  ELSE IF c.tp = "del" THEN NoTask
  ELSE [k EXCEPT !.run_at = 0, !.verr = c.verr]

LEMMA ResultFacts ==
  ASSUME NEW c \in TaskChanges, NEW k \in TaskRecords
  PROVE  /\ Result(c, k) \in TaskRecords
         /\ c.tp \in Sets => /\ Result(c, k).here /\ Result(c, k).run_at = c.at
                             /\ ~Result(c, k).running /\ ~Result(c, k).again
         /\ c.tp = "del" => /\ ~Result(c, k).here /\ Result(c, k).run_at = 0
                            /\ ~Result(c, k).running /\ ~Result(c, k).again
         /\ c.tp = "cancel" =>
              /\ Result(c, k).here = k.here /\ Result(c, k).run_at = 0
              /\ Result(c, k).running = k.running /\ Result(c, k).again = k.again
<1>1. c.at \in 0 .. MaxTime /\ c.verr \in {"NULL", "ok", "error"}
      /\ c.tp \in {"new", "cancel", "del", "finish"}
  BY DEF TaskChanges
<1>2. CASE c.tp \in Sets
  BY <1>1, <1>2, TaskTypes DEF Result, Sets
<1>3. CASE c.tp = "del"
  BY <1>1, <1>3, TaskTypes DEF Result, Sets
<1>4. CASE c.tp = "cancel"
  <2>1. Result(c, k) = [k EXCEPT !.run_at = 0, !.verr = c.verr]
    BY <1>4 DEF Result, Sets
  <2>2. 0 \in 0 .. MaxTime
    BY TaskBoundsAssumption
  <2>. QED BY <1>1, <1>4, <2>1, <2>2 DEF TaskRecords, Sets
<1>. QED BY <1>1, <1>2, <1>3, <1>4 DEF Sets

(* The changes of a log that grew are the old ones and the new one.        *)
LEMMA LogGrows ==
  ASSUME NEW S, NEW l \in Seq(S), NEW c \in S
  PROVE  /\ Append(l, c) \in Seq(S) /\ Len(Append(l, c)) = Len(l) + 1
         /\ \A i \in 1 .. Len(l) : Append(l, c)[i] = l[i]
         /\ Append(l, c)[Len(l) + 1] = c
         /\ Len(l) \in Nat
OBVIOUS

LEMMA TypeParts ==
  TypeOK => /\ now \in Times /\ log \in Seq(TaskChanges \cup NodeChanges)
            /\ pos \in [Nodes -> 0 .. MaxLog]
            /\ members \in [Nodes -> SUBSET Nodes]
            /\ status \in [Nodes -> {"READY", "AWAY", "DOWN"}]
            /\ tasks \in [Nodes -> [TaskIds -> TaskRecords]]
            /\ lowest \in [Nodes -> 0 .. Never]
            /\ queries \subseteq [node: Nodes, task: TaskIds,
                                  kind: KindSet]
            /\ fwd \subseteq [to: Nodes, task: TaskIds, pos: 0 .. MaxLog]
            /\ ran \in [TaskIds -> [Places -> Nat]] /\ faults \in Nat
BY DEF TypeOK, TaskChanges, NodeChanges, TaskRecords, KindSet

LEMMA ChangeKinds ==
  ASSUME NEW c \in TaskChanges \cup NodeChanges
  PROVE  /\ c.tp \in TaskTps <=> c \in TaskChanges
         /\ c.tp \in {"new_node", "del_node"} <=> c \in NodeChanges
         /\ Sets \subseteq TaskTps
BY DEF TaskChanges, NodeChanges, TaskTps, Sets

(* One task of one node is replaced.                                       *)
LEMMA ReplaceTask ==
  ASSUME tasks \in [Nodes -> [TaskIds -> TaskRecords]], NEW n \in Nodes,
         NEW t \in TaskIds, NEW k \in TaskRecords,
         tasks' = [tasks EXCEPT ![n] = [tasks[n] EXCEPT ![t] = k]]
  PROVE  /\ tasks' \in [Nodes -> [TaskIds -> TaskRecords]]
         /\ \A m \in Nodes, u \in TaskIds :
              tasks'[m][u] = IF m = n /\ u = t THEN k ELSE tasks[m][u]
OBVIOUS

(* What applying a change does to the tasks and to the lowest time.        *)
LEMMA ApplyEffect ==
  ASSUME TypeOK, NEW n \in Nodes, NEW c \in TaskChanges \cup NodeChanges, Apply(n, c)
  PROVE  /\ tasks' \in [Nodes -> [TaskIds -> TaskRecords]]
         /\ members' \in [Nodes -> SUBSET Nodes] /\ lowest' \in [Nodes -> 0 .. Never]
         /\ \A m \in Nodes, t \in TaskIds :
              tasks'[m][t] = IF m = n /\ c.tp \in TaskTps /\ c.task = t
                             THEN Result(c, tasks[m][t]) ELSE tasks[m][t]
         /\ c.tp \in TaskTps => members' = members
         /\ \A m \in Nodes \ {n} : members'[m] = members[m] /\ lowest'[m] = lowest[m]
         /\ lowest'[n] <= lowest[n]
         /\ c.tp \in Sets /\ c.at # 0 /\ Owns(n, members[n], c.task) => lowest'[n] <= c.at
         /\ c.tp = "new_node" => lowest'[n] = 0
<1>0. /\ tasks \in [Nodes -> [TaskIds -> TaskRecords]] /\ lowest \in [Nodes -> 0 .. Never]
      /\ members \in [Nodes -> SUBSET Nodes] /\ 0 \in 0 .. Never
  BY TypeParts, TaskBoundsAssumption DEF Never
<1>1. CASE c.tp \in Sets
  <2>1. c \in TaskChanges /\ c.task \in TaskIds /\ c.at \in 0 .. MaxTime /\ c.tp \in TaskTps
    BY <1>1, ChangeKinds DEF TaskChanges
  <2>2. /\ tasks' = [tasks EXCEPT ![n] = [tasks[n] EXCEPT ![c.task] = Task(c.at, c.verr)]]
        /\ members' = members
        /\ \E own \in BOOLEAN :
             /\ c.at # 0 /\ Owns(n, members[n], c.task) => own
             /\ lowest' = [lowest EXCEPT ![n] = Lower(lowest[n], own, c.at)]
    <3> DEFINE own(b) == /\ c.at # 0 /\ Owns(n, members[n], c.task) => b
                         /\ lowest' = [lowest EXCEPT ![n] = Lower(lowest[n], b, c.at)]
    <3>1. CASE c.tp = "new"
      <4>1. ApplyNew(n, c) /\ members' = members
        BY <3>1 DEF Apply
      <4>2. own(Owns(n, members[n], c.task))
        BY <4>1 DEF ApplyNew
      <4>3. Owns(n, members[n], c.task) \in BOOLEAN
        BY DEF Owns
      <4> HIDE DEF own
      <4>4. \E b \in BOOLEAN : own(b)
        BY <4>2, <4>3
      <4>. QED BY <4>1, <4>4 DEF ApplyNew, own
    <3>2. CASE c.tp = "finish"
      <4>1. ApplyFinish(n, c) /\ members' = members
        BY <3>2 DEF Apply
      <4>2. own(c.at # 0 /\ Owns(n, members[n], c.task))
        BY <4>1 DEF ApplyFinish
      <4>3. (c.at # 0 /\ Owns(n, members[n], c.task)) \in BOOLEAN
        OBVIOUS
      <4> HIDE DEF own
      <4>4. \E b \in BOOLEAN : own(b)
        BY <4>2, <4>3
      <4>. QED BY <4>1, <4>4 DEF ApplyFinish, own
    <3>. QED BY <1>1, <3>1, <3>2 DEF Sets
  <2>3. tasks' \in [Nodes -> [TaskIds -> TaskRecords]]
        /\ \A m \in Nodes, t \in TaskIds :
             tasks'[m][t] = IF m = n /\ t = c.task THEN Task(c.at, c.verr) ELSE tasks[m][t]
    <3>1. Task(c.at, c.verr) \in TaskRecords
      BY <2>1, TaskTypes DEF TaskChanges
    <3>. QED BY <1>0, <2>1, <2>2, <3>1, ReplaceTask
  <2>4. lowest' \in [Nodes -> 0 .. Never] /\ lowest'[n] <= lowest[n]
        /\ (c.at # 0 /\ Owns(n, members[n], c.task) => lowest'[n] <= c.at)
        /\ \A m \in Nodes \ {n} : lowest'[m] = lowest[m]
    <3>1. PICK own \in BOOLEAN : /\ c.at # 0 /\ Owns(n, members[n], c.task) => own
                                 /\ lowest' = [lowest EXCEPT ![n] = Lower(lowest[n], own, c.at)]
      BY <2>2
    <3>2. lowest[n] \in Nat /\ c.at \in Nat /\ Lower(lowest[n], own, c.at) \in 0 .. Never
      BY <1>0, <2>1, TaskBoundsAssumption DEF Lower, Never
    <3>. QED BY <1>0, <3>1, <3>2 DEF Lower
  <2>. QED BY <1>0, <1>1, <2>1, <2>2, <2>3, <2>4 DEF Result, Sets
<1>2. CASE c.tp = "del"
  <2>1. c \in TaskChanges /\ c.task \in TaskIds /\ c.tp \in TaskTps
    BY <1>2, ChangeKinds DEF TaskChanges, TaskTps
  <2>2. /\ tasks' = [tasks EXCEPT ![n] = [tasks[n] EXCEPT ![c.task] = NoTask]]
        /\ members' = members /\ lowest' = lowest
    BY <1>0, <1>2 DEF Apply, ApplyDel
  <2>3. tasks' \in [Nodes -> [TaskIds -> TaskRecords]]
        /\ \A m \in Nodes, t \in TaskIds :
             tasks'[m][t] = IF m = n /\ t = c.task THEN NoTask ELSE tasks[m][t]
    BY <1>0, <2>1, <2>2, TaskTypes, ReplaceTask
  <2>4. lowest[n] \in Nat
    BY <1>0
  <2>. QED BY <1>0, <1>2, <2>1, <2>2, <2>3, <2>4 DEF Result, Sets
<1>3. CASE c.tp = "cancel"
  <2>1. c \in TaskChanges /\ c.task \in TaskIds /\ c.tp \in TaskTps
    BY <1>3, ChangeKinds DEF TaskChanges, TaskTps
  <2> DEFINE k == [tasks[n][c.task] EXCEPT !.run_at = 0, !.verr = c.verr]
  <2>2. /\ tasks' = [tasks EXCEPT ![n] = [tasks[n] EXCEPT ![c.task] = k]]
        /\ members' = members /\ lowest' = lowest
    BY <1>0, <1>3, <2>1 DEF Apply, ApplyCancel
  <2>3. k = Result(c, tasks[n][c.task])
    BY <1>3 DEF Result, Sets
  <2> HIDE DEF k
  <2>6. k \in TaskRecords
    BY <1>0, <2>1, <2>3, ResultFacts
  <2>4. tasks' \in [Nodes -> [TaskIds -> TaskRecords]]
        /\ \A m \in Nodes, t \in TaskIds :
             tasks'[m][t] = IF m = n /\ t = c.task THEN k ELSE tasks[m][t]
    BY <1>0, <2>1, <2>2, <2>6, ReplaceTask
  <2>5. lowest[n] \in Nat
    BY <1>0
  <2>. QED BY <1>0, <1>3, <2>1, <2>2, <2>3, <2>4, <2>5 DEF Sets
<1>4. CASE c.tp \in {"new_node", "del_node"}
  <2>1. c.node \in Nodes /\ c.tp \notin TaskTps /\ c.tp \notin Sets
    BY <1>4, ChangeKinds DEF NodeChanges, TaskTps, Sets
  <2>2. CASE c.tp = "new_node"
    <3>1. /\ tasks' = tasks /\ members' = [members EXCEPT ![n] = @ \cup {c.node}]
          /\ lowest' = [lowest EXCEPT ![n] = 0]
      BY <2>2 DEF Apply, ApplyNewNode
    <3>. QED BY <1>0, <2>1, <3>1
  <2>3. CASE c.tp = "del_node"
    <3>1. /\ tasks' = tasks /\ members' = [members EXCEPT ![n] = @ \ {c.node}]
          /\ lowest' = lowest
      BY <2>3 DEF Apply, ApplyDelNode
    <3>2. lowest[n] \in Nat
      BY <1>0
    <3>. QED BY <1>0, <2>1, <2>3, <3>1, <3>2
  <2>. QED BY <1>4, <2>2, <2>3
<1>. QED BY <1>1, <1>2, <1>3, <1>4 DEF Apply, Sets
-----------------------------------------------------------------------------
(* The log, and what the nodes have of it.                                 *)

Kinds == \A q \in queries : /\ q.kind = "async" => q.task \in Quiet
                            /\ q.kind = "change" => q.task \notin Quiet

Lay == TypeOK /\ GoodLog /\ (\A n \in Nodes, t \in TaskIds : Follows(n, t)) /\ Kinds

LEMMA TypeBuild ==
  (/\ now \in Times /\ log \in Seq(TaskChanges \cup NodeChanges)
   /\ pos \in [Nodes -> 0 .. MaxLog]
   /\ members \in [Nodes -> SUBSET Nodes]
   /\ status \in [Nodes -> {"READY", "AWAY", "DOWN"}]
   /\ tasks \in [Nodes -> [TaskIds -> TaskRecords]]
   /\ lowest \in [Nodes -> 0 .. Never]
   /\ queries \subseteq [node: Nodes, task: TaskIds, kind: KindSet]
   /\ fwd \subseteq [to: Nodes, task: TaskIds, pos: 0 .. MaxLog]
   /\ ran \in [TaskIds -> [Places -> Nat]] /\ faults \in Nat)' => TypeOK'
BY DEF TypeOK, TaskChanges, NodeChanges, TaskRecords, KindSet

(* A change that a node may make when it has applied all others.           *)
CommitOK(n, c) ==
  /\ c.tp \in {"cancel", "del"} => c.at = 0
  /\ c.tp = "new" => ~\E i \in 1 .. Len(log) : Has(log, i, c.task, {"new"})
  /\ c.tp \in {"cancel", "del", "finish"} => tasks[n][c.task].here

LEMMA PosFacts ==
  ASSUME Lay, NEW n \in Nodes
  PROVE  pos[n] \in Nat /\ pos[n] <= MaxLog /\ Len(log) \in Nat /\ MaxLog \in Nat
         /\ pos[n] <= Len(log)
BY TypeParts, TaskBoundsAssumption DEF Lay, GoodLog

(* Node n applies the change at its place in the log, which may have just  *)
(* been added to the log.                                                  *)
AppliesNext(n, c) ==
  /\ Apply(n, c) /\ pos' = [pos EXCEPT ![n] = @ + 1]
  /\ Len(log) <= Len(log') /\ \A i \in 1 .. Len(log) : log'[i] = log[i]
  /\ pos[n] < Len(log') /\ log'[pos[n] + 1] = c

LEMMA AppliesPos ==
  ASSUME Lay, NEW n \in Nodes, NEW c, AppliesNext(n, c), GoodLog'
  PROVE  /\ pos' \in [Nodes -> 0 .. MaxLog]
         /\ \A m \in Nodes : pos'[m] = IF m = n THEN pos[m] + 1 ELSE pos[m]
         /\ \A m \in Nodes : \A i \in 1 .. pos[m] : log'[i] = log[i]
<1>1. pos \in [Nodes -> 0 .. MaxLog] /\ Len(log) \in Nat /\ MaxLog \in Nat
  BY TypeParts, TaskBoundsAssumption DEF Lay
<1>2. pos' = [pos EXCEPT ![n] = pos[n] + 1] /\ pos'[n] <= Len(log') /\ Len(log') <= MaxLog
  BY <1>1 DEF AppliesNext, GoodLog
<1>3. \A m \in Nodes : pos[m] \in Nat /\ pos[m] <= Len(log)
  BY PosFacts
<1>4. pos[n] + 1 <= MaxLog
  <2>1. Len(log') \in Int
    BY <1>1, <1>2, <1>3 DEF AppliesNext
  <2>. QED BY <1>1, <1>2, <1>3, <2>1
<1>. QED BY <1>1, <1>2, <1>3, <1>4 DEF AppliesNext

LEMMA AppliesFollows ==
  ASSUME Lay, NEW n \in Nodes, NEW c \in TaskChanges \cup NodeChanges,
         AppliesNext(n, c), GoodLog'
  PROVE  \A m \in Nodes, t \in TaskIds : Follows(m, t)'
<1> SUFFICES ASSUME NEW m \in Nodes, NEW t \in TaskIds PROVE Follows(m, t)'
  OBVIOUS
<1>0. TypeOK /\ Apply(n, c) /\ Follows(m, t) /\ tasks \in [Nodes -> [TaskIds -> TaskRecords]]
  BY TypeParts DEF Lay, AppliesNext
<1>1. tasks'[m][t] = IF m = n /\ c.tp \in TaskTps /\ c.task = t
                     THEN Result(c, tasks[m][t]) ELSE tasks[m][t]
  BY <1>0, ApplyEffect
<1>2. /\ pos[m] \in Nat /\ pos[m] <= Len(log) /\ Len(log) \in Nat
      /\ pos'[m] = IF m = n THEN pos[m] + 1 ELSE pos[m]
      /\ \A i \in 1 .. pos[m] : log'[i] = log[i]
  BY PosFacts, AppliesPos
<1>3. CASE m # n
  <2>1. tasks'[m][t] = tasks[m][t] /\ pos'[m] = pos[m]
    BY <1>1, <1>2, <1>3
  <2>. QED BY <1>0, <1>2, <2>1 DEF Follows, Has, Deleted
<1>4. CASE m = n /\ ~(c.tp \in TaskTps /\ c.task = t)
  <2>1. tasks'[m][t] = tasks[m][t] /\ pos'[m] = pos[m] + 1
    BY <1>1, <1>2, <1>4
  <2>2. log'[pos[m] + 1] = c
    BY <1>4 DEF AppliesNext
  <2>3. \A i \in 1 .. pos[m] + 1, x \in {"new", "del"} :
          Has(log', i, t, {x}) <=> i \in 1 .. pos[m] /\ Has(log, i, t, {x})
    <3> SUFFICES ASSUME NEW i \in 1 .. pos[m] + 1, NEW x \in {"new", "del"}
                 PROVE  Has(log', i, t, {x}) <=> i \in 1 .. pos[m] /\ Has(log, i, t, {x})
      OBVIOUS
    <3>1. CASE i \in 1 .. pos[m]
      BY <1>2, <3>1 DEF Has
    <3>2. CASE i = pos[m] + 1
      BY <1>2, <1>4, <2>2, <3>2 DEF Has, TaskTps
    <3>. QED BY <1>2, <3>1, <3>2
  <2>4. \A x \in {"new", "del"} : (\E i \in 1 .. pos[m] + 1 : Has(log', i, t, {x}))
                                  <=> \E i \in 1 .. pos[m] : Has(log, i, t, {x})
    <3>1. \A i \in 1 .. pos[m] : i \in 1 .. pos[m] + 1
      BY <1>2
    <3>. QED BY <2>3, <3>1
  <2>. QED BY <1>0, <2>1, <2>4 DEF Follows, Deleted
<1>5. CASE m = n /\ c.tp \in TaskTps /\ c.task = t
  <2> DEFINE p == pos[n] + 1
  <2>1. /\ p \in 1 .. Len(log') /\ log'[p] = c /\ pos'[n] = p /\ p \in Nat
        /\ tasks'[n][t] = Result(c, tasks[n][t]) /\ c \in TaskChanges
        /\ tasks[n][t] \in TaskRecords
    BY <1>0, <1>1, <1>2, <1>5, ChangeKinds DEF AppliesNext
  <2>2. /\ \E j \in 1 .. p : Has(log', j, t, {"new"})
        /\ \A j \in 1 .. p - 1 : ~Has(log', j, t, {"del"})
    BY <1>5, <2>1 DEF GoodLog
  <2> HIDE DEF p
  <2>3. CASE c.tp \in Sets
    <3>1. /\ tasks'[n][t].here /\ ~Has(log', p, t, {"del"})
      BY <2>1, <2>3, ResultFacts DEF Has, Sets
    <3>2. ~Deleted(log', t, p)
      BY <2>1, <2>2, <3>1 DEF Deleted
    <3>. QED BY <1>5, <2>1, <2>2, <3>1, <3>2 DEF Follows
  <2>4. CASE c.tp = "del"
    <3>1. /\ ~tasks'[n][t].here /\ tasks'[n][t].run_at = 0 /\ ~tasks'[n][t].running
          /\ ~tasks'[n][t].again
      BY <2>1, <2>4, ResultFacts
    <3>2. Deleted(log', t, p)
      BY <1>5, <2>1, <2>4 DEF Deleted, Has
    <3>. QED BY <1>5, <2>1, <3>1, <3>2 DEF Follows
  <2>5. CASE c.tp = "cancel"
    <3>1. tasks'[n][t].here = tasks[n][t].here
      BY <2>1, <2>5, ResultFacts
    <3>2. /\ \E j \in 1 .. pos[n] : Has(log, j, t, {"new"})
          /\ ~Deleted(log, t, pos[n])
      <4>1. p - 1 = pos[n] /\ \A i \in 1 .. pos[n] : log'[i] = log[i]
        BY <1>2, <1>5 DEF p
      <4>2. PICK j \in 1 .. p : Has(log', j, t, {"new"})
        BY <2>2
      <4>3. j # p
        BY <2>1, <2>5, <4>2 DEF Has
      <4>4. j \in 1 .. pos[n]
        BY <2>1, <4>1, <4>3
      <4>. QED BY <2>2, <4>1, <4>2, <4>4 DEF Has, Deleted
    <3>3. tasks[n][t].here
      BY <1>0, <1>5, <3>2 DEF Follows
    <3>4. ~Has(log', p, t, {"del"})
      BY <2>1, <2>5 DEF Has
    <3>5. ~Deleted(log', t, p)
      BY <2>1, <2>2, <3>4 DEF Deleted
    <3>. QED BY <1>5, <2>1, <2>2, <3>1, <3>3, <3>5 DEF Follows
  <2>. QED BY <1>5, <2>3, <2>4, <2>5 DEF TaskTps, Sets
<1>. QED BY <1>3, <1>4, <1>5

(* A node that has applied all changes makes another one.                  *)
LEMMA CommitLog ==
  ASSUME Lay, NEW n \in Nodes, NEW c \in TaskChanges \cup NodeChanges,
         UpToDate(n), Commit(n, c), CommitOK(n, c)
  PROVE  /\ log' \in Seq(TaskChanges \cup NodeChanges) /\ GoodLog' /\ AppliesNext(n, c)
         /\ Len(log') = Len(log) + 1 /\ log'[Len(log) + 1] = c /\ pos[n] = Len(log)
<1>1. log \in Seq(TaskChanges \cup NodeChanges) /\ Len(log) \in Nat /\ MaxLog \in Nat
      /\ pos \in [Nodes -> 0 .. MaxLog]
  BY TypeParts, TaskBoundsAssumption DEF Lay
<1>2. log' = Append(log, c) /\ pos' = [pos EXCEPT ![n] = @ + 1] /\ Apply(n, c)
  BY DEF Commit
<1>3. pos[n] = Len(log) /\ Len(log) < MaxLog
  BY DEF UpToDate
<1>4. /\ log' \in Seq(TaskChanges \cup NodeChanges) /\ Len(log') = Len(log) + 1
      /\ \A i \in 1 .. Len(log) : log'[i] = log[i]
      /\ log'[Len(log) + 1] = c
  BY <1>1, <1>2, LogGrows
<1>5. AppliesNext(n, c)
  BY <1>1, <1>2, <1>3, <1>4 DEF AppliesNext
<1>6. GoodLog'
  <2>1. /\ Len(log') <= MaxLog /\ \A m \in Nodes : pos'[m] <= Len(log')
    BY <1>1, <1>2, <1>3, <1>4, PosFacts
  <2>2. ASSUME NEW i \in 1 .. Len(log)
        PROVE  /\ log'[i].tp \in {"cancel", "del"} => log'[i].at = 0
               /\ log'[i].tp \in TaskTps =>
                    /\ \E j \in 1 .. i : Has(log', j, log'[i].task, {"new"})
                    /\ \A j \in 1 .. Len(log') : j < i => ~Has(log', j, log'[i].task, {"del"})
                    /\ log'[i].tp = "new" =>
                         \A j \in 1 .. Len(log') : Has(log', j, log'[i].task, {"new"}) => j = i
    <3>0. /\ log'[i] = log[i]
          /\ log[i].tp \in {"cancel", "del"} => log[i].at = 0
          /\ log[i].tp \in TaskTps =>
               /\ \E j \in 1 .. i : Has(log, j, log[i].task, {"new"})
               /\ \A j \in 1 .. Len(log) : j < i => ~Has(log, j, log[i].task, {"del"})
               /\ log[i].tp = "new" =>
                    \A j \in 1 .. Len(log) : Has(log, j, log[i].task, {"new"}) => j = i
      BY <1>4 DEF Lay, GoodLog
    <3>1. ASSUME log[i].tp \in TaskTps
          PROVE  /\ \E j \in 1 .. i : Has(log', j, log[i].task, {"new"})
                 /\ \A j \in 1 .. Len(log') : j < i => ~Has(log', j, log[i].task, {"del"})
      BY <1>1, <1>4, <3>0, <3>1 DEF Has
    <3>2. ASSUME log[i].tp = "new", NEW j \in 1 .. Len(log'), Has(log', j, log[i].task, {"new"})
          PROVE  j = i
      <4>1. CASE j \in 1 .. Len(log)
        <5>1. Has(log, j, log[i].task, {"new"})
          BY <1>4, <3>2, <4>1 DEF Has
        <5>. QED BY <3>0, <3>2, <4>1, <5>1 DEF TaskTps
      <4>2. CASE j = Len(log) + 1
        <5>1. c.tp = "new" /\ c.task = log[i].task
          BY <1>4, <3>2, <4>2 DEF Has
        <5>2. Has(log, i, c.task, {"new"})
          BY <3>2, <5>1 DEF Has
        <5>. QED BY <5>1, <5>2 DEF CommitOK
      <4>3. j \in 1 .. Len(log) \/ j = Len(log) + 1
        <5>1. Len(log) \in Nat /\ Len(log') = Len(log) + 1
          BY <1>1, <1>4
        <5>. QED BY <5>1
      <4>. QED BY <4>1, <4>2, <4>3
    <3>. QED BY <3>0, <3>1, <3>2
  <2>3. ASSUME c.tp \in TaskTps
        PROVE  /\ \E j \in 1 .. Len(log) + 1 : Has(log', j, c.task, {"new"})
               /\ \A j \in 1 .. Len(log) : ~Has(log, j, c.task, {"del"})
    <3>1. c.task \in TaskIds
      BY <2>3, ChangeKinds DEF TaskChanges
    <3>2. CASE c.tp = "new"
      <4>1. Has(log', Len(log) + 1, c.task, {"new"})
        BY <1>4, <3>2 DEF Has
      <4>2. ASSUME NEW j \in 1 .. Len(log), Has(log, j, c.task, {"del"}) PROVE FALSE
        <5>1. log[j].tp \in TaskTps /\ log[j].task = c.task
          BY <4>2 DEF Has, TaskTps
        <5>2. PICK i \in 1 .. j : Has(log, i, c.task, {"new"})
          BY <5>1 DEF Lay, GoodLog
        <5>. QED BY <1>1, <3>2, <5>2 DEF CommitOK
      <4>. QED BY <1>1, <4>1, <4>2
    <3>3. CASE c.tp # "new"
      <4>1. tasks[n][c.task].here
        BY <2>3, <3>3 DEF CommitOK, TaskTps
      <4>2. /\ \E j \in 1 .. Len(log) : Has(log, j, c.task, {"new"})
            /\ ~Deleted(log, c.task, Len(log))
        BY <1>3, <3>1, <4>1 DEF Lay, Follows
      <4>. QED BY <1>1, <1>4, <4>2 DEF Has, Deleted
    <3>. QED BY <3>2, <3>3
  <2>4. LET i == Len(log) + 1 IN
        /\ log'[i].tp \in {"cancel", "del"} => log'[i].at = 0
        /\ log'[i].tp \in TaskTps =>
             /\ \E j \in 1 .. i : Has(log', j, log'[i].task, {"new"})
             /\ \A j \in 1 .. Len(log') : j < i => ~Has(log', j, log'[i].task, {"del"})
             /\ log'[i].tp = "new" =>
                  \A j \in 1 .. Len(log') : Has(log', j, log'[i].task, {"new"}) => j = i
    <3>1. c.tp \in TaskTps =>
             /\ \E j \in 1 .. Len(log) + 1 : Has(log', j, c.task, {"new"})
             /\ \A j \in 1 .. Len(log') : j < Len(log) + 1 => ~Has(log', j, c.task, {"del"})
      BY <1>1, <1>4, <2>3 DEF Has
    <3>2. c.tp = "new" =>
             \A j \in 1 .. Len(log') : Has(log', j, c.task, {"new"}) => j = Len(log) + 1
      BY <1>1, <1>4 DEF Has, CommitOK
    <3>3. c.tp \in {"cancel", "del"} => c.at = 0
      BY DEF CommitOK
    <3>. QED BY <1>4, <3>1, <3>2, <3>3
  <2>5. \A i \in 1 .. Len(log') : i \in 1 .. Len(log) \/ i = Len(log) + 1
    BY <1>1, <1>4
  <2>. QED BY <2>1, <2>2, <2>4, <2>5 DEF GoodLog
<1>. QED BY <1>3, <1>4, <1>5, <1>6
-----------------------------------------------------------------------------
(* What the steps do to the tasks.                                         *)

(* Tasks that are neither made nor deleted, and no change is applied.      *)
SameTasks ==
  /\ tasks' \in [Nodes -> [TaskIds -> TaskRecords]]
  /\ \A n \in Nodes, t \in TaskIds :
       /\ tasks'[n][t].here = tasks[n][t].here
       /\ ~tasks[n][t].here => /\ tasks'[n][t].run_at = tasks[n][t].run_at
                               /\ tasks'[n][t].running = tasks[n][t].running
                               /\ tasks'[n][t].again = tasks[n][t].again

LEMMA SameFollows ==
  ASSUME Lay, SameTasks, log' = log, pos' = pos
  PROVE  GoodLog' /\ \A n \in Nodes, t \in TaskIds : Follows(n, t)'
<1>1. GoodLog'
  BY DEF Lay, GoodLog, Has
<1>2. ASSUME NEW n \in Nodes, NEW t \in TaskIds PROVE Follows(n, t)'
  <2>1. Follows(n, t)
    BY DEF Lay
  <2>. QED BY <2>1 DEF Follows, SameTasks, Has, Deleted
<1>. QED BY <1>1, <1>2

LEMMA MarkEffect ==
  ASSUME tasks \in [Nodes -> [TaskIds -> TaskRecords]], NEW n \in Nodes, NEW T,
         tasks' = Mark(n, T)
  PROVE  /\ tasks' \in [Nodes -> [TaskIds -> TaskRecords]]
         /\ \A m \in Nodes, t \in TaskIds :
              /\ tasks'[m][t].here = tasks[m][t].here
              /\ tasks'[m][t].run_at = tasks[m][t].run_at
              /\ tasks'[m][t].again = tasks[m][t].again
              /\ tasks'[m][t].verr = tasks[m][t].verr
              /\ tasks'[m][t].running <=> tasks[m][t].running \/ (m = n /\ t \in T)
              /\ m # n \/ t \notin T => tasks'[m][t] = tasks[m][t]
<1> DEFINE g == [t \in TaskIds |-> IF t \in T THEN [tasks[n][t] EXCEPT !.running = TRUE]
                                   ELSE tasks[n][t]]
<1>1. tasks' = [tasks EXCEPT ![n] = g]
  BY DEF Mark
<1>2. g \in [TaskIds -> TaskRecords]
  <2>1. ASSUME NEW k \in TaskRecords PROVE [k EXCEPT !.running = TRUE] \in TaskRecords
    BY DEF TaskRecords
  <2>2. \A t \in TaskIds : tasks[n][t] \in TaskRecords
    OBVIOUS
  <2>. QED BY <2>1, <2>2
<1>3. \A t \in TaskIds : g[t] = IF t \in T THEN [tasks[n][t] EXCEPT !.running = TRUE]
                                ELSE tasks[n][t]
  OBVIOUS
<1> HIDE DEF g
<1>4. tasks' \in [Nodes -> [TaskIds -> TaskRecords]]
      /\ \A m \in Nodes, t \in TaskIds : tasks'[m][t] = IF m = n THEN g[t] ELSE tasks[m][t]
  BY <1>1, <1>2
<1>5. ASSUME NEW m \in Nodes, NEW t \in TaskIds
      PROVE  /\ tasks'[m][t].here = tasks[m][t].here
             /\ tasks'[m][t].run_at = tasks[m][t].run_at
             /\ tasks'[m][t].again = tasks[m][t].again
             /\ tasks'[m][t].verr = tasks[m][t].verr
             /\ tasks'[m][t].running <=> tasks[m][t].running \/ (m = n /\ t \in T)
             /\ m # n \/ t \notin T => tasks'[m][t] = tasks[m][t]
  <2>1. CASE m = n /\ t \in T
    <3>1. tasks'[m][t] = [tasks[m][t] EXCEPT !.running = TRUE] /\ tasks[m][t] \in TaskRecords
      BY <1>3, <1>4, <2>1
    <3>. QED BY <2>1, <3>1 DEF TaskRecords
  <2>2. CASE ~(m = n /\ t \in T)
    BY <1>3, <1>4, <2>2
  <2>. QED BY <2>1, <2>2
<1>. QED BY <1>4, <1>5

(* Only the result of a task that is not run is set.                       *)
SetResult(n, t) == tasks' = [tasks EXCEPT ![n][t].verr = "ok"]

LEMMA SetResultEffect ==
  ASSUME tasks \in [Nodes -> [TaskIds -> TaskRecords]], NEW n \in Nodes, NEW t \in TaskIds,
         SetResult(n, t)
  PROVE  /\ tasks' \in [Nodes -> [TaskIds -> TaskRecords]]
         /\ \A m \in Nodes, u \in TaskIds :
              /\ tasks'[m][u].here = tasks[m][u].here
              /\ tasks'[m][u].run_at = tasks[m][u].run_at
              /\ tasks'[m][u].again = tasks[m][u].again
              /\ tasks'[m][u].running = tasks[m][u].running
<1> DEFINE o == tasks[n][t]
           k == [o EXCEPT !.verr = "ok"]
<1>0. o \in TaskRecords
  OBVIOUS
<1>2. tasks' = [tasks EXCEPT ![n] = [tasks[n] EXCEPT ![t] = k]]
  BY DEF SetResult
<1> HIDE DEF o
<1>1. k \in TaskRecords /\ k.here = o.here /\ k.run_at = o.run_at
      /\ k.again = o.again /\ k.running = o.running
  BY <1>0 DEF TaskRecords
<1> HIDE DEF k
<1>3. tasks' \in [Nodes -> [TaskIds -> TaskRecords]]
      /\ \A m \in Nodes, u \in TaskIds :
           tasks'[m][u] = IF m = n /\ u = t THEN k ELSE tasks[m][u]
  BY <1>1, <1>2, ReplaceTask
<1>. QED BY <1>1, <1>3 DEF o

(* The outcome of a task that its query does not finish.                   *)
SetOutcome(n, t, at, v) == tasks' = Done(n, t, at, v)

LEMMA AsyncEffect ==
  ASSUME tasks \in [Nodes -> [TaskIds -> TaskRecords]], NEW n \in Nodes, NEW t \in TaskIds,
         NEW at \in 0 .. MaxTime, NEW v \in {"NULL", "ok", "error"},
         SetOutcome(n, t, at, v)
  PROVE  /\ tasks' \in [Nodes -> [TaskIds -> TaskRecords]]
         /\ \A m \in Nodes, u \in TaskIds :
              m # n \/ u # t => tasks'[m][u] = tasks[m][u]
         /\ tasks'[n][t].here = tasks[n][t].here
         /\ tasks'[n][t].running = tasks[n][t].running
         /\ tasks'[n][t].run_at = IF at = 0 THEN tasks[n][t].run_at ELSE at
         /\ tasks'[n][t].again <=> tasks[n][t].again \/ at # 0
<1> DEFINE o == tasks[n][t]
           a == [o EXCEPT !.verr = v]
           x == IF at = 0 THEN a.run_at ELSE at
           b == [a EXCEPT !.run_at = x]
           k == [b EXCEPT !.again = b.again \/ at # 0]
<1>0. o \in TaskRecords
  OBVIOUS
<1>1. tasks' = [tasks EXCEPT ![n] = [tasks[n] EXCEPT ![t] = k]]
  BY DEF SetOutcome, Done
<1> HIDE DEF o
<1>2. a \in TaskRecords /\ a.here = o.here /\ a.running = o.running /\ a.again = o.again
      /\ a.run_at = o.run_at
  BY <1>0 DEF TaskRecords
<1> HIDE DEF a
<1>3. b \in TaskRecords /\ b.here = o.here /\ b.running = o.running /\ b.again = o.again
      /\ b.run_at = IF at = 0 THEN o.run_at ELSE at
  BY <1>2 DEF TaskRecords
<1> HIDE DEF b
<1>4. k \in TaskRecords /\ k.here = o.here /\ k.running = o.running
      /\ (k.again <=> o.again \/ at # 0)
      /\ k.run_at = IF at = 0 THEN o.run_at ELSE at
  BY <1>3 DEF TaskRecords
<1> HIDE DEF k
<1>5. tasks' \in [Nodes -> [TaskIds -> TaskRecords]]
      /\ \A m \in Nodes, u \in TaskIds :
           tasks'[m][u] = IF m = n /\ u = t THEN k ELSE tasks[m][u]
  BY <1>1, <1>4, ReplaceTask
<1>. QED BY <1>4, <1>5 DEF o
-----------------------------------------------------------------------------
(* The changes that the steps make.                                        *)

LEMMA QueryTypes ==
  ASSUME Lay, NEW q \in queries
  PROVE  /\ q.node \in Nodes /\ q.task \in TaskIds
         /\ q.kind \in KindSet
         /\ tasks[q.node][q.task] \in TaskRecords
BY TypeParts DEF Lay

LEMMA ClientShape ==
  ASSUME Lay, NEW n \in Nodes, ClientQuery(n)
  PROVE  \E c \in TaskChanges :
           /\ UpToDate(n) /\ Commit(n, c) /\ CommitOK(n, c)
           /\ c.tp \in {"new", "cancel", "del"} /\ (c.tp = "new" => c.at # 0)
<1>0. tasks \in [Nodes -> [TaskIds -> TaskRecords]] /\ 0 \in 0 .. MaxTime /\ MaxTime \in Nat
  BY TypeParts, TaskBoundsAssumption DEF Lay
<1>1. PICK t \in TaskIds : NewTask(n, t) \/ CancelTask(n, t) \/ DelTask(n, t)
  BY DEF ClientQuery
<1>2. UpToDate(n)
  BY DEF ClientQuery
<1>3. CASE NewTask(n, t)
  <2>1. PICK at \in Times : Commit(n, Change("new", t, at, "NULL"))
    BY <1>3 DEF NewTask
  <2>2. at \in 0 .. MaxTime /\ at # 0
    BY <1>0 DEF Times
  <2> DEFINE c == Change("new", t, at, "NULL")
  <2>3. c \in TaskChanges /\ c.tp = "new" /\ c.task = t /\ c.at = at
    BY <2>2 DEF Change, TaskChanges
  <2> HIDE DEF c
  <2>4. ~\E i \in 1 .. Len(log) : Has(log, i, t, {"new"})
    BY <1>3 DEF NewTask, Has
  <2>5. CommitOK(n, c)
    BY <2>3, <2>4 DEF CommitOK
  <2>6. Commit(n, c)
    BY <2>1 DEF c
  <2>. QED BY <1>2, <2>2, <2>3, <2>5, <2>6
<1>4. CASE CancelTask(n, t)
  <2> DEFINE c == Change("cancel", t, 0, "error")
  <2>1. Commit(n, c) /\ tasks[n][t].run_at # 0
    BY <1>4 DEF CancelTask
  <2>2. c \in TaskChanges /\ c.tp = "cancel" /\ c.task = t /\ c.at = 0
    BY <1>0 DEF Change, TaskChanges
  <2> HIDE DEF c
  <2>3. tasks[n][t].here
    BY <2>1 DEF Lay, Follows
  <2>4. CommitOK(n, c)
    BY <2>2, <2>3 DEF CommitOK
  <2>. QED BY <1>2, <2>1, <2>2, <2>4
<1>5. CASE DelTask(n, t)
  <2> DEFINE c == Change("del", t, 0, "NULL")
  <2>1. Commit(n, c) /\ tasks[n][t].here
    BY <1>5 DEF DelTask
  <2>2. c \in TaskChanges /\ c.tp = "del" /\ c.task = t /\ c.at = 0
    BY <1>0 DEF Change, TaskChanges
  <2> HIDE DEF c
  <2>4. CommitOK(n, c)
    BY <2>1, <2>2 DEF CommitOK
  <2>. QED BY <1>2, <2>1, <2>2, <2>4
<1>. QED BY <1>1, <1>3, <1>4, <1>5

LEMMA TaskFinishFacts ==
  ASSUME NEW t \in TaskIds, NEW at \in 0 .. MaxTime, NEW v \in {"ok", "error"}
  PROVE  /\ TaskFinish(t, at, v) \in TaskChanges
         /\ TaskFinish(t, at, v).task = t
         /\ \/ TaskFinish(t, at, v).tp = "del" /\ at = 0 /\ TaskFinish(t, at, v).at = 0
            \/ TaskFinish(t, at, v).tp = "finish" /\ TaskFinish(t, at, v).at = at
<1>0. 0 \in 0 .. MaxTime
  BY TaskBoundsAssumption
<1>. QED BY <1>0 DEF TaskFinish, Change, TaskChanges

(* A change that ends the task t on node n, for the next time at.          *)
Ends(n, c, t, at) ==
  /\ UpToDate(n) /\ Commit(n, c) /\ CommitOK(n, c) /\ tasks[n][t].here
  /\ c \in TaskChanges /\ c.task = t
  /\ \/ c.tp = "del" /\ at = 0 /\ c.at = 0
     \/ c.tp = "finish" /\ c.at = at

LEMMA OutcomeTypes ==
  ASSUME NEW n, NEW t, NEW o \in Outcomes(n, t)
  PROVE  \E at \in 0 .. MaxTime, v \in {"ok", "error"} : o = <<at, v>>
<1>1. 0 \in 0 .. MaxTime /\ Times \subseteq 0 .. MaxTime
  BY TaskBoundsAssumption DEF Times
<1>2. \/ o = <<0, "ok">> \/ o = <<0, "error">>
      \/ \E x \in Times : o = <<x, "ok">>
  BY DEF Outcomes
<1>. QED BY <1>1, <1>2

LEMMA RunChangeShape ==
  ASSUME Lay, NEW q \in queries, RunChange(q), tasks[q.node][q.task].run_at # 0
  PROVE  \E c \in TaskChanges, at \in 0 .. MaxTime : Ends(q.node, c, q.task, at)
<1> DEFINE n == q.node
           t == q.task
<1>1. n \in Nodes /\ t \in TaskIds /\ tasks[n][t] \in TaskRecords
  BY QueryTypes
<1>2. PICK o \in Outcomes(n, t) : Commit(n, TaskFinish(t, o[1], o[2]))
  BY DEF RunChange
<1>3. UpToDate(n) /\ tasks[n][t].here
  BY <1>1 DEF RunChange, Lay, Follows
<1>4. PICK at \in 0 .. MaxTime, v \in {"ok", "error"} : o = <<at, v>>
  BY OutcomeTypes
<1> DEFINE c == TaskFinish(t, at, v)
<1>5. Commit(n, c)
  BY <1>2, <1>4
<1>6. c \in TaskChanges /\ c.task = t
      /\ \/ c.tp = "del" /\ at = 0 /\ c.at = 0
         \/ c.tp = "finish" /\ c.at = at
  BY <1>1, TaskFinishFacts
<1> HIDE DEF c
<1>7. CommitOK(n, c)
  BY <1>3, <1>6 DEF CommitOK
<1>8. Ends(n, c, t, at)
  BY <1>3, <1>5, <1>6, <1>7 DEF Ends
<1>. QED BY <1>6, <1>8

LEMMA RunFinishShape ==
  ASSUME Lay, NEW q \in queries, RunFinish(q), tasks[q.node][q.task].here
  PROVE  \E c \in TaskChanges, at \in 0 .. MaxTime :
           /\ Ends(q.node, c, q.task, at)
           /\ at # 0 => tasks[q.node][q.task].again /\ at = tasks[q.node][q.task].run_at
<1> DEFINE n == q.node
           t == q.task
           at == IF tasks[n][t].again THEN tasks[n][t].run_at ELSE 0
           v == tasks[n][t].verr
           c == TaskFinish(t, at, v)
<1>1. n \in Nodes /\ t \in TaskIds /\ tasks[n][t] \in TaskRecords
  BY QueryTypes
<1>2. Commit(n, c) /\ UpToDate(n) /\ v # "NULL"
  BY DEF RunFinish
<1>3. at \in 0 .. MaxTime /\ v \in {"ok", "error"}
      /\ (at # 0 => tasks[n][t].again /\ at = tasks[n][t].run_at)
  BY <1>1, <1>2, TaskBoundsAssumption DEF TaskRecords
<1> HIDE DEF at, v
<1>6. c \in TaskChanges /\ c.task = t
      /\ \/ c.tp = "del" /\ at = 0 /\ c.at = 0
         \/ c.tp = "finish" /\ c.at = at
  BY <1>1, <1>3, TaskFinishFacts
<1> HIDE DEF c
<1>7. CommitOK(n, c)
  BY <1>6 DEF CommitOK
<1>8. Ends(n, c, t, at)
  BY <1>2, <1>6, <1>7 DEF Ends
<1>. QED BY <1>3, <1>6, <1>8

LEMMA NodeShape ==
  ASSUME Lay, NEW n \in Nodes, NEW m \in Nodes, NewNode(n, m) \/ DelNode(n, m)
  PROVE  \E c \in NodeChanges :
           /\ UpToDate(n) /\ Commit(n, c) /\ CommitOK(n, c) /\ faults' = faults + 1
           /\ UNCHANGED <<now, status, queries, fwd, ran>>
<1>1. ASSUME NEW tp \in {"new_node", "del_node"}
      PROVE  NodeChange(tp, m) \in NodeChanges /\ CommitOK(n, NodeChange(tp, m))
  BY DEF NodeChange, NodeChanges, CommitOK
<1>2. CASE NewNode(n, m)
  <2>1. Commit(n, NodeChange("new_node", m)) /\ UpToDate(n) /\ faults' = faults + 1
        /\ UNCHANGED <<now, status, queries, fwd, ran>>
    BY <1>2 DEF NewNode, Fault
  <2>. QED BY <1>1, <2>1
<1>3. CASE DelNode(n, m)
  <2>1. Commit(n, NodeChange("del_node", m)) /\ UpToDate(n) /\ faults' = faults + 1
        /\ UNCHANGED <<now, status, queries, fwd, ran>>
    BY <1>3 DEF DelNode
  <2>. QED BY <1>1, <2>1
<1>. QED BY <1>2, <1>3

(* The tasks T are due and started by the timer of n, or forwarded.        *)
Begins(n, T) ==
  /\ T \subseteq Due(n) /\ tasks' = Mark(n, T)
  /\ lowest' = [lowest EXCEPT ![n] =
       Min({Never} \cup {tasks[n][t].run_at : t \in Waiting(n) \ T})]

LEMMA TimerShape ==
  ASSUME NEW n \in Nodes, Timer(n)
  PROVE  \E T \in SUBSET TaskIds :
           /\ Begins(n, T)
           /\ \/ /\ status[n] = "READY" /\ \A t \in T : t \in Quiet \/ HasQuorum(n)
                 /\ queries' = queries \cup Started(n, T) /\ fwd' = fwd
              \/ /\ status[n] # "READY" /\ queries' = queries
                 /\ \E to \in [T -> ReadyNodes(n)] : fwd' = fwd \cup Forward(n, T, to)
              \/ T = {} /\ queries' = queries /\ fwd' = fwd
<1>0. Due(n) \subseteq TaskIds
  BY DEF Due, Waiting
<1>1. CASE status[n] = "READY"
  <2> DEFINE T == {t \in Due(n) : t \in Quiet \/ HasQuorum(n)}
  <2>1. Begins(n, T) /\ queries' = queries \cup Started(n, T) /\ fwd' = fwd
    BY <1>1 DEF Timer, Begins
  <2>2. T \in SUBSET TaskIds /\ \A t \in T : t \in Quiet \/ HasQuorum(n)
    BY <1>0
  <2> HIDE DEF T
  <2>. QED BY <1>1, <2>1, <2>2
<1>2. CASE status[n] # "READY" /\ ReadyNodes(n) # {}
  <2>1. Begins(n, Due(n)) /\ queries' = queries
        /\ \E to \in [Due(n) -> ReadyNodes(n)] : fwd' = fwd \cup Forward(n, Due(n), to)
    BY <1>2 DEF Timer, Begins
  <2>. QED BY <1>0, <1>2, <2>1
<1>3. CASE status[n] # "READY" /\ ReadyNodes(n) = {}
  <2>1. Begins(n, {}) /\ queries' = queries /\ fwd' = fwd
    BY <1>3 DEF Timer, Begins
  <2>. QED BY <2>1
<1>. QED BY <1>1, <1>2, <1>3

LEMMA BeginsEffect ==
  ASSUME TypeOK, NEW n \in Nodes, NEW T, Begins(n, T)
  PROVE  /\ lowest' \in [Nodes -> 0 .. Never]
         /\ \A m \in Nodes \ {n} : lowest'[m] = lowest[m]
         /\ \A t \in Waiting(n) \ T : lowest'[n] <= tasks[n][t].run_at
<1> DEFINE S == {Never} \cup {tasks[n][t].run_at : t \in Waiting(n) \ T}
<1>1. tasks \in [Nodes -> [TaskIds -> TaskRecords]] /\ lowest \in [Nodes -> 0 .. Never]
      /\ MaxTime \in Nat /\ Never = MaxTime + 1
  BY TypeParts, TaskBoundsAssumption DEF Never
<1>2. \A t \in Waiting(n) \ T : tasks[n][t].run_at \in 0 .. MaxTime
  BY <1>1 DEF Waiting, TaskRecords
<1>3. S \in SUBSET Nat /\ S # {} /\ \A x \in S : x <= Never
  BY <1>1, <1>2
<1>4. Min(S) \in S /\ \A y \in S : Min(S) <= y
  BY <1>3, MinExists
<1>5. lowest' = [lowest EXCEPT ![n] = Min(S)]
  BY DEF Begins
<1>6. \A t \in Waiting(n) \ T : tasks[n][t].run_at \in S
  OBVIOUS
<1> DEFINE low == Min(S)
<1>8. low \in S /\ (\A y \in S : low <= y) /\ lowest' = [lowest EXCEPT ![n] = low]
  BY <1>4, <1>5
<1> HIDE DEF S, low
<1>7. low \in Nat /\ low <= Never
  BY <1>3, <1>8
<1>9. low \in 0 .. Never
  BY <1>1, <1>7
<1>10. lowest' \in [Nodes -> 0 .. Never] /\ lowest'[n] = low
       /\ \A m \in Nodes \ {n} : lowest'[m] = lowest[m]
  BY <1>1, <1>8, <1>9
<1>. QED BY <1>6, <1>8, <1>10

LEMMA StartedTypes ==
  ASSUME NEW n \in Nodes, NEW T \in SUBSET TaskIds
  PROVE  \A q \in Started(n, T) :
           /\ q \in [node: Nodes, task: TaskIds, kind: KindSet]
           /\ q.node = n /\ q.task \in T
           /\ q.kind = IF q.task \in Quiet THEN "async" ELSE "change"
BY DEF Started, Query, KindSet

LEMMA ForwardTypes ==
  ASSUME NEW n \in Nodes, NEW T \in SUBSET TaskIds, NEW M \in SUBSET Nodes,
         NEW to \in [T -> M], pos \in [Nodes -> 0 .. MaxLog]
  PROVE  \A f \in Forward(n, T, to) :
           /\ f \in [to: Nodes, task: TaskIds, pos: 0 .. MaxLog]
           /\ f.to \in M /\ f.task \in T /\ f.pos = pos[n] /\ f.to = to[f.task]
BY DEF Forward

(* What a forwarded task does where it arrives.                            *)
FwdStart(f) ==
  /\ status[f.to] = "READY" /\ tasks[f.to][f.task].here
  /\ queries' = queries \cup Started(f.to, {f.task})
  /\ tasks' = Mark(f.to, {f.task}) /\ fwd' = fwd \ {f}

FwdAgain(f) ==
  /\ status[f.to] = "AWAY" /\ tasks[f.to][f.task].here
  /\ \E to \in [{f.task} -> ReadyNodes(f.to)] :
       fwd' = (fwd \ {f}) \cup Forward(f.to, {f.task}, to)
  /\ tasks' = Mark(f.to, {f.task}) /\ queries' = queries

FwdDrop(f) ==
  /\ \/ ~tasks[f.to][f.task].here
     \/ status[f.to] = "READY" /\ ~HasQuorum(f.to)
     \/ status[f.to] = "AWAY" /\ ReadyNodes(f.to) = {}
  /\ fwd' = fwd \ {f} /\ queries' = queries /\ tasks' = tasks

LEMMA FwdShape ==
  ASSUME Lay, NEW f \in fwd, OnFwdTask(f)
  PROVE  /\ FwdStart(f) \/ FwdAgain(f) \/ FwdDrop(f)
         /\ f.to \in Nodes /\ f.task \in TaskIds /\ status[f.to] # "DOWN"
         /\ \/ f.pos <= pos[f.to] /\ faults' = faults
            \/ faults' = faults + 1
         /\ UNCHANGED <<now, log, pos, members, status, lowest, ran>>
<1>1. f.to \in Nodes /\ f.task \in TaskIds
  BY TypeParts DEF Lay
<1>2. /\ status[f.to] # "DOWN"
      /\ \/ f.pos <= pos[f.to] /\ faults' = faults
         \/ faults' = faults + 1
      /\ UNCHANGED <<now, log, pos, members, status, lowest, ran>>
  BY DEF OnFwdTask, Fault
<1>3. \/ FwdStart(f) \/ FwdDrop(f)
      \/ /\ status[f.to] = "AWAY" /\ tasks[f.to][f.task].here
         /\ \E m \in ReadyNodes(f.to) :
              fwd' = (fwd \ {f}) \cup Forward(f.to, {f.task}, [x \in {f.task} |-> m])
         /\ tasks' = Mark(f.to, {f.task}) /\ queries' = queries
  <2>1. \/ /\ status[f.to] = "READY" /\ tasks[f.to][f.task].here
           /\ queries' = queries \cup Started(f.to, {f.task})
           /\ tasks' = Mark(f.to, {f.task}) /\ fwd' = fwd \ {f}
        \/ /\ status[f.to] = "AWAY" /\ tasks[f.to][f.task].here
           /\ \E m \in ReadyNodes(f.to) :
                fwd' = (fwd \ {f}) \cup Forward(f.to, {f.task}, [x \in {f.task} |-> m])
           /\ tasks' = Mark(f.to, {f.task}) /\ queries' = queries
        \/ /\ \/ ~tasks[f.to][f.task].here
              \/ status[f.to] = "READY" /\ ~(f.task \in Quiet \/ HasQuorum(f.to))
              \/ status[f.to] = "AWAY" /\ ReadyNodes(f.to) = {}
           /\ fwd' = fwd \ {f} /\ queries' = queries /\ tasks' = tasks
    BY Zenon DEF OnFwdTask
  <2>. QED BY <2>1 DEF FwdStart, FwdDrop
<1>4. ASSUME NEW m \in ReadyNodes(f.to)
      PROVE  [x \in {f.task} |-> m] \in [{f.task} -> ReadyNodes(f.to)]
  OBVIOUS
<1>5. FwdStart(f) \/ FwdAgain(f) \/ FwdDrop(f)
  BY <1>3, <1>4 DEF FwdAgain
<1>. QED BY <1>1, <1>2, <1>5

(* The query goes on as one of another kind: to wait for futures, or to    *)
(* finish the task.                                                        *)
GoesOn(q, k) == queries' = (queries \ {q}) \cup {[q EXCEPT !.kind = k]}

(* Or it ends there.                                                       *)
Passes(q) == (\E k \in {"future", "finish"} : GoesOn(q, k)) \/ queries' = queries \ {q}

LEMMA ResultPasses ==
  ASSUME NEW q, TaskResult(q)
  PROVE  IF HasQuorum(q.node) THEN GoesOn(q, "finish") ELSE queries' = queries \ {q}
BY DEF TaskResult, GoesOn

LEMMA PassTypes ==
  ASSUME Lay, NEW q \in queries, Passes(q)
  PROVE  \A p \in queries' :
           \/ p \in queries /\ p # q
           \/ /\ p \in [node: Nodes, task: TaskIds, kind: KindSet]
              /\ p.node = q.node /\ p.task = q.task /\ p.kind \in {"future", "finish"}
<1>1. q \in [node: Nodes, task: TaskIds, kind: KindSet]
  BY TypeParts DEF Lay
<1>2. CASE queries' = queries \ {q}
  BY <1>2
<1>3. ASSUME NEW k \in {"future", "finish"}, GoesOn(q, k)
      PROVE  \A p \in queries' :
               \/ p \in queries /\ p # q
               \/ /\ p \in [node: Nodes, task: TaskIds, kind: KindSet]
                  /\ p.node = q.node /\ p.task = q.task /\ p.kind \in {"future", "finish"}
  <2> DEFINE r == [q EXCEPT !.kind = k]
  <2>1. /\ r \in [node: Nodes, task: TaskIds, kind: KindSet]
        /\ r.node = q.node /\ r.task = q.task /\ r.kind = k
    BY <1>1 DEF KindSet
  <2>2. queries' = (queries \ {q}) \cup {r}
    BY <1>3 DEF GoesOn
  <2> HIDE DEF r
  <2>. QED BY <2>1, <2>2
<1>. QED BY <1>2, <1>3 DEF Passes

LEMMA PassLay ==
  ASSUME Lay, NEW q \in queries, Passes(q)
  PROVE  queries' \subseteq [node: Nodes, task: TaskIds, kind: KindSet] /\ Kinds'
BY PassTypes, TypeParts DEF Lay, Kinds

LEMMA DiesEffect ==
  ASSUME Lay, NEW n \in Nodes, Dies(n)
  PROVE  /\ tasks' \in [Nodes -> [TaskIds -> TaskRecords]]
         /\ \A m \in Nodes, t \in TaskIds :
              tasks'[m][t] = IF m = n THEN NoTask ELSE tasks[m][t]
         /\ pos' \in [Nodes -> 0 .. MaxLog]
         /\ \A m \in Nodes : pos'[m] = IF m = n THEN 0 ELSE pos[m]
         /\ status' \in [Nodes -> {"READY", "AWAY", "DOWN"}] /\ status'[n] = "DOWN"
         /\ \A m \in Nodes \ {n} : status'[m] = status[m] /\ lowest'[m] = lowest[m]
         /\ lowest' \in [Nodes -> 0 .. Never]
         /\ queries' \subseteq queries /\ fwd' \subseteq fwd
         /\ UNCHANGED <<now, log, members, ran>>
<1>1. /\ tasks \in [Nodes -> [TaskIds -> TaskRecords]] /\ pos \in [Nodes -> 0 .. MaxLog]
      /\ status \in [Nodes -> {"READY", "AWAY", "DOWN"}] /\ lowest \in [Nodes -> 0 .. Never]
      /\ 0 \in 0 .. MaxLog /\ 0 \in 0 .. Never
  BY TypeParts, TaskBoundsAssumption DEF Lay, Never
<1>2. /\ tasks' = [tasks EXCEPT ![n] = [t \in TaskIds |-> NoTask]]
      /\ pos' = [pos EXCEPT ![n] = 0] /\ status' = [status EXCEPT ![n] = "DOWN"]
      /\ lowest' = [lowest EXCEPT ![n] = 0]
      /\ queries' \subseteq queries /\ fwd' \subseteq fwd
      /\ UNCHANGED <<now, log, members, ran>>
  BY DEF Dies
<1>3. [t \in TaskIds |-> NoTask] \in [TaskIds -> TaskRecords]
  BY TaskTypes
<1>. QED BY <1>1, <1>2, <1>3

(* What a node has of a task after it started with all changes.            *)
LEMMA RestartEffect ==
  ASSUME Lay, NEW n \in Nodes, Restart(n)
  PROVE  /\ tasks' \in [Nodes -> [TaskIds -> TaskRecords]]
         /\ \A m \in Nodes \ {n} : tasks'[m] = tasks[m]
         /\ \A t \in TaskIds :
              \/ /\ tasks'[n][t] = NoTask
                 /\ \/ Deleted(log, t, Len(log))
                    \/ ~\E i \in 1 .. Len(log) : Has(log, i, t, {"new"})
              \/ \E i \in 1 .. Len(log) :
                   /\ Latest(log, i, t, TaskTps, Len(log)) /\ log[i].tp # "del"
                   /\ tasks'[n][t] = Task(log[i].at, log[i].verr)
         /\ pos' \in [Nodes -> 0 .. MaxLog] /\ log' = log
         /\ \A m \in Nodes : pos'[m] = IF m = n THEN Len(log) ELSE pos[m]
         /\ members' \in [Nodes -> SUBSET Nodes]
         /\ status' \in [Nodes -> {"READY", "AWAY", "DOWN"}]
         /\ lowest' \in [Nodes -> 0 .. Never] /\ lowest'[n] = 0
         /\ \A m \in Nodes \ {n} :
              /\ status'[m] = status[m] /\ lowest'[m] = lowest[m]
              /\ members'[m] = members[m]
<1> DEFINE past(t) == {i \in 1 .. Len(log) : log[i].tp \in {"new", "cancel", "del", "finish"}
                                              /\ log[i].task = t}
           at(t) == IF past(t) = {} THEN NoTask
                    ELSE IF log[Max(past(t))].tp = "del" THEN NoTask
                    ELSE Task(log[Max(past(t))].at, log[Max(past(t))].verr)
           joined == {log[i].node : i \in {j \in 1 .. Len(log) : log[j].tp = "new_node"}}
           left == {log[i].node : i \in {j \in 1 .. Len(log) : log[j].tp = "del_node"}}
<1>1. /\ tasks \in [Nodes -> [TaskIds -> TaskRecords]] /\ pos \in [Nodes -> 0 .. MaxLog]
      /\ members \in [Nodes -> SUBSET Nodes]
      /\ status \in [Nodes -> {"READY", "AWAY", "DOWN"}] /\ lowest \in [Nodes -> 0 .. Never]
      /\ 0 \in 0 .. MaxLog /\ 0 \in 0 .. Never /\ Len(log) \in 0 .. MaxLog /\ Len(log) \in Nat
      /\ log \in Seq(TaskChanges \cup NodeChanges)
  BY TypeParts, TaskBoundsAssumption DEF Lay, Never, GoodLog
<1>2. /\ tasks' = [tasks EXCEPT ![n] = [t \in TaskIds |-> at(t)]]
      /\ pos' = [pos EXCEPT ![n] = Len(log)] /\ status' = [status EXCEPT ![n] = "READY"]
      /\ members' = [members EXCEPT ![n] = (Founders \cup joined) \ left]
      /\ lowest' = [lowest EXCEPT ![n] = 0] /\ log' = log
  BY DEF Restart
<1>3. joined \subseteq Nodes
  <2>1. ASSUME NEW i \in 1 .. Len(log), log[i].tp = "new_node" PROVE log[i].node \in Nodes
    BY <1>1, <2>1, ChangeKinds DEF NodeChanges
  <2>. QED BY <2>1
<1>4. (Founders \cup joined) \ left \in SUBSET Nodes
  BY <1>3, TaskNodesAssumption
<1>5. ASSUME NEW t \in TaskIds, past(t) # {}
      PROVE  Latest(log, Max(past(t)), t, TaskTps, Len(log)) /\ Max(past(t)) \in 1 .. Len(log)
  <2>1. past(t) \in SUBSET Nat /\ \A y \in past(t) : y <= Len(log)
    OBVIOUS
  <2>2. Max(past(t)) \in past(t) /\ \A y \in past(t) : y <= Max(past(t))
    BY <1>1, <1>5, <2>1, MaxExists
  <2> DEFINE x == Max(past(t))
  <2>3. x \in past(t) /\ \A y \in past(t) : y <= x
    BY <2>2
  <2> HIDE DEF x
  <2>4. Latest(log, x, t, TaskTps, Len(log)) /\ x \in 1 .. Len(log)
    <3>1. x \in 1 .. Len(log) /\ Has(log, x, t, TaskTps) /\ x \in Nat
      BY <1>1, <2>3 DEF Has, TaskTps
    <3>2. ASSUME NEW j \in x + 1 .. Len(log), Has(log, j, t, TaskTps) PROVE FALSE
      <4>1. j \in 1 .. Len(log)
        BY <1>1, <3>1
      <4>2. j \in past(t)
        BY <3>2, <4>1 DEF Has, TaskTps
      <4>. QED BY <2>3, <3>1, <4>1, <4>2
    <3>. QED BY <3>1, <3>2 DEF Latest
  <2>. QED BY <2>4 DEF x
<1>6. ASSUME NEW t \in TaskIds
      PROVE  /\ at(t) \in TaskRecords
             /\ \/ /\ at(t) = NoTask
                   /\ \/ Deleted(log, t, Len(log))
                      \/ ~\E i \in 1 .. Len(log) : Has(log, i, t, {"new"})
                \/ \E i \in 1 .. Len(log) :
                     /\ Latest(log, i, t, TaskTps, Len(log)) /\ log[i].tp # "del"
                     /\ at(t) = Task(log[i].at, log[i].verr)
  <2>1. CASE past(t) = {}
    <3>1. at(t) = NoTask
      BY <2>1
    <3>2. ~\E i \in 1 .. Len(log) : Has(log, i, t, {"new"})
      BY <2>1 DEF Has
    <3>. QED BY <3>1, <3>2, TaskTypes
  <2>2. CASE past(t) # {}
    <3> DEFINE x == Max(past(t))
    <3>1. Latest(log, x, t, TaskTps, Len(log)) /\ x \in 1 .. Len(log)
      BY <1>5, <2>2
    <3>2. at(t) = IF log[x].tp = "del" THEN NoTask ELSE Task(log[x].at, log[x].verr)
      BY <2>2
    <3> HIDE DEF x, at, past
    <3>3. log[x] \in TaskChanges
      BY <1>1, <3>1, ChangeKinds DEF Latest, Has
    <3>4. CASE log[x].tp = "del"
      <4>1. Deleted(log, t, Len(log))
        BY <3>1, <3>4 DEF Deleted, Latest, Has
      <4>. QED BY <3>2, <3>4, <4>1, TaskTypes
    <3>5. CASE log[x].tp # "del"
      <4>1. Task(log[x].at, log[x].verr) \in TaskRecords
        BY <3>3, TaskTypes DEF TaskChanges
      <4>. QED BY <3>1, <3>2, <3>5, <4>1
    <3>. QED BY <3>4, <3>5
  <2>. QED BY <2>1, <2>2
<1> DEFINE g == [t \in TaskIds |-> at(t)]
<1>7. g \in [TaskIds -> TaskRecords]
  BY <1>6
<1>8. /\ tasks' = [tasks EXCEPT ![n] = g]
      /\ \A t \in TaskIds : g[t] = at(t)
  BY <1>2
<1> HIDE DEF g, at
<1>9. /\ tasks' \in [Nodes -> [TaskIds -> TaskRecords]]
      /\ \A m \in Nodes \ {n} : tasks'[m] = tasks[m]
      /\ \A t \in TaskIds : tasks'[n][t] = at(t)
  BY <1>1, <1>7, <1>8
<1>10. \A t \in TaskIds :
              \/ /\ tasks'[n][t] = NoTask
                 /\ \/ Deleted(log, t, Len(log))
                    \/ ~\E i \in 1 .. Len(log) : Has(log, i, t, {"new"})
              \/ \E i \in 1 .. Len(log) :
                   /\ Latest(log, i, t, TaskTps, Len(log)) /\ log[i].tp # "del"
                   /\ tasks'[n][t] = Task(log[i].at, log[i].verr)
  BY <1>6, <1>9
<1> HIDE DEF joined, left
<1>11. /\ pos' \in [Nodes -> 0 .. MaxLog] /\ log' = log
       /\ \A m \in Nodes : pos'[m] = IF m = n THEN Len(log) ELSE pos[m]
       /\ members' \in [Nodes -> SUBSET Nodes]
       /\ status' \in [Nodes -> {"READY", "AWAY", "DOWN"}]
       /\ lowest' \in [Nodes -> 0 .. Never] /\ lowest'[n] = 0
       /\ \A m \in Nodes \ {n} :
            /\ status'[m] = status[m] /\ lowest'[m] = lowest[m]
            /\ members'[m] = members[m]
  BY <1>1, <1>2, <1>4
<1>. QED BY <1>9, <1>10, <1>11
-----------------------------------------------------------------------------
(* The types and the log.                                                  *)

LEMMA LayInit == Init => Lay
<1> SUFFICES ASSUME Init PROVE Lay
  OBVIOUS
<1>0. /\ 0 \in 0 .. MaxLog /\ 0 \in 0 .. Never /\ 1 \in Times /\ MaxLog \in Nat
      /\ Founders \in SUBSET Nodes
  BY TaskBoundsAssumption, TaskNodesAssumption DEF Times, Never
<1>1. [t \in TaskIds |-> NoTask] \in [TaskIds -> TaskRecords]
  BY TaskTypes
<1>2. TypeOK
  <2>1. tasks \in [Nodes -> [TaskIds -> TaskRecords]]
    BY <1>1 DEF Init
  <2>2. log \in Seq(TaskChanges \cup NodeChanges)
    BY DEF Init
  <2>3. /\ now \in Times /\ pos \in [Nodes -> 0 .. MaxLog]
        /\ members \in [Nodes -> SUBSET Nodes]
        /\ status \in [Nodes -> {"READY", "AWAY", "DOWN"}]
        /\ lowest \in [Nodes -> 0 .. Never]
    BY <1>0 DEF Init
  <2>4. /\ queries = {} /\ fwd = {} /\ ran \in [TaskIds -> [Places -> Nat]] /\ faults \in Nat
    BY DEF Init
  <2>. QED BY <2>1, <2>2, <2>3, <2>4 DEF TypeOK, TaskChanges, NodeChanges, TaskRecords, KindSet
<1>3. Len(log) = 0 /\ (\A n \in Nodes : pos[n] = 0) /\ queries = {}
      /\ \A n \in Nodes, t \in TaskIds : tasks[n][t] = NoTask
  BY DEF Init
<1>4. GoodLog
  BY <1>0, <1>3 DEF GoodLog
<1>5. \A n \in Nodes, t \in TaskIds : Follows(n, t)
  BY <1>3, TaskTypes DEF Follows
<1>. QED BY <1>2, <1>3, <1>4, <1>5 DEF Lay, Kinds

(* A change is made by a client, a query or for a node.                    *)
LEMMA CommitLay ==
  ASSUME Lay, NEW n \in Nodes, NEW c \in TaskChanges \cup NodeChanges,
         UpToDate(n), Commit(n, c), CommitOK(n, c),
         UNCHANGED <<now, status>>, queries' \subseteq queries, fwd' \subseteq fwd,
         ran' \in [TaskIds -> [Places -> Nat]], faults' \in Nat
  PROVE  Lay'
<1>1. /\ log' \in Seq(TaskChanges \cup NodeChanges) /\ GoodLog' /\ AppliesNext(n, c)
  BY CommitLog
<1>2. \A m \in Nodes, t \in TaskIds : Follows(m, t)'
  BY <1>1, AppliesFollows
<1>3. pos' \in [Nodes -> 0 .. MaxLog]
  BY <1>1, AppliesPos
<1>4. /\ tasks' \in [Nodes -> [TaskIds -> TaskRecords]]
      /\ members' \in [Nodes -> SUBSET Nodes] /\ lowest' \in [Nodes -> 0 .. Never]
  BY <1>1, ApplyEffect DEF Lay, AppliesNext
<1>5. TypeOK'
  BY <1>1, <1>3, <1>4, TypeParts, TypeBuild DEF Lay
<1>. QED BY <1>1, <1>2, <1>5 DEF Lay, Kinds

LEMMA FollowApplies ==
  ASSUME Lay, NEW n \in Nodes, Follow(n)
  PROVE  /\ log[pos[n] + 1] \in TaskChanges \cup NodeChanges
         /\ AppliesNext(n, log[pos[n] + 1]) /\ GoodLog'
<1>1. /\ log \in Seq(TaskChanges \cup NodeChanges) /\ Len(log) \in Nat
      /\ pos \in [Nodes -> 0 .. MaxLog]
  BY TypeParts DEF Lay
<1>2. pos[n] \in Nat /\ pos[n] < Len(log) /\ log' = log /\ pos' = [pos EXCEPT ![n] = @ + 1]
      /\ Apply(n, log[pos[n] + 1])
  BY PosFacts DEF Follow
<1>3. AppliesNext(n, log[pos[n] + 1])
  BY <1>1, <1>2 DEF AppliesNext
<1>4. log[pos[n] + 1] \in TaskChanges \cup NodeChanges
  BY <1>1, <1>2
<1>5. \A m \in Nodes : pos'[m] <= Len(log')
  BY <1>1, <1>2, PosFacts
<1>6. GoodLog'
  BY <1>2, <1>5 DEF Lay, GoodLog, Has
<1>. QED BY <1>3, <1>4, <1>6

LEMMA FollowLay ==
  ASSUME Lay, NEW n \in Nodes, Follow(n)
  PROVE  Lay'
<1> DEFINE c == log[pos[n] + 1]
<1>1. c \in TaskChanges \cup NodeChanges /\ AppliesNext(n, c) /\ GoodLog'
  BY FollowApplies
<1>0. UNCHANGED <<now, log, status, queries, fwd, ran, faults>>
  BY DEF Follow
<1> HIDE DEF c
<1>2. \A m \in Nodes, t \in TaskIds : Follows(m, t)'
  BY <1>1, AppliesFollows
<1>3. pos' \in [Nodes -> 0 .. MaxLog]
  BY <1>1, AppliesPos
<1>4. /\ tasks' \in [Nodes -> [TaskIds -> TaskRecords]]
      /\ members' \in [Nodes -> SUBSET Nodes] /\ lowest' \in [Nodes -> 0 .. Never]
  BY <1>1, ApplyEffect DEF Lay, AppliesNext
<1>5. TypeOK'
  BY <1>0, <1>3, <1>4, TypeParts, TypeBuild DEF Lay
<1>. QED BY <1>0, <1>1, <1>2, <1>5 DEF Lay, Kinds

(* A step that neither makes nor applies a change.                         *)
LEMMA SameLay ==
  ASSUME Lay, SameTasks, UNCHANGED <<log, pos, members>>,
         now' \in Times, status' \in [Nodes -> {"READY", "AWAY", "DOWN"}],
         lowest' \in [Nodes -> 0 .. Never],
         queries' \subseteq [node: Nodes, task: TaskIds, kind: KindSet],
         fwd' \subseteq [to: Nodes, task: TaskIds, pos: 0 .. MaxLog],
         ran' \in [TaskIds -> [Places -> Nat]], faults' \in Nat, Kinds'
  PROVE  Lay'
<1>1. GoodLog' /\ \A m \in Nodes, t \in TaskIds : Follows(m, t)'
  BY SameFollows
<1>2. tasks' \in [Nodes -> [TaskIds -> TaskRecords]]
  BY DEF SameTasks
<1>3. TypeOK'
  BY <1>2, TypeParts, TypeBuild DEF Lay
<1>. QED BY <1>1, <1>3 DEF Lay

LEMMA StutterTasks ==
  ASSUME Lay, tasks' = tasks
  PROVE  SameTasks
BY TypeParts DEF Lay, SameTasks

(* The change that set the time which a node has.                          *)
LEMMA SetByLatest ==
  ASSUME Lay, NEW n \in Nodes, NEW t \in TaskIds, tasks[n][t].run_at # 0
  PROVE  /\ Latest(log, SetBy(n, t), t, Sets, pos[n])
         /\ SetBy(n, t) \in 1 .. Len(log) /\ SetBy(n, t) \in Places
<1> DEFINE S == {i \in 1 .. pos[n] : log[i].tp \in {"new", "finish"} /\ log[i].task = t}
           x == Max(S)
<1>0. pos[n] \in Nat /\ pos[n] <= Len(log) /\ Len(log) <= MaxLog
      /\ Len(log) \in Nat /\ MaxLog \in Nat
  BY PosFacts DEF Lay, GoodLog
<1>1. Follows(n, t)
  BY DEF Lay
<1>2. PICK i \in 1 .. pos[n] : Has(log, i, t, {"new"})
  BY <1>1 DEF Follows
<1>3. S \in SUBSET Nat /\ (\A y \in S : y <= pos[n]) /\ i \in S
  BY <1>0, <1>2 DEF Has
<1>4. x \in S /\ \A y \in S : y <= x
  <2>1. S # {}
    BY <1>3
  <2>. QED BY <1>0, <1>3, <2>1, MaxExists
<1>5. SetBy(n, t) = x
  BY DEF SetBy
<1> HIDE DEF x
<1>6. x \in 1 .. pos[n] /\ Has(log, x, t, Sets)
  BY <1>4 DEF Has, Sets
<1>7. ASSUME NEW j \in x + 1 .. pos[n], Has(log, j, t, Sets) PROVE FALSE
  <2>1. j \in 1 .. pos[n] /\ x \in Nat /\ j \in Nat /\ j > x
    BY <1>0, <1>6
  <2>2. j \in S
    BY <1>7, <2>1 DEF Has, Sets
  <2>. QED BY <1>4, <2>1, <2>2
<1>8. x \in 1 .. Len(log) /\ x \in Places
  BY <1>0, <1>6 DEF Places
<1>. QED BY <1>5, <1>6, <1>7, <1>8 DEF Latest

(* The run of a task is counted for that change.                           *)
LEMMA CountRunEffect ==
  ASSUME Lay, NEW n \in Nodes, NEW t \in TaskIds, CountRun(n, t), tasks[n][t].run_at # 0
  PROVE  /\ ran' \in [TaskIds -> [Places -> Nat]] /\ SetBy(n, t) \in Places
         /\ \A u \in TaskIds, i \in Places :
              ran'[u][i] = IF u = t /\ i = SetBy(n, t) THEN ran[u][i] + 1 ELSE ran[u][i]
<1> DEFINE x == SetBy(n, t)
<1>1. ran \in [TaskIds -> [Places -> Nat]]
  BY TypeParts DEF Lay
<1>2. x \in Places
  BY SetByLatest
<1>3. ran' = [ran EXCEPT ![t] = [ran[t] EXCEPT ![x] = ran[t][x] + 1]]
  BY DEF CountRun
<1> HIDE DEF x
<1>4. /\ ran' \in [TaskIds -> [Places -> Nat]]
      /\ \A u \in TaskIds, i \in Places :
              ran'[u][i] = IF u = t /\ i = x THEN ran[u][i] + 1 ELSE ran[u][i]
  <2> DEFINE g == [ran[t] EXCEPT ![x] = ran[t][x] + 1]
  <2>1. g \in [Places -> Nat] /\ \A i \in Places : g[i] = IF i = x THEN ran[t][i] + 1 ELSE ran[t][i]
    BY <1>1, <1>2
  <2>2. ran' = [ran EXCEPT ![t] = g]
    BY <1>3
  <2> HIDE DEF g
  <2>. QED BY <1>1, <2>1, <2>2
<1>. QED BY <1>2, <1>4 DEF x

LEMMA TimerSame ==
  ASSUME Lay, NEW n \in Nodes, NEW T, Begins(n, T)
  PROVE  SameTasks /\ \A t \in T : /\ t \in TaskIds /\ tasks[n][t].here
                                   /\ tasks[n][t].run_at # 0 /\ tasks[n][t].run_at <= now
                                   /\ ~tasks[n][t].running /\ Owns(n, members[n], t)
<1>1. \A t \in T : /\ t \in TaskIds /\ tasks[n][t].run_at # 0 /\ tasks[n][t].run_at <= now
                   /\ ~tasks[n][t].running /\ Owns(n, members[n], t)
  BY DEF Begins, Due, Waiting
<1>2. \A t \in T : tasks[n][t].here
  BY <1>1 DEF Lay, Follows
<1>3. tasks \in [Nodes -> [TaskIds -> TaskRecords]] /\ tasks' = Mark(n, T)
  BY TypeParts DEF Lay, Begins
<1>4. SameTasks
  BY <1>2, <1>3, MarkEffect DEF SameTasks
<1>. QED BY <1>1, <1>2, <1>4

LEMMA TimerLay ==
  ASSUME Lay, NEW n \in Nodes, Timer(n)
  PROVE  Lay'
<1>1. PICK T \in SUBSET TaskIds :
           /\ Begins(n, T)
           /\ \/ queries' = queries \cup Started(n, T) /\ fwd' = fwd
              \/ /\ queries' = queries
                 /\ \E to \in [T -> ReadyNodes(n)] : fwd' = fwd \cup Forward(n, T, to)
              \/ T = {} /\ queries' = queries /\ fwd' = fwd
  BY TimerShape
<1>2. SameTasks /\ lowest' \in [Nodes -> 0 .. Never]
  BY <1>1, TimerSame, BeginsEffect DEF Lay
<1>3. UNCHANGED <<now, log, pos, members, status, ran, faults>>
  BY DEF Timer
<1>4. ReadyNodes(n) \in SUBSET Nodes /\ pos \in [Nodes -> 0 .. MaxLog]
  BY TypeParts DEF Lay, ReadyNodes
<1>5. \A q \in queries' : q \in queries \/ q \in Started(n, T)
  BY <1>1
<1>6. queries' \subseteq [node: Nodes, task: TaskIds, kind: KindSet]
      /\ Kinds'
  BY <1>5, StartedTypes, TypeParts DEF Lay, Kinds
<1>7. fwd' \subseteq [to: Nodes, task: TaskIds, pos: 0 .. MaxLog]
  BY <1>1, <1>4, ForwardTypes, TypeParts DEF Lay
<1>. QED BY <1>2, <1>3, <1>6, <1>7, SameLay, TypeParts DEF Lay

LEMMA FwdSame ==
  ASSUME Lay, NEW f \in fwd, OnFwdTask(f)
  PROVE  SameTasks
<1>1. /\ FwdStart(f) \/ FwdAgain(f) \/ FwdDrop(f)
      /\ f.to \in Nodes /\ f.task \in TaskIds
  BY FwdShape
<1>2. CASE tasks' = tasks
  BY <1>2, StutterTasks
<1>3. CASE tasks' = Mark(f.to, {f.task}) /\ tasks[f.to][f.task].here
  <2>1. tasks \in [Nodes -> [TaskIds -> TaskRecords]]
    BY TypeParts DEF Lay
  <2> DEFINE n == f.to
             T == {f.task}
  <2>2. n \in Nodes /\ tasks' = Mark(n, T) /\ \A t \in T : tasks[n][t].here
    BY <1>1, <1>3
  <2> HIDE DEF n, T
  <2>. QED BY <2>1, <2>2, MarkEffect DEF SameTasks
<1>. QED BY <1>1, <1>2, <1>3 DEF FwdStart, FwdAgain, FwdDrop

LEMMA FwdLay ==
  ASSUME Lay, NEW f \in fwd, OnFwdTask(f)
  PROVE  Lay'
<1>1. /\ FwdStart(f) \/ FwdAgain(f) \/ FwdDrop(f)
      /\ f.to \in Nodes /\ f.task \in TaskIds
      /\ faults' = faults \/ faults' = faults + 1
      /\ UNCHANGED <<now, log, pos, members, status, lowest, ran>>
  BY FwdShape
<1>2. SameTasks
  BY FwdSame
<1>3. \A q \in queries' : q \in queries \/ q \in Started(f.to, {f.task})
  BY <1>1 DEF FwdStart, FwdAgain, FwdDrop
<1>4. queries' \subseteq [node: Nodes, task: TaskIds, kind: KindSet]
      /\ Kinds'
  <2>1. {f.task} \in SUBSET TaskIds
    BY <1>1
  <2>2. \A q \in Started(f.to, {f.task}) :
           /\ q \in [node: Nodes, task: TaskIds, kind: KindSet]
           /\ q.kind = IF q.task \in Quiet THEN "async" ELSE "change"
    BY <1>1, <2>1, StartedTypes
  <2>. QED BY <1>3, <2>2, TypeParts DEF Lay, Kinds
<1>5. ReadyNodes(f.to) \in SUBSET Nodes /\ pos \in [Nodes -> 0 .. MaxLog]
      /\ {f.task} \in SUBSET TaskIds
  BY <1>1, TypeParts DEF Lay, ReadyNodes
<1>6. fwd' \subseteq [to: Nodes, task: TaskIds, pos: 0 .. MaxLog]
  <2>1. CASE fwd' = fwd \ {f}
    BY <2>1, TypeParts DEF Lay
  <2>2. CASE FwdAgain(f)
    <3>1. PICK to \in [{f.task} -> ReadyNodes(f.to)] :
            fwd' = (fwd \ {f}) \cup Forward(f.to, {f.task}, to)
      BY <2>2 DEF FwdAgain
    <3>2. \A e \in Forward(f.to, {f.task}, to) :
            e \in [to: Nodes, task: TaskIds, pos: 0 .. MaxLog]
      BY <1>1, <1>5, ForwardTypes
    <3>. QED BY <3>1, <3>2, TypeParts DEF Lay
  <2>. QED BY <1>1, <2>1, <2>2 DEF FwdStart, FwdDrop
<1>7. faults' \in Nat /\ now' \in Times /\ ran' \in [TaskIds -> [Places -> Nat]]
      /\ status' \in [Nodes -> {"READY", "AWAY", "DOWN"}] /\ lowest' \in [Nodes -> 0 .. Never]
  BY <1>1, TypeParts DEF Lay
<1>. QED BY <1>1, <1>2, <1>4, <1>6, <1>7, SameLay

LEMMA RunChangeLay ==
  ASSUME Lay, NEW q \in queries, RunChange(q)
  PROVE  Lay'
<1> DEFINE n == q.node
           t == q.task
<1>1. n \in Nodes /\ t \in TaskIds
  BY QueryTypes
<1>2. UNCHANGED <<now, status, fwd, faults>>
  BY DEF RunChange
<1>3. CASE tasks[n][t].run_at = 0
  <2>1. TaskResult(q) /\ SetResult(n, t) /\ UNCHANGED <<log, pos, members, lowest, ran>>
    BY <1>3 DEF RunChange, SetResult
  <2>2. SameTasks
    BY <1>1, <2>1, SetResultEffect, TypeParts DEF Lay, SameTasks
  <2>3. queries' \subseteq [node: Nodes, task: TaskIds, kind: KindSet] /\ Kinds'
    BY <2>1, ResultPasses, PassLay DEF Passes
  <2>. QED BY <1>2, <2>1, <2>2, <2>3, SameLay, TypeParts DEF Lay
<1>4. CASE tasks[n][t].run_at # 0
  <2>1. PICK c \in TaskChanges, at \in 0 .. MaxTime : Ends(n, c, t, at)
    BY <1>4, RunChangeShape
  <2>2. queries' \subseteq queries /\ CountRun(n, t)
    BY <1>4 DEF RunChange
  <2>3. ran' \in [TaskIds -> [Places -> Nat]]
    BY <1>1, <1>4, <2>2, CountRunEffect
  <2>. QED BY <1>1, <1>2, <2>1, <2>2, <2>3, CommitLay, TypeParts DEF Lay, Ends
<1>. QED BY <1>3, <1>4

(* What steps that end with a result of the task have in common: they set  *)
(* it, with the time the task asked for, which it must have to be asked.   *)
ResultStep(q) ==
  /\ Passes(q) /\ UNCHANGED <<now, log, pos, members, status, lowest, fwd, faults>>
  /\ \/ SetResult(q.node, q.task)
     \/ \E at \in 0 .. MaxTime, v \in {"NULL", "ok", "error"} :
          /\ SetOutcome(q.node, q.task, at, v)
          /\ at # 0 => tasks[q.node][q.task].run_at # 0
  /\ \/ ran' = ran
     \/ tasks[q.node][q.task].run_at # 0 /\ CountRun(q.node, q.task)

LEMMA RunAsyncStep ==
  ASSUME Lay, NEW q \in queries, RunAsync(q)
  PROVE  ResultStep(q)
<1> DEFINE n == q.node
           t == q.task
<1>1. /\ UNCHANGED <<now, log, pos, members, status, lowest, fwd, faults>> /\ TaskResult(q)
  BY DEF RunAsync
<1>2. Passes(q)
  BY <1>1, ResultPasses DEF Passes
<1>3. CASE tasks[n][t].run_at = 0
  <2>1. SetResult(n, t) /\ ran' = ran
    BY <1>3 DEF RunAsync, SetResult
  <2>. QED BY <1>1, <1>2, <2>1 DEF ResultStep
<1>4. CASE tasks[n][t].run_at # 0
  <2>1. CountRun(n, t) /\ \E o \in Outcomes(n, t) : tasks' = Done(n, t, o[1], o[2])
    BY <1>4 DEF RunAsync
  <2>2. PICK o \in Outcomes(n, t) : tasks' = Done(n, t, o[1], o[2])
    BY <2>1
  <2>3. PICK at \in 0 .. MaxTime, v \in {"ok", "error"} : o = <<at, v>>
    BY OutcomeTypes
  <2>4. SetOutcome(n, t, at, v) /\ v \in {"NULL", "ok", "error"}
    BY <2>2, <2>3 DEF SetOutcome
  <2>. QED BY <1>1, <1>2, <1>4, <2>1, <2>4 DEF ResultStep
<1>. QED BY <1>3, <1>4

LEMMA RunFuturesStep ==
  ASSUME Lay, NEW q \in queries, RunFutures(q)
  PROVE  /\ ResultStep(q) /\ q.kind \in {"change", "async"} /\ q.task \in Futures
         /\ tasks[q.node][q.task].run_at # 0 /\ CountRun(q.node, q.task)
         /\ GoesOn(q, "future") \/ TaskResult(q)
<1> DEFINE n == q.node
           t == q.task
<1>1. /\ UNCHANGED <<now, log, pos, members, status, lowest, fwd, faults>>
      /\ tasks[n][t].run_at # 0 /\ CountRun(n, t)
      /\ q.kind \in {"change", "async"} /\ t \in Futures
  BY DEF RunFutures
<1>2. PICK o \in Outcomes(n, t) :
        \/ GoesOn(q, "future") /\ tasks' = Done(n, t, o[1], tasks[n][t].verr)
        \/ TaskResult(q) /\ tasks' = Done(n, t, o[1], "error")
  BY DEF RunFutures, GoesOn
<1>3. PICK at \in 0 .. MaxTime, w \in {"ok", "error"} : o = <<at, w>>
  BY OutcomeTypes
<1>4. tasks[n][t].verr \in {"NULL", "ok", "error"}
  BY QueryTypes DEF TaskRecords
<1>5. \E v \in {"NULL", "ok", "error"} : SetOutcome(n, t, at, v)
  BY <1>2, <1>3, <1>4 DEF SetOutcome
<1>6. Passes(q) /\ (GoesOn(q, "future") \/ TaskResult(q))
  BY <1>2, ResultPasses DEF Passes
<1>. QED BY <1>1, <1>5, <1>6 DEF ResultStep

LEMMA FuturesDoneStep ==
  ASSUME Lay, NEW q \in queries, FuturesDone(q)
  PROVE  ResultStep(q) /\ q.kind = "future" /\ TaskResult(q) /\ ran' = ran
<1> DEFINE n == q.node
           t == q.task
<1>1. /\ UNCHANGED <<now, log, pos, members, status, lowest, fwd, ran, faults>>
      /\ TaskResult(q) /\ q.kind = "future"
  BY DEF FuturesDone
<1>2. PICK o \in Outcomes(n, t) :
        (o[1] # 0 => tasks[n][t].run_at # 0) /\ tasks' = Done(n, t, o[1], o[2])
  BY DEF FuturesDone
<1>3. PICK at \in 0 .. MaxTime, v \in {"ok", "error"} : o = <<at, v>>
  BY OutcomeTypes
<1>4. /\ SetOutcome(n, t, at, v) /\ v \in {"NULL", "ok", "error"}
      /\ at # 0 => tasks[n][t].run_at # 0
  BY <1>2, <1>3 DEF SetOutcome
<1>5. Passes(q)
  BY <1>1, ResultPasses DEF Passes
<1>. QED BY <1>1, <1>4, <1>5 DEF ResultStep

(* What such a step does to the tasks.                                     *)
LEMMA ResultStepEffect ==
  ASSUME Lay, NEW q \in queries, ResultStep(q)
  PROVE  /\ tasks' \in [Nodes -> [TaskIds -> TaskRecords]]
         /\ \A m \in Nodes, u \in TaskIds :
              /\ tasks'[m][u].here = tasks[m][u].here
              /\ tasks'[m][u].running = tasks[m][u].running
              /\ m # q.node \/ u # q.task =>
                   /\ tasks'[m][u].run_at = tasks[m][u].run_at
                   /\ tasks'[m][u].again = tasks[m][u].again
              /\ tasks'[m][u].run_at # 0 => tasks[m][u].run_at # 0
              /\ ~tasks'[m][u].again =>
                   ~tasks[m][u].again /\ tasks'[m][u].run_at = tasks[m][u].run_at
              /\ ~tasks[m][u].here => /\ tasks'[m][u].run_at = tasks[m][u].run_at
                                      /\ tasks'[m][u].again = tasks[m][u].again
<1> DEFINE n == q.node
           t == q.task
<1>0. n \in Nodes /\ t \in TaskIds /\ tasks \in [Nodes -> [TaskIds -> TaskRecords]]
  BY QueryTypes, TypeParts DEF Lay
<1>1. CASE SetResult(n, t)
  BY <1>0, <1>1, SetResultEffect
<1>2. CASE \E at \in 0 .. MaxTime, v \in {"NULL", "ok", "error"} :
             SetOutcome(n, t, at, v) /\ (at # 0 => tasks[n][t].run_at # 0)
  <2>1. PICK at \in 0 .. MaxTime, v \in {"NULL", "ok", "error"} :
          SetOutcome(n, t, at, v) /\ (at # 0 => tasks[n][t].run_at # 0)
    BY <1>2
  <2>2. /\ tasks' \in [Nodes -> [TaskIds -> TaskRecords]]
        /\ \A m \in Nodes, u \in TaskIds : m # n \/ u # t => tasks'[m][u] = tasks[m][u]
        /\ tasks'[n][t].here = tasks[n][t].here
        /\ tasks'[n][t].running = tasks[n][t].running
        /\ tasks'[n][t].run_at = IF at = 0 THEN tasks[n][t].run_at ELSE at
        /\ tasks'[n][t].again <=> tasks[n][t].again \/ at # 0
    BY <1>0, <2>1, AsyncEffect
  <2>3. ~tasks[n][t].here => tasks[n][t].run_at = 0 /\ ~tasks[n][t].again
    BY <1>0 DEF Lay, Follows
  <2>4. tasks[n][t].again \in BOOLEAN /\ tasks'[n][t].again \in BOOLEAN
    BY <1>0, <2>2 DEF TaskRecords
  <2> HIDE DEF n, t
  <2>5. ASSUME NEW m \in Nodes, NEW u \in TaskIds, m # n \/ u # t
        PROVE  tasks'[m][u] = tasks[m][u]
    BY <2>2, <2>5
  <2>6. /\ tasks'[n][t].run_at # 0 => tasks[n][t].run_at # 0
        /\ ~tasks'[n][t].again =>
             ~tasks[n][t].again /\ tasks'[n][t].run_at = tasks[n][t].run_at
        /\ ~tasks[n][t].here => /\ tasks'[n][t].run_at = tasks[n][t].run_at
                                /\ tasks'[n][t].again = tasks[n][t].again
    BY <2>1, <2>2, <2>3, <2>4
  <2>7. \A m \in Nodes, u \in TaskIds :
              /\ tasks'[m][u].here = tasks[m][u].here
              /\ tasks'[m][u].running = tasks[m][u].running
              /\ m # n \/ u # t =>
                   /\ tasks'[m][u].run_at = tasks[m][u].run_at
                   /\ tasks'[m][u].again = tasks[m][u].again
              /\ tasks'[m][u].run_at # 0 => tasks[m][u].run_at # 0
              /\ ~tasks'[m][u].again =>
                   ~tasks[m][u].again /\ tasks'[m][u].run_at = tasks[m][u].run_at
              /\ ~tasks[m][u].here => /\ tasks'[m][u].run_at = tasks[m][u].run_at
                                      /\ tasks'[m][u].again = tasks[m][u].again
    BY <2>2, <2>5, <2>6
  <2>. QED BY <2>2, <2>7 DEF n, t
<1>. QED BY <1>1, <1>2 DEF ResultStep

LEMMA ResultStepLay ==
  ASSUME Lay, NEW q \in queries, ResultStep(q)
  PROVE  Lay'
<1>1. q.node \in Nodes /\ q.task \in TaskIds
  BY QueryTypes
<1>2. UNCHANGED <<now, log, pos, members, status, lowest, fwd, faults>> /\ Passes(q)
  BY DEF ResultStep
<1>3. queries' \subseteq [node: Nodes, task: TaskIds, kind: KindSet] /\ Kinds'
  BY <1>2, PassLay
<1>4. SameTasks
  BY ResultStepEffect DEF SameTasks
<1>5. ran' \in [TaskIds -> [Places -> Nat]]
  BY <1>1, CountRunEffect, TypeParts DEF ResultStep, Lay
<1>. QED BY <1>2, <1>3, <1>4, <1>5, SameLay, TypeParts DEF Lay

LEMMA RunFinishLay ==
  ASSUME Lay, NEW q \in queries, RunFinish(q)
  PROVE  Lay'
<1>1. q.node \in Nodes /\ q.task \in TaskIds
  BY QueryTypes
<1>2. UNCHANGED <<now, status, fwd, ran, faults>> /\ queries' \subseteq queries
  BY DEF RunFinish
<1>3. CASE ~tasks[q.node][q.task].here
  <2>1. UNCHANGED <<log, pos, members, tasks, lowest>>
    BY <1>3 DEF RunFinish
  <2>2. SameTasks
    BY <2>1, StutterTasks
  <2>. QED BY <1>2, <2>1, <2>2, SameLay, TypeParts DEF Lay, Kinds
<1>4. CASE tasks[q.node][q.task].here
  <2>1. PICK c \in TaskChanges, at \in 0 .. MaxTime : Ends(q.node, c, q.task, at)
    BY <1>4, RunFinishShape
  <2>. QED BY <1>1, <1>2, <2>1, CommitLay, TypeParts DEF Lay, Ends
<1>. QED BY <1>3, <1>4

LEMMA DiesLay ==
  ASSUME Lay, NEW n \in Nodes, Dies(n), faults' \in Nat
  PROVE  Lay'
<1>1. /\ tasks' \in [Nodes -> [TaskIds -> TaskRecords]]
      /\ \A m \in Nodes, t \in TaskIds :
           tasks'[m][t] = IF m = n THEN NoTask ELSE tasks[m][t]
      /\ pos' \in [Nodes -> 0 .. MaxLog]
      /\ \A m \in Nodes : pos'[m] = IF m = n THEN 0 ELSE pos[m]
      /\ status' \in [Nodes -> {"READY", "AWAY", "DOWN"}]
      /\ lowest' \in [Nodes -> 0 .. Never]
      /\ queries' \subseteq queries /\ fwd' \subseteq fwd
      /\ UNCHANGED <<now, log, members, ran>>
  BY DiesEffect
<1>2. TypeOK'
  BY <1>1, TypeParts, TypeBuild DEF Lay
<1>3. GoodLog'
  <2>1. \A m \in Nodes : pos'[m] <= Len(log)
    BY <1>1, PosFacts
  <2>. QED BY <1>1, <2>1 DEF Lay, GoodLog, Has
<1>4. ASSUME NEW m \in Nodes, NEW t \in TaskIds PROVE Follows(m, t)'
  <2>1. CASE m = n
    BY <1>1, <2>1, TaskTypes DEF Follows
  <2>2. CASE m # n
    BY <1>1, <2>2 DEF Lay, Follows, Has, Deleted
  <2>. QED BY <2>1, <2>2
<1>. QED BY <1>1, <1>2, <1>3, <1>4 DEF Lay, Kinds

LEMMA RestartLay ==
  ASSUME Lay, NEW n \in Nodes, Restart(n)
  PROVE  Lay'
<1>0. UNCHANGED <<now, log, queries, fwd, ran, faults>>
  BY DEF Restart
<1>1. /\ tasks' \in [Nodes -> [TaskIds -> TaskRecords]]
      /\ \A m \in Nodes \ {n} : tasks'[m] = tasks[m]
      /\ pos' \in [Nodes -> 0 .. MaxLog]
      /\ \A m \in Nodes : pos'[m] = IF m = n THEN Len(log) ELSE pos[m]
      /\ members' \in [Nodes -> SUBSET Nodes]
      /\ status' \in [Nodes -> {"READY", "AWAY", "DOWN"}]
      /\ lowest' \in [Nodes -> 0 .. Never]
  BY RestartEffect
<1>2. TypeOK'
  BY <1>0, <1>1, TypeParts, TypeBuild DEF Lay
<1>3. GoodLog'
  <2>1. \A m \in Nodes : pos'[m] <= Len(log)
    <3>1. Len(log) \in Nat
      BY TypeParts DEF Lay
    <3>. QED BY <1>1, <3>1, PosFacts
  <2>. QED BY <1>0, <2>1 DEF Lay, GoodLog, Has
<1>4. ASSUME NEW t \in TaskIds PROVE Follows(n, t)'
  <2>1. CASE /\ tasks'[n][t] = NoTask
             /\ \/ Deleted(log, t, Len(log))
                \/ ~\E i \in 1 .. Len(log) : Has(log, i, t, {"new"})
    BY <1>0, <1>1, <2>1, TaskTypes DEF Follows
  <2>2. CASE \E i \in 1 .. Len(log) :
               /\ Latest(log, i, t, TaskTps, Len(log)) /\ log[i].tp # "del"
               /\ tasks'[n][t] = Task(log[i].at, log[i].verr)
    <3>1. PICK i \in 1 .. Len(log) :
               /\ Latest(log, i, t, TaskTps, Len(log)) /\ log[i].tp # "del"
               /\ tasks'[n][t] = Task(log[i].at, log[i].verr)
      BY <2>2
    <3>2. log[i].tp \in TaskTps /\ log[i].task = t /\ Len(log) \in Nat /\ log[i] \in TaskChanges
          /\ \A j \in i + 1 .. Len(log) : ~Has(log, j, t, TaskTps)
      BY <3>1, TypeParts, ChangeKinds DEF Latest, Has, Lay
    <3>3. tasks'[n][t].here
      BY <3>1, <3>2, TaskTypes DEF TaskChanges
    <3>4. /\ \E j \in 1 .. i : Has(log, j, t, {"new"})
          /\ \A j \in 1 .. Len(log) : j < i => ~Has(log, j, t, {"del"})
      BY <3>2 DEF Lay, GoodLog
    <3>5. \A j \in 1 .. Len(log) : ~Has(log, j, t, {"del"})
      <4> SUFFICES ASSUME NEW j \in 1 .. Len(log), Has(log, j, t, {"del"}) PROVE FALSE
        OBVIOUS
      <4>1. CASE j < i
        BY <3>4, <4>1
      <4>2. CASE j = i
        BY <3>1, <4>2 DEF Has
      <4>3. CASE j > i
        <5>1. j \in i + 1 .. Len(log)
          BY <3>2, <4>3
        <5>. QED BY <3>2, <5>1 DEF Has, TaskTps
      <4>. QED BY <4>1, <4>2, <4>3
    <3>6. \E j \in 1 .. Len(log) : Has(log, j, t, {"new"})
      BY <3>2, <3>4
    <3>. QED BY <1>0, <1>1, <3>3, <3>5, <3>6 DEF Follows, Deleted
  <2>. QED BY <2>1, <2>2, RestartEffect
<1>5. ASSUME NEW m \in Nodes \ {n}, NEW t \in TaskIds PROVE Follows(m, t)'
  <2>1. Follows(m, t) /\ tasks'[m][t] = tasks[m][t] /\ pos'[m] = pos[m]
    BY <1>1 DEF Lay
  <2>. QED BY <1>0, <2>1 DEF Follows, Has, Deleted
<1>6. \A m \in Nodes, t \in TaskIds : Follows(m, t)'
  BY <1>4, <1>5
<1>. QED BY <1>0, <1>2, <1>3, <1>6 DEF Lay, Kinds

LEMMA LayNext == Lay /\ [Next]_vars => Lay'
<1> SUFFICES ASSUME Lay, [Next]_vars PROVE Lay'
  OBVIOUS
<1>0. faults \in Nat /\ now \in Times /\ MaxTime \in Nat
      /\ status \in [Nodes -> {"READY", "AWAY", "DOWN"}]
  BY TypeParts, TaskBoundsAssumption DEF Lay
<1>1. CASE UNCHANGED vars
  BY <1>1, StutterTasks, SameLay, TypeParts DEF vars, Lay, Kinds
<1>2. CASE Tick
  <2>1. now' \in Times /\ UNCHANGED <<log, pos, members, status, tasks, lowest, queries, fwd,
                                      ran, faults>>
    BY <1>0, <1>2 DEF Tick, Times
  <2>. QED BY <2>1, StutterTasks, SameLay, TypeParts DEF Lay, Kinds
<1>3. ASSUME NEW n \in Nodes, Follow(n) PROVE Lay'
  BY <1>3, FollowLay
<1>4. ASSUME NEW n \in Nodes, Timer(n) PROVE Lay'
  BY <1>4, TimerLay
<1>5. ASSUME NEW n \in Nodes, ClientQuery(n) PROVE Lay'
  <2>1. PICK c \in TaskChanges : UpToDate(n) /\ Commit(n, c) /\ CommitOK(n, c)
    BY <1>5, ClientShape
  <2>2. UNCHANGED <<now, status, queries, fwd, ran, faults>>
    BY <1>5 DEF ClientQuery
  <2>. QED BY <2>1, <2>2, CommitLay, TypeParts DEF Lay
<1>6. ASSUME NEW n \in Nodes, Restart(n) PROVE Lay'
  BY <1>6, RestartLay
<1>7. ASSUME NEW n \in Nodes, Crash(n) PROVE Lay'
  BY <1>0, <1>7, DiesLay DEF Crash, Fault
<1>8. ASSUME NEW n \in Nodes, GoAway(n) \/ ComeBack(n) PROVE Lay'
  <2>1. /\ status' \in [Nodes -> {"READY", "AWAY", "DOWN"}]
        /\ UNCHANGED <<now, log, pos, members, tasks, lowest, queries, fwd, ran, faults>>
    BY <1>0, <1>8 DEF GoAway, ComeBack, Status
  <2>. QED BY <2>1, StutterTasks, SameLay, TypeParts DEF Lay, Kinds
<1>9. ASSUME NEW f \in fwd, OnFwdTask(f) PROVE Lay'
  BY <1>9, FwdLay
<1>10. ASSUME NEW q \in queries, RunChange(q) PROVE Lay'
  BY <1>10, RunChangeLay
<1>11. ASSUME NEW q \in queries, RunAsync(q) \/ RunFutures(q) \/ FuturesDone(q) PROVE Lay'
  BY <1>11, RunAsyncStep, RunFuturesStep, FuturesDoneStep, ResultStepLay
<1>12. ASSUME NEW q \in queries, RunFinish(q) PROVE Lay'
  BY <1>12, RunFinishLay
<1>13. ASSUME NEW q \in queries, RunFinishDies(q) PROVE Lay'
  BY <1>0, <1>13, DiesLay, QueryTypes DEF RunFinishDies
<1>14. ASSUME NEW q \in queries, ChangeFails(q) PROVE Lay'
  <2>1. /\ queries' \subseteq queries /\ faults' \in Nat
        /\ UNCHANGED <<now, log, pos, members, status, tasks, lowest, fwd, ran>>
    BY <1>0, <1>14 DEF ChangeFails, Fault
  <2>. QED BY <2>1, StutterTasks, SameLay, TypeParts DEF Lay, Kinds
<1>15. ASSUME NEW n \in Nodes, NEW m \in Nodes, NewNode(n, m) \/ DelNode(n, m) PROVE Lay'
  <2>1. PICK c \in NodeChanges :
           /\ UpToDate(n) /\ Commit(n, c) /\ CommitOK(n, c) /\ faults' = faults + 1
           /\ UNCHANGED <<now, status, queries, fwd, ran>>
    BY <1>15, NodeShape
  <2>. QED BY <1>0, <2>1, CommitLay, TypeParts DEF Lay
<1>. QED BY <1>1, <1>2, <1>3, <1>4, <1>5, <1>6, <1>7, <1>8, <1>9, <1>10, <1>11, <1>12,
            <1>13, <1>14, <1>15 DEF Next, NodeStep, QueryStep

(* The tasks, the changes and the queries have their types, and the log of *)
(* the changes and the counters of the nodes stay within their bounds,     *)
(* whatever crashes, is lost or joins.                                     *)
THEOREM TasksTypeCorrect == Spec => []TypeOK
<1>1. Spec => []Lay
  BY LayInit, LayNext, PTL DEF Spec
<1>2. Lay => TypeOK
  BY DEF Lay
<1>. QED BY <1>1, <1>2, PTL
-----------------------------------------------------------------------------
(* No task is overlooked.                                                  *)

Looks(n) ==
  status[n] # "DOWN" /\ ~Seen(n, "del_node") =>
    \A t \in Waiting(n) : tasks[n][t].again \/ lowest[n] <= tasks[n][t].run_at

(* A node that applies nothing, and does not start anything.               *)
LEMMA LooksKeep ==
  ASSUME Lay, Lay', NEW m \in Nodes, Looks(m), status'[m] # "DOWN" => status[m] # "DOWN",
         \A i \in 1 .. pos[m] : log'[i] = log[i], pos'[m] = pos[m],
         members'[m] = members[m], lowest'[m] = lowest[m],
         \A t \in TaskIds :
           /\ ~tasks'[m][t].again => /\ ~tasks[m][t].again
                                     /\ tasks'[m][t].run_at = tasks[m][t].run_at
           /\ tasks[m][t].running => tasks'[m][t].running
  PROVE  Looks(m)'
<1> SUFFICES ASSUME status'[m] # "DOWN", ~Seen(m, "del_node")', NEW t \in Waiting(m)',
                    ~tasks'[m][t].again
             PROVE  lowest'[m] <= tasks'[m][t].run_at
  BY DEF Looks
<1>1. ~Seen(m, "del_node")
  BY DEF Seen
<1>2. /\ t \in TaskIds /\ tasks'[m][t].run_at # 0 /\ ~tasks'[m][t].running
      /\ Owns(m, members[m], t)
  BY DEF Waiting, Owns, RelId
<1>3. t \in Waiting(m)
  BY <1>2 DEF Waiting
<1>4. lowest[m] <= tasks[m][t].run_at
  BY <1>1, <1>2, <1>3 DEF Looks
<1>. QED BY <1>2, <1>4

LEMMA LooksApply ==
  ASSUME Lay, Lay', NEW n \in Nodes, NEW c \in TaskChanges \cup NodeChanges,
         AppliesNext(n, c), \A m \in Nodes : Looks(m), status' = status
  PROVE  \A m \in Nodes : Looks(m)'
<1>0. /\ TypeOK /\ Apply(n, c) /\ GoodLog'
      /\ tasks \in [Nodes -> [TaskIds -> TaskRecords]] /\ lowest \in [Nodes -> 0 .. Never]
  BY TypeParts DEF Lay, AppliesNext
<1>1. /\ lowest' \in [Nodes -> 0 .. Never]
      /\ \A m \in Nodes, t \in TaskIds :
           tasks'[m][t] = IF m = n /\ c.tp \in TaskTps /\ c.task = t
                          THEN Result(c, tasks[m][t]) ELSE tasks[m][t]
      /\ c.tp \in TaskTps => members' = members
      /\ \A m \in Nodes \ {n} : members'[m] = members[m] /\ lowest'[m] = lowest[m]
      /\ lowest'[n] <= lowest[n]
      /\ c.tp \in Sets /\ c.at # 0 /\ Owns(n, members[n], c.task) => lowest'[n] <= c.at
      /\ c.tp = "new_node" => lowest'[n] = 0
  BY <1>0, ApplyEffect
<1>2. /\ \A m \in Nodes : pos'[m] = IF m = n THEN pos[m] + 1 ELSE pos[m]
      /\ \A m \in Nodes : \A i \in 1 .. pos[m] : log'[i] = log[i]
      /\ \A m \in Nodes : pos[m] \in Nat
  BY <1>0, AppliesPos, PosFacts
<1>3. ASSUME NEW m \in Nodes \ {n} PROVE Looks(m)'
  <2>1. \A t \in TaskIds : tasks'[m][t] = tasks[m][t]
    BY <1>1
  <2>. QED BY <1>1, <1>2, <2>1, LooksKeep
<1>4. Looks(n)'
  <2> SUFFICES ASSUME status'[n] # "DOWN", ~Seen(n, "del_node")', NEW t \in Waiting(n)',
                      ~tasks'[n][t].again
               PROVE  lowest'[n] <= tasks'[n][t].run_at
    BY DEF Looks
  <2>1. ~Seen(n, "del_node") /\ c.tp # "del_node"
    <3>1. \A i \in 1 .. pos[n] + 1 : log'[i].tp # "del_node"
      BY <1>2 DEF Seen
    <3>2. log'[pos[n] + 1] = c
      BY DEF AppliesNext
    <3>. QED BY <1>2, <3>1, <3>2 DEF Seen
  <2>2. t \in TaskIds /\ tasks'[n][t].run_at # 0 /\ ~tasks'[n][t].running
        /\ Owns(n, members'[n], t)
    BY DEF Waiting, Owns, RelId
  <2>3. tasks'[n][t].run_at \in Nat /\ lowest[n] \in Nat /\ lowest'[n] \in Nat
        /\ tasks[n][t].run_at \in Nat
    <3>1. tasks'[n][t].run_at \in 0 .. MaxTime
      BY <2>2 DEF Lay, TypeOK
    <3>. QED BY <1>0, <1>1, <2>2, <3>1 DEF TaskRecords
  <2>4. CASE c.tp = "new_node"
    BY <1>1, <2>3, <2>4
  <2>5. CASE c.tp \in TaskTps /\ c.task = t
    <3>1. c \in TaskChanges /\ tasks'[n][t] = Result(c, tasks[n][t])
          /\ tasks[n][t] \in TaskRecords /\ members' = members
      BY <1>0, <1>1, <2>2, <2>5, ChangeKinds
    <3>2. c.tp \in Sets /\ tasks'[n][t].run_at = c.at
      BY <2>2, <2>5, <3>1, ResultFacts DEF TaskTps, Sets
    <3>. QED BY <1>1, <2>2, <2>5, <3>1, <3>2
  <2>6. CASE c.tp \in TaskTps /\ c.task # t
    <3>1. tasks'[n][t] = tasks[n][t] /\ members' = members
      BY <1>1, <2>2, <2>6
    <3>2. t \in Waiting(n)
      BY <2>2, <3>1 DEF Waiting
    <3>3. lowest[n] <= tasks[n][t].run_at
      BY <2>1, <3>1, <3>2 DEF Looks
    <3>. QED BY <1>1, <2>3, <3>1, <3>3
  <2>. QED BY <2>1, <2>4, <2>5, <2>6 DEF TaskChanges, NodeChanges, TaskTps
<1>. QED BY <1>3, <1>4

(* A step that changes nothing that a timer looks at.                      *)
LEMMA LooksSame ==
  ASSUME Lay, Lay', \A m \in Nodes : Looks(m),
         \A m \in Nodes : status'[m] # "DOWN" => status[m] # "DOWN",
         UNCHANGED <<log, pos, members, lowest>>,
         \A m \in Nodes, t \in TaskIds :
           /\ ~tasks'[m][t].again => /\ ~tasks[m][t].again
                                     /\ tasks'[m][t].run_at = tasks[m][t].run_at
           /\ tasks[m][t].running => tasks'[m][t].running
  PROVE  \A m \in Nodes : Looks(m)'
BY LooksKeep

LEMMA LooksNext ==
  ASSUME Lay, Lay', \A m \in Nodes : Looks(m), [Next]_vars
  PROVE  \A m \in Nodes : Looks(m)'
<1>0. tasks \in [Nodes -> [TaskIds -> TaskRecords]]
  BY TypeParts DEF Lay
<1>1. CASE UNCHANGED vars
  BY <1>0, <1>1, LooksSame DEF vars
<1>2. CASE Tick
  BY <1>0, <1>2, LooksSame DEF Tick
<1>3. ASSUME NEW n \in Nodes, Follow(n) PROVE \A m \in Nodes : Looks(m)'
  <2>1. log[pos[n] + 1] \in TaskChanges \cup NodeChanges /\ AppliesNext(n, log[pos[n] + 1])
        /\ status' = status
    BY <1>3, FollowApplies DEF Follow
  <2>. QED BY <2>1, LooksApply
<1>4. ASSUME NEW n \in Nodes, Timer(n) PROVE \A m \in Nodes : Looks(m)'
  <2>1. PICK T \in SUBSET TaskIds : Begins(n, T)
    BY <1>4, TimerShape
  <2>2. UNCHANGED <<now, log, pos, members, status, ran, faults>>
    BY <1>4 DEF Timer
  <2>3. tasks' = Mark(n, T)
    BY <2>1 DEF Begins
  <2>4. \A m \in Nodes, t \in TaskIds :
          /\ tasks'[m][t].run_at = tasks[m][t].run_at
          /\ tasks'[m][t].again = tasks[m][t].again
          /\ tasks'[m][t].running <=> tasks[m][t].running \/ (m = n /\ t \in T)
          /\ m # n => tasks'[m][t] = tasks[m][t]
    BY <1>0, <2>3, MarkEffect
  <2>5. /\ \A m \in Nodes \ {n} : lowest'[m] = lowest[m]
        /\ \A t \in Waiting(n) \ T : lowest'[n] <= tasks[n][t].run_at
    BY <2>1, BeginsEffect DEF Lay
  <2>6. ASSUME NEW m \in Nodes \ {n} PROVE Looks(m)'
    BY <1>0, <2>2, <2>4, <2>5, LooksKeep
  <2>7. Waiting(n)' \subseteq Waiting(n) \ T
    <3> SUFFICES ASSUME NEW t \in Waiting(n)' PROVE t \in Waiting(n) \ T
      OBVIOUS
    <3>1. t \in TaskIds /\ tasks'[n][t].run_at # 0 /\ ~tasks'[n][t].running
          /\ Owns(n, members[n], t)
      BY <2>2 DEF Waiting, Owns, RelId
    <3>. QED BY <2>4, <3>1 DEF Waiting
  <2>8. Looks(n)'
    <3>1. ASSUME NEW t \in Waiting(n)' PROVE lowest'[n] <= tasks'[n][t].run_at
      BY <2>4, <2>5, <2>7 DEF Waiting
    <3>. QED BY <3>1 DEF Looks
  <2>. QED BY <2>6, <2>8
<1>5. ASSUME NEW n \in Nodes, NEW c \in TaskChanges \cup NodeChanges,
             UpToDate(n), Commit(n, c), CommitOK(n, c), status' = status
      PROVE  \A m \in Nodes : Looks(m)'
  BY <1>5, CommitLog, LooksApply
<1>6. ASSUME NEW n \in Nodes, ClientQuery(n) PROVE \A m \in Nodes : Looks(m)'
  <2>1. PICK c \in TaskChanges : UpToDate(n) /\ Commit(n, c) /\ CommitOK(n, c)
    BY <1>6, ClientShape
  <2>2. status' = status
    BY <1>6 DEF ClientQuery
  <2>. QED BY <1>5, <2>1, <2>2
<1>7. ASSUME NEW n \in Nodes, Restart(n) PROVE \A m \in Nodes : Looks(m)'
  <2>1. /\ log' = log /\ lowest'[n] = 0
        /\ \A m \in Nodes \ {n} :
              /\ status'[m] = status[m] /\ lowest'[m] = lowest[m]
              /\ members'[m] = members[m] /\ tasks'[m] = tasks[m] /\ pos'[m] = pos[m]
    BY <1>7, RestartEffect
  <2>2. ASSUME NEW m \in Nodes \ {n} PROVE Looks(m)'
    BY <1>0, <2>1, LooksKeep
  <2>3. Looks(n)'
    <3>1. ASSUME NEW t \in Waiting(n)' PROVE lowest'[n] <= tasks'[n][t].run_at
      <4>1. t \in TaskIds
        BY DEF Waiting
      <4>2. tasks'[n][t].run_at \in 0 .. MaxTime
        BY <4>1 DEF Lay, TypeOK
      <4>. QED BY <2>1, <4>2
    <3>. QED BY <3>1 DEF Looks
  <2>. QED BY <2>2, <2>3
<1>8. ASSUME NEW n \in Nodes, Dies(n) PROVE \A m \in Nodes : Looks(m)'
  <2>1. /\ log' = log /\ status'[n] = "DOWN"
        /\ \A m \in Nodes \ {n} :
              /\ status'[m] = status[m] /\ lowest'[m] = lowest[m]
              /\ members'[m] = members[m] /\ pos'[m] = pos[m]
              /\ \A t \in TaskIds : tasks'[m][t] = tasks[m][t]
    BY <1>8, DiesEffect
  <2>2. ASSUME NEW m \in Nodes \ {n} PROVE Looks(m)'
    BY <1>0, <2>1, LooksKeep
  <2>3. Looks(n)'
    BY <2>1 DEF Looks
  <2>. QED BY <2>2, <2>3
<1>9. ASSUME NEW n \in Nodes, Crash(n) PROVE \A m \in Nodes : Looks(m)'
  BY <1>8, <1>9 DEF Crash
<1>10. ASSUME NEW n \in Nodes, GoAway(n) \/ ComeBack(n) PROVE \A m \in Nodes : Looks(m)'
  <2>1. /\ UNCHANGED <<log, pos, members, tasks, lowest>>
        /\ \A m \in Nodes : status'[m] # "DOWN" => status[m] # "DOWN"
    BY <1>10, TypeParts DEF GoAway, ComeBack, Status, Lay
  <2>. QED BY <1>0, <2>1, LooksSame
<1>11. ASSUME NEW f \in fwd, OnFwdTask(f) PROVE \A m \in Nodes : Looks(m)'
  <2>1. /\ FwdStart(f) \/ FwdAgain(f) \/ FwdDrop(f)
        /\ f.to \in Nodes /\ UNCHANGED <<now, log, pos, members, status, lowest, ran>>
    BY <1>11, FwdShape
  <2>2. CASE tasks' = tasks
    BY <1>0, <2>1, <2>2, LooksSame
  <2>3. CASE tasks' = Mark(f.to, {f.task})
    <3>1. \A m \in Nodes, t \in TaskIds :
          /\ tasks'[m][t].run_at = tasks[m][t].run_at
          /\ tasks'[m][t].again = tasks[m][t].again
          /\ tasks[m][t].running => tasks'[m][t].running
      <4> DEFINE T == {f.task}
      <4>1. tasks' = Mark(f.to, T)
        BY <2>3
      <4> HIDE DEF T
      <4>. QED BY <1>0, <2>1, <4>1, MarkEffect
    <3>. QED BY <1>0, <2>1, <3>1, LooksSame
  <2>. QED BY <2>1, <2>2, <2>3 DEF FwdStart, FwdAgain, FwdDrop
<1>12. ASSUME NEW n \in Nodes, NEW t \in TaskIds, SetResult(n, t),
              UNCHANGED <<log, pos, members, lowest, status>>
       PROVE  \A m \in Nodes : Looks(m)'
  <2>1. \A m \in Nodes, u \in TaskIds :
          /\ tasks'[m][u].run_at = tasks[m][u].run_at
          /\ tasks'[m][u].again = tasks[m][u].again
          /\ tasks'[m][u].running = tasks[m][u].running
    BY <1>0, <1>12, SetResultEffect
  <2>. QED BY <1>0, <1>12, <2>1, LooksSame
<1>13. ASSUME NEW q \in queries, RunChange(q) PROVE \A m \in Nodes : Looks(m)'
  <2>1. q.node \in Nodes /\ q.task \in TaskIds
    BY QueryTypes
  <2>2. CASE tasks[q.node][q.task].run_at = 0
    <3>1. SetResult(q.node, q.task) /\ UNCHANGED <<log, pos, members, lowest, status>>
      BY <1>13, <2>2 DEF RunChange, SetResult
    <3>. QED BY <1>12, <2>1, <3>1
  <2>3. CASE tasks[q.node][q.task].run_at # 0
    <3>1. PICK c \in TaskChanges, at \in 0 .. MaxTime : Ends(q.node, c, q.task, at)
      BY <1>13, <2>3, RunChangeShape
    <3>2. status' = status
      BY <1>13 DEF RunChange
    <3>. QED BY <1>5, <2>1, <3>1, <3>2 DEF Ends
  <2>. QED BY <2>2, <2>3
<1>14. ASSUME NEW q \in queries, RunAsync(q) \/ RunFutures(q) \/ FuturesDone(q)
       PROVE  \A m \in Nodes : Looks(m)'
  <2>1. ResultStep(q)
    BY <1>14, RunAsyncStep, RunFuturesStep, FuturesDoneStep
  <2>2. UNCHANGED <<log, pos, members, lowest, status>>
    BY <2>1 DEF ResultStep
  <2>3. \A m \in Nodes, t \in TaskIds :
           /\ ~tasks'[m][t].again => /\ ~tasks[m][t].again
                                     /\ tasks'[m][t].run_at = tasks[m][t].run_at
           /\ tasks[m][t].running => tasks'[m][t].running
    BY <2>1, ResultStepEffect
  <2>. QED BY <2>2, <2>3, LooksSame
<1>15. ASSUME NEW q \in queries, RunFinish(q) PROVE \A m \in Nodes : Looks(m)'
  <2>1. q.node \in Nodes /\ q.task \in TaskIds /\ status' = status
    BY <1>15, QueryTypes DEF RunFinish
  <2>2. CASE ~tasks[q.node][q.task].here
    <3>1. UNCHANGED <<log, pos, members, tasks, lowest>>
      BY <1>15, <2>2 DEF RunFinish
    <3>. QED BY <1>0, <2>1, <3>1, LooksSame
  <2>3. CASE tasks[q.node][q.task].here
    <3>1. PICK c \in TaskChanges, at \in 0 .. MaxTime : Ends(q.node, c, q.task, at)
      BY <1>15, <2>3, RunFinishShape
    <3>. QED BY <1>5, <2>1, <3>1 DEF Ends
  <2>. QED BY <2>2, <2>3
<1>16. ASSUME NEW q \in queries, RunFinishDies(q) PROVE \A m \in Nodes : Looks(m)'
  BY <1>8, <1>16, QueryTypes DEF RunFinishDies
<1>17. ASSUME NEW q \in queries, ChangeFails(q) PROVE \A m \in Nodes : Looks(m)'
  BY <1>0, <1>17, LooksSame DEF ChangeFails
<1>18. ASSUME NEW n \in Nodes, NEW k \in Nodes, NewNode(n, k) \/ DelNode(n, k)
       PROVE  \A m \in Nodes : Looks(m)'
  <2>1. PICK c \in NodeChanges :
           UpToDate(n) /\ Commit(n, c) /\ CommitOK(n, c) /\ status' = status
    BY <1>18, NodeShape
  <2>. QED BY <1>5, <2>1
<1>. QED BY <1>1, <1>2, <1>3, <1>4, <1>6, <1>7, <1>9, <1>10, <1>11, <1>13, <1>14, <1>15,
            <1>16, <1>17, <1>18 DEF Next, NodeStep, QueryStep

(* The lowest time that the timer of a node waits for is never behind a    *)
(* task that the node has to start, with every crash, restart, lost change *)
(* and new node: tasks__cb does not sleep past a task, unless a node was   *)
(* removed or the task, still running, asked for another time.             *)
THEOREM NotOverlookedHolds == Spec => []NotOverlooked
<1> DEFINE J == Lay /\ \A m \in Nodes : Looks(m)
<1>1. Init => J
  <2> SUFFICES ASSUME Init PROVE \A m \in Nodes : Looks(m)
    BY LayInit
  <2>1. \A m \in Nodes, t \in TaskIds : tasks[m][t] = NoTask
    BY DEF Init
  <2>2. \A m \in Nodes : Waiting(m) = {}
    BY <2>1, TaskTypes DEF Waiting
  <2>. QED BY <2>2 DEF Looks
<1>2. J /\ [Next]_vars => J'
  BY LayNext, LooksNext
<1>3. J => NotOverlooked
  BY DEF Looks, NotOverlooked
<1>. QED BY <1>1, <1>2, <1>3, PTL DEF Spec
-----------------------------------------------------------------------------
(* The change that was made last.                                          *)

LEMMA LatestSame ==
  ASSUME NEW p \in Nat, NEW l, NEW k, NEW t, NEW T, \A i \in 1 .. p : k[i] = l[i]
  PROVE  \A i : Latest(k, i, t, T, p) <=> Latest(l, i, t, T, p)
<1>1. \A i \in 1 .. p : Has(k, i, t, T) <=> Has(l, i, t, T)
  BY DEF Has
<1>2. \A i \in 1 .. p : \A j \in i + 1 .. p : j \in 1 .. p
  OBVIOUS
<1>. QED BY <1>1, <1>2 DEF Latest

LEMMA LatestUnique ==
  ASSUME NEW p \in Nat, NEW l, NEW t, NEW T, NEW i, NEW j,
         Latest(l, i, t, T, p), Latest(l, j, t, T, p)
  PROVE  i = j
BY DEF Latest

LEMMA LatestNext ==
  ASSUME NEW p \in Nat, NEW l, NEW k, NEW t, NEW T, \A i \in 1 .. p : k[i] = l[i]
  PROVE  /\ ~Has(k, p + 1, t, T) =>
              \A i : Latest(k, i, t, T, p + 1) <=> Latest(l, i, t, T, p)
         /\ Has(k, p + 1, t, T) => \A i : Latest(k, i, t, T, p + 1) <=> i = p + 1
<1>1. \A i \in 1 .. p : Has(k, i, t, T) <=> Has(l, i, t, T)
  BY DEF Has
<1>2. ASSUME ~Has(k, p + 1, t, T), NEW i
      PROVE  Latest(k, i, t, T, p + 1) <=> Latest(l, i, t, T, p)
  <2>1. CASE Latest(k, i, t, T, p + 1)
    <3>1. i \in 1 .. p /\ Has(l, i, t, T)
      BY <1>1, <1>2, <2>1 DEF Latest
    <3>2. \A j \in i + 1 .. p : ~Has(l, j, t, T)
      BY <1>1, <2>1, <3>1 DEF Latest
    <3>. QED BY <2>1, <3>1, <3>2 DEF Latest
  <2>2. CASE Latest(l, i, t, T, p)
    <3>1. i \in 1 .. p /\ Has(k, i, t, T) /\ i \in 1 .. p + 1
      BY <1>1, <2>2 DEF Latest
    <3>2. \A j \in i + 1 .. p + 1 : j \in i + 1 .. p \/ j = p + 1
      BY <3>1
    <3>3. \A j \in i + 1 .. p : ~Has(k, j, t, T)
      BY <1>1, <2>2, <3>1 DEF Latest
    <3>. QED BY <1>2, <2>2, <3>1, <3>2, <3>3 DEF Latest
  <2>. QED BY <2>1, <2>2
<1>3. ASSUME Has(k, p + 1, t, T), NEW i
      PROVE  Latest(k, i, t, T, p + 1) <=> i = p + 1
  BY <1>3 DEF Latest
<1>. QED BY <1>2, <1>3

(* The time of a task stays the one that was set last.                     *)
LEMMA OnTimeKeep ==
  ASSUME Lay, NEW m \in Nodes, NEW t \in TaskIds, OnTime(m, t),
         \A i \in 1 .. pos[m] : log'[i] = log[i], pos'[m] = pos[m],
         tasks'[m][t].run_at = tasks[m][t].run_at \/ tasks'[m][t].run_at = 0
  PROVE  OnTime(m, t)'
<1>1. pos[m] \in Nat
  BY PosFacts
<1>2. \A i : Latest(log', i, t, Sets, pos[m]) <=> Latest(log, i, t, Sets, pos[m])
  BY <1>1, LatestSame
<1>. QED BY <1>2 DEF OnTime

LEMMA OnTimeApply ==
  ASSUME Lay, NEW n \in Nodes, NEW c \in TaskChanges \cup NodeChanges,
         AppliesNext(n, c), GoodLog', NEW t \in TaskIds,
         OnTime(n, t) \/ (c.tp \in TaskTps /\ c.task = t)
  PROVE  OnTime(n, t)'
<1>1. /\ pos'[n] = pos[n] + 1 /\ (\A i \in 1 .. pos[n] : log'[i] = log[i]) /\ pos[n] \in Nat
      /\ log'[pos[n] + 1] = c
  BY AppliesPos, PosFacts DEF AppliesNext
<1>2. /\ tasks \in [Nodes -> [TaskIds -> TaskRecords]]
      /\ tasks'[n][t] = IF c.tp \in TaskTps /\ c.task = t
                        THEN Result(c, tasks[n][t]) ELSE tasks[n][t]
  BY ApplyEffect, TypeParts DEF Lay, AppliesNext
<1>3. CASE c.tp \in Sets /\ c.task = t
  <2>1. Has(log', pos[n] + 1, t, Sets)
    BY <1>1, <1>3 DEF Has
  <2>2. Latest(log', pos[n] + 1, t, Sets, pos[n] + 1)
    BY <1>1, <2>1, LatestNext
  <2>3. tasks'[n][t].run_at = c.at
    BY <1>2, <1>3, ResultFacts, ChangeKinds
  <2>4. pos[n] + 1 \in 1 .. pos[n] + 1
    BY <1>1
  <2>. QED BY <1>1, <2>2, <2>3, <2>4 DEF OnTime
<1>4. CASE c.tp \in TaskTps \ Sets /\ c.task = t
  <2>1. tasks'[n][t].run_at = 0
    BY <1>2, <1>4, ResultFacts, ChangeKinds DEF TaskTps, Sets
  <2>. QED BY <2>1 DEF OnTime
<1>5. CASE ~(c.tp \in TaskTps /\ c.task = t)
  <2>1. ~Has(log', pos[n] + 1, t, Sets)
    BY <1>1, <1>5, ChangeKinds DEF Has
  <2>2. \A i : Latest(log', i, t, Sets, pos[n] + 1) <=> Latest(log, i, t, Sets, pos[n])
    BY <1>1, <2>1, LatestNext
  <2>3. \A i \in 1 .. pos[n] : i \in 1 .. pos[n] + 1
    BY <1>1
  <2>4. tasks'[n][t] = tasks[n][t] /\ OnTime(n, t)
    BY <1>2, <1>5
  <2>. QED BY <1>1, <2>2, <2>3, <2>4 DEF OnTime
<1>. QED BY <1>3, <1>4, <1>5

(* A change that does not set the time of a task, and one that does.       *)
LEMMA FreshCommit ==
  ASSUME Lay, NEW n \in Nodes, NEW c \in TaskChanges \cup NodeChanges,
         UpToDate(n), Commit(n, c), CommitOK(n, c), NEW t \in TaskIds,
         \/ ~(c.tp \in Sets /\ c.task = t) /\ Fresh(t) /\ \A j \in Places : ran'[t][j] = ran[t][j]
         \/ c.tp \in Sets /\ c.task = t /\ \A j \in Places : j > Len(log) => ran'[t][j] = 0
  PROVE  Fresh(t)'
<1>1. /\ Len(log') = Len(log) + 1 /\ log'[Len(log) + 1] = c /\ Len(log) \in Nat
      /\ \A i \in 1 .. Len(log) : log'[i] = log[i]
  BY CommitLog, TypeParts DEF Lay, AppliesNext
<1>2. Has(log', Len(log) + 1, t, Sets) <=> c.tp \in Sets /\ c.task = t
  BY <1>1 DEF Has
<1> SUFFICES ASSUME NEW i \in 1 .. Len(log'), Latest(log', i, t, Sets, Len(log'))
             PROVE  \A j \in Places : j >= i => ran'[t][j] = 0
  BY DEF Fresh, NotRunFrom
<1>0. Latest(log', i, t, Sets, Len(log) + 1)
  BY <1>1
<1>3. CASE ~(c.tp \in Sets /\ c.task = t)
  <2>1. Latest(log, i, t, Sets, Len(log))
    BY <1>0, <1>1, <1>2, <1>3, LatestNext
  <2>2. i \in 1 .. Len(log)
    BY <2>1 DEF Latest
  <2>3. NotRunFrom(t, i)
    BY <1>3, <2>1, <2>2 DEF Fresh
  <2>. QED BY <1>3, <2>3 DEF NotRunFrom
<1>4. CASE c.tp \in Sets /\ c.task = t
  <2>1. i = Len(log) + 1
    BY <1>0, <1>1, <1>2, <1>4, LatestNext
  <2>2. \A j \in Places : j \in Nat /\ (j >= i => j > Len(log))
    BY <1>1, <2>1 DEF Places
  <2>. QED BY <1>4, <2>2
<1>. QED BY <1>3, <1>4

(* A task that was deleted stays so.                                       *)
LEMMA DeletedKeep ==
  ASSUME Lay, NEW t, NEW p \in Nat, NEW r \in Nat, p <= r, Deleted(log, t, p),
         \A i \in 1 .. p : log'[i] = log[i]
  PROVE  Deleted(log', t, r)
BY DEF Deleted, Has
-----------------------------------------------------------------------------
(* A task with side effects, and no futures, runs once each time its time  *)
(* is set.                                                                 *)

(* Nothing was run yet for what is not in the log.                         *)
Ahead(t) == \A i \in Places : i > Len(log) => ran[t][i] = 0

Loud(t) ==
  /\ Fresh(t) \/ Deleted(log, t, Len(log))
  /\ \A i \in Places : ran[t][i] <= 1

Sound == \A t \in TaskIds : Ahead(t) /\ (t \notin Quiet \cup Futures => Loud(t))

LEMMA AheadKeep ==
  ASSUME Lay, NEW t \in TaskIds, Ahead(t), Len(log) <= Len(log'), Len(log') \in Nat,
         \A i \in Places : i > Len(log) => ran'[t][i] = ran[t][i]
  PROVE  Ahead(t)'
<1>1. Len(log) \in Nat /\ \A i \in Places : i \in Nat /\ (i > Len(log') => i > Len(log))
  BY TypeParts DEF Lay, Places
<1>. QED BY <1>1 DEF Ahead

LEMMA LoudCommit ==
  ASSUME Lay, NEW n \in Nodes, NEW c \in TaskChanges \cup NodeChanges,
         UpToDate(n), Commit(n, c), CommitOK(n, c), NEW t \in TaskIds, Loud(t), Ahead(t),
         \A i \in Places : ran'[t][i] = ran[t][i]
  PROVE  Loud(t)'
<1>1. AppliesNext(n, c) /\ Len(log') = Len(log) + 1 /\ Len(log) \in Nat
  BY CommitLog, TypeParts DEF Lay
<1>2. Fresh(t)' \/ Deleted(log', t, Len(log'))
  <2>1. CASE c.tp \in Sets /\ c.task = t
    <3>1. \A j \in Places : j > Len(log) => ran'[t][j] = 0
      BY DEF Ahead
    <3>. QED BY <2>1, <3>1, FreshCommit
  <2>2. CASE ~(c.tp \in Sets /\ c.task = t) /\ Fresh(t)
    BY <2>2, FreshCommit
  <2>3. CASE Deleted(log, t, Len(log))
    <3>1. \A i \in 1 .. Len(log) : log'[i] = log[i]
      BY <1>1 DEF AppliesNext
    <3>. QED BY <1>1, <2>3, <3>1, DeletedKeep
  <2>. QED BY <2>1, <2>2, <2>3 DEF Loud
<1>. QED BY <1>2 DEF Loud

LEMMA SoundCommit ==
  ASSUME Lay, Sound, NEW n \in Nodes, NEW c \in TaskChanges \cup NodeChanges,
         UpToDate(n), Commit(n, c), CommitOK(n, c), ran' = ran
  PROVE  Sound'
<1>1. Len(log') = Len(log) + 1 /\ Len(log) \in Nat
  BY CommitLog, TypeParts DEF Lay
<1>2. ASSUME NEW t \in TaskIds PROVE Ahead(t)'
  BY <1>1, AheadKeep DEF Sound
<1>3. ASSUME NEW t \in TaskIds, t \notin Quiet \cup Futures PROVE Loud(t)'
  BY <1>3, LoudCommit DEF Sound
<1>. QED BY <1>2, <1>3 DEF Sound

LEMMA SoundSame ==
  ASSUME Lay, Sound, log' = log,
         \A t \in TaskIds : \/ \A i \in Places : ran'[t][i] = ran[t][i]
                            \/ /\ t \in Quiet \cup Futures
                               /\ \A i \in Places : i > Len(log) => ran'[t][i] = ran[t][i]
  PROVE  Sound'
<1>1. Len(log) \in Nat
  BY TypeParts DEF Lay
<1>2. ASSUME NEW t \in TaskIds PROVE Ahead(t)'
  BY <1>1, AheadKeep DEF Sound
<1>3. ASSUME NEW t \in TaskIds, t \notin Quiet \cup Futures PROVE Loud(t)'
  <2>1. Loud(t) /\ \A i \in Places : ran'[t][i] = ran[t][i]
    BY <1>3 DEF Sound
  <2>2. Fresh(t) => Fresh(t)'
    BY <2>1 DEF Fresh, NotRunFrom, Latest, Has
  <2>. QED BY <2>1, <2>2 DEF Loud, Deleted, Has
<1>. QED BY <1>2, <1>3 DEF Sound

(* A task that has not run for the time that was set last is about to.     *)
LEMMA FreshRun ==
  ASSUME Lay, NEW n \in Nodes, NEW t \in TaskIds, Fresh(t),
         pos[n] = Len(log), tasks[n][t].run_at # 0
  PROVE  NotRunFrom(t, SetBy(n, t))
BY SetByLatest DEF Fresh

(* Nothing is counted ahead of the log.                                    *)
LEMMA CountsBehind ==
  ASSUME Lay, NEW n \in Nodes, NEW t \in TaskIds, CountRun(n, t), tasks[n][t].run_at # 0
  PROVE  \A u \in TaskIds, i \in Places :
           (u # t => ran'[u][i] = ran[u][i]) /\ (i > Len(log) => ran'[u][i] = ran[u][i])
<1> DEFINE x == SetBy(n, t)
<1>1. \A u \in TaskIds, i \in Places :
        ran'[u][i] = IF u = t /\ i = x THEN ran[u][i] + 1 ELSE ran[u][i]
  BY CountRunEffect
<1>2. x \in 1 .. Len(log) /\ Len(log) \in Nat
  BY SetByLatest, TypeParts DEF Lay
<1> HIDE DEF x
<1>3. \A i \in Places : i > Len(log) => i # x
  BY <1>2 DEF Places
<1>. QED BY <1>1, <1>3

(* The change that runs a task for the time that was set last finishes it. *)
LEMMA LoudRunChange ==
  ASSUME Lay, Lay', NEW q \in queries, RunChange(q), tasks[q.node][q.task].run_at # 0,
         Loud(q.task), Ahead(q.task)
  PROVE  Loud(q.task)'
<1> DEFINE n == q.node
           t == q.task
           x == SetBy(n, t)
<1>1. n \in Nodes /\ t \in TaskIds /\ CountRun(n, t)
  BY QueryTypes DEF RunChange
<1>2. PICK c \in TaskChanges, at \in 0 .. MaxTime : Ends(n, c, t, at)
  BY RunChangeShape
<1>3. /\ UpToDate(n) /\ Commit(n, c) /\ CommitOK(n, c) /\ tasks[n][t].here /\ c.task = t
      /\ c.tp \in {"del", "finish"}
  BY <1>2 DEF Ends
<1>4. /\ Len(log') = Len(log) + 1 /\ Len(log) \in Nat
      /\ pos[n] = Len(log) /\ log'[Len(log) + 1] = c
  BY <1>1, <1>3, CommitLog, TypeParts DEF Lay
<1>5. /\ x \in Places /\ ran \in [TaskIds -> [Places -> Nat]]
      /\ \A u \in TaskIds, i \in Places :
           ran'[u][i] = IF u = t /\ i = x THEN ran[u][i] + 1 ELSE ran[u][i]
  BY <1>1, CountRunEffect, TypeParts DEF Lay
<1>6. \A u \in TaskIds, i \in Places :
        (u # t => ran'[u][i] = ran[u][i]) /\ (i > Len(log) => ran'[u][i] = ran[u][i])
  BY <1>1, CountsBehind
<1>7. ~Deleted(log, t, Len(log))
  BY <1>1, <1>3, <1>4 DEF Lay, Follows
<1>8. Loud(t) /\ Fresh(t) /\ Ahead(t)
  BY <1>7 DEF Loud
<1>9. NotRunFrom(t, x)
  BY <1>1, <1>4, <1>8, FreshRun
<1> HIDE DEF n, t, x
<1>10. \A i \in Places : ran'[t][i] <= 1
  <2>1. x >= x
    BY <1>5 DEF Places
  <2>2. ran[t][x] = 0
    BY <1>5, <1>9, <2>1 DEF NotRunFrom
  <2>. QED BY <1>1, <1>5, <1>8, <2>2 DEF Loud
<1>11. Loud(t)'
  <2>2. CASE c.tp = "del"
    <3>1. Has(log', Len(log'), t, {"del"}) /\ Len(log') \in 1 .. Len(log')
      BY <1>3, <1>4, <2>2 DEF Has
    <3>. QED BY <1>10, <3>1 DEF Loud, Deleted
  <2>3. CASE c.tp = "finish"
    <3>1. \A i \in Places : i > Len(log) => ran'[t][i] = 0
      BY <1>1, <1>6, <1>8 DEF Ahead
    <3>2. Fresh(t)'
      BY <1>1, <1>3, <2>3, <3>1, FreshCommit DEF Sets
    <3>. QED BY <1>10, <3>2 DEF Loud
  <2>. QED BY <1>3, <2>2, <2>3
<1>. QED BY <1>11 DEF t

LEMMA SoundRunChange ==
  ASSUME Lay, Lay', Sound, NEW q \in queries, RunChange(q), tasks[q.node][q.task].run_at # 0
  PROVE  Sound'
<1> DEFINE n == q.node
           t == q.task
<1>1. n \in Nodes /\ t \in TaskIds /\ t \notin Quiet /\ CountRun(n, t)
  BY QueryTypes DEF RunChange, Lay, Kinds
<1>2. PICK c \in TaskChanges, at \in 0 .. MaxTime : Ends(n, c, t, at)
  BY RunChangeShape
<1>3. UpToDate(n) /\ Commit(n, c) /\ CommitOK(n, c)
  BY <1>2 DEF Ends
<1>4. Len(log') = Len(log) + 1 /\ Len(log) \in Nat
  BY <1>1, <1>3, CommitLog, TypeParts DEF Lay
<1>6. \A u \in TaskIds, i \in Places :
        (u # t => ran'[u][i] = ran[u][i]) /\ (i > Len(log) => ran'[u][i] = ran[u][i])
  BY <1>1, CountsBehind
<1>11. ASSUME t \notin Futures PROVE Loud(t)'
  <2>1. Loud(t) /\ Ahead(t)
    BY <1>1, <1>11 DEF Sound
  <2>. QED BY <2>1, LoudRunChange
<1> HIDE DEF n, t
<1>12. ASSUME NEW u \in TaskIds \ {t}, u \notin Quiet \cup Futures PROVE Loud(u)'
  <2>1. \A i \in Places : ran'[u][i] = ran[u][i]
    BY <1>6
  <2>. QED BY <1>1, <1>3, <1>12, <2>1, LoudCommit DEF Sound
<1>13. ASSUME NEW u \in TaskIds PROVE Ahead(u)'
  BY <1>4, <1>6, AheadKeep DEF Sound
<1>. QED BY <1>11, <1>12, <1>13 DEF Sound

LEMMA SoundNext ==
  ASSUME Lay, Lay', Sound, [Next]_vars
  PROVE  Sound'
<1>1. ASSUME UNCHANGED <<log, ran>> PROVE Sound'
  BY <1>1, SoundSame
<1>2. ASSUME NEW n \in Nodes, ClientQuery(n) PROVE Sound'
  <2>1. PICK c \in TaskChanges : UpToDate(n) /\ Commit(n, c) /\ CommitOK(n, c)
    BY <1>2, ClientShape
  <2>2. ran' = ran
    BY <1>2 DEF ClientQuery
  <2>. QED BY <2>1, <2>2, SoundCommit
<1>3. ASSUME NEW q \in queries, RunChange(q) PROVE Sound'
  <2>1. CASE tasks[q.node][q.task].run_at = 0
    BY <1>1, <1>3, <2>1 DEF RunChange
  <2>2. CASE tasks[q.node][q.task].run_at # 0
    BY <1>3, <2>2, SoundRunChange
  <2>. QED BY <2>1, <2>2
<1>4. ASSUME NEW q \in queries, RunAsync(q) \/ RunFutures(q) \/ FuturesDone(q) PROVE Sound'
  <2>1. ResultStep(q) /\ q.node \in Nodes /\ q.task \in TaskIds
    BY <1>4, RunAsyncStep, RunFuturesStep, FuturesDoneStep, QueryTypes
  <2>2. CASE ran' = ran
    BY <1>1, <2>1, <2>2 DEF ResultStep
  <2>3. CASE tasks[q.node][q.task].run_at # 0 /\ CountRun(q.node, q.task)
    <3>1. q.task \in Quiet \cup Futures \/ ran' = ran
      <4>1. RunAsync(q) => q.task \in Quiet
        BY DEF RunAsync, Lay, Kinds
      <4>. QED BY <1>4, <4>1, RunFuturesStep, FuturesDoneStep
    <3>2. \A u \in TaskIds, i \in Places :
            (u # q.task => ran'[u][i] = ran[u][i]) /\ (i > Len(log) => ran'[u][i] = ran[u][i])
      BY <2>1, <2>3, CountsBehind
    <3>3. \A t \in TaskIds : \/ \A i \in Places : ran'[t][i] = ran[t][i]
                             \/ /\ t \in Quiet \cup Futures
                                /\ \A i \in Places : i > Len(log) => ran'[t][i] = ran[t][i]
      BY <3>1, <3>2
    <3>4. log' = log
      BY <2>1 DEF ResultStep
    <3>. QED BY <3>3, <3>4, SoundSame
  <2>. QED BY <2>1, <2>2, <2>3 DEF ResultStep
<1>5. ASSUME NEW q \in queries, RunFinish(q) PROVE Sound'
  <2>0. q.node \in Nodes /\ q.task \in TaskIds /\ ran' = ran
    BY <1>5, QueryTypes DEF RunFinish
  <2>1. CASE ~tasks[q.node][q.task].here
    BY <1>1, <1>5, <2>1 DEF RunFinish
  <2>2. CASE tasks[q.node][q.task].here
    <3>1. PICK c \in TaskChanges, at \in 0 .. MaxTime : Ends(q.node, c, q.task, at)
      BY <1>5, <2>2, RunFinishShape
    <3>. QED BY <2>0, <3>1, SoundCommit DEF Ends
  <2>. QED BY <2>1, <2>2
<1>6. ASSUME NEW n \in Nodes, NEW k \in Nodes, NewNode(n, k) \/ DelNode(n, k) PROVE Sound'
  <2>1. PICK c \in NodeChanges :
           UpToDate(n) /\ Commit(n, c) /\ CommitOK(n, c) /\ ran' = ran
    BY <1>6, NodeShape
  <2>. QED BY <2>1, SoundCommit
<1>7. CASE UNCHANGED vars \/ Tick
  BY <1>1, <1>7 DEF vars, Tick
<1>8. ASSUME NEW n \in Nodes, Follow(n) \/ Timer(n) \/ Restart(n) \/ GoAway(n) \/ ComeBack(n)
      PROVE  Sound'
  <2>1. UNCHANGED <<log, ran>>
    BY <1>8 DEF Follow, Timer, Restart, GoAway, ComeBack, Status
  <2>. QED BY <1>1, <2>1
<1>9. ASSUME NEW n, Dies(n) PROVE Sound'
  BY <1>1, <1>9 DEF Dies
<1>10. ASSUME NEW n \in Nodes, Crash(n) PROVE Sound'
  BY <1>9, <1>10 DEF Crash
<1>11. ASSUME NEW f \in fwd, OnFwdTask(f) PROVE Sound'
  BY <1>1, <1>11 DEF OnFwdTask
<1>12. ASSUME NEW q \in queries, RunFinishDies(q) PROVE Sound'
  BY <1>9, <1>12 DEF RunFinishDies
<1>13. ASSUME NEW q \in queries, ChangeFails(q) PROVE Sound'
  BY <1>1, <1>13 DEF ChangeFails
<1>. QED BY <1>2, <1>3, <1>4, <1>5, <1>6, <1>7, <1>8, <1>10, <1>11, <1>12, <1>13
         DEF Next, NodeStep, QueryStep

LEMMA SoundInit == Init => Sound
<1> SUFFICES ASSUME Init, NEW t \in TaskIds PROVE Ahead(t) /\ Loud(t)
  BY DEF Sound
<1>1. (\A i \in Places : ran[t][i] = 0) /\ Len(log) = 0
  BY DEF Init
<1>. QED BY <1>1 DEF Ahead, Loud, NotRunFrom, Fresh
-----------------------------------------------------------------------------
(* What holds as long as nothing went wrong: all nodes are up, and know    *)
(* the same nodes.                                                         *)

Members ==
  /\ \A n \in Nodes : /\ members[n] = Founders
                      /\ n \in Founders <=> status[n] # "DOWN"
  /\ \E n \in Founders : status[n] = "READY"
  /\ \A i \in 1 .. Len(log) : log[i].tp \in TaskTps
  /\ \A q \in queries : q.node \in Founders
  /\ \A f \in fwd : f.to \in Founders /\ f.pos <= Len(log)

(* A query that has yet to run its task, and one that did, or found it     *)
(* cancelled or gone, and will finish it.                                  *)
Pending(q) == q.kind \in {"change", "async"}
Finishing(n, t) == \E q \in queries : q.node = n /\ q.task = t /\ ~Pending(q)

(* A task is run by a query, or on its way to another node.                *)
Running(t) == (\E q \in queries : q.task = t) \/ (\E f \in fwd : f.task = t)

OneToken(t) ==
  /\ \A p, q \in queries : p.task = t /\ q.task = t => p = q
  /\ \A e, f \in fwd : e.task = t /\ f.task = t => e = f
  /\ \A q \in queries, f \in fwd : ~(q.task = t /\ f.task = t)

Owner(o, t) == o \in Founders /\ Owns(o, Founders, t)

(* The owner knows that the task has been started, or is gone.             *)
Knows(o, t) == tasks[o][t].running \/ Deleted(log, t, pos[o])

(* The end of the task is not on its way to the owner.                     *)
NoEnd(o, t) == \A i \in pos[o] + 1 .. Len(log) : ~Has(log, i, t, {"finish"})

(* A task is started by its owner only, not again until that has seen its  *)
(* end.                                                                    *)
OneStart(o, t) ==
  /\ Running(t) => Knows(o, t) /\ NoEnd(o, t)
  /\ \A i \in pos[o] + 1 .. Len(log) : Has(log, i, t, {"finish"}) =>
       /\ tasks[o][t].running
       /\ \A j \in pos[o] + 1 .. Len(log) : Has(log, j, t, {"finish"}) => j = i

(* Who starts a task knows the time that was set last, and it has come.    *)
Made(t, p) == \E i \in 1 .. p : Has(log, i, t, {"new"})
Informed(t, p) ==
  /\ Made(t, p)
  /\ \A i \in 1 .. Len(log) : Has(log, i, t, Sets) => i <= p
  /\ \A i \in 1 .. Len(log) : Latest(log, i, t, Sets, Len(log)) => log[i].at <= now

Known(t) ==
  /\ \A q \in queries : q.task = t =>
       Made(t, pos[q.node]) /\ (Pending(q) => Informed(t, pos[q.node]))
  /\ \A f \in fwd : f.task = t => Informed(t, f.pos)

(* It has not run for its time, or it is being finished, or it is deleted  *)
(* and its owner will not start it any more.                               *)
Over(t) ==
  /\ ~Running(t) /\ Deleted(log, t, Len(log))
  /\ \A o \in Founders : Owner(o, t) => Knows(o, t) /\ NoEnd(o, t)
Once(t) ==
  /\ \A i \in Places : ran[t][i] <= 1
  /\ Fresh(t) \/ (\E n \in Founders : Finishing(n, t)) \/ Over(t)

(* A time that was not set by a change is a secret of the node that ran    *)
(* the task, and will finish it.                                           *)
Secret(n, t) ==
  /\ tasks[n][t].again => Finishing(n, t)
  /\ OnTime(n, t) \/ Finishing(n, t)

Good(t) ==
  /\ OneToken(t) /\ Known(t) /\ Once(t)
  /\ \A o \in Founders : Owner(o, t) => OneStart(o, t)
  /\ \A n \in Nodes : Secret(n, t) /\ (tasks[n][t].running => Backed(n, t))

Calm == Members /\ \A t \in TaskIds : Good(t)

TInv == Lay /\ Sound /\ (faults = 0 => Calm)
-----------------------------------------------------------------------------
(* The cluster.                                                            *)

LEMMA FoundersFinite == IsFiniteSet(Founders) /\ Cardinality(Founders) \in Nat
                        /\ Cardinality(Founders) > 0
<1>1. IsFiniteSet(Founders)
  BY TaskNodesAssumption, FS_Subset
<1>2. Cardinality(Founders) \in Nat /\ Cardinality(Founders) # 0
  BY <1>1, TaskNodesAssumption, FS_CardinalityType, FS_EmptySet
<1>. QED BY <1>1, <1>2

LEMMA QuorumIsUp ==
  ASSUME Members, NEW n \in Nodes
  PROVE  HasQuorum(n)
<1> DEFINE up == {m \in members[n] : status[m] # "DOWN"}
<1>1. members[n] = Founders /\ up = Founders
  BY TaskNodesAssumption DEF Members
<1> DEFINE size == Cardinality(Founders)
<1>2. size \in Nat /\ size > 0
  BY FoundersFinite
<1>3. HasQuorum(n) <=> size > size \div 2
  BY <1>1 DEF HasQuorum
<1> HIDE DEF size
<1>4. size > size \div 2
  BY <1>2
<1>. QED BY <1>3, <1>4

LEMMA SomeReady ==
  ASSUME Members, NEW n \in Nodes, status[n] # "READY"
  PROVE  ReadyNodes(n) # {}
<1>1. PICK m \in Founders : status[m] = "READY"
  BY DEF Members
<1>2. m \in ReadyNodes(n)
  BY <1>1 DEF ReadyNodes, Members
<1>. QED BY <1>2

LEMMA OwnerUnique ==
  ASSUME NEW t, NEW a, NEW b, Owner(a, t), Owner(b, t)
  PROVE  a = b
<1>1. ASSUME NEW x \in Founders, NEW y \in Founders, x < y
      PROVE  RelId(x, Founders) # RelId(y, Founders)
  <2> DEFINE X == {m \in Founders : m < x}
             Y == {m \in Founders : m < y}
  <2>0. x \in Nat /\ y \in Nat /\ \A m \in Founders : m \in Nat
    BY TaskNodesAssumption
  <2>1. X \subseteq Y /\ x \in Y /\ x \notin X
    <3>1. \A m \in Founders : m < x => m < y
      BY <1>1, <2>0
    <3>2. ~(x < x)
      BY <2>0
    <3>. QED BY <1>1, <3>1, <3>2
  <2>2. IsFiniteSet(Y)
    BY FoundersFinite, FS_Subset
  <2>3. X # Y
    BY <2>1
  <2> HIDE DEF X, Y
  <2>4. Cardinality(X) # Cardinality(Y)
    BY <2>1, <2>2, <2>3, FS_Subset, FS_CardinalityType
  <2>. QED BY <2>4 DEF RelId, X, Y
<1>2. a \in Nat /\ b \in Nat /\ a \in Founders /\ b \in Founders
      /\ RelId(a, Founders) = RelId(b, Founders)
  BY TaskNodesAssumption DEF Owner, Owns
<1>3. ~(a < b) /\ ~(b < a)
  BY <1>1, <1>2
<1>. QED BY <1>2, <1>3
-----------------------------------------------------------------------------
(* Steps that have nothing to do with a task.                              *)

LEMMA Quietly ==
  ASSUME NEW p \in Nat, NEW r \in Nat, p <= r, NEW l, NEW k, NEW t,
         NEW T \in SUBSET TaskTps,
         \A i \in 1 .. p : k[i] = l[i], \A i \in p + 1 .. r : ~Has(k, i, t, TaskTps)
  PROVE  /\ \A i \in 1 .. r : Has(k, i, t, T) <=> i \in 1 .. p /\ Has(l, i, t, T)
         /\ \A i : Latest(k, i, t, T, r) <=> Latest(l, i, t, T, p)
<1>1. ASSUME NEW i \in 1 .. r
      PROVE  Has(k, i, t, T) <=> i \in 1 .. p /\ Has(l, i, t, T)
  <2>1. CASE i \in 1 .. p
    BY <2>1 DEF Has
  <2>2. CASE i \notin 1 .. p
    <3>1. i \in p + 1 .. r
      BY <2>2
    <3>. QED BY <2>2, <3>1 DEF Has
  <2>. QED BY <2>1, <2>2
<1>2. ASSUME NEW i PROVE Latest(k, i, t, T, r) <=> Latest(l, i, t, T, p)
  <2>1. CASE Latest(k, i, t, T, r)
    <3>1. i \in 1 .. p /\ Has(l, i, t, T)
      BY <1>1, <2>1 DEF Latest
    <3>2. ASSUME NEW j \in i + 1 .. p PROVE ~Has(l, j, t, T)
      <4>1. j \in 1 .. p /\ j \in 1 .. r /\ j \in i + 1 .. r
        BY <3>1
      <4>. QED BY <1>1, <2>1, <4>1 DEF Latest
    <3>. QED BY <2>1, <3>1, <3>2 DEF Latest
  <2>2. CASE Latest(l, i, t, T, p)
    <3>1. i \in 1 .. p /\ i \in 1 .. r /\ Has(k, i, t, T)
      BY <1>1, <2>2 DEF Latest
    <3>2. ASSUME NEW j \in i + 1 .. r, Has(k, j, t, T) PROVE FALSE
      <4>1. j \in 1 .. r
        BY <3>1
      <4>2. j \in 1 .. p /\ Has(l, j, t, T)
        BY <1>1, <3>2, <4>1
      <4>3. j \in i + 1 .. p
        BY <3>1, <4>2
      <4>. QED BY <2>2, <4>2, <4>3 DEF Latest
    <3>. QED BY <2>2, <3>1, <3>2 DEF Latest
  <2>. QED BY <2>1, <2>2
<1>. QED BY <1>1, <1>2

Untouched(t) ==
  /\ Len(log) <= Len(log') /\ \A i \in 1 .. Len(log) : log'[i] = log[i]
  /\ \A i \in Len(log) + 1 .. Len(log') : ~Has(log', i, t, TaskTps)
  /\ \A m \in Nodes : /\ pos[m] <= pos'[m]
                      /\ \A i \in pos[m] + 1 .. pos'[m] : ~Has(log', i, t, TaskTps)
                      /\ tasks'[m][t].run_at = tasks[m][t].run_at
                      /\ tasks'[m][t].running = tasks[m][t].running
                      /\ tasks'[m][t].again = tasks[m][t].again
  /\ \A i \in Places : ran'[t][i] = ran[t][i]
  /\ now <= now'
  /\ \A q \in queries : q.task = t => q \in queries'
  /\ \A q \in queries' : q.task = t => q \in queries
  /\ \A f \in fwd : f.task = t => f \in fwd'
  /\ \A f \in fwd' : f.task = t => f \in fwd

LEMMA UntouchedLog ==
  ASSUME Lay, Lay', NEW t, Untouched(t), NEW T \in SUBSET TaskTps
  PROVE  /\ Len(log) \in Nat /\ Len(log') \in Nat /\ Len(log) <= Len(log')
         /\ \A i \in 1 .. Len(log') : Has(log', i, t, T) <=> i \in 1 .. Len(log) /\ Has(log, i, t, T)
         /\ \A i : Latest(log', i, t, T, Len(log')) <=> Latest(log, i, t, T, Len(log))
         /\ \A m \in Nodes :
              /\ pos[m] \in Nat /\ pos'[m] \in Nat /\ pos[m] <= Len(log)
              /\ pos[m] <= pos'[m] /\ pos'[m] <= Len(log')
              /\ \A i \in 1 .. pos'[m] : Has(log', i, t, T) <=> i \in 1 .. pos[m] /\ Has(log, i, t, T)
              /\ \A i : Latest(log', i, t, T, pos'[m]) <=> Latest(log, i, t, T, pos[m])
<1>1. Len(log) \in Nat /\ Len(log') \in Nat /\ Len(log) <= Len(log')
      /\ (\A i \in 1 .. Len(log) : log'[i] = log[i])
      /\ \A i \in Len(log) + 1 .. Len(log') : ~Has(log', i, t, TaskTps)
  <2>1. log \in Seq(TaskChanges \cup NodeChanges)
    BY TypeParts DEF Lay
  <2>2. Len(log') \in Nat
    BY DEF Lay, TypeOK
  <2>. QED BY <2>1, <2>2 DEF Untouched
<1>2. \A m \in Nodes : /\ pos[m] \in Nat /\ pos'[m] \in Nat /\ pos[m] <= Len(log)
                       /\ pos[m] <= pos'[m] /\ pos'[m] <= Len(log')
  <2>1. \A m \in Nodes : pos'[m] \in 0 .. MaxLog
    BY DEF Lay, TypeOK
  <2>2. \A m \in Nodes : pos'[m] <= Len(log')
    BY DEF Lay, GoodLog
  <2>. QED BY <2>1, <2>2, PosFacts, TaskBoundsAssumption DEF Untouched
<1>3. /\ \A i \in 1 .. Len(log') : Has(log', i, t, T) <=> i \in 1 .. Len(log) /\ Has(log, i, t, T)
      /\ \A i : Latest(log', i, t, T, Len(log')) <=> Latest(log, i, t, T, Len(log))
  BY <1>1, Quietly
<1>4. ASSUME NEW m \in Nodes
      PROVE  /\ \A i \in 1 .. pos'[m] : Has(log', i, t, T) <=> i \in 1 .. pos[m] /\ Has(log, i, t, T)
             /\ \A i : Latest(log', i, t, T, pos'[m]) <=> Latest(log, i, t, T, pos[m])
  <2>1. \A i \in pos[m] + 1 .. pos'[m] : ~Has(log', i, t, TaskTps)
    BY DEF Untouched
  <2>2. \A i \in 1 .. pos[m] : log'[i] = log[i]
    BY <1>1, <1>2
  <2>. QED BY <1>2, <2>1, <2>2, Quietly
<1>. QED BY <1>1, <1>2, <1>3, <1>4

LEMMA UntouchedDeleted ==
  ASSUME Lay, Lay', NEW t, Untouched(t)
  PROVE  /\ Deleted(log', t, Len(log')) <=> Deleted(log, t, Len(log))
         /\ \A m \in Nodes : Deleted(log', t, pos'[m]) <=> Deleted(log, t, pos[m])
<1>0. {"del"} \in SUBSET TaskTps
  BY DEF TaskTps
<1>1. /\ Len(log) \in Nat /\ Len(log') \in Nat /\ Len(log) <= Len(log')
      /\ \A i \in 1 .. Len(log') :
           Has(log', i, t, {"del"}) <=> i \in 1 .. Len(log) /\ Has(log, i, t, {"del"})
      /\ \A m \in Nodes :
           /\ pos[m] \in Nat /\ pos'[m] \in Nat /\ pos[m] <= pos'[m]
           /\ \A i \in 1 .. pos'[m] :
                Has(log', i, t, {"del"}) <=> i \in 1 .. pos[m] /\ Has(log, i, t, {"del"})
  BY <1>0, UntouchedLog
<1>2. \A i \in 1 .. Len(log) : i \in 1 .. Len(log')
  BY <1>1
<1>3. \A m \in Nodes : \A i \in 1 .. pos[m] : i \in 1 .. pos'[m]
  BY <1>1
<1>. QED BY <1>1, <1>2, <1>3 DEF Deleted

LEMMA UntouchedFresh ==
  ASSUME Lay, Lay', NEW t \in TaskIds, Untouched(t), Fresh(t)
  PROVE  Fresh(t)'
<1>0. Sets \in SUBSET TaskTps
  BY DEF TaskTps, Sets
<1> SUFFICES ASSUME NEW i \in 1 .. Len(log'), Latest(log', i, t, Sets, Len(log'))
             PROVE  \A j \in Places : j >= i => ran'[t][j] = 0
  BY DEF Fresh, NotRunFrom
<1>1. Latest(log, i, t, Sets, Len(log))
  BY <1>0, UntouchedLog
<1>2. i \in 1 .. Len(log)
  BY <1>1 DEF Latest
<1>. QED BY <1>1, <1>2 DEF Fresh, NotRunFrom, Untouched

LEMMA UntouchedOnTime ==
  ASSUME Lay, Lay', NEW t \in TaskIds, Untouched(t), NEW m \in Nodes, OnTime(m, t)
  PROVE  OnTime(m, t)'
<1>0. Sets \in SUBSET TaskTps
  BY DEF TaskTps, Sets
<1> SUFFICES ASSUME tasks'[m][t].run_at # 0
             PROVE  \E i \in 1 .. pos'[m] :
                      Latest(log', i, t, Sets, pos'[m]) /\ tasks'[m][t].run_at = log'[i].at
  BY DEF OnTime
<1>1. tasks'[m][t].run_at = tasks[m][t].run_at
  BY DEF Untouched
<1>2. PICK i \in 1 .. pos[m] : Latest(log, i, t, Sets, pos[m]) /\ tasks[m][t].run_at = log[i].at
  BY <1>1 DEF OnTime
<1>3. Latest(log', i, t, Sets, pos'[m])
  BY <1>0, <1>2, UntouchedLog
<1>4. i \in 1 .. pos'[m] /\ log'[i] = log[i]
  <2>1. pos[m] \in Nat /\ pos[m] <= Len(log) /\ Len(log) \in Nat
    BY PosFacts
  <2>. QED BY <1>2, <1>3, <2>1 DEF Latest, Untouched
<1>. QED BY <1>1, <1>2, <1>3, <1>4

LEMMA UntouchedInformed ==
  ASSUME Lay, Lay', NEW t \in TaskIds, Untouched(t), NEW p \in Nat, NEW r \in Nat,
         p <= r, p <= Len(log)
  PROVE  /\ Made(t, p) => \E i \in 1 .. r : Has(log', i, t, {"new"})
         /\ Informed(t, p) =>
              /\ \A i \in 1 .. Len(log') : Has(log', i, t, Sets) => i <= r
              /\ \A i \in 1 .. Len(log') :
                   Latest(log', i, t, Sets, Len(log')) => log'[i].at <= now'
<1>0. Sets \in SUBSET TaskTps /\ Len(log) \in Nat
  BY TypeParts DEF TaskTps, Sets, Lay
<1>1. Made(t, p) => \E i \in 1 .. r : Has(log', i, t, {"new"})
  <2> SUFFICES ASSUME NEW i \in 1 .. p, Has(log, i, t, {"new"})
               PROVE  i \in 1 .. r /\ Has(log', i, t, {"new"})
    BY DEF Made
  <2>1. log'[i] = log[i]
    BY <1>0 DEF Untouched
  <2>. QED BY <2>1 DEF Has
<1>2. ASSUME Informed(t, p), NEW i \in 1 .. Len(log'), Has(log', i, t, Sets) PROVE i <= r
  <2>1. i \in 1 .. Len(log) /\ Has(log, i, t, Sets)
    BY <1>0, <1>2, UntouchedLog
  <2>2. i <= p
    BY <1>2, <2>1 DEF Informed
  <2>. QED BY <2>1, <2>2
<1>3. ASSUME Informed(t, p), NEW i \in 1 .. Len(log'), Latest(log', i, t, Sets, Len(log'))
      PROVE  log'[i].at <= now'
  <2>1. Latest(log, i, t, Sets, Len(log))
    BY <1>0, <1>3, UntouchedLog
  <2>2. i \in 1 .. Len(log) /\ log'[i] = log[i] /\ log[i].at <= now
    BY <1>3, <2>1 DEF Latest, Untouched, Informed
  <2>3. log[i] \in TaskChanges
    <3>1. log[i] \in TaskChanges \cup NodeChanges
      BY <2>2, TypeParts DEF Lay
    <3>. QED BY <2>1, <3>1, ChangeKinds DEF Latest, Has
  <2>4. log[i].at \in Nat /\ now \in Nat /\ now' \in Nat /\ now <= now'
    <3>1. log[i].at \in 0 .. MaxTime
      BY <2>3 DEF TaskChanges
    <3>2. now \in Nat
      BY TypeParts DEF Lay, Times
    <3>3. now' \in Nat
      BY DEF Lay, TypeOK, Times
    <3>. QED BY <3>1, <3>2, <3>3 DEF Untouched
  <2>. QED BY <2>2, <2>4
<1>. QED BY <1>1, <1>2, <1>3

LEMMA UntouchedTokens ==
  ASSUME NEW t, Untouched(t)
  PROVE  /\ Running(t)' <=> Running(t)
         /\ \A m : Finishing(m, t)' <=> Finishing(m, t)
         /\ OneToken(t) => OneToken(t)'
<1>1. Running(t)' <=> Running(t)
  BY DEF Untouched, Running
<1>2. ASSUME NEW m PROVE Finishing(m, t)' <=> Finishing(m, t)
  BY DEF Untouched, Finishing
<1>3. OneToken(t) => OneToken(t)'
  BY DEF Untouched, OneToken
<1>. QED BY <1>1, <1>2, <1>3

LEMMA UntouchedGood ==
  ASSUME Lay, Lay', Members, NEW t \in TaskIds, Untouched(t), Good(t)
  PROVE  Good(t)'
<1>0. Founders \subseteq Nodes /\ {"finish"} \in SUBSET TaskTps /\ {"del", "finish"} \in SUBSET TaskTps
  BY TaskNodesAssumption DEF TaskTps
<1>1. /\ Running(t)' <=> Running(t)
      /\ \A m : Finishing(m, t)' <=> Finishing(m, t)
      /\ OneToken(t)'
  BY UntouchedTokens DEF Good
<1>2. /\ Deleted(log', t, Len(log')) <=> Deleted(log, t, Len(log))
      /\ \A m \in Nodes : Deleted(log', t, pos'[m]) <=> Deleted(log, t, pos[m])
  BY UntouchedDeleted
<1>3. /\ \A m \in Nodes : /\ pos[m] \in Nat /\ pos'[m] \in Nat /\ pos[m] <= Len(log)
                          /\ pos[m] <= pos'[m]
      /\ Len(log) \in Nat /\ Len(log') \in Nat /\ Len(log) <= Len(log')
  BY <1>0, UntouchedLog
<1>4. Known(t)'
  <2>1. ASSUME NEW q \in queries', q.task = t
        PROVE  /\ \E i \in 1 .. pos'[q.node] : Has(log', i, t, {"new"})
               /\ Pending(q) =>
                    /\ \A i \in 1 .. Len(log') : Has(log', i, t, Sets) => i <= pos'[q.node]
                    /\ \A i \in 1 .. Len(log') :
                         Latest(log', i, t, Sets, Len(log')) => log'[i].at <= now'
    <3>1. q \in queries /\ q.node \in Nodes
      BY <1>0, <2>1 DEF Untouched, Members
    <3>2. Made(t, pos[q.node]) /\ (Pending(q) => Informed(t, pos[q.node]))
      BY <2>1, <3>1 DEF Good, Known
    <3>. QED BY <1>3, <3>1, <3>2, UntouchedInformed
  <2>2. ASSUME NEW f \in fwd', f.task = t
        PROVE  /\ \E i \in 1 .. f.pos : Has(log', i, t, {"new"})
               /\ \A i \in 1 .. Len(log') : Has(log', i, t, Sets) => i <= f.pos
               /\ \A i \in 1 .. Len(log') :
                         Latest(log', i, t, Sets, Len(log')) => log'[i].at <= now'
    <3>1. f \in fwd /\ f.pos <= Len(log)
      BY <2>2 DEF Untouched, Members
    <3>2. Informed(t, f.pos)
      BY <2>2, <3>1 DEF Good, Known
    <3>3. f.pos \in Nat /\ f.pos <= f.pos
      BY <3>1, TypeParts DEF Lay
    <3>4. Made(t, f.pos)
      BY <3>2 DEF Informed
    <3>. QED BY <3>1, <3>2, <3>3, <3>4, UntouchedInformed
  <2>. QED BY <2>1, <2>2 DEF Known, Informed, Made
<1>5. ASSUME NEW o \in Founders PROVE Knows(o, t)' <=> Knows(o, t)
  BY <1>0, <1>2 DEF Knows, Untouched
<1>6. ASSUME NEW o \in Founders
      PROVE  \A i \in pos'[o] + 1 .. Len(log') :
               Has(log', i, t, {"finish"}) => i \in pos[o] + 1 .. Len(log) /\ Has(log, i, t, {"finish"})
  <2> SUFFICES ASSUME NEW i \in pos'[o] + 1 .. Len(log'), Has(log', i, t, {"finish"})
               PROVE  i \in pos[o] + 1 .. Len(log) /\ Has(log, i, t, {"finish"})
    OBVIOUS
  <2>1. o \in Nodes /\ i \in 1 .. Len(log')
    BY <1>0, <1>3
  <2>2. i \in 1 .. Len(log) /\ Has(log, i, t, {"finish"})
    BY <1>0, <2>1, UntouchedLog
  <2>. QED BY <1>3, <2>1, <2>2
<1>7. ASSUME NEW o \in Founders PROVE NoEnd(o, t) => NoEnd(o, t)'
  BY <1>6 DEF NoEnd
<1>8. ASSUME NEW o \in Founders, Owner(o, t) PROVE OneStart(o, t)'
  <2>1. OneStart(o, t) /\ o \in Nodes
    BY <1>0, <1>8 DEF Good
  <2>2. tasks'[o][t].running = tasks[o][t].running
    BY <2>1 DEF Untouched
  <2>. QED BY <1>1, <1>5, <1>6, <1>7, <2>1, <2>2 DEF OneStart
<1>9. Once(t)'
  <2>1. \A i \in Places : ran'[t][i] <= 1
    BY DEF Good, Once, Untouched
  <2>2. CASE Fresh(t)
    BY <2>1, <2>2, UntouchedFresh DEF Once
  <2>3. CASE \E n \in Founders : Finishing(n, t)
    BY <1>1, <2>1, <2>3 DEF Once
  <2>4. CASE Over(t)
    <3>1. ASSUME NEW o \in Founders, Owner(o, t) PROVE Knows(o, t)' /\ NoEnd(o, t)'
      BY <1>5, <1>7, <2>4, <3>1 DEF Over
    <3>2. Over(t)'
      BY <1>1, <1>2, <2>4, <3>1 DEF Over, Owner, Owns, RelId
    <3>. QED BY <2>1, <3>2 DEF Once
  <2>. QED BY <2>2, <2>3, <2>4 DEF Good, Once
<1>10. ASSUME NEW m \in Nodes PROVE Secret(m, t)'
  <2>1. Secret(m, t) /\ tasks'[m][t].again = tasks[m][t].again
        /\ tasks'[m][t].run_at = tasks[m][t].run_at
    BY DEF Good, Untouched
  <2>2. OnTime(m, t) => OnTime(m, t)'
    BY UntouchedOnTime
  <2>. QED BY <1>1, <2>1, <2>2 DEF Secret
<1>11. ASSUME NEW m \in Nodes, tasks'[m][t].running PROVE Backed(m, t)'
  <2>1. Backed(m, t)
    BY <1>11 DEF Good, Untouched
  <2>2. CASE Running(t)
    BY <1>1, <2>2 DEF Backed, Running
  <2>3. ASSUME NEW i \in pos[m] + 1 .. Len(log), Has(log, i, t, {"del", "finish"})
        PROVE  i \in pos'[m] + 1 .. Len(log') /\ Has(log', i, t, {"del", "finish"})
    <3>1. i \in 1 .. Len(log) /\ i \in 1 .. Len(log')
      BY <1>3
    <3>2. Has(log', i, t, {"del", "finish"})
      BY <1>0, <2>3, <3>1, UntouchedLog
    <3>3. i \notin 1 .. pos'[m]
      <4>1. i \notin 1 .. pos[m]
        BY <1>3
      <4>. QED BY <1>0, <3>2, <4>1, UntouchedLog
    <3>. QED BY <1>3, <3>1, <3>2, <3>3
  <2>4. \A i \in pos[m] + 1 .. Len(log) :
          log[i].tp \in {"del", "finish"} /\ log[i].task = t =>
          i \in pos'[m] + 1 .. Len(log') /\ log'[i].tp \in {"del", "finish"} /\ log'[i].task = t
    BY <2>3 DEF Has
  <2>. QED BY <2>1, <2>2, <2>4 DEF Backed, Running
<1>. QED BY <1>1, <1>4, <1>8, <1>9, <1>10, <1>11 DEF Good, Owner, Owns, RelId
-----------------------------------------------------------------------------
(* Facts about the log and the tokens.                                     *)

LEMMA NewOnce ==
  ASSUME Lay, NEW t, NEW i \in 1 .. Len(log), NEW j \in 1 .. Len(log),
         Has(log, i, t, {"new"}), Has(log, j, t, {"new"})
  PROVE  i = j
BY DEF Lay, GoodLog, Has, TaskTps

LEMMA DelLast ==
  ASSUME Lay, NEW t, NEW i \in 1 .. Len(log), NEW j \in 1 .. Len(log),
         Has(log, i, t, {"del"}), Has(log, j, t, TaskTps)
  PROVE  ~(i < j)
BY DEF Lay, GoodLog, Has, TaskTps

LEMMA MadeFirst ==
  ASSUME Lay, NEW t, NEW i \in 1 .. Len(log), Has(log, i, t, TaskTps)
  PROVE  Made(t, i)
BY DEF Lay, GoodLog, Has, Made

LEMMA RunningHere ==
  ASSUME Lay, NEW m \in Nodes, NEW t \in TaskIds,
         tasks[m][t].running \/ tasks[m][t].run_at # 0 \/ tasks[m][t].again
           \/ tasks[m][t].here
  PROVE  tasks[m][t].here /\ Made(t, pos[m]) /\ ~Deleted(log, t, pos[m])
<1>1. Follows(m, t)
  BY DEF Lay
<1>2. tasks[m][t].here
  BY <1>1 DEF Follows
<1>. QED BY <1>1, <1>2 DEF Follows, Made

LEMMA GoneDeleted ==
  ASSUME Lay, NEW m \in Nodes, NEW t \in TaskIds, ~tasks[m][t].here, Made(t, pos[m])
  PROVE  Deleted(log, t, pos[m])
BY DEF Lay, Follows, Made

LEMMA InformedGrows ==
  ASSUME Lay, NEW t, NEW p \in Nat, NEW r \in Nat, p <= r, Informed(t, p)
  PROVE  Informed(t, r)
<1>1. Made(t, r)
  BY DEF Informed, Made
<1>2. \A i \in 1 .. Len(log) : Has(log, i, t, Sets) => i <= r
  <2>1. \A i \in 1 .. Len(log) : i \in Nat
    OBVIOUS
  <2>. QED BY <2>1 DEF Informed
<1>. QED BY <1>1, <1>2 DEF Informed

(* The time that a node has is the one that was set last, when the node    *)
(* knows of it.                                                            *)
LEMMA InformedTime ==
  ASSUME Lay, NEW m \in Nodes, NEW t \in TaskIds, OnTime(m, t), tasks[m][t].run_at # 0,
         \A i \in 1 .. Len(log) : Has(log, i, t, Sets) => i <= pos[m]
  PROVE  \E i \in 1 .. Len(log) :
           Latest(log, i, t, Sets, Len(log)) /\ tasks[m][t].run_at = log[i].at
<1>1. PICK i \in 1 .. pos[m] :
        Latest(log, i, t, Sets, pos[m]) /\ tasks[m][t].run_at = log[i].at
  BY DEF OnTime
<1>2. pos[m] \in Nat /\ pos[m] <= Len(log) /\ Len(log) \in Nat
  BY PosFacts
<1>3. i \in 1 .. Len(log)
  BY <1>2
<1>4. ASSUME NEW j \in i + 1 .. Len(log), Has(log, j, t, Sets) PROVE FALSE
  <2>1. j \in 1 .. Len(log)
    BY <1>2, <1>3
  <2>2. j <= pos[m]
    BY <1>4, <2>1
  <2>3. j \in i + 1 .. pos[m]
    BY <1>2, <1>3, <2>2
  <2>. QED BY <1>1, <1>4, <2>3 DEF Latest
<1>5. Latest(log, i, t, Sets, Len(log))
  BY <1>1, <1>3, <1>4 DEF Latest
<1>. QED BY <1>1, <1>3, <1>5

(* Before a task runs, nobody has a secret about it.                       *)
LEMMA NotFinishing ==
  ASSUME NEW t, Good(t), Members, ~\E n \in Founders : Finishing(n, t)
  PROVE  \A m \in Nodes : ~Finishing(m, t) /\ ~tasks[m][t].again /\ OnTime(m, t)
<1>1. \A m \in Nodes : Finishing(m, t) => m \in Founders
  BY DEF Finishing, Members
<1>. QED BY <1>1 DEF Good, Secret

(* A change that is not about the task is applied.                         *)
LEMMA UntouchedApply ==
  ASSUME Lay, Lay', NEW n \in Nodes, NEW c \in TaskChanges \cup NodeChanges,
         AppliesNext(n, c), NEW t \in TaskIds, ~(c.tp \in TaskTps /\ c.task = t),
         \/ log' = log
         \/ Len(log') = Len(log) + 1 /\ log'[Len(log) + 1] = c,
         now' = now, \A i \in Places : ran'[t][i] = ran[t][i],
         \A q \in queries : q.task = t => q \in queries',
         \A q \in queries' : q.task = t => q \in queries,
         fwd' = fwd
  PROVE  Untouched(t)
<1>0. GoodLog' /\ Len(log) \in Nat /\ now \in Nat
  BY TypeParts DEF Lay, Times
<1>1. \A m \in Nodes : tasks'[m][t] = tasks[m][t]
  BY ApplyEffect DEF Lay, AppliesNext
<1>2. \A m \in Nodes : pos[m] \in Nat /\ pos'[m] = IF m = n THEN pos[m] + 1 ELSE pos[m]
  BY <1>0, AppliesPos, PosFacts
<1>3. log'[pos[n] + 1] = c /\ Len(log) <= Len(log') /\ \A i \in 1 .. Len(log) : log'[i] = log[i]
  BY DEF AppliesNext
<1>4. \A i : log'[i] = c => ~Has(log', i, t, TaskTps)
  BY DEF Has
<1>5. \A i \in Len(log) + 1 .. Len(log') : log'[i] = c
  BY <1>0, <1>3
<1>6. \A m \in Nodes : \A i \in pos[m] + 1 .. pos'[m] : log'[i] = c
  <2> SUFFICES ASSUME NEW m \in Nodes, NEW i \in pos[m] + 1 .. pos'[m] PROVE log'[i] = c
    OBVIOUS
  <2>1. m = n /\ i = pos[n] + 1
    BY <1>2
  <2>. QED BY <1>3, <2>1
<1>7. \A m \in Nodes : pos[m] <= pos'[m]
  BY <1>2
<1>. QED BY <1>0, <1>1, <1>3, <1>4, <1>5, <1>6, <1>7 DEF Untouched

(* A step that changes none of the log, the nodes and this task.           *)
LEMMA UntouchedSame ==
  ASSUME Lay, NEW t \in TaskIds, UNCHANGED <<log, pos>>, now <= now',
         \A m \in Nodes : /\ tasks'[m][t].run_at = tasks[m][t].run_at
                          /\ tasks'[m][t].running = tasks[m][t].running
                          /\ tasks'[m][t].again = tasks[m][t].again,
         \A i \in Places : ran'[t][i] = ran[t][i],
         \A q \in queries : q.task = t => q \in queries',
         \A q \in queries' : q.task = t => q \in queries,
         \A f \in fwd : f.task = t => f \in fwd',
         \A f \in fwd' : f.task = t => f \in fwd
  PROVE  Untouched(t)
<1>1. Len(log) \in Nat /\ \A m \in Nodes : pos[m] \in Nat
  BY PosFacts, TypeParts DEF Lay
<1>. QED BY <1>1 DEF Untouched
-----------------------------------------------------------------------------
(* A node applies a change about the task.                                 *)

LEMMA FollowGood ==
  ASSUME Lay, Lay', Members, NEW n \in Nodes, Follow(n), NEW t \in TaskIds, Good(t),
         log[pos[n] + 1].tp \in TaskTps, log[pos[n] + 1].task = t
  PROVE  Good(t)'
<1> DEFINE p == pos[n]
           c == log[p + 1]
<1>0. /\ UNCHANGED <<now, log, status, queries, fwd, ran, faults>> /\ p < Len(log)
      /\ p \in Nat /\ Len(log) \in Nat /\ p + 1 \in 1 .. Len(log)
      /\ Founders \subseteq Nodes
  BY PosFacts, TaskNodesAssumption DEF Follow
<1>1. /\ AppliesNext(n, c) /\ GoodLog' /\ c \in TaskChanges
      /\ c \in TaskChanges \cup NodeChanges
      /\ Has(log, p + 1, t, TaskTps) /\ c.tp \in TaskTps /\ c.task = t
  BY FollowApplies, ChangeKinds DEF Has
<1>2. /\ tasks \in [Nodes -> [TaskIds -> TaskRecords]]
      /\ tasks'[n][t] = Result(c, tasks[n][t])
      /\ \A m \in Nodes \ {n} : tasks'[m][t] = tasks[m][t]
  BY <1>1, ApplyEffect, TypeParts DEF Lay, AppliesNext
<1>3. /\ pos'[n] = p + 1
      /\ \A m \in Nodes \ {n} : pos'[m] = pos[m]
      /\ \A m \in Nodes : pos[m] \in Nat /\ pos[m] <= Len(log)
  BY <1>1, AppliesPos, PosFacts
<1> HIDE DEF p, c
<1>4. /\ c.tp \in Sets \cup {"del"} => ~tasks'[n][t].running /\ ~tasks'[n][t].again
      /\ c.tp = "cancel" => /\ tasks'[n][t].running = tasks[n][t].running
                            /\ tasks'[n][t].again = tasks[n][t].again
                            /\ tasks'[n][t].run_at = 0
      /\ c.tp \in {"new", "finish", "del", "cancel"}
  BY <1>1, <1>2, ResultFacts DEF Sets, TaskTps
<1>5. tasks[n][t].running => c.tp # "new"
  <2> SUFFICES ASSUME tasks[n][t].running, c.tp = "new" PROVE FALSE
    OBVIOUS
  <2>1. PICK i \in 1 .. p : Has(log, i, t, {"new"})
    BY RunningHere DEF Made, p
  <2>2. Has(log, p + 1, t, {"new"}) /\ i \in 1 .. Len(log)
    BY <1>0, <1>1 DEF Has, c
  <2>3. i = p + 1
    BY <1>0, <2>1, <2>2, NewOnce
  <2>. QED BY <1>0, <2>3
<1>6. Running(t)' = Running(t) /\ \A m : Finishing(m, t)' = Finishing(m, t)
  BY <1>0 DEF Running, Finishing
<1>7. OneToken(t)'
  BY <1>0 DEF Good, OneToken
<1>8. ASSUME NEW o \in Founders, Knows(o, t), NoEnd(o, t) PROVE Knows(o, t)' /\ NoEnd(o, t)'
  <2>1. CASE o # n
    BY <1>0, <1>2, <1>3, <1>8, <2>1 DEF Knows, NoEnd, Deleted, Has
  <2>2. CASE o = n
    <3>1. NoEnd(n, t)'
      BY <1>0, <1>3, <1>8, <2>2 DEF NoEnd, p, Has
    <3>2. c.tp # "finish"
      BY <1>0, <1>1, <1>8, <2>2 DEF NoEnd, Has, p, c
    <3>3. CASE Deleted(log, t, p)
      <4>1. Deleted(log, t, p + 1)
        BY <1>0, <3>3 DEF Deleted
      <4>. QED BY <1>0, <1>3, <2>2, <3>1, <4>1 DEF Knows, Deleted, Has
    <3>4. CASE c.tp = "del"
      <4>1. Deleted(log, t, p + 1)
        BY <1>0, <1>1, <3>4 DEF Deleted, Has, c
      <4>. QED BY <1>0, <1>3, <2>2, <3>1, <4>1 DEF Knows, Deleted, Has
    <3>5. CASE c.tp # "del" /\ tasks[n][t].running
      <4>1. tasks'[n][t].running
        BY <1>4, <1>5, <3>2, <3>5
      <4>. QED BY <2>2, <3>1, <4>1 DEF Knows
    <3>. QED BY <1>8, <2>2, <3>3, <3>4, <3>5 DEF Knows, p
  <2>. QED BY <2>1, <2>2
<1>9. ASSUME NEW o \in Founders, Owner(o, t) PROVE OneStart(o, t)'
  <2>1. OneStart(o, t)
    BY <1>9 DEF Good
  <2>2. Running(t) => Knows(o, t)' /\ NoEnd(o, t)'
    BY <1>8, <2>1 DEF OneStart
  <2>3. CASE o # n
    <3>1. tasks'[o][t] = tasks[o][t] /\ pos'[o] = pos[o]
      BY <1>0, <1>2, <1>3, <2>3
    <3>. QED BY <1>0, <1>6, <2>1, <2>2, <3>1 DEF OneStart, Has
  <2>4. CASE o = n
    <3>1. ASSUME NEW i \in p + 2 .. Len(log), Has(log, i, t, {"finish"})
          PROVE  /\ tasks'[n][t].running
                 /\ \A j \in p + 2 .. Len(log) : Has(log, j, t, {"finish"}) => j = i
      <4>1. i \in p + 1 .. Len(log) /\ i # p + 1 /\ i \in 1 .. Len(log)
        BY <1>0
      <4>2. /\ tasks[n][t].running
            /\ \A j \in p + 1 .. Len(log) : Has(log, j, t, {"finish"}) => j = i
        BY <2>1, <2>4, <3>1, <4>1 DEF OneStart, p
      <4>3. c.tp # "finish"
        <5> SUFFICES ASSUME c.tp = "finish" PROVE FALSE
          OBVIOUS
        <5>1. Has(log, p + 1, t, {"finish"}) /\ p + 1 \in p + 1 .. Len(log)
          BY <1>0, <1>1 DEF Has, c
        <5>. QED BY <4>1, <4>2, <5>1
      <4>4. c.tp # "del"
        <5> SUFFICES ASSUME c.tp = "del" PROVE FALSE
          OBVIOUS
        <5>1. Has(log, p + 1, t, {"del"}) /\ Has(log, i, t, TaskTps) /\ p + 1 < i
          BY <1>0, <1>1, <3>1 DEF Has, c, TaskTps
        <5>. QED BY <1>0, <4>1, <5>1, DelLast
      <4>5. tasks'[n][t].running
        BY <1>4, <1>5, <4>2, <4>3, <4>4
      <4>6. \A j \in p + 2 .. Len(log) : j \in p + 1 .. Len(log)
        BY <1>0
      <4>. QED BY <4>2, <4>5, <4>6
    <3>2. pos'[n] + 1 = p + 2 /\ log' = log
      BY <1>0, <1>3
    <3>. QED BY <1>6, <2>2, <2>4, <3>1, <3>2 DEF OneStart
  <2>. QED BY <2>3, <2>4
<1>10. Known(t)'
  <2>1. ASSUME NEW q \in queries, q.task = t
        PROVE  Made(t, pos'[q.node]) /\ (Pending(q) => Informed(t, pos'[q.node]))
    <3>1. q.node \in Nodes /\ Made(t, pos[q.node])
          /\ (Pending(q) => Informed(t, pos[q.node]))
      BY <1>0, <2>1 DEF Members, Good, Known
    <3>2. pos[q.node] \in Nat /\ pos'[q.node] \in Nat /\ pos[q.node] <= pos'[q.node]
      BY <1>0, <1>3, <3>1 DEF p
    <3>3. Made(t, pos'[q.node])
      BY <3>1, <3>2 DEF Made
    <3>. QED BY <3>1, <3>2, <3>3, InformedGrows
  <2>. QED BY <1>0, <2>1 DEF Known, Good, Informed, Made, Has, Latest
<1>11. Once(t)'
  <2>1. (\A i \in Places : ran'[t][i] <= 1) /\ (Fresh(t) => Fresh(t)')
    BY <1>0 DEF Good, Once, Fresh, NotRunFrom, Latest, Has
  <2>2. Over(t) => Over(t)'
    <3> SUFFICES ASSUME Over(t) PROVE Over(t)'
      OBVIOUS
    <3>1. ASSUME NEW o \in Founders, Owner(o, t) PROVE Knows(o, t)' /\ NoEnd(o, t)'
      BY <1>8, <3>1 DEF Over
    <3>. QED BY <1>0, <1>6, <3>1 DEF Over, Owner, Owns, RelId, Deleted, Has
  <2>. QED BY <1>6, <2>1, <2>2 DEF Good, Once
<1>12. ASSUME NEW m \in Nodes PROVE Secret(m, t)'
  <2>0. Secret(m, t)
    BY DEF Good
  <2>1. CASE m = n
    <3>1. OnTime(n, t)'
      BY <1>1, OnTimeApply
    <3>2. tasks'[n][t].again => Finishing(n, t)'
      BY <1>4, <1>6, <2>0, <2>1 DEF Secret, Sets
    <3>. QED BY <2>1, <3>1, <3>2 DEF Secret
  <2>2. CASE m # n
    <3>1. tasks'[m][t] = tasks[m][t] /\ pos'[m] = pos[m]
      BY <1>2, <1>3, <2>2
    <3>2. OnTime(m, t) => OnTime(m, t)'
      BY <1>0, <3>1 DEF OnTime, Latest, Has
    <3>. QED BY <1>6, <2>0, <3>1, <3>2 DEF Secret
  <2>. QED BY <2>1, <2>2
<1>13. ASSUME NEW m \in Nodes, tasks'[m][t].running PROVE Backed(m, t)'
  <2>1. CASE m = n
    <3>1. c.tp = "cancel" /\ tasks[n][t].running
      BY <1>4, <1>13, <2>1 DEF Sets
    <3>2. Backed(n, t)
      BY <3>1 DEF Good
    <3>3. \A i \in p + 1 .. Len(log) : log[i].tp \in {"del", "finish"} => i \in p + 2 .. Len(log)
      <4> SUFFICES ASSUME NEW i \in p + 1 .. Len(log), log[i].tp \in {"del", "finish"}
                   PROVE  i \in p + 2 .. Len(log)
        OBVIOUS
      <4>1. i # p + 1
        BY <3>1 DEF c
      <4>. QED BY <1>0, <4>1
    <3>4. pos'[n] + 1 = p + 2 /\ pos[n] + 1 = p + 1
      BY <1>0, <1>3 DEF p
    <3>. QED BY <1>0, <2>1, <3>2, <3>3, <3>4 DEF Backed
  <2>2. CASE m # n
    BY <1>0, <1>2, <1>3, <1>13, <2>2 DEF Good, Backed
  <2>. QED BY <2>1, <2>2
<1>. QED BY <1>7, <1>9, <1>10, <1>11, <1>12, <1>13 DEF Good, Owner, Owns, RelId
-----------------------------------------------------------------------------
(* A change about the task is made.                                        *)

Commits(n, c) ==
  UpToDate(n) /\ Commit(n, c) /\ CommitOK(n, c) /\ c \in TaskChanges

LEMMA CommitsFacts ==
  ASSUME Lay, NEW n \in Nodes, NEW c, Commits(n, c)
  PROVE  /\ Len(log) \in Nat /\ Len(log') = Len(log) + 1 /\ log'[Len(log) + 1] = c
         /\ \A i \in 1 .. Len(log) : log'[i] = log[i]
         /\ pos[n] = Len(log) /\ pos'[n] = Len(log) + 1
         /\ \A m \in Nodes \ {n} : pos'[m] = pos[m]
         /\ \A m \in Nodes : pos[m] \in Nat /\ pos[m] <= Len(log)
         /\ tasks \in [Nodes -> [TaskIds -> TaskRecords]]
         /\ c.task \in TaskIds => tasks'[n][c.task] = Result(c, tasks[n][c.task])
         /\ \A m \in Nodes \ {n} : \A t \in TaskIds : tasks'[m][t] = tasks[m][t]
         /\ AppliesNext(n, c) /\ GoodLog' /\ c \in TaskChanges \cup NodeChanges
         /\ c.tp \in TaskTps /\ c.task \in TaskIds /\ members' = members
<1>0. UpToDate(n) /\ Commit(n, c) /\ CommitOK(n, c) /\ c \in TaskChanges
      /\ c \in TaskChanges \cup NodeChanges /\ c.tp \in TaskTps /\ c.task \in TaskIds
  BY DEF Commits, TaskChanges, TaskTps
<1>1. /\ Len(log) \in Nat /\ Len(log') = Len(log) + 1 /\ log'[Len(log) + 1] = c
      /\ AppliesNext(n, c) /\ GoodLog' /\ pos[n] = Len(log)
      /\ \A i \in 1 .. Len(log) : log'[i] = log[i]
  BY <1>0, CommitLog, TypeParts DEF Lay, AppliesNext
<1>2. \A m \in Nodes : pos'[m] = IF m = n THEN pos[m] + 1 ELSE pos[m]
  BY <1>1, AppliesPos
<1>3. \A m \in Nodes : pos[m] \in Nat /\ pos[m] <= Len(log)
  BY PosFacts
<1>4. /\ tasks \in [Nodes -> [TaskIds -> TaskRecords]] /\ members' = members
      /\ tasks'[n][c.task] = Result(c, tasks[n][c.task])
      /\ \A m \in Nodes \ {n} : \A t \in TaskIds : tasks'[m][t] = tasks[m][t]
  BY <1>0, <1>1, ApplyEffect, TypeParts DEF Lay, AppliesNext
<1>. QED BY <1>0, <1>1, <1>2, <1>3, <1>4

LEMMA CommitsHas ==
  ASSUME Lay, NEW n \in Nodes, NEW c, Commits(n, c), NEW t, NEW T
  PROVE  \A i \in 1 .. Len(log') :
           Has(log', i, t, T) <=> \/ i \in 1 .. Len(log) /\ Has(log, i, t, T)
                                  \/ i = Len(log) + 1 /\ c.tp \in T /\ c.task = t
<1>1. /\ Len(log) \in Nat /\ Len(log') = Len(log) + 1 /\ log'[Len(log) + 1] = c
      /\ \A i \in 1 .. Len(log) : log'[i] = log[i]
  BY CommitsFacts
<1> SUFFICES ASSUME NEW i \in 1 .. Len(log')
             PROVE  Has(log', i, t, T) <=> \/ i \in 1 .. Len(log) /\ Has(log, i, t, T)
                                           \/ i = Len(log) + 1 /\ c.tp \in T /\ c.task = t
  OBVIOUS
<1>2. CASE i \in 1 .. Len(log)
  BY <1>1, <1>2 DEF Has
<1>3. CASE i = Len(log) + 1
  BY <1>1, <1>3 DEF Has
<1>. QED BY <1>1, <1>2, <1>3

(* What a change that is made leaves of what the other nodes have.         *)
LEMMA CommitsOthers ==
  ASSUME Lay, Lay', NEW n \in Nodes, NEW c, Commits(n, c), NEW t \in TaskIds,
         NEW m \in Nodes \ {n}
  PROVE  /\ OnTime(m, t) => OnTime(m, t)'
         /\ Made(t, pos[m]) => Made(t, pos[m])'
         /\ Deleted(log', t, pos'[m]) <=> Deleted(log, t, pos[m])
<1>1. /\ Len(log) \in Nat /\ \A i \in 1 .. Len(log) : log'[i] = log[i]
      /\ pos'[m] = pos[m] /\ pos[m] \in Nat /\ pos[m] <= Len(log)
      /\ tasks'[m][t] = tasks[m][t]
  BY CommitsFacts
<1>2. \A i \in 1 .. pos[m] : log'[i] = log[i]
  BY <1>1
<1>3. OnTime(m, t) => OnTime(m, t)'
  BY <1>1, <1>2, OnTimeKeep
<1>. QED BY <1>1, <1>2, <1>3 DEF Made, Deleted, Has

(* Who was informed before still is, unless the change sets the time.      *)
LEMMA CommitsInformed ==
  ASSUME Lay, NEW n \in Nodes, NEW c, Commits(n, c), NEW t \in TaskIds, NEW p \in Nat,
         p <= Len(log), now' = now
  PROVE  /\ Made(t, p) => Made(t, p)'
         /\ c.tp \notin Sets \/ c.task # t => (Informed(t, p) => Informed(t, p)')
<1>1. /\ Len(log) \in Nat /\ Len(log') = Len(log) + 1 /\ log'[Len(log) + 1] = c
      /\ \A i \in 1 .. Len(log) : log'[i] = log[i]
  BY CommitsFacts
<1>2. ASSUME Made(t, p) PROVE Made(t, p)'
  <2>1. PICK i \in 1 .. p : Has(log, i, t, {"new"})
    BY <1>2 DEF Made
  <2>2. log'[i] = log[i]
    BY <1>1
  <2>. QED BY <2>1, <2>2 DEF Made, Has
<1>3. ASSUME c.tp \notin Sets \/ c.task # t, Informed(t, p) PROVE Informed(t, p)'
  <2>1. ~Has(log', Len(log) + 1, t, Sets)
    BY <1>1, <1>3 DEF Has
  <2>2. \A i : Latest(log', i, t, Sets, Len(log) + 1) <=> Latest(log, i, t, Sets, Len(log))
    BY <1>1, <2>1, LatestNext
  <2>3. ASSUME NEW i \in 1 .. Len(log'), Has(log', i, t, Sets) PROVE i <= p
    <3>1. i \in 1 .. Len(log) /\ Has(log, i, t, Sets)
      BY <1>3, <2>3, CommitsHas
    <3>. QED BY <1>3, <3>1 DEF Informed
  <2>4. ASSUME NEW i \in 1 .. Len(log'), Latest(log', i, t, Sets, Len(log'))
        PROVE  log'[i].at <= now'
    <3>1. Latest(log, i, t, Sets, Len(log))
      BY <1>1, <2>2, <2>4
    <3>2. i \in 1 .. Len(log)
      BY <3>1 DEF Latest
    <3>. QED BY <1>1, <1>3, <3>1, <3>2 DEF Informed
  <2>5. Made(t, p)'
    BY <1>2, <1>3 DEF Informed
  <2>. QED BY <2>3, <2>4, <2>5 DEF Informed
<1>. QED BY <1>2, <1>3

(* A client makes, cancels or deletes a task.                              *)
LEMMA ClientGood ==
  ASSUME Lay, Lay', Sound, Members, NEW n \in Nodes, NEW c, Commits(n, c),
         NEW t \in TaskIds, Good(t), c.task = t, c.tp \in {"new", "cancel", "del"},
         UNCHANGED <<now, queries, fwd, ran>>
  PROVE  Good(t)'
<1>0. Founders \subseteq Nodes
  BY TaskNodesAssumption
<1>1. /\ Len(log) \in Nat /\ Len(log') = Len(log) + 1 /\ log'[Len(log) + 1] = c
      /\ \A i \in 1 .. Len(log) : log'[i] = log[i]
      /\ pos[n] = Len(log) /\ pos'[n] = Len(log) + 1
      /\ \A m \in Nodes \ {n} : pos'[m] = pos[m]
      /\ \A m \in Nodes : pos[m] \in Nat /\ pos[m] <= Len(log)
      /\ tasks \in [Nodes -> [TaskIds -> TaskRecords]]
      /\ tasks'[n][t] = Result(c, tasks[n][t])
      /\ \A m \in Nodes \ {n} : tasks'[m][t] = tasks[m][t]
      /\ AppliesNext(n, c) /\ GoodLog' /\ c \in TaskChanges \cup NodeChanges
      /\ c.tp \in TaskTps
  BY CommitsFacts
<1>2. c \in TaskChanges /\ UpToDate(n) /\ Commit(n, c) /\ CommitOK(n, c)
  BY DEF Commits
<1>3. /\ c.tp \in {"new", "del"} => ~tasks'[n][t].running /\ ~tasks'[n][t].again
      /\ c.tp = "cancel" => /\ tasks'[n][t].running = tasks[n][t].running
                            /\ tasks'[n][t].again = tasks[n][t].again
                            /\ tasks'[n][t].run_at = 0
  BY <1>1, <1>2, ResultFacts DEF Sets
<1>4. Running(t)' = Running(t) /\ \A m : Finishing(m, t)' = Finishing(m, t)
  BY DEF Running, Finishing
<1>5. OneToken(t)'
  BY DEF Good, OneToken
<1>6. c.tp = "new" =>
        /\ ~Running(t)
        /\ \A m \in Nodes : ~tasks[m][t].running /\ ~Deleted(log, t, pos[m])
        /\ ~Deleted(log, t, Len(log))
  <2> SUFFICES ASSUME c.tp = "new"
               PROVE  /\ ~Running(t)
                      /\ \A m \in Nodes : ~tasks[m][t].running /\ ~Deleted(log, t, pos[m])
                      /\ ~Deleted(log, t, Len(log))
    OBVIOUS
  <2>1. \A i \in 1 .. Len(log) : ~Has(log, i, t, {"new"})
    BY <1>2 DEF CommitOK
  <2>2. \A r \in Nat : r <= Len(log) => ~Made(t, r)
    BY <1>1, <2>1 DEF Made
  <2>3. \A i \in 1 .. Len(log) : ~Has(log, i, t, TaskTps)
    BY <1>1, <2>2, MadeFirst
  <2>4. ~Running(t)
    <3>1. ASSUME NEW q \in queries, q.task = t PROVE FALSE
      BY <1>0, <1>1, <2>2, <3>1 DEF Good, Known, Members
    <3>2. ASSUME NEW f \in fwd, f.task = t PROVE FALSE
      <4>1. f.pos \in Nat /\ f.pos <= Len(log)
        BY TypeParts DEF Lay, Members
      <4>. QED BY <2>2, <3>2, <4>1 DEF Good, Known, Informed
    <3>. QED BY <3>1, <3>2 DEF Running
  <2>6. \A m \in Nodes : ~tasks[m][t].running /\ ~Deleted(log, t, pos[m])
    <3> SUFFICES ASSUME NEW m \in Nodes PROVE ~tasks[m][t].running /\ ~Deleted(log, t, pos[m])
      OBVIOUS
    <3>1. ~Made(t, pos[m])
      BY <1>1, <2>2
    <3>2. ~tasks[m][t].running
      BY <3>1, RunningHere
    <3>3. ~Deleted(log, t, pos[m])
      <4>1. \A i \in 1 .. pos[m] : i \in 1 .. Len(log)
        BY <1>1
      <4>. QED BY <2>3, <4>1 DEF Deleted, Has, TaskTps
    <3>. QED BY <3>2, <3>3
  <2>7. ~Deleted(log, t, Len(log))
    BY <2>3 DEF Deleted, Has, TaskTps
  <2>. QED BY <2>4, <2>6, <2>7
<1>7. ASSUME NEW o \in Founders, Knows(o, t) PROVE Knows(o, t)'
  <2>1. CASE o # n
    BY <1>0, <1>1, <1>7, <2>1, CommitsOthers DEF Knows
  <2>2. CASE o = n
    <3>1. CASE c.tp = "del"
      <4>1. Has(log', Len(log) + 1, t, {"del"})
        BY <1>1, <3>1 DEF Has
      <4>2. Deleted(log', t, pos'[n])
        BY <1>1, <4>1 DEF Deleted
      <4>. QED BY <2>2, <4>2 DEF Knows
    <3>2. CASE Deleted(log, t, pos[n])
      <4>1. Deleted(log', t, pos'[n])
        BY <1>1, <3>2, DeletedKeep
      <4>. QED BY <2>2, <4>1 DEF Knows
    <3>3. CASE c.tp # "del" /\ tasks[n][t].running
      BY <1>3, <1>6, <2>2, <3>3 DEF Knows
    <3>. QED BY <1>7, <2>2, <3>1, <3>2, <3>3 DEF Knows
  <2>. QED BY <2>1, <2>2
<1>8. ASSUME NEW o \in Founders, NEW i \in pos'[o] + 1 .. Len(log'), Has(log', i, t, {"finish"})
      PROVE  o # n /\ i \in pos[o] + 1 .. Len(log) /\ Has(log, i, t, {"finish"})
  <2>1. o \in Nodes /\ pos[o] \in Nat /\ pos'[o] \in Nat /\ i \in 1 .. Len(log') /\ pos[o] <= pos'[o]
    BY <1>0, <1>1
  <2>2. i \in 1 .. Len(log) /\ Has(log, i, t, {"finish"})
    BY <1>8, <2>1, CommitsHas
  <2>. QED BY <1>1, <2>1, <2>2
<1>9. ASSUME NEW o \in Founders PROVE NoEnd(o, t) => NoEnd(o, t)'
  BY <1>8 DEF NoEnd
<1>10. ASSUME NEW o \in Founders, Owner(o, t) PROVE OneStart(o, t)'
  <2>1. OneStart(o, t)
    BY <1>10 DEF Good
  <2>2. ASSUME NEW i \in pos'[o] + 1 .. Len(log'), Has(log', i, t, {"finish"})
        PROVE  tasks'[o][t].running
    BY <1>0, <1>1, <1>8, <2>1, <2>2 DEF OneStart
  <2>. QED BY <1>4, <1>7, <1>8, <1>9, <2>1, <2>2 DEF OneStart
<1>11. Known(t)'
  <2>1. CASE c.tp = "new"
    BY <1>4, <1>6, <2>1 DEF Known, Running
  <2>2. CASE c.tp \notin Sets
    <3>1. ASSUME NEW q \in queries, q.task = t
          PROVE  /\ \E i \in 1 .. pos'[q.node] : Has(log', i, t, {"new"})
                 /\ Pending(q) =>
                      /\ \A i \in 1 .. Len(log') : Has(log', i, t, Sets) => i <= pos'[q.node]
                      /\ \A i \in 1 .. Len(log') :
                           Latest(log', i, t, Sets, Len(log')) => log'[i].at <= now'
      <4>0. q.node \in Nodes /\ pos[q.node] \in Nat
        BY <1>0, <1>1, <3>1 DEF Members
      <4> PICK r \in Nat : r = pos[q.node]
        BY <4>0
      <4>1. q.node \in Nodes /\ Made(t, r) /\ (Pending(q) => Informed(t, r))
        BY <1>0, <3>1 DEF Members, Good, Known
      <4>2. r \in Nat /\ pos'[q.node] \in Nat /\ r <= pos'[q.node] /\ r <= Len(log)
        BY <1>1, <4>1
      <4>3. Made(t, r)' /\ (Pending(q) => Informed(t, r)')
        BY <2>2, <4>1, <4>2, CommitsInformed
      <4>4. /\ \E i \in 1 .. r : Has(log', i, t, {"new"})
            /\ Pending(q) =>
                 /\ \A i \in 1 .. Len(log') : Has(log', i, t, Sets) => i <= r
                 /\ \A i \in 1 .. Len(log') :
                      Latest(log', i, t, Sets, Len(log')) => log'[i].at <= now'
        BY <4>3 DEF Made, Informed
      <4>. QED BY <4>2, <4>4
    <3>2. ASSUME NEW f \in fwd, f.task = t PROVE Informed(t, f.pos)'
      <4>1. f.pos \in Nat /\ f.pos <= Len(log) /\ Informed(t, f.pos)
        BY <3>2, TypeParts DEF Lay, Members, Good, Known
      <4>. QED BY <2>2, <4>1, CommitsInformed
    <3>. QED BY <3>1, <3>2 DEF Known, Informed, Made
  <2>. QED BY <2>1, <2>2 DEF Sets
<1>12. Once(t)'
  <2>1. \A i \in Places : ran'[t][i] <= 1
    BY DEF Good, Once
  <2>2. CASE c.tp = "new"
    <3>1. \A i \in Places : i > Len(log) => ran'[t][i] = 0
      BY DEF Sound, Ahead
    <3>2. Fresh(t)'
      BY <1>1, <1>2, <2>2, <3>1, FreshCommit DEF Sets
    <3>. QED BY <2>1, <3>2 DEF Once
  <2>3. CASE c.tp # "new" /\ Fresh(t)
    <3>1. Fresh(t)'
      BY <1>1, <1>2, <2>3, FreshCommit DEF Sets
    <3>. QED BY <2>1, <3>1 DEF Once
  <2>4. CASE \E m \in Founders : Finishing(m, t)
    BY <1>4, <2>1, <2>4 DEF Once
  <2>5. CASE Over(t)
    <3>1. ASSUME NEW o \in Founders, Owner(o, t) PROVE Knows(o, t)' /\ NoEnd(o, t)'
      BY <1>7, <1>9, <2>5, <3>1 DEF Over
    <3>2. Deleted(log', t, Len(log'))
      BY <1>1, <2>5, DeletedKeep DEF Over
    <3>3. Over(t)'
      BY <1>4, <2>5, <3>1, <3>2 DEF Over, Owner, Owns, RelId
    <3>. QED BY <2>1, <3>3 DEF Once
  <2>. QED BY <2>2, <2>3, <2>4, <2>5 DEF Good, Once
<1>13. ASSUME NEW m \in Nodes PROVE Secret(m, t)'
  <2>0. Secret(m, t)
    BY DEF Good
  <2>1. CASE m = n
    <3>1. OnTime(n, t)'
      BY <1>1, OnTimeApply
    <3>2. tasks'[n][t].again => Finishing(n, t)'
      BY <1>3, <1>4, <2>0, <2>1 DEF Secret
    <3>. QED BY <2>1, <3>1, <3>2 DEF Secret
  <2>2. CASE m # n
    <3>1. tasks'[m][t] = tasks[m][t]
      BY <1>1, <2>2
    <3>2. OnTime(m, t) => OnTime(m, t)'
      BY <2>2, CommitsOthers
    <3>. QED BY <1>4, <2>0, <3>1, <3>2 DEF Secret
  <2>. QED BY <2>1, <2>2
<1>14. ASSUME NEW m \in Nodes, tasks'[m][t].running PROVE Backed(m, t)'
  <2>1. tasks[m][t].running
    BY <1>1, <1>3, <1>14
  <2>2. Backed(m, t)
    BY <2>1 DEF Good
  <2>3. ASSUME NEW i \in pos[m] + 1 .. Len(log)
        PROVE  i \in pos'[m] + 1 .. Len(log') /\ log'[i] = log[i]
    <3>1. m # n
      BY <1>1
    <3>. QED BY <1>1, <3>1
  <2>. QED BY <2>2, <2>3 DEF Backed
<1>. QED BY <1>5, <1>10, <1>11, <1>12, <1>13, <1>14 DEF Good, Owner, Owns, RelId
-----------------------------------------------------------------------------
(* The task is started, or forwarded.                                      *)

LEMMA StartGood ==
  ASSUME Lay, Lay', Members, NEW t \in TaskIds, Good(t), UNCHANGED <<log, pos, now, ran>>,
         \A m \in Nodes : /\ tasks'[m][t].run_at = tasks[m][t].run_at
                          /\ tasks'[m][t].again = tasks[m][t].again,
         Fresh(t), ~\E m \in Founders : Finishing(m, t), OneToken(t)', Running(t)',
         \A q \in queries' : q.task = t => Pending(q) /\ Informed(t, pos[q.node]),
         \A f \in fwd' : f.task = t => Informed(t, f.pos),
         \A o \in Founders : Owner(o, t) => Knows(o, t)' /\ NoEnd(o, t)
  PROVE  Good(t)'
<1>1. Known(t)'
  <2>1. \A p : Informed(t, p) => Made(t, p) /\ Informed(t, p)'
    BY DEF Informed, Made, Has, Latest
  <2>2. ASSUME NEW q \in queries', q.task = t
        PROVE  /\ \E i \in 1 .. pos'[q.node] : Has(log', i, t, {"new"})
               /\ \A i \in 1 .. Len(log') : Has(log', i, t, Sets) => i <= pos'[q.node]
               /\ \A i \in 1 .. Len(log') :
                    Latest(log', i, t, Sets, Len(log')) => log'[i].at <= now'
    BY <2>2 DEF Informed, Made
  <2>3. \A f \in fwd' : f.task = t => Informed(t, f.pos)'
    BY <2>1
  <2>. QED BY <2>2, <2>3 DEF Known, Informed, Made
<1>2. Once(t)'
  <2>1. Fresh(t)'
    BY DEF Fresh, NotRunFrom, Latest, Has
  <2>. QED BY <2>1 DEF Good, Once
<1>3. ASSUME NEW o \in Founders, Owner(o, t) PROVE OneStart(o, t)'
  <2>1. NoEnd(o, t)' /\ Knows(o, t)'
    BY <1>3 DEF NoEnd, Has
  <2>. QED BY <2>1 DEF OneStart, NoEnd
<1>4. ASSUME NEW m \in Nodes PROVE Secret(m, t)'
  <2>1. ~tasks'[m][t].again /\ OnTime(m, t)
    BY NotFinishing
  <2>2. OnTime(m, t)'
    BY <2>1 DEF OnTime, Latest, Has
  <2>. QED BY <2>1, <2>2 DEF Secret
<1>5. ASSUME NEW m \in Nodes PROVE Backed(m, t)'
  BY DEF Running, Backed
<1>. QED BY <1>1, <1>2, <1>3, <1>4, <1>5 DEF Good, Owner, Owns, RelId

LEMMA TimerGood ==
  ASSUME Lay, Lay', Members, NEW n \in Nodes, NEW T \in SUBSET TaskIds, Begins(n, T),
         status[n] # "DOWN", UNCHANGED <<log, pos, now, ran>>,
         \/ queries' = queries \cup Started(n, T) /\ fwd' = fwd
         \/ /\ queries' = queries
            /\ \E to \in [T -> ReadyNodes(n)] : fwd' = fwd \cup Forward(n, T, to),
         NEW t \in T, Good(t)
  PROVE  Good(t)'
<1>0. /\ t \in TaskIds /\ tasks \in [Nodes -> [TaskIds -> TaskRecords]]
      /\ tasks' = Mark(n, T) /\ Founders \subseteq Nodes
  BY TypeParts, TaskNodesAssumption DEF Lay, Begins
<1>1. /\ tasks[n][t].here /\ tasks[n][t].run_at # 0 /\ tasks[n][t].run_at <= now
      /\ ~tasks[n][t].running /\ Owns(n, members[n], t)
  BY TimerSame
<1>2. Owner(n, t)
  BY <1>1 DEF Owner, Members
<1>3. Made(t, pos[n]) /\ ~Deleted(log, t, pos[n])
  BY <1>0, <1>1, RunningHere
<1>4. ~Running(t) /\ NoEnd(n, t)
  <2>1. OneStart(n, t)
    BY <1>2 DEF Good, Owner
  <2>. QED BY <1>1, <1>3, <2>1 DEF OneStart, Knows, NoEnd
<1>5. ~\E m \in Founders : Finishing(m, t)
  BY <1>4 DEF Running, Finishing
<1>6. Fresh(t)
  <2>1. ~Over(t)
    BY <1>1, <1>2, <1>3 DEF Over, Owner, Knows
  <2>. QED BY <1>5, <2>1 DEF Good, Once
<1>7. \A m \in Nodes : /\ tasks'[m][t].run_at = tasks[m][t].run_at
                       /\ tasks'[m][t].again = tasks[m][t].again
                       /\ tasks[m][t].running => tasks'[m][t].running
                       /\ m = n => tasks'[m][t].running
  BY <1>0, MarkEffect
<1>8. Informed(t, pos[n])
  <2>1. ASSUME NEW i \in 1 .. Len(log), Has(log, i, t, Sets) PROVE i <= pos[n]
    <3>0. pos[n] \in Nat /\ Len(log) \in Nat /\ pos[n] <= Len(log)
      BY PosFacts
    <3>1. CASE log[i].tp = "new"
      <4>1. PICK j \in 1 .. pos[n] : Has(log, j, t, {"new"})
        BY <1>3 DEF Made
      <4>2. Has(log, i, t, {"new"}) /\ j \in 1 .. Len(log)
        BY <2>1, <3>0, <3>1 DEF Has
      <4>3. i = j
        BY <4>1, <4>2, NewOnce
      <4>. QED BY <4>3
    <3>2. CASE log[i].tp = "finish"
      <4>1. Has(log, i, t, {"finish"})
        BY <2>1, <3>2 DEF Has
      <4>. QED BY <1>4, <3>0, <4>1 DEF NoEnd
    <3>. QED BY <2>1, <3>1, <3>2 DEF Has, Sets
  <2>2. OnTime(n, t)
    BY <1>5, NotFinishing
  <2>3. PICK i \in 1 .. Len(log) :
           Latest(log, i, t, Sets, Len(log)) /\ tasks[n][t].run_at = log[i].at
    BY <1>0, <1>1, <2>1, <2>2, InformedTime
  <2>4. \A j \in 1 .. Len(log) : Latest(log, j, t, Sets, Len(log)) => log[j].at <= now
    BY <1>1, <2>3, LatestUnique, TypeParts DEF Lay
  <2>. QED BY <1>3, <2>1, <2>4 DEF Informed
<1>9. \A o \in Founders : Owner(o, t) => Knows(o, t)' /\ NoEnd(o, t)
  <2> SUFFICES ASSUME NEW o \in Founders, Owner(o, t) PROVE Knows(o, t)' /\ NoEnd(o, t)
    OBVIOUS
  <2>1. o = n
    BY <1>2, OwnerUnique
  <2>. QED BY <1>4, <1>7, <2>1 DEF Knows
<1>10. CASE queries' = queries \cup Started(n, T) /\ fwd' = fwd
  <2>1. \A q \in Started(n, T) :
          q.node = n /\ q.kind = (IF q.task \in Quiet THEN "async" ELSE "change")
          /\ q \in [node: Nodes, task: TaskIds, kind: KindSet]
    BY StartedTypes
  <2>2. \A q \in queries' : q.task = t => q \in Started(n, T)
    BY <1>4, <1>10 DEF Running
  <2>3. \A q \in queries' : q.task = t => q.node = n /\ Pending(q)
    BY <2>1, <2>2 DEF Pending
  <2>4. \A q, r \in queries' : q.task = t /\ r.task = t => q = r
    <3> SUFFICES ASSUME NEW q \in queries', NEW r \in queries', q.task = t, r.task = t
                 PROVE  q = r
      OBVIOUS
    <3>1. q.node = r.node /\ q.kind = r.kind /\ q.task = r.task
      BY <2>1, <2>2
    <3>2. /\ q \in [node: Nodes, task: TaskIds, kind: KindSet]
          /\ r \in [node: Nodes, task: TaskIds, kind: KindSet]
      BY <2>1, <2>2
    <3>. QED BY <3>1, <3>2
  <2>5. \A f \in fwd' : f.task # t
    BY <1>4, <1>10 DEF Running
  <2>6. OneToken(t)'
    BY <2>4, <2>5 DEF OneToken
  <2>7. Running(t)'
    <3> DEFINE q == Query(n, t, IF t \in Quiet THEN "async" ELSE "change")
    <3>1. q \in Started(n, T) /\ q.task = t
      BY DEF Started, Query
    <3>2. q \in queries'
      BY <1>10, <3>1
    <3> HIDE DEF q
    <3>3. \E x \in queries' : x.task = t
      BY <3>1, <3>2
    <3>. QED BY <3>3 DEF Running
  <2>. QED BY <1>0, <1>5, <1>6, <1>7, <1>8, <1>9, <2>3, <2>5, <2>6, <2>7, StartGood
<1>11. CASE /\ queries' = queries
            /\ \E to \in [T -> ReadyNodes(n)] : fwd' = fwd \cup Forward(n, T, to)
  <2>1. PICK to \in [T -> ReadyNodes(n)] : fwd' = fwd \cup Forward(n, T, to)
    BY <1>11
  <2>2. ReadyNodes(n) \in SUBSET Nodes /\ pos \in [Nodes -> 0 .. MaxLog]
    BY TypeParts DEF Lay, ReadyNodes
  <2>3. \A f \in Forward(n, T, to) :
          /\ f.pos = pos[n] /\ f.to = to[f.task]
          /\ f \in [to: Nodes, task: TaskIds, pos: 0 .. MaxLog]
    BY <2>2, ForwardTypes
  <2>4. \A f \in fwd' : f.task = t => f \in Forward(n, T, to)
    BY <1>4, <2>1 DEF Running
  <2>5. \A f \in fwd' : f.task = t => f.pos = pos[n]
    BY <2>3, <2>4
  <2>6. \A e, f \in fwd' : e.task = t /\ f.task = t => e = f
    <3> SUFFICES ASSUME NEW e \in fwd', NEW f \in fwd', e.task = t, f.task = t
                 PROVE  e = f
      OBVIOUS
    <3>1. e.to = f.to /\ e.pos = f.pos /\ e.task = f.task
      BY <2>3, <2>4
    <3>2. /\ e \in [to: Nodes, task: TaskIds, pos: 0 .. MaxLog]
          /\ f \in [to: Nodes, task: TaskIds, pos: 0 .. MaxLog]
      BY <2>3, <2>4
    <3>. QED BY <3>1, <3>2
  <2>7. \A q \in queries' : q.task # t
    BY <1>4, <1>11 DEF Running
  <2>8. OneToken(t)'
    BY <2>6, <2>7 DEF OneToken
  <2>9. Running(t)'
    <3> DEFINE f == [to |-> to[t], task |-> t, pos |-> pos[n]]
    <3>1. f \in Forward(n, T, to) /\ f.task = t
      BY DEF Forward
    <3>2. f \in fwd'
      BY <2>1, <3>1
    <3> HIDE DEF f
    <3>3. \E x \in fwd' : x.task = t
      BY <3>1, <3>2
    <3>. QED BY <3>3 DEF Running
  <2>10. \A f \in fwd' : f.task = t => Informed(t, f.pos)
    BY <1>8, <2>5
  <2>. QED BY <1>0, <1>5, <1>6, <1>7, <1>9, <2>7, <2>8, <2>9, <2>10, StartGood
<1>. QED BY <1>10, <1>11

(* A query or a forwarded task comes to nothing, as the task is deleted.   *)
LEMMA GoneGood ==
  ASSUME Lay, Members, NEW t \in TaskIds, Good(t), UNCHANGED <<log, pos, tasks, ran>>,
         Running(t), ~Running(t)', Deleted(log, t, Len(log)),
         \A m \in Nodes : OnTime(m, t) /\ ~tasks[m][t].again
  PROVE  Good(t)'
<1>0. /\ Founders \subseteq Nodes /\ Len(log) \in Nat
      /\ \A m \in Nodes : pos[m] \in Nat /\ pos[m] <= Len(log)
  BY TaskNodesAssumption, TypeParts, PosFacts DEF Lay
<1>1. OneToken(t)' /\ Known(t)'
  BY DEF Running, OneToken, Known
<1>2. ASSUME NEW o \in Founders, Owner(o, t) PROVE Knows(o, t)' /\ NoEnd(o, t)'
  <2>1. Knows(o, t) /\ NoEnd(o, t)
    BY <1>2 DEF Good, OneStart
  <2>. QED BY <2>1 DEF Knows, NoEnd, Deleted, Has
<1>3. Once(t)'
  <2>1. Over(t)'
    BY <1>2 DEF Over, Owner, Owns, RelId, Deleted, Has
  <2>. QED BY <2>1 DEF Good, Once
<1>4. ASSUME NEW o \in Founders, Owner(o, t) PROVE OneStart(o, t)'
  BY <1>2, <1>4 DEF OneStart, NoEnd
<1>5. ASSUME NEW m \in Nodes PROVE Secret(m, t)'
  <2>1. OnTime(m, t)' /\ ~tasks'[m][t].again
    BY DEF OnTime, Latest, Has
  <2>. QED BY <2>1 DEF Secret
<1>6. ASSUME NEW m \in Nodes, tasks'[m][t].running PROVE Backed(m, t)'
  <2>1. ~Deleted(log, t, pos[m])
    BY <1>6, RunningHere
  <2>2. PICK i \in 1 .. Len(log) : Has(log, i, t, {"del"})
    BY DEF Deleted
  <2>3. i \in pos[m] + 1 .. Len(log)
    BY <1>0, <2>1, <2>2 DEF Deleted
  <2>. QED BY <2>2, <2>3 DEF Backed, Has
<1>. QED BY <1>1, <1>3, <1>4, <1>5, <1>6 DEF Good, Owner, Owns, RelId

LEMMA FwdGood ==
  ASSUME Lay, Lay', Members, NEW f \in fwd, OnFwdTask(f), f.pos <= pos[f.to],
         Good(f.task)
  PROVE  Good(f.task)'
<1> DEFINE n == f.to
           t == f.task
           T == {t}
<1>0. /\ FwdStart(f) \/ FwdAgain(f) \/ FwdDrop(f)
      /\ n \in Nodes /\ t \in TaskIds /\ status[n] # "DOWN"
      /\ UNCHANGED <<now, log, pos, members, status, lowest, ran>>
  BY FwdShape
<1>1. /\ tasks \in [Nodes -> [TaskIds -> TaskRecords]] /\ Founders \subseteq Nodes
      /\ T \in SUBSET TaskIds /\ t \in T /\ \A u \in T : u = t
      /\ f.pos \in Nat /\ pos[n] \in Nat /\ Len(log) \in Nat /\ pos[n] <= Len(log)
  BY <1>0, TypeParts, PosFacts, TaskNodesAssumption DEF Lay
<1>2. /\ \A q \in queries : q.task # t
      /\ \A e \in fwd : e.task = t => e = f
  BY DEF Good, OneToken
<1>3. Running(t) /\ Good(t)
  BY DEF Running
<1>4. \A o \in Founders : Owner(o, t) => Knows(o, t) /\ NoEnd(o, t)
  BY <1>3 DEF Good, OneStart
<1>5. ~\E m \in Founders : Finishing(m, t)
  BY <1>2 DEF Finishing
<1>6. Fresh(t)
  BY <1>3, <1>5 DEF Good, Once, Over
<1>7. Informed(t, pos[n])
  <2>1. Informed(t, f.pos)
    BY <1>3 DEF Good, Known
  <2>. QED BY <1>1, <2>1, InformedGrows
<1>8. FwdStart(f) => /\ tasks' = Mark(n, T) /\ fwd' = fwd \ {f}
                     /\ queries' = queries \cup Started(n, T)
  BY DEF FwdStart
<1>9. FwdAgain(f) => /\ tasks' = Mark(n, T) /\ queries' = queries
                     /\ \E to \in [T -> ReadyNodes(n)] :
                          fwd' = (fwd \ {f}) \cup Forward(n, T, to)
  BY DEF FwdAgain
<1>10. FwdDrop(f) => /\ UNCHANGED tasks /\ queries' = queries /\ fwd' = fwd \ {f}
                     /\ ~tasks[n][t].here
  <2>1. status[n] \in {"READY", "AWAY", "DOWN"}
    BY <1>0, TypeParts DEF Lay
  <2>2. HasQuorum(n) /\ (status[n] # "READY" => ReadyNodes(n) # {})
    BY <1>0, QuorumIsUp, SomeReady
  <2>. QED BY <2>1, <2>2 DEF FwdDrop
<1> SUFFICES Good(t)'
  OBVIOUS
<1> HIDE DEF n, t, T
<1>11. ASSUME tasks' = Mark(n, T)
       PROVE  /\ \A m \in Nodes : /\ tasks'[m][t].run_at = tasks[m][t].run_at
                                  /\ tasks'[m][t].again = tasks[m][t].again
              /\ \A o \in Founders : Owner(o, t) => Knows(o, t)' /\ NoEnd(o, t)
  <2>1. \A m \in Nodes : /\ tasks'[m][t].run_at = tasks[m][t].run_at
                         /\ tasks'[m][t].again = tasks[m][t].again
                         /\ tasks[m][t].running => tasks'[m][t].running
    BY <1>0, <1>1, <1>11, MarkEffect
  <2>. QED BY <1>0, <1>1, <1>4, <2>1 DEF Knows, Deleted, Has
<1>12. CASE FwdStart(f)
  <2>0. /\ tasks' = Mark(n, T) /\ fwd' = fwd \ {f}
        /\ queries' = queries \cup Started(n, T)
    BY <1>8, <1>12
  <2>1. \A q \in Started(n, T) :
          q.node = n /\ q.kind = (IF q.task \in Quiet THEN "async" ELSE "change")
          /\ q \in [node: Nodes, task: TaskIds, kind: KindSet]
    BY <1>0, <1>1, StartedTypes
  <2>2. \A q \in queries' : q.task = t => q \in Started(n, T)
    BY <1>2, <2>0
  <2>3. \A q \in queries' : q.task = t => q.node = n /\ Pending(q)
    BY <2>1, <2>2 DEF Pending
  <2>4. \A q, r \in queries' : q.task = t /\ r.task = t => q = r
    <3> SUFFICES ASSUME NEW q \in queries', NEW r \in queries', q.task = t, r.task = t
                 PROVE  q = r
      OBVIOUS
    <3>1. q.node = r.node /\ q.kind = r.kind /\ q.task = r.task
      BY <2>1, <2>2
    <3>2. /\ q \in [node: Nodes, task: TaskIds, kind: KindSet]
          /\ r \in [node: Nodes, task: TaskIds, kind: KindSet]
      BY <2>1, <2>2
    <3>. QED BY <3>1, <3>2
  <2>5. \A e \in fwd' : e.task # t
    BY <1>2, <2>0
  <2>6. OneToken(t)'
    BY <2>4, <2>5 DEF OneToken
  <2>7. Running(t)'
    <3> DEFINE q == Query(n, t, IF t \in Quiet THEN "async" ELSE "change")
    <3>1. q \in Started(n, T) /\ q.task = t
      BY <1>1 DEF Started, Query
    <3>2. q \in queries'
      BY <2>0, <3>1
    <3> HIDE DEF q
    <3>3. \E x \in queries' : x.task = t
      BY <3>1, <3>2
    <3>. QED BY <3>3 DEF Running
  <2>8. \A q \in queries' : q.task = t => Pending(q) /\ Informed(t, pos[q.node])
    BY <1>7, <2>3
  <2>9. \A e \in fwd' : e.task = t => Informed(t, e.pos)
    BY <2>5
  <2>. QED BY <1>0, <1>3, <1>5, <1>6, <1>11, <2>0, <2>6, <2>7, <2>8, <2>9, StartGood
<1>13. CASE FwdAgain(f)
  <2>0. tasks' = Mark(n, T) /\ queries' = queries
    BY <1>9, <1>13
  <2>1. PICK to \in [T -> ReadyNodes(n)] : fwd' = (fwd \ {f}) \cup Forward(n, T, to)
    BY <1>9, <1>13
  <2>2. ReadyNodes(n) \in SUBSET Nodes /\ pos \in [Nodes -> 0 .. MaxLog]
    BY <1>0, TypeParts DEF Lay, ReadyNodes
  <2>3. \A e \in Forward(n, T, to) :
          /\ e.pos = pos[n] /\ e.to = to[e.task]
          /\ e \in [to: Nodes, task: TaskIds, pos: 0 .. MaxLog]
    <3>1. n \in Nodes /\ T \in SUBSET TaskIds
      BY <1>0, <1>1
    <3>. QED BY <2>2, <3>1, ForwardTypes
  <2>4. \A e \in fwd' : e.task = t => e \in Forward(n, T, to)
    BY <1>2, <2>1
  <2>5. \A e \in fwd' : e.task = t => e.pos = pos[n]
    BY <2>3, <2>4
  <2>6. \A d, e \in fwd' : d.task = t /\ e.task = t => d = e
    <3> SUFFICES ASSUME NEW d \in fwd', NEW e \in fwd', d.task = t, e.task = t
                 PROVE  d = e
      OBVIOUS
    <3>1. d.to = e.to /\ d.pos = e.pos /\ d.task = e.task
      BY <2>3, <2>4
    <3>2. /\ d \in [to: Nodes, task: TaskIds, pos: 0 .. MaxLog]
          /\ e \in [to: Nodes, task: TaskIds, pos: 0 .. MaxLog]
      BY <2>3, <2>4
    <3>. QED BY <3>1, <3>2
  <2>7. \A q \in queries' : q.task # t
    BY <1>2, <2>0
  <2>8. OneToken(t)'
    BY <2>6, <2>7 DEF OneToken
  <2>9. Running(t)'
    <3> DEFINE e == [to |-> to[t], task |-> t, pos |-> pos[n]]
    <3>1. e \in Forward(n, T, to) /\ e.task = t
      BY <1>1 DEF Forward
    <3>2. e \in fwd'
      BY <2>1, <3>1
    <3> HIDE DEF e
    <3>3. \E x \in fwd' : x.task = t
      BY <3>1, <3>2
    <3>. QED BY <3>3 DEF Running
  <2>10. \A e \in fwd' : e.task = t => Informed(t, e.pos)
    BY <1>7, <2>5
  <2>11. \A q \in queries' : q.task = t => Pending(q) /\ Informed(t, pos[q.node])
    BY <2>7
  <2>. QED BY <1>0, <1>3, <1>5, <1>6, <1>11, <2>0, <2>8, <2>9, <2>10, <2>11, StartGood
<1>14. CASE FwdDrop(f)
  <2>1. /\ UNCHANGED tasks /\ queries' = queries /\ fwd' = fwd \ {f}
        /\ ~tasks[n][t].here
    BY <1>10, <1>14
  <2>2. Deleted(log, t, pos[n])
    BY <1>0, <1>7, <2>1, GoneDeleted DEF Informed
  <2>3. Deleted(log, t, Len(log))
    BY <1>1, <2>2 DEF Deleted
  <2>4. ~Running(t)'
    BY <1>2, <2>1 DEF Running
  <2>5. \A m \in Nodes : OnTime(m, t) /\ ~tasks[m][t].again
    BY <1>3, <1>5, NotFinishing
  <2>. QED BY <1>0, <1>3, <2>1, <2>3, <2>4, <2>5, GoneGood
<1>. QED BY <1>0, <1>12, <1>13, <1>14
-----------------------------------------------------------------------------
(* The query of the task has its turn.                                     *)

(* The query goes on as one that will finish the task.                     *)
LEMMA ResultGood ==
  ASSUME Lay, Lay', Members, NEW q \in queries, NEW k \in {"future", "finish"},
         GoesOn(q, k), Good(q.task), UNCHANGED <<log, pos, fwd>>,
         \A m \in Nodes : /\ tasks'[m][q.task].running = tasks[m][q.task].running
                          /\ m # q.node =>
                               /\ tasks'[m][q.task].run_at = tasks[m][q.task].run_at
                               /\ tasks'[m][q.task].again = tasks[m][q.task].again,
         \A i \in Places : ran'[q.task][i] <= 1
  PROVE  Good(q.task)'
<1> DEFINE n == q.node
           t == q.task
           r == [q EXCEPT !.kind = k]
<1>0. n \in Nodes /\ t \in TaskIds /\ Founders \subseteq Nodes /\ n \in Founders
  BY QueryTypes, TaskNodesAssumption DEF Members
<1>1. /\ \A p \in queries : p.task = t => p = q
      /\ \A f \in fwd : f.task # t
  BY DEF Good, OneToken
<1>2. r.node = n /\ r.task = t /\ ~Pending(r)
  <2>1. q \in [node: Nodes, task: TaskIds, kind: KindSet]
    BY TypeParts DEF Lay
  <2>2. r.node = n /\ r.task = t /\ r.kind = k
    BY <2>1
  <2>. QED BY <2>2 DEF Pending
<1>3. queries' = (queries \ {q}) \cup {r}
  BY DEF GoesOn
<1>4. Good(t) /\ Running(t) /\ Made(t, pos[n])
  BY DEF Running, Good, Known
<1>5. \A o \in Founders : Owner(o, t) => Knows(o, t) /\ NoEnd(o, t)
  BY <1>4 DEF Good, OneStart
<1>6. \A m \in Nodes : m # n => ~tasks[m][t].again /\ OnTime(m, t)
  <2> SUFFICES ASSUME NEW m \in Nodes, m # n PROVE ~tasks[m][t].again /\ OnTime(m, t)
    OBVIOUS
  <2>1. ~Finishing(m, t)
    BY <1>1 DEF Finishing
  <2>. QED BY <1>4, <2>1 DEF Good, Secret
<1>7. /\ \A m \in Nodes : /\ tasks'[m][t].running = tasks[m][t].running
                          /\ m # n => /\ tasks'[m][t].run_at = tasks[m][t].run_at
                                      /\ tasks'[m][t].again = tasks[m][t].again
      /\ \A i \in Places : ran'[t][i] <= 1
  OBVIOUS
<1> SUFFICES Good(t)'
  OBVIOUS
<1>8. (\A p \in queries' : p.task = t => p = r) /\ r \in queries'
  BY <1>1, <1>3
<1> HIDE DEF n, t, r
<1>9. OneToken(t)'
  BY <1>1, <1>8 DEF OneToken
<1>10. Known(t)'
  <2>1. \A p \in queries' : p.task = t =>
          ~Pending(p) /\ \E i \in 1 .. pos'[p.node] : Has(log', i, t, {"new"})
    BY <1>2, <1>4, <1>8 DEF Made
  <2>. QED BY <1>1, <2>1 DEF Known, Made
<1>11. Finishing(n, t)' /\ Running(t)'
  BY <1>2, <1>8 DEF Finishing, Running
<1>12. Once(t)'
  BY <1>0, <1>7, <1>11 DEF Once
<1>13. ASSUME NEW o \in Founders, Owner(o, t) PROVE OneStart(o, t)'
  <2>1. o \in Nodes /\ Knows(o, t) /\ NoEnd(o, t)
    BY <1>0, <1>5, <1>13
  <2>2. Knows(o, t)' /\ NoEnd(o, t)'
    BY <1>7, <2>1 DEF Knows, NoEnd, Deleted, Has
  <2>. QED BY <2>2 DEF OneStart, NoEnd
<1>14. ASSUME NEW m \in Nodes PROVE Secret(m, t)'
  <2>1. CASE m = n
    BY <1>11, <2>1 DEF Secret
  <2>2. CASE m # n
    <3>1. OnTime(m, t)' /\ ~tasks'[m][t].again
      BY <1>6, <1>7, <2>2 DEF OnTime, Latest, Has
    <3>. QED BY <3>1 DEF Secret
  <2>. QED BY <2>1, <2>2
<1>15. ASSUME NEW m \in Nodes PROVE Backed(m, t)'
  BY <1>2, <1>8 DEF Backed
<1>. QED BY <1>9, <1>10, <1>12, <1>13, <1>14, <1>15 DEF Good, Owner, Owns, RelId

(* The query ends with a change that ends the task.                        *)
LEMMA EndsGood ==
  ASSUME Lay, Lay', Members, NEW q \in queries, NEW c, NEW at,
         Ends(q.node, c, q.task, at), queries' = queries \ {q}, fwd' = fwd,
         Good(q.task), \A i \in Places : ran'[q.task][i] <= 1,
         c.tp = "finish" => Fresh(q.task)' \/ Deleted(log', q.task, Len(log'))
  PROVE  Good(q.task)'
<1> DEFINE n == q.node
           t == q.task
<1>0. n \in Nodes /\ t \in TaskIds /\ Founders \subseteq Nodes /\ n \in Founders
  BY QueryTypes, TaskNodesAssumption DEF Members
<1>1. /\ Commits(n, c) /\ tasks[n][t].here /\ c.task = t /\ c.tp \in {"del", "finish"}
      /\ UpToDate(n) /\ Commit(n, c) /\ CommitOK(n, c) /\ c \in TaskChanges
  BY DEF Ends, Commits
<1>2. /\ Len(log) \in Nat /\ Len(log') = Len(log) + 1 /\ log'[Len(log) + 1] = c
      /\ \A i \in 1 .. Len(log) : log'[i] = log[i]
      /\ pos[n] = Len(log) /\ pos'[n] = Len(log) + 1
      /\ \A m \in Nodes \ {n} : pos'[m] = pos[m]
      /\ \A m \in Nodes : pos[m] \in Nat /\ pos[m] <= Len(log)
      /\ tasks \in [Nodes -> [TaskIds -> TaskRecords]]
      /\ tasks'[n][t] = Result(c, tasks[n][t])
      /\ \A m \in Nodes \ {n} : tasks'[m][t] = tasks[m][t]
      /\ AppliesNext(n, c) /\ GoodLog' /\ c \in TaskChanges \cup NodeChanges
      /\ c.tp \in TaskTps
  BY <1>0, <1>1, CommitsFacts
<1>3. /\ \A p \in queries : p.task = t => p = q
      /\ \A f \in fwd : f.task # t
  BY DEF Good, OneToken
<1>4. Good(t) /\ Running(t)
  BY DEF Running
<1>5. \A o \in Founders : Owner(o, t) => Knows(o, t) /\ NoEnd(o, t)
  BY <1>4 DEF Good, OneStart
<1>6. ~Running(t)'
  BY <1>3 DEF Running
<1>7. \A m \in Nodes : m # n => ~tasks[m][t].again /\ OnTime(m, t)
  <2> SUFFICES ASSUME NEW m \in Nodes, m # n PROVE ~tasks[m][t].again /\ OnTime(m, t)
    OBVIOUS
  <2>1. ~Finishing(m, t)
    BY <1>3 DEF Finishing
  <2>. QED BY <1>4, <2>1 DEF Good, Secret
<1>8. \A i \in Places : ran'[t][i] <= 1
  OBVIOUS
<1>9. c.tp = "finish" => Fresh(t)' \/ Deleted(log', t, Len(log'))
  OBVIOUS
<1> SUFFICES Good(t)'
  OBVIOUS
<1> HIDE DEF n, t
<1>10. ~tasks'[n][t].running /\ ~tasks'[n][t].again
  BY <1>0, <1>1, <1>2, ResultFacts DEF Sets
<1>11. \A p \in 0 .. Len(log) : ~Deleted(log, t, p)
  <2>1. ~Deleted(log, t, Len(log))
    BY <1>0, <1>1, <1>2, RunningHere
  <2>. QED BY <1>2, <2>1 DEF Deleted
<1>12. ASSUME NEW o \in Founders, Owner(o, t)
       PROVE  /\ o \in Nodes /\ tasks[o][t].running
              /\ o # n => tasks'[o][t].running
              /\ \A i \in pos'[o] + 1 .. Len(log') :
                   Has(log', i, t, {"finish"}) => i = Len(log) + 1 /\ c.tp = "finish" /\ o # n
  <2>0. o \in Nodes
    BY <1>0
  <2>1. pos[o] \in 0 .. Len(log)
    BY <1>2, <2>0
  <2>2. tasks[o][t].running /\ NoEnd(o, t)
    BY <1>5, <1>11, <1>12, <2>1 DEF Knows
  <2>3. ASSUME NEW i \in pos'[o] + 1 .. Len(log'), Has(log', i, t, {"finish"})
        PROVE  i = Len(log) + 1 /\ c.tp = "finish" /\ o # n
    <3>1. pos'[o] \in Nat /\ pos[o] <= pos'[o] /\ pos[o] \in Nat
      BY <1>2, <2>0
    <3>2. i \in 1 .. Len(log')
      BY <3>1
    <3>3. \/ i \in 1 .. Len(log) /\ Has(log, i, t, {"finish"})
          \/ i = Len(log) + 1 /\ c.tp = "finish"
      BY <1>0, <1>1, <2>3, <3>2, CommitsHas
    <3>4. ~(i \in 1 .. Len(log) /\ Has(log, i, t, {"finish"}))
      BY <2>2, <3>1 DEF NoEnd
    <3>. QED BY <1>2, <3>3, <3>4
  <2>. QED BY <1>2, <2>0, <2>2, <2>3
<1>13. OneToken(t)' /\ Known(t)'
  BY <1>6 DEF Running, OneToken, Known
<1>14. ASSUME NEW o \in Founders, Owner(o, t) PROVE OneStart(o, t)'
  BY <1>6, <1>12, <1>14 DEF OneStart
<1>15. c.tp = "del" => Deleted(log', t, Len(log')) /\ Deleted(log', t, pos'[n])
  <2>1. c.tp = "del" => Has(log', Len(log) + 1, t, {"del"})
    BY <1>1, <1>2 DEF Has
  <2>. QED BY <1>2, <2>1 DEF Deleted
<1>16. Once(t)'
  <2>1. CASE c.tp = "del"
    <3>1. ASSUME NEW o \in Founders, Owner(o, t) PROVE Knows(o, t)' /\ NoEnd(o, t)'
      BY <1>12, <1>15, <2>1, <3>1 DEF Knows, NoEnd
    <3>2. Over(t)'
      BY <1>6, <1>15, <2>1, <3>1 DEF Over, Owner, Owns, RelId
    <3>. QED BY <1>8, <3>2 DEF Once
  <2>2. CASE c.tp = "finish"
    <3>1. ~Deleted(log', t, Len(log'))
      <4> SUFFICES ASSUME NEW i \in 1 .. Len(log'), Has(log', i, t, {"del"}) PROVE FALSE
        BY DEF Deleted
      <4>1. i \in 1 .. Len(log) /\ Has(log, i, t, {"del"})
        BY <1>0, <1>1, <2>2, CommitsHas
      <4>2. Deleted(log, t, Len(log)) /\ Len(log) \in 0 .. Len(log)
        BY <1>2, <4>1 DEF Deleted
      <4>. QED BY <1>11, <4>2
    <3>. QED BY <1>8, <1>9, <2>2, <3>1 DEF Once
  <2>. QED BY <1>1, <2>1, <2>2
<1>17. ASSUME NEW m \in Nodes PROVE Secret(m, t)'
  <2>1. CASE m = n
    <3>1. OnTime(n, t)'
      BY <1>0, <1>1, <1>2, OnTimeApply
    <3>. QED BY <1>10, <2>1, <3>1 DEF Secret
  <2>2. CASE m # n
    <3>1. OnTime(m, t)' /\ ~tasks'[m][t].again
      BY <1>0, <1>1, <1>2, <1>7, <2>2, CommitsOthers
    <3>. QED BY <3>1 DEF Secret
  <2>. QED BY <2>1, <2>2
<1>18. ASSUME NEW m \in Nodes, tasks'[m][t].running PROVE Backed(m, t)'
  <2>1. m # n /\ Len(log) + 1 \in pos'[m] + 1 .. Len(log')
    BY <1>2, <1>10, <1>18
  <2>2. log'[Len(log) + 1].tp \in {"del", "finish"} /\ log'[Len(log) + 1].task = t
    BY <1>1, <1>2
  <2>. QED BY <2>1, <2>2 DEF Backed
<1>. QED BY <1>13, <1>14, <1>16, <1>17, <1>18 DEF Good, Owner, Owns, RelId

(* A task that is about to run is run for the change that set its time     *)
(* last; this time has come, and it has not run for it.                    *)
LEMMA RunInTime ==
  ASSUME Lay, Members, NEW q \in queries, Pending(q), Good(q.task),
         tasks[q.node][q.task].run_at # 0
  PROVE  /\ log[SetBy(q.node, q.task)].at <= now
         /\ NotRunFrom(q.task, SetBy(q.node, q.task))
<1> DEFINE n == q.node
           t == q.task
           x == SetBy(n, t)
<1>0. n \in Nodes /\ t \in TaskIds /\ tasks[n][t].run_at # 0
  BY QueryTypes
<1>1. \A p \in queries : p.task = t => p = q
  BY DEF Good, OneToken
<1>2. Good(t) /\ Running(t) /\ Informed(t, pos[n])
  BY DEF Running, Good, Known
<1>3. ~\E m \in Founders : Finishing(m, t)
  BY <1>1 DEF Finishing
<1>4. Fresh(t)
  BY <1>2, <1>3 DEF Good, Once, Over
<1>5. Latest(log, x, t, Sets, pos[n]) /\ x \in 1 .. Len(log)
  BY <1>0, SetByLatest
<1>6. pos[n] \in Nat /\ pos[n] <= Len(log) /\ Len(log) \in Nat
  BY <1>0, PosFacts
<1> HIDE DEF x
<1>7. ASSUME NEW j \in x + 1 .. Len(log), Has(log, j, t, Sets) PROVE FALSE
  <2>1. j \in 1 .. Len(log)
    BY <1>5, <1>6
  <2>2. j <= pos[n]
    BY <1>2, <1>7, <2>1 DEF Informed
  <2>3. j \in x + 1 .. pos[n]
    BY <1>5, <1>6, <2>2
  <2>. QED BY <1>5, <1>7, <2>3 DEF Latest
<1>8. Latest(log, x, t, Sets, Len(log))
  BY <1>5, <1>7 DEF Latest
<1>9. log[x].at <= now
  BY <1>2, <1>5, <1>8 DEF Informed
<1>10. NotRunFrom(t, x)
  BY <1>4, <1>5, <1>8 DEF Fresh
<1>. QED BY <1>9, <1>10 DEF x

LEMMA CountGood ==
  ASSUME Lay, Members, NEW q \in queries, Good(q.task),
         \/ ran' = ran
         \/ /\ Pending(q) /\ tasks[q.node][q.task].run_at # 0
            /\ CountRun(q.node, q.task)
  PROVE  \A i \in Places : ran'[q.task][i] <= 1
<1> DEFINE n == q.node
           t == q.task
           x == SetBy(n, t)
<1>0. n \in Nodes /\ t \in TaskIds
  BY QueryTypes
<1>1. \A i \in Places : ran[t][i] <= 1
  BY DEF Good, Once
<1>2. CASE ran' = ran
  BY <1>1, <1>2
<1>3. CASE Pending(q) /\ tasks[n][t].run_at # 0 /\ CountRun(n, t)
  <2>1. /\ x \in Places
        /\ \A i \in Places : ran'[t][i] = IF i = x THEN ran[t][i] + 1 ELSE ran[t][i]
    BY <1>0, <1>3, CountRunEffect
  <2>2. NotRunFrom(t, x)
    BY <1>3, RunInTime
  <2> HIDE DEF n, t, x
  <2>3. ran[t][x] = 0
    BY <2>1, <2>2 DEF NotRunFrom, Places
  <2>4. \A i \in Places : ran'[t][i] <= 1
    BY <1>1, <2>1, <2>3
  <2>. QED BY <2>4 DEF t
<1>. QED BY <1>2, <1>3

(* With a quorum, the query goes on to finish the task.                    *)
LEMMA TaskResultGoesOn ==
  ASSUME Lay, Members, NEW q \in queries, TaskResult(q)
  PROVE  GoesOn(q, "finish")
<1>1. HasQuorum(q.node)
  BY QueryTypes, QuorumIsUp DEF Members
<1>. QED BY <1>1, ResultPasses

(* A task that is cancelled or gone by now is not run, but finished.       *)
LEMMA NotRunGood ==
  ASSUME Lay, Lay', Members, NEW q \in queries, TaskResult(q),
         SetResult(q.node, q.task), Good(q.task), UNCHANGED <<log, pos, fwd, ran>>
  PROVE  Good(q.task)'
<1>0. q.node \in Nodes /\ q.task \in TaskIds /\ tasks \in [Nodes -> [TaskIds -> TaskRecords]]
  BY QueryTypes, TypeParts DEF Lay
<1>1. \A m \in Nodes : /\ tasks'[m][q.task].running = tasks[m][q.task].running
                       /\ m # q.node =>
                            /\ tasks'[m][q.task].run_at = tasks[m][q.task].run_at
                            /\ tasks'[m][q.task].again = tasks[m][q.task].again
  BY <1>0, SetResultEffect
<1>2. \A i \in Places : ran'[q.task][i] <= 1
  BY CountGood
<1>3. GoesOn(q, "finish")
  BY TaskResultGoesOn
<1>. QED BY <1>1, <1>2, <1>3, ResultGood

LEMMA RunChangeGood ==
  ASSUME Lay, Lay', Sound, Members, NEW q \in queries, RunChange(q), Good(q.task)
  PROVE  Good(q.task)'
<1> DEFINE n == q.node
           t == q.task
<1>0. n \in Nodes /\ t \in TaskIds /\ fwd' = fwd /\ t \notin Quiet
  BY QueryTypes DEF RunChange, Lay, Kinds
<1>1. CASE tasks[n][t].run_at = 0
  <2>1. TaskResult(q) /\ SetResult(n, t) /\ UNCHANGED <<log, pos, ran>>
    BY <1>1 DEF RunChange, SetResult
  <2>. QED BY <1>0, <2>1, NotRunGood
<1>2. CASE tasks[n][t].run_at # 0
  <2>1. PICK c \in TaskChanges, at \in 0 .. MaxTime : Ends(n, c, t, at)
    BY <1>2, RunChangeShape
  <2>2. queries' = queries \ {q}
    BY <1>2 DEF RunChange
  <2>3. Loud(t)'
    <3>1. Running(t) /\ Pending(q) /\ \A p \in queries : p.task = t => p = q
      BY DEF Good, OneToken, Running, RunChange, Pending
    <3>2. Fresh(t) /\ \A i \in Places : ran[t][i] <= 1
      BY <3>1 DEF Good, Once, Over, Finishing
    <3>3. Loud(t) /\ Ahead(t)
      BY <1>0, <3>2 DEF Loud, Sound
    <3>. QED BY <1>2, <3>3, LoudRunChange
  <2>4. /\ \A i \in Places : ran'[t][i] <= 1
        /\ Fresh(t)' \/ Deleted(log', t, Len(log'))
    BY <2>3 DEF Loud
  <2>. QED BY <1>0, <2>1, <2>2, <2>4, EndsGood
<1>. QED BY <1>1, <1>2

(* The task is run, or its futures are there.                              *)
LEMMA ResultStepGood ==
  ASSUME Lay, Lay', Members, NEW q \in queries, Good(q.task),
         RunAsync(q) \/ RunFutures(q) \/ FuturesDone(q)
  PROVE  Good(q.task)'
<1>1. ResultStep(q) /\ q.node \in Nodes /\ q.task \in TaskIds
  BY RunAsyncStep, RunFuturesStep, FuturesDoneStep, QueryTypes
<1>2. PICK k \in {"future", "finish"} : GoesOn(q, k)
  <2>1. TaskResult(q) \/ GoesOn(q, "future")
    BY RunFuturesStep, FuturesDoneStep DEF RunAsync
  <2>. QED BY <2>1, TaskResultGoesOn
<1>3. \A i \in Places : ran'[q.task][i] <= 1
  <2>1. \/ ran' = ran
        \/ /\ Pending(q) /\ tasks[q.node][q.task].run_at # 0
           /\ CountRun(q.node, q.task)
    <3>1. RunAsync(q) \/ RunFutures(q) => Pending(q)
      BY DEF RunAsync, RunFutures, Pending
    <3>. QED BY <1>1, <3>1, FuturesDoneStep DEF ResultStep
  <2>. QED BY <2>1, CountGood
<1>4. \A m \in Nodes : /\ tasks'[m][q.task].running = tasks[m][q.task].running
                       /\ m # q.node =>
                            /\ tasks'[m][q.task].run_at = tasks[m][q.task].run_at
                            /\ tasks'[m][q.task].again = tasks[m][q.task].again
  BY <1>1, ResultStepEffect
<1>5. UNCHANGED <<log, pos, fwd>>
  BY <1>1 DEF ResultStep
<1>. QED BY <1>2, <1>3, <1>4, <1>5, ResultGood

LEMMA RunFinishGood ==
  ASSUME Lay, Lay', Sound, Members, NEW q \in queries, RunFinish(q), Good(q.task)
  PROVE  Good(q.task)'
<1> DEFINE n == q.node
           t == q.task
<1>0. /\ n \in Nodes /\ t \in TaskIds /\ q.kind = "finish" /\ queries' = queries \ {q}
      /\ UNCHANGED <<fwd, ran>>
  BY QueryTypes DEF RunFinish
<1>1. /\ \A p \in queries : p.task = t => p = q
      /\ \A f \in fwd : f.task # t
  BY DEF Good, OneToken
<1>2. Good(t) /\ Running(t) /\ Made(t, pos[n])
  BY <1>0 DEF Running, Good, Known
<1>3. CASE ~tasks[n][t].here
  <2>1. UNCHANGED <<log, pos, tasks>>
    BY <1>3 DEF RunFinish
  <2>2. Deleted(log, t, pos[n]) /\ pos[n] \in Nat /\ Len(log) \in Nat /\ pos[n] <= Len(log)
    BY <1>0, <1>2, <1>3, GoneDeleted, PosFacts
  <2>3. Deleted(log, t, Len(log))
    BY <2>2 DEF Deleted
  <2>4. ~Running(t)'
    BY <1>0, <1>1 DEF Running
  <2>5. ASSUME NEW m \in Nodes PROVE OnTime(m, t) /\ ~tasks[m][t].again
    <3>1. CASE m = n
      BY <1>0, <1>3, <3>1 DEF Lay, Follows, OnTime
    <3>2. CASE m # n
      <4>1. ~Finishing(m, t)
        BY <1>1, <3>2 DEF Finishing
      <4>. QED BY <1>2, <4>1 DEF Good, Secret
    <3>. QED BY <3>1, <3>2
  <2>. QED BY <1>0, <1>2, <2>1, <2>3, <2>4, <2>5, GoneGood
<1>4. CASE tasks[n][t].here
  <2>1. PICK c \in TaskChanges, at \in 0 .. MaxTime : Ends(n, c, t, at)
    BY <1>4, RunFinishShape
  <2>2. /\ UpToDate(n) /\ Commit(n, c) /\ CommitOK(n, c) /\ c.task = t
        /\ c \in TaskChanges \cup NodeChanges
    BY <2>1 DEF Ends
  <2>3. c.tp = "finish" => Fresh(t)'
    <3> SUFFICES ASSUME c.tp = "finish" PROVE Fresh(t)'
      OBVIOUS
    <3>1. \A i \in Places : i > Len(log) => ran'[t][i] = 0
      BY <1>0 DEF Sound, Ahead
    <3>. QED BY <1>0, <2>2, <3>1, FreshCommit DEF Sets
  <2>4. \A i \in Places : ran'[t][i] <= 1
    BY <1>0 DEF Good, Once
  <2>. QED BY <1>0, <2>1, <2>3, <2>4, EndsGood
<1>. QED BY <1>3, <1>4
-----------------------------------------------------------------------------
(* Every step keeps what holds as long as nothing goes wrong.              *)

LEMMA MembersSame ==
  ASSUME Members, UNCHANGED <<log, members, status>>,
         \A q \in queries' : q.node \in Founders,
         \A f \in fwd' : f.to \in Founders /\ f.pos <= Len(log)
  PROVE  Members'
BY DEF Members

LEMMA CommitCalm ==
  ASSUME Lay, Lay', Calm, NEW n \in Nodes, NEW c, Commits(n, c), Good(c.task)',
         UNCHANGED <<now, status, fwd>>, queries' \subseteq queries,
         \A q \in queries : q.task # c.task => q \in queries',
         \A u \in TaskIds : u # c.task => \A i \in Places : ran'[u][i] = ran[u][i]
  PROVE  Calm'
<1>1. /\ Len(log) \in Nat /\ Len(log') = Len(log) + 1 /\ log'[Len(log) + 1] = c
      /\ \A i \in 1 .. Len(log) : log'[i] = log[i]
      /\ AppliesNext(n, c) /\ c \in TaskChanges \cup NodeChanges
      /\ c.tp \in TaskTps /\ members' = members
  BY CommitsFacts
<1>2. Members'
  <2>1. \A i \in 1 .. Len(log') : log'[i].tp \in TaskTps
    <3> SUFFICES ASSUME NEW i \in 1 .. Len(log') PROVE log'[i].tp \in TaskTps
      OBVIOUS
    <3>1. i \in 1 .. Len(log) \/ i = Len(log) + 1
      BY <1>1
    <3>. QED BY <1>1, <3>1 DEF Calm, Members
  <2>2. \A f \in fwd' : f.to \in Founders /\ f.pos <= Len(log')
    <3> SUFFICES ASSUME NEW f \in fwd PROVE f.to \in Founders /\ f.pos <= Len(log')
      OBVIOUS
    <3>1. f.to \in Founders /\ f.pos <= Len(log) /\ f.pos \in Nat
      BY TypeParts DEF Lay, Calm, Members
    <3>. QED BY <1>1, <3>1
  <2>. QED BY <1>1, <2>1, <2>2 DEF Calm, Members
<1>3. ASSUME NEW u \in TaskIds, u # c.task PROVE Good(u)'
  <2>1. \A q \in queries : q.task = u => q \in queries'
    BY <1>3
  <2>2. Untouched(u)
    BY <1>1, <1>3, <2>1, UntouchedApply
  <2>. QED BY <2>2, UntouchedGood DEF Calm
<1>. QED BY <1>2, <1>3 DEF Calm

LEMMA FollowCalm ==
  ASSUME Lay, Lay', Calm, NEW n \in Nodes, Follow(n)
  PROVE  Calm'
<1> DEFINE c == log[pos[n] + 1]
<1>1. /\ c \in TaskChanges \cup NodeChanges /\ AppliesNext(n, c)
      /\ UNCHANGED <<now, log, status, queries, fwd, ran>>
  BY FollowApplies DEF Follow
<1>2. c.tp \in TaskTps
  <2>1. pos[n] + 1 \in 1 .. Len(log)
    BY PosFacts DEF Follow
  <2>. QED BY <2>1 DEF Calm, Members
<1>3. members' = members
  BY <1>1, <1>2, ApplyEffect DEF Lay, AppliesNext
<1>4. Members'
  BY <1>1, <1>3, MembersSame DEF Calm, Members
<1>5. ASSUME NEW t \in TaskIds PROVE Good(t)'
  <2>1. CASE c.task = t
    BY <1>2, <2>1, FollowGood DEF Calm
  <2>2. CASE c.task # t
    <3>1. Untouched(t)
      BY <1>1, <2>2, UntouchedApply
    <3>. QED BY <3>1, UntouchedGood DEF Calm
  <2>. QED BY <2>1, <2>2
<1>. QED BY <1>4, <1>5 DEF Calm

(* A step that makes no change and applies none, for the tasks it leaves   *)
(* alone.                                                                  *)
LEMMA OtherGood ==
  ASSUME Lay, Lay', Calm, NEW u \in TaskIds, UNCHANGED <<log, pos>>, now <= now',
         \A m \in Nodes : /\ tasks'[m][u].run_at = tasks[m][u].run_at
                          /\ tasks'[m][u].running = tasks[m][u].running
                          /\ tasks'[m][u].again = tasks[m][u].again,
         \A i \in Places : ran'[u][i] = ran[u][i],
         \A q \in queries : q.task = u => q \in queries',
         \A q \in queries' : q.task = u => q \in queries,
         \A f \in fwd : f.task = u => f \in fwd',
         \A f \in fwd' : f.task = u => f \in fwd
  PROVE  Good(u)'
<1>1. Untouched(u)
  BY UntouchedSame
<1>. QED BY <1>1, UntouchedGood DEF Calm

LEMMA TimerCalm ==
  ASSUME Lay, Lay', Calm, NEW n \in Nodes, Timer(n)
  PROVE  Calm'
<1>1. PICK T \in SUBSET TaskIds :
           /\ Begins(n, T)
           /\ \/ queries' = queries \cup Started(n, T) /\ fwd' = fwd
              \/ /\ queries' = queries
                 /\ \E to \in [T -> ReadyNodes(n)] : fwd' = fwd \cup Forward(n, T, to)
              \/ T = {} /\ queries' = queries /\ fwd' = fwd
  BY TimerShape
<1>2. UNCHANGED <<now, log, pos, members, status, ran>> /\ status[n] # "DOWN"
  BY DEF Timer
<1>3. /\ tasks \in [Nodes -> [TaskIds -> TaskRecords]] /\ tasks' = Mark(n, T)
      /\ pos \in [Nodes -> 0 .. MaxLog] /\ ReadyNodes(n) \in SUBSET Nodes
      /\ ReadyNodes(n) \subseteq Founders /\ n \in Founders
      /\ pos[n] <= Len(log) /\ now <= now'
  <2>1. now \in Nat
    BY TypeParts DEF Lay, Times
  <2>. QED BY <1>1, <1>2, <2>1, TypeParts, PosFacts DEF Lay, Begins, ReadyNodes, Calm, Members
<1>4. \A q \in Started(n, T) : q.node = n /\ q.task \in T
  BY StartedTypes
<1>5. ASSUME NEW to \in [T -> ReadyNodes(n)]
      PROVE  \A f \in Forward(n, T, to) :
               f.task \in T /\ f.to \in ReadyNodes(n) /\ f.pos = pos[n]
  <2>1. ReadyNodes(n) \in SUBSET Nodes /\ pos \in [Nodes -> 0 .. MaxLog]
    BY <1>3
  <2>. QED BY <2>1, ForwardTypes
<1>6. Members'
  <2>1. \A q \in queries' : q.node \in Founders
    BY <1>1, <1>3, <1>4 DEF Calm, Members
  <2>2. \A f \in fwd' : f.to \in Founders /\ f.pos <= Len(log)
    BY <1>1, <1>3, <1>5 DEF Calm, Members
  <2>. QED BY <1>2, <2>1, <2>2, MembersSame DEF Calm
<1>7. ASSUME NEW t \in TaskIds PROVE Good(t)'
  <2>1. CASE t \in T
    BY <1>1, <1>2, <2>1, TimerGood DEF Calm
  <2>2. CASE t \notin T
    <3>1. \A m \in Nodes : tasks'[m][t] = tasks[m][t]
      BY <1>3, <2>2, MarkEffect
    <3>2. /\ \A q \in queries : q.task = t => q \in queries'
          /\ \A q \in queries' : q.task = t => q \in queries
          /\ \A f \in fwd : f.task = t => f \in fwd'
          /\ \A f \in fwd' : f.task = t => f \in fwd
      BY <1>1, <1>4, <1>5, <2>2
    <3>. QED BY <1>2, <1>3, <3>1, <3>2, OtherGood
  <2>. QED BY <2>1, <2>2
<1>. QED BY <1>6, <1>7 DEF Calm

LEMMA FwdCalm ==
  ASSUME Lay, Lay', Calm, NEW f \in fwd, OnFwdTask(f), f.pos <= pos[f.to]
  PROVE  Calm'
<1> DEFINE n == f.to
           T == {f.task}
<1>1. /\ FwdStart(f) \/ FwdAgain(f) \/ FwdDrop(f)
      /\ n \in Nodes /\ f.task \in TaskIds /\ n \in Founders
      /\ UNCHANGED <<now, log, pos, members, status, lowest, ran>>
  BY FwdShape DEF Calm, Members
<1>2. /\ \/ queries' = queries \cup Started(n, T) /\ fwd' = fwd \ {f}
         \/ /\ queries' = queries
            /\ \E to \in [T -> ReadyNodes(n)] :
                 fwd' = (fwd \ {f}) \cup Forward(n, T, to)
         \/ queries' = queries /\ fwd' = fwd \ {f}
      /\ tasks' = tasks \/ tasks' = Mark(n, T)
      /\ T \in SUBSET TaskIds /\ \A u : u \in T <=> u = f.task
  BY <1>1 DEF FwdStart, FwdAgain, FwdDrop
<1>3. Good(f.task)'
  BY <1>1, FwdGood DEF Calm
<1> HIDE DEF n, T
<1>4. /\ tasks \in [Nodes -> [TaskIds -> TaskRecords]]
      /\ pos \in [Nodes -> 0 .. MaxLog] /\ ReadyNodes(n) \in SUBSET Nodes
      /\ ReadyNodes(n) \subseteq Founders /\ pos[n] <= Len(log) /\ now <= now'
  <2>1. now \in Nat
    BY TypeParts DEF Lay, Times
  <2>. QED BY <1>1, <2>1, TypeParts, PosFacts DEF Lay, ReadyNodes, Calm, Members
<1>5. \A q \in Started(n, T) : q.node = n /\ q.task \in T
  BY <1>1, <1>2, StartedTypes
<1>6. ASSUME NEW to \in [T -> ReadyNodes(n)]
      PROVE  \A e \in Forward(n, T, to) :
               e.task \in T /\ e.to \in ReadyNodes(n) /\ e.pos = pos[n]
  <2>1. n \in Nodes /\ T \in SUBSET TaskIds
    BY <1>1, <1>2
  <2>2. ReadyNodes(n) \in SUBSET Nodes /\ pos \in [Nodes -> 0 .. MaxLog]
    BY <1>4
  <2>. QED BY <2>1, <2>2 DEF Forward
<1>7. Members'
  <2>1. \A q \in queries' : q.node \in Founders
    BY <1>1, <1>2, <1>5 DEF Calm, Members
  <2>2. \A e \in fwd' : e.to \in Founders /\ e.pos <= Len(log)
    BY <1>2, <1>4, <1>6 DEF Calm, Members
  <2>. QED BY <1>1, <2>1, <2>2, MembersSame DEF Calm
<1>8. ASSUME NEW t \in TaskIds, t # f.task PROVE Good(t)'
  <2>0. t \notin T
    BY <1>2, <1>8
  <2>1. \A m \in Nodes : tasks'[m][t] = tasks[m][t]
    BY <1>1, <1>2, <1>4, <2>0, MarkEffect
  <2>2. /\ \A q \in queries : q.task = t => q \in queries'
        /\ \A q \in queries' : q.task = t => q \in queries
        /\ \A e \in fwd : e.task = t => e \in fwd'
        /\ \A e \in fwd' : e.task = t => e \in fwd
    BY <1>2, <1>5, <1>6, <1>8, <2>0
  <2>. QED BY <1>1, <1>4, <2>1, <2>2, OtherGood
<1>. QED BY <1>3, <1>7, <1>8 DEF Calm

LEMMA QueryCalm ==
  ASSUME Lay, Lay', Sound, Sound', Calm, NEW q \in queries,
         RunChange(q) \/ RunAsync(q) \/ RunFutures(q) \/ FuturesDone(q) \/ RunFinish(q)
  PROVE  Calm'
<1> DEFINE n == q.node
           t == q.task
<1>0. /\ n \in Nodes /\ t \in TaskIds /\ n \in Founders /\ Members /\ Good(t)
      /\ tasks \in [Nodes -> [TaskIds -> TaskRecords]] /\ now \in Nat
      /\ ran \in [TaskIds -> [Places -> Nat]]
  BY QueryTypes, TypeParts DEF Lay, Times, Calm, Members
<1>1. UNCHANGED <<now, status, fwd>>
  BY DEF RunChange, RunAsync, RunFutures, FuturesDone, RunFinish
<1>2. Good(t)'
  BY <1>0, RunChangeGood, ResultStepGood, RunFinishGood
<1>3. ASSUME NEW c, NEW at, Ends(n, c, t, at), queries' = queries \ {q},
             \A u \in TaskIds : u # t => \A i \in Places : ran'[u][i] = ran[u][i]
      PROVE  Calm'
  <2>1. Commits(n, c) /\ c.task = t
    BY <1>3 DEF Ends, Commits
  <2>2. Good(c.task)'
    BY <1>2, <2>1
  <2>. QED BY <1>0, <1>1, <1>3, <2>1, <2>2, CommitCalm
<1>4. ASSUME UNCHANGED <<log, pos, members>>, Passes(q),
             \A m \in Nodes, u \in TaskIds :
               u # t => /\ tasks'[m][u].run_at = tasks[m][u].run_at
                        /\ tasks'[m][u].running = tasks[m][u].running
                        /\ tasks'[m][u].again = tasks[m][u].again,
             \A u \in TaskIds : u # t => \A i \in Places : ran'[u][i] = ran[u][i]
      PROVE  Calm'
  <2>1. \A p \in queries' : p \in queries \/ (p.node = n /\ p.task = t)
    BY <1>4, PassTypes
  <2>2. \A p \in queries : p # q => p \in queries'
    BY <1>4 DEF Passes, GoesOn
  <2>3. Members'
    BY <1>0, <1>1, <1>4, <2>1, MembersSame DEF Members
  <2>4. ASSUME NEW u \in TaskIds, u # t PROVE Good(u)'
    BY <1>0, <1>1, <1>4, <2>1, <2>2, <2>4, OtherGood
  <2>. QED BY <1>2, <2>3, <2>4 DEF Calm
<1>5. ASSUME SetResult(n, t), TaskResult(q), UNCHANGED <<log, pos, members, ran>>
      PROVE  Calm'
  <2>1. Passes(q)
    BY <1>5, ResultPasses DEF Passes
  <2>. QED BY <1>0, <1>4, <1>5, <2>1, SetResultEffect
<1>6. CASE RunChange(q)
  <2>1. CASE tasks[n][t].run_at = 0
    BY <1>5, <1>6, <2>1 DEF RunChange, SetResult
  <2>2. CASE tasks[n][t].run_at # 0
    <3>1. PICK c \in TaskChanges, at \in 0 .. MaxTime : Ends(n, c, t, at)
      BY <1>6, <2>2, RunChangeShape
    <3>2. queries' = queries \ {q} /\ CountRun(n, t)
      BY <1>6, <2>2 DEF RunChange
    <3>3. \A u \in TaskIds : u # t => \A i \in Places : ran'[u][i] = ran[u][i]
      BY <1>0, <2>2, <3>2, CountRunEffect
    <3>. QED BY <1>3, <3>1, <3>2, <3>3
  <2>. QED BY <2>1, <2>2
<1>7. CASE RunAsync(q) \/ RunFutures(q) \/ FuturesDone(q)
  <2>1. ResultStep(q)
    BY <1>7, RunAsyncStep, RunFuturesStep, FuturesDoneStep
  <2>2. UNCHANGED <<log, pos, members>> /\ Passes(q)
    BY <2>1 DEF ResultStep
  <2>3. \A m \in Nodes, u \in TaskIds :
          u # t => /\ tasks'[m][u].run_at = tasks[m][u].run_at
                   /\ tasks'[m][u].running = tasks[m][u].running
                   /\ tasks'[m][u].again = tasks[m][u].again
    BY <2>1, ResultStepEffect
  <2>4. \A u \in TaskIds : u # t => \A i \in Places : ran'[u][i] = ran[u][i]
    BY <1>0, <2>1, CountRunEffect DEF ResultStep
  <2>. QED BY <1>4, <2>2, <2>3, <2>4
<1>8. CASE RunFinish(q)
  <2>0. queries' = queries \ {q} /\ ran' = ran
    BY <1>8 DEF RunFinish
  <2>1. CASE ~tasks[n][t].here
    <3>1. UNCHANGED <<log, pos, members, tasks>> /\ Passes(q)
      BY <1>8, <2>0, <2>1 DEF RunFinish, Passes
    <3>. QED BY <1>4, <2>0, <3>1
  <2>2. CASE tasks[n][t].here
    <3>1. PICK c \in TaskChanges, at \in 0 .. MaxTime : Ends(n, c, t, at)
      BY <1>8, <2>2, RunFinishShape
    <3>. QED BY <1>3, <2>0, <3>1
  <2>. QED BY <2>1, <2>2
<1>. QED BY <1>6, <1>7, <1>8

LEMMA CalmNext ==
  ASSUME Lay, Lay', Sound, Sound', Calm, faults = 0, faults' = 0, [Next]_vars
  PROVE  Calm'
<1>0. now \in Nat /\ Members /\ status \in [Nodes -> {"READY", "AWAY", "DOWN"}]
  BY TypeParts DEF Lay, Times, Calm
<1>1. ASSUME Members', now <= now', UNCHANGED <<log, pos, tasks, queries, fwd, ran>>
      PROVE  Calm'
  <2>1. \A t \in TaskIds : Good(t)'
    BY <1>1, OtherGood
  <2>. QED BY <1>1, <2>1 DEF Calm
<1>2. CASE UNCHANGED vars
  <2>1. Members'
    BY <1>0, <1>2 DEF vars, Members
  <2>. QED BY <1>0, <1>1, <1>2, <2>1 DEF vars
<1>3. CASE Tick
  <2>1. now' = now + 1
        /\ UNCHANGED <<log, pos, members, status, tasks, queries, fwd, ran>>
    BY <1>3 DEF Tick
  <2>2. Members'
    BY <1>0, <2>1 DEF Members
  <2>. QED BY <1>0, <1>1, <2>1, <2>2
<1>4. ASSUME NEW n \in Nodes, GoAway(n) \/ ComeBack(n) PROVE Calm'
  <2>1. UNCHANGED <<now, log, pos, members, tasks, queries, fwd, ran>>
    BY <1>4 DEF GoAway, ComeBack, Status
  <2>2. /\ status[n] # "DOWN" /\ status'[n] # "DOWN"
        /\ \A m \in Nodes : m # n => status'[m] = status[m]
    BY <1>0, <1>4 DEF GoAway, ComeBack, Status
  <2>3. \E m \in Founders : status'[m] = "READY"
    <3>1. CASE GoAway(n)
      <4>1. PICK m \in ReadyNodes(n) : TRUE
        BY <3>1 DEF GoAway
      <4>2. m \in Founders /\ m # n /\ m \in Nodes /\ status[m] = "READY"
        BY <1>0, <4>1, TaskNodesAssumption DEF ReadyNodes, Members
      <4>. QED BY <2>2, <4>2
    <3>2. CASE ComeBack(n)
      <4>1. n \in Founders /\ status'[n] = "READY"
        BY <1>0, <2>2, <3>2 DEF ComeBack, Status, Members
      <4>. QED BY <4>1
    <3>. QED BY <1>4, <3>1, <3>2
  <2>4. \A m \in Nodes : m \in Founders <=> status'[m] # "DOWN"
    BY <1>0, <2>2 DEF Members
  <2>5. Members'
    BY <1>0, <2>1, <2>3, <2>4 DEF Members
  <2>. QED BY <1>0, <1>1, <2>1, <2>5
<1>5. ASSUME NEW n \in Nodes, Follow(n) PROVE Calm'
  BY <1>5, FollowCalm
<1>6. ASSUME NEW n \in Nodes, Timer(n) PROVE Calm'
  BY <1>6, TimerCalm
<1>7. ASSUME NEW n \in Nodes, ClientQuery(n) PROVE Calm'
  <2>1. PICK c \in TaskChanges :
          /\ UpToDate(n) /\ Commit(n, c) /\ CommitOK(n, c)
          /\ c.tp \in {"new", "cancel", "del"}
    BY <1>7, ClientShape
  <2>2. Commits(n, c) /\ c.task \in TaskIds
    BY <2>1 DEF Commits, TaskChanges
  <2>3. UNCHANGED <<now, status, queries, fwd, ran>>
    BY <1>7 DEF ClientQuery
  <2>4. Good(c.task)'
    <3>1. Members /\ Good(c.task)
      BY <1>0, <2>2 DEF Calm
    <3>. QED BY <2>1, <2>2, <2>3, <3>1, ClientGood
  <2>. QED BY <2>2, <2>3, <2>4, CommitCalm
<1>8. ASSUME NEW n \in Nodes, Restart(n) PROVE FALSE
  <2>1. {log[i].node : i \in {j \in 1 .. Len(log) : log[j].tp = "new_node"}} = {}
    BY <1>0 DEF Members, TaskTps
  <2>2. n \in Founders /\ status[n] = "DOWN"
    BY <1>8, <2>1 DEF Restart
  <2>. QED BY <1>0, <2>2 DEF Members
<1>9. ASSUME NEW f \in fwd, OnFwdTask(f) PROVE Calm'
  <2>1. f.pos <= pos[f.to]
    BY <1>9, FwdShape
  <2>. QED BY <1>9, <2>1, FwdCalm
<1>10. ASSUME NEW q \in queries, RunChange(q) \/ RunAsync(q) \/ RunFutures(q)
                                  \/ FuturesDone(q) \/ RunFinish(q)
       PROVE  Calm'
  BY <1>10, QueryCalm
<1>11. ASSUME NEW n \in Nodes, Crash(n) PROVE FALSE
  BY <1>11 DEF Crash, Fault
<1>12. ASSUME NEW q \in queries, RunFinishDies(q) \/ ChangeFails(q) PROVE FALSE
  BY <1>12 DEF RunFinishDies, ChangeFails, Fault
<1>13. ASSUME NEW n \in Nodes, NEW m \in Nodes, NewNode(n, m) \/ DelNode(n, m) PROVE FALSE
  BY <1>13 DEF NewNode, DelNode, Fault
<1>. QED BY <1>2, <1>3, <1>4, <1>5, <1>6, <1>7, <1>8, <1>9, <1>10, <1>11, <1>12, <1>13
         DEF Next, NodeStep, QueryStep

LEMMA CalmInit == Init => Calm
<1> SUFFICES ASSUME Init PROVE Calm
  OBVIOUS
<1>1. /\ \A t \in TaskIds, i \in Places : ran[t][i] = 0
      /\ \A n \in Nodes, t \in TaskIds : tasks[n][t] = NoTask
      /\ Len(log) = 0 /\ queries = {} /\ fwd = {} /\ \A n \in Nodes : pos[n] = 0
  BY DEF Init
<1>2. Members
  <2>1. \A n \in Nodes : members[n] = Founders /\ (n \in Founders <=> status[n] # "DOWN")
    BY DEF Init
  <2>2. \E n \in Founders : status[n] = "READY"
    BY TaskNodesAssumption DEF Init
  <2>. QED BY <1>1, <2>1, <2>2 DEF Members
<1>3. ASSUME NEW t \in TaskIds PROVE Good(t)
  <2>1. OneToken(t) /\ Known(t) /\ ~Running(t)
    BY <1>1 DEF OneToken, Known, Running
  <2>2. Once(t)
    <3>1. Fresh(t)
      BY <1>1 DEF Fresh
    <3>. QED BY <1>1, <3>1 DEF Once
  <2>3. ASSUME NEW o \in Founders PROVE OneStart(o, t)
    <3>1. o \in Nodes
      BY TaskNodesAssumption
    <3>2. pos[o] = 0
      BY <1>1, <3>1
    <3>3. pos[o] + 1 .. Len(log) = {}
      BY <1>1, <3>2
    <3>. QED BY <2>1, <3>3 DEF OneStart
  <2>4. ASSUME NEW n \in Nodes PROVE Secret(n, t) /\ ~tasks[n][t].running
    BY <1>1, TaskTypes DEF Secret, OnTime
  <2>. QED BY <2>1, <2>2, <2>3, <2>4 DEF Good
<1>. QED BY <1>2, <1>3 DEF Calm

LEMMA TInvInit == Init => TInv
BY LayInit, SoundInit, CalmInit DEF TInv

LEMMA TInvNext == TInv /\ [Next]_vars => TInv'
<1> SUFFICES ASSUME TInv, [Next]_vars PROVE TInv'
  OBVIOUS
<1>1. Lay' /\ Lay /\ Sound
  BY LayNext DEF TInv
<1>2. Sound'
  BY <1>1, SoundNext
<1>3. faults' = 0 => faults = 0
  <2>0. faults \in Nat
    BY <1>1, TypeParts DEF Lay
  <2>1. faults' = faults \/ faults' = faults + 1
    BY Zenon DEF Next, vars, NodeStep, QueryStep, Tick, Follow, Timer, ClientQuery, Restart,
       Crash, Fault, GoAway, ComeBack, Status, OnFwdTask, RunChange, RunAsync, RunFutures,
       FuturesDone, RunFinish, RunFinishDies, ChangeFails, NewNode, DelNode
  <2>. QED BY <2>0, <2>1
<1>4. faults' = 0 => Calm'
  BY <1>1, <1>2, <1>3, CalmNext DEF TInv
<1>. QED BY <1>1, <1>2, <1>4 DEF TInv
-----------------------------------------------------------------------------
(* The theorems.                                                           *)

(* A mark that a task runs never outlives what it stands for: as long as   *)
(* nothing fails, a task that is marked on some node is run by a query, or *)
(* is being forwarded, or the change that ends it has yet to be applied    *)
(* there, so that its owner will start it again (ti_vtask_run, vtask__fwd, *)
(* ti_tasks_vtask_finish).                                                 *)
THEOREM MarksEndHolds == Spec => []MarksEnd
<1>1. TInv => MarksEnd
  BY DEF TInv, MarksEnd, Calm, Good
<1>. QED BY <1>1, TInvInit, TInvNext, PTL DEF Spec

(* A task runs at most once each time its time is set: one with side       *)
(* effects that makes no futures whatever crashes, is lost, joins or       *)
(* leaves (ti_query_run_task runs and finishes it in one change), any      *)
(* other one as long as nothing fails.  Also when it asks to run again at  *)
(* the time it runs for.                                                   *)
THEOREM RunsOnceHolds == Spec => []RunsOnce
<1>1. TInv => RunsOnce
  BY DEF TInv, RunsOnce, Sound, Loud, Calm, Good, Once
<1>. QED BY <1>1, TInvInit, TInvNext, PTL DEF Spec

(* No task runs before its time, as long as nothing fails: a node that     *)
(* runs a task (ti_query_run_task, vtask__run_async_cb) knows the time     *)
(* that was set last, and that time has come.                              *)
THEOREM NeverEarlyHolds == Spec => NeverEarly
<1>1. ASSUME TInv, [Next]_vars, faults = 0, NEW t \in TaskIds, NEW i \in Places,
             ran'[t][i] # ran[t][i]
      PROVE  log[i].at <= now
  <2>0. Lay /\ Members /\ \A u \in TaskIds : Good(u)
    BY <1>1 DEF TInv, Calm
  <2>1. PICK q \in queries : /\ Pending(q) /\ tasks[q.node][q.task].run_at # 0
                             /\ CountRun(q.node, q.task)
    BY <1>1, Zenon DEF Next, vars, NodeStep, QueryStep, Tick, Follow, Timer, ClientQuery, Restart,
       Crash, GoAway, ComeBack, Status, OnFwdTask, RunChange, RunAsync, RunFutures, FuturesDone,
       RunFinish, RunFinishDies, ChangeFails, NewNode, DelNode, Dies, Pending
  <2>2. q.node \in Nodes /\ q.task \in TaskIds
    BY <2>0, QueryTypes
  <2>3. t = q.task /\ i = SetBy(q.node, q.task)
    BY <1>1, <2>0, <2>1, <2>2, CountRunEffect
  <2>4. Good(q.task)
    BY <2>0, <2>2
  <2>5. log[SetBy(q.node, q.task)].at <= now
    BY <2>0, <2>1, <2>4, RunInTime
  <2>. QED BY <2>3, <2>5
<1>2. TInv /\ [Next]_vars =>
        [faults = 0 => \A t \in TaskIds, i \in Places :
           ran'[t][i] # ran[t][i] => log[i].at <= now]_vars
  BY <1>1
<1>. QED BY <1>2, TInvInit, TInvNext, PTL DEF Spec, NeverEarly
=============================================================================
