------------------------------- MODULE Tasks --------------------------------
(***************************************************************************)
(* Scheduled tasks (ti/tasks.c, ti/vtask.c, the task queries of            *)
(* ti/query.c, nodes__on_fwd_task, and the task changes of ti/ctask.c).    *)
(*                                                                         *)
(* Every node has every task.  The owner of a task, by the task id modulo  *)
(* the number of nodes, looks every second whether it is time, and starts  *)
(* it as a query of its own; when it is away it forwards the task to a     *)
(* READY node.  A task that has side effects runs as a change, which also  *)
(* finishes the task; another one runs at once, and one that makes futures *)
(* has to wait for them: these are finished by a change of their own.      *)
(* From its start until that change comes by, the task has a RUNNING mark  *)
(* on the owner (and on the node it was forwarded to), which is not part   *)
(* of the replicated state.  Nor is the result of a task (verr), until     *)
(* that change brings it to the other nodes.                               *)
(*                                                                         *)
(* Changes are one log here, which every node applies in its order, and a  *)
(* master appends to only when it has applied all of it: what ChangesLog   *)
(* shows of Changes.  Time passes in ticks, and 0 is "not scheduled".      *)
(***************************************************************************)
EXTENDS Naturals, Sequences, FiniteSets, FiniteSetsExt

CONSTANTS
  Nodes,      \* the node ids
  Founders,   \* the nodes of the cluster at first
  Entry,      \* the nodes that clients are connected to
  Leavers,    \* the nodes that go into away mode
  Mortals,    \* the nodes that may crash
  TaskIds,    \* the ids of the tasks that may be made
  Quiet,      \* the tasks without side effects
  Futures,    \* the tasks that may make futures when they run
  Faults,     \* what may go wrong or change: see the actions that mention it
  MaxFaults,  \* bound on how often
  MaxTime,    \* bound on the time
  MaxLog      \* bound on the number of changes

ASSUME TaskNodesAssumption ==
  /\ Nodes \subseteq Nat /\ IsFiniteSet(Nodes)
  /\ Founders \subseteq Nodes /\ Founders # {}
  /\ Entry \subseteq Nodes /\ Leavers \subseteq Nodes /\ Mortals \subseteq Nodes
ASSUME TaskIdsAssumption ==
  TaskIds \subseteq Nat /\ Quiet \subseteq TaskIds /\ Futures \subseteq TaskIds
ASSUME TaskFaultsAssumption == Faults \subseteq {"crash", "change", "late", "add", "del"}
ASSUME TaskBoundsAssumption == {MaxFaults, MaxTime, MaxLog} \subseteq Nat /\ MaxTime > 0

VARIABLES
  now,      \* the time
  log,      \* the changes of the cluster
  pos,      \* per node: how many of them it has applied
  members,  \* per node: the nodes it knows of (nodes->vec)
  status,   \* per node: READY, AWAY or DOWN
  tasks,    \* per node: the tasks, as this node has them
  lowest,   \* per node: tasks->lowest_run_at
  queries,  \* the task queries that were started, [node, task, kind]
  fwd,      \* tasks that are forwarded, [to, task, pos]: pos is what was
            \* applied where they come from
  ran,      \* history: per task and change that set its time, how often it was
            \* run for that
  faults    \* how often something went wrong

vars == <<now, log, pos, members, status, tasks, lowest, queries, fwd, ran, faults>>

Times == 1 .. MaxTime
Places == 1 .. MaxLog    \* in the log
Never == MaxTime + 1    \* UINT64_MAX
NoTask == [here |-> FALSE, run_at |-> 0, running |-> FALSE, again |-> FALSE,
           verr |-> "NULL"]
Task(at, verr) == [NoTask EXCEPT !.here = TRUE, !.run_at = at, !.verr = verr]

Init ==
  /\ now = 1 /\ log = <<>>
  /\ pos = [n \in Nodes |-> 0]
  /\ members = [n \in Nodes |-> Founders]
  /\ status = [n \in Nodes |-> IF n \in Founders THEN "READY" ELSE "DOWN"]
  /\ tasks = [n \in Nodes |-> [t \in TaskIds |-> NoTask]]
  /\ lowest = [n \in Nodes |-> 0]
  /\ queries = {} /\ fwd = {}
  /\ ran = [t \in TaskIds |-> [i \in Places |-> 0]]
  /\ faults = 0
-----------------------------------------------------------------------------
(* The place of n among the nodes it knows of (ti_update_rel_id).          *)
RelId(n, M) == Cardinality({m \in M : m < n})

(* Mutant: a node starts the tasks of the other nodes too.                 *)
OwnsAll(n, M, t) == n \in M

(* The tasks that are its own.                                             *)
Owns(n, M, t) == t % Cardinality(M) = RelId(n, M)

Lower(low, own, at) == IF own /\ at < low THEN at ELSE low

(* Mutant: the mark is not taken away.                                     *)
ApplyFinishMarked(n, c) ==
  /\ tasks' = [tasks EXCEPT ![n][c.task].run_at = c.at, ![n][c.task].verr = c.verr,
                            ![n][c.task].again = FALSE]
  /\ lowest' = [lowest EXCEPT ![n] =
                  Lower(@, c.at # 0 /\ Owns(n, members[n], c.task), c.at)]

(* ti_tasks_vtask_finish.                                                  *)
ApplyFinish(n, c) ==
  /\ tasks' = [tasks EXCEPT ![n][c.task] = Task(c.at, c.verr)]
  /\ lowest' = [lowest EXCEPT ![n] =
                  Lower(@, c.at # 0 /\ Owns(n, members[n], c.task), c.at)]

(* Mutant: a new node does not make the others look at all tasks again.    *)
ApplyNewNodeQuietly(n, m) ==
  /\ members' = [members EXCEPT ![n] = @ \cup {m}]
  /\ UNCHANGED lowest

(* ti_nodes_new_node, ti_tasks_reset_lowest_run_at.                        *)
ApplyNewNode(n, m) ==
  /\ members' = [members EXCEPT ![n] = @ \cup {m}]
  /\ lowest' = [lowest EXCEPT ![n] = 0]

(* A task is made, cancelled or deleted.  A cancelled task keeps its marks *)
(* (ti_vtask_cancel); a deleted one is emptied, for those who still hold   *)
(* it (ti_vtask_del).                                                      *)
ApplyNew(n, c) ==
  /\ tasks' = [tasks EXCEPT ![n][c.task] = Task(c.at, c.verr)]
  /\ lowest' = [lowest EXCEPT ![n] = Lower(@, Owns(n, members[n], c.task), c.at)]

ApplyCancel(n, c) ==
  /\ tasks' = [tasks EXCEPT ![n][c.task] = [@ EXCEPT !.run_at = 0, !.verr = c.verr]]
  /\ UNCHANGED lowest

ApplyDel(n, c) ==
  /\ tasks' = [tasks EXCEPT ![n][c.task] = NoTask]
  /\ UNCHANGED lowest

(* ti_nodes_del_node: tasks get another owner, and lowest_run_at stays.    *)
ApplyDelNode(n, m) ==
  /\ members' = [members EXCEPT ![n] = @ \ {m}]
  /\ UNCHANGED lowest

(* Node n applies the change c.                                            *)
Apply(n, c) ==
  \/ c.tp = "new" /\ ApplyNew(n, c) /\ UNCHANGED members
  \/ c.tp = "cancel" /\ ApplyCancel(n, c) /\ UNCHANGED members
  \/ c.tp = "del" /\ ApplyDel(n, c) /\ UNCHANGED members
  \/ c.tp = "finish" /\ ApplyFinish(n, c) /\ UNCHANGED members
  \/ c.tp = "new_node" /\ ApplyNewNode(n, c.node) /\ UNCHANGED tasks
  \/ c.tp = "del_node" /\ ApplyDelNode(n, c.node) /\ UNCHANGED tasks

Change(tp, t, at, verr) == [tp |-> tp, task |-> t, at |-> at, verr |-> verr]
NodeChange(tp, m) == [tp |-> tp, node |-> m]

(* ti_nodes_quorum, ti_nodes_has_quorum.                                   *)
HasQuorum(n) ==
  LET up == {m \in members[n] : status[m] # "DOWN"}
      size == Cardinality(members[n])
  IN  Cardinality(up) > IF size = 2 /\ up # members[n] THEN 0 ELSE size \div 2

(* Node n makes the change c, as its master.                               *)
UpToDate(n) ==
  status[n] # "DOWN" /\ HasQuorum(n) /\ pos[n] = Len(log) /\ Len(log) < MaxLog
Commit(n, c) ==
  /\ log' = Append(log, c)
  /\ pos' = [pos EXCEPT ![n] = @ + 1]
  /\ Apply(n, c)

(* Another node applies it.                                                *)
Follow(n) ==
  /\ status[n] # "DOWN" /\ pos[n] < Len(log)
  /\ pos' = [pos EXCEPT ![n] = @ + 1]
  /\ Apply(n, log[pos[n] + 1])
  /\ UNCHANGED <<now, log, status, queries, fwd, ran, faults>>

(* Clients make tasks, with an id that no task had, cancel and delete them *)
(* (do__f_task, do__f_cancel, do__f_del_vtask).                            *)
NewTask(n, t) ==
  /\ ~\E i \in 1 .. Len(log) : log[i].tp = "new" /\ log[i].task = t
  /\ \E at \in Times : Commit(n, Change("new", t, at, "NULL"))

CancelTask(n, t) ==
  tasks[n][t].run_at # 0 /\ Commit(n, Change("cancel", t, 0, "error"))

DelTask(n, t) == tasks[n][t].here /\ Commit(n, Change("del", t, 0, "NULL"))

ClientQuery(n) ==
  /\ n \in Entry /\ status[n] = "READY" /\ UpToDate(n)
  /\ \E t \in TaskIds : NewTask(n, t) \/ CancelTask(n, t) \/ DelTask(n, t)
  /\ UNCHANGED <<now, status, queries, fwd, ran, faults>>
-----------------------------------------------------------------------------
Query(n, t, kind) == [node |-> n, task |-> t, kind |-> kind]

(* The queries with which n starts the tasks T (ti_vtask_run): as changes, *)
(* or, without side effects, on its own (vtask__run_async).                *)
Started(n, T) ==
  {Query(n, t, IF t \in Quiet THEN "async" ELSE "change") : t \in T}

ReadyNodes(n) == {m \in members[n] \ {n} : status[m] = "READY"}

(* tasks__handle_vtask: the tasks that n has to look after.                *)
Waiting(n) ==
  {t \in TaskIds : /\ tasks[n][t].run_at # 0 /\ ~tasks[n][t].running
                   /\ Owns(n, members[n], t)}

(* vtask__fwd: n forwards the tasks T.                                     *)
Forward(n, T, to) == {[to |-> to[t], task |-> t, pos |-> pos[n]] : t \in T}

Mark(n, T) == [tasks EXCEPT ![n] =
                 [t \in TaskIds |-> IF t \in T THEN [@[t] EXCEPT !.running = TRUE]
                                    ELSE @[t]]]

(* Mutant: when one task is due all of them are started.                   *)
DueAll(n) == Waiting(n)

Due(n) == {t \in Waiting(n) : tasks[n][t].run_at <= now}

(* tasks__cb: the timer of n fires.  What cannot be started, because there *)
(* is no quorum or no READY node, stays scheduled.                         *)
Timer(n) ==
  LET due == Due(n)
      startable == {t \in due : t \in Quiet \/ HasQuorum(n)}
      begin(T) == /\ tasks' = Mark(n, T)
                  /\ lowest' = [lowest EXCEPT ![n] =
                       Min({Never} \cup {tasks[n][t].run_at : t \in Waiting(n) \ T})]
  IN
  /\ status[n] # "DOWN" /\ lowest[n] <= now
  /\ \/ /\ status[n] = "READY"
        /\ begin(startable)
        /\ queries' = queries \cup Started(n, startable)
        /\ UNCHANGED fwd
     \/ /\ status[n] # "READY" /\ ReadyNodes(n) # {}
        /\ begin(due)
        /\ \E to \in [due -> ReadyNodes(n)] : fwd' = fwd \cup Forward(n, due, to)
        /\ UNCHANGED queries
     \/ /\ status[n] # "READY" /\ ReadyNodes(n) = {}
        /\ begin({})
        /\ UNCHANGED <<fwd, queries>>
  /\ UNCHANGED <<now, log, pos, members, status, ran, faults>>

Fault(kind) == kind \in Faults /\ faults < MaxFaults /\ faults' = faults + 1

(* A forwarded task arrives (nodes__on_fwd_task): it is started, or        *)
(* forwarded again by a node that goes away; a node that has no such task, *)
(* or cannot start it, drops it.  The changes that the sender had applied  *)
(* have arrived as well by now, unless they are late: then the task itself *)
(* may be missing here.                                                    *)
OnFwdTask(f) ==
  LET n == f.to
      t == f.task
      startable == t \in Quiet \/ HasQuorum(n)
  IN
  /\ status[n] # "DOWN"
  /\ \/ f.pos <= pos[n] /\ UNCHANGED faults
     \/ f.pos > pos[n] /\ Fault("late")
  /\ \/ /\ status[n] = "READY" /\ tasks[n][t].here /\ startable
        /\ queries' = queries \cup Started(n, {t})
        /\ tasks' = Mark(n, {t})
        /\ fwd' = fwd \ {f}
     \/ /\ status[n] = "AWAY" /\ tasks[n][t].here
        /\ \E m \in ReadyNodes(n) :
             fwd' = (fwd \ {f}) \cup Forward(n, {t}, [x \in {t} |-> m])
        /\ tasks' = Mark(n, {t})
        /\ UNCHANGED queries
     \/ /\ \/ ~tasks[n][t].here
           \/ status[n] = "READY" /\ ~startable
           \/ status[n] = "AWAY" /\ ReadyNodes(n) = {}
        /\ fwd' = fwd \ {f}
        /\ UNCHANGED <<queries, tasks>>
  /\ UNCHANGED <<now, log, pos, members, status, lowest, ran>>
-----------------------------------------------------------------------------
(* Mutant: the check that the time is in range is left out.                *)
OutcomesAnyTime(n, t) ==
  {<<0, "ok">>, <<0, "error">>} \cup {<<at, "ok">> : at \in {i \in 1 .. Never : i >= now}}

(* Running a task: when it wants to run again (do__f_again_in,             *)
(* do__f_again_at), 0 for never, and its result, which matters only then.  *)
(* That may be the time it runs for once more.                             *)
Outcomes(n, t) ==
  {<<0, "ok">>, <<0, "error">>} \cup {<<at, "ok">> : at \in {i \in Times : i >= now}}

(* The change that set the time of t, as n has it.                         *)
SetBy(n, t) ==
  Max({i \in 1 .. pos[n] : log[i].tp \in {"new", "finish"} /\ log[i].task = t})
CountRun(n, t) == ran' = [ran EXCEPT ![t][SetBy(n, t)] = @ + 1]

(* query__task_finish: a task that went well and is not scheduled again is *)
(* deleted.                                                                *)
TaskFinish(t, at, verr) ==
  IF at = 0 /\ verr = "ok" THEN Change("del", t, 0, "NULL")
                           ELSE Change("finish", t, at, verr)

(* ti_query_task_result: the query is done, and goes on as one that        *)
(* finishes the task, in a change of its own; without a quorum it ends.    *)
TaskResult(q) ==
  queries' = (queries \ {q}) \cup
               {[p EXCEPT !.kind = "finish"] : p \in IF HasQuorum(q.node) THEN {q} ELSE {}}

(* The task asks to run again, or not, and has the result verr: a secret   *)
(* of this node until the task is finished.                                *)
Done(n, t, at, verr) ==
  [tasks EXCEPT ![n][t] = [tasks[n][t] EXCEPT !.verr = verr,
                             !.run_at = IF at = 0 THEN @ ELSE at,
                             !.again = @ \/ at # 0]]

(* The change of query q has its turn (ti_query_run_task).  A task that is *)
(* gone or cancelled by now is not run, but finished.                      *)
RunChange(q) ==
  LET n == q.node
      t == q.task
  IN
  /\ q.kind = "change" /\ UpToDate(n)
  /\ \/ /\ tasks[n][t].run_at = 0
        /\ TaskResult(q)
        /\ tasks' = [tasks EXCEPT ![n][t].verr = "ok"]
        /\ UNCHANGED <<log, pos, members, lowest, ran>>
     \/ /\ tasks[n][t].run_at # 0
        /\ CountRun(n, t)
        /\ queries' = queries \ {q}
        /\ \E o \in Outcomes(n, t) : Commit(n, TaskFinish(t, o[1], o[2]))
  /\ UNCHANGED <<now, status, fwd, faults>>

(* A task without side effects runs (vtask__run_async_cb).                 *)
RunAsync(q) ==
  LET n == q.node
      t == q.task
  IN
  /\ q.kind = "async"
  /\ TaskResult(q)
  /\ \/ /\ tasks[n][t].run_at = 0
        /\ tasks' = [tasks EXCEPT ![n][t].verr = "ok"]
        /\ UNCHANGED ran
     \/ /\ tasks[n][t].run_at # 0
        /\ CountRun(n, t)
        /\ \E o \in Outcomes(n, t) : tasks' = Done(n, t, o[1], o[2])
  /\ UNCHANGED <<now, log, pos, members, status, lowest, fwd, faults>>

(* A task that makes futures runs, in a change or not: a change does not   *)
(* finish it, and has nothing about it.  Its query waits for the futures,  *)
(* unless the task itself failed (ti_query_done).                          *)
RunFutures(q) ==
  LET n == q.node
      t == q.task
  IN
  /\ q.kind \in {"change", "async"} /\ (q.kind = "change" => UpToDate(n))
  /\ t \in Futures /\ tasks[n][t].run_at # 0
  /\ CountRun(n, t)
  /\ \E o \in Outcomes(n, t) :
       \/ /\ queries' = (queries \ {q}) \cup {[q EXCEPT !.kind = "future"]}
          /\ tasks' = Done(n, t, o[1], tasks[n][t].verr)
       \/ /\ TaskResult(q)
          /\ tasks' = Done(n, t, o[1], "error")
  /\ UNCHANGED <<now, log, pos, members, status, lowest, fwd, faults>>

(* The futures are there (ti_query_on_then_result,                         *)
(* ti_query_on_future_result).  They too may let the task run again, if it *)
(* was not cancelled or deleted in the meantime (ti_query_task_context).   *)
FuturesDone(q) ==
  LET n == q.node
      t == q.task
  IN
  /\ q.kind = "future"
  /\ TaskResult(q)
  /\ \E o \in Outcomes(n, t) :
       /\ o[1] # 0 => tasks[n][t].run_at # 0
       /\ tasks' = Done(n, t, o[1], o[2])
  /\ UNCHANGED <<now, log, pos, members, status, lowest, fwd, ran, faults>>

(* The change that finishes the task (ti_query_run_task_finish).           *)
RunFinish(q) ==
  LET n == q.node
      t == q.task
      old == tasks[n][t]
  IN
  /\ q.kind = "finish" /\ UpToDate(n) /\ old.verr # "NULL"
  /\ queries' = queries \ {q}
  /\ \/ ~old.here /\ UNCHANGED <<log, pos, members, tasks, lowest>>
     \/ old.here /\ Commit(n, TaskFinish(t, IF old.again THEN old.run_at ELSE 0, old.verr))
  /\ UNCHANGED <<now, status, fwd, ran, faults>>

(* A node dies, with its memory and the queries it had started.            *)
Dies(n) ==
  /\ status' = [status EXCEPT ![n] = "DOWN"]
  /\ queries' = {q \in queries : q.node # n}
  /\ fwd' = {f \in fwd : f.to # n}
  /\ pos' = [pos EXCEPT ![n] = 0]
  /\ tasks' = [tasks EXCEPT ![n] = [t \in TaskIds |-> NoTask]]
  /\ lowest' = [lowest EXCEPT ![n] = 0]
  /\ UNCHANGED <<now, log, members, ran>>

(* RunFinish when the task was deleted after its result was set, and the   *)
(* result with it (vtask__clear): the node reads through a null pointer.   *)
RunFinishDies(q) ==
  /\ q.kind = "finish" /\ UpToDate(q.node) /\ tasks[q.node][q.task].verr = "NULL"
  /\ faults' = faults + 1
  /\ Dies(q.node)
-----------------------------------------------------------------------------
Tick ==
  /\ now < MaxTime
  /\ now' = now + 1
  /\ UNCHANGED <<log, pos, members, status, tasks, lowest, queries, fwd, ran, faults>>

Status(n, from, to) ==
  /\ status[n] = from
  /\ status' = [status EXCEPT ![n] = to]
  /\ UNCHANGED <<now, log, pos, members, tasks, lowest, queries, fwd, ran, faults>>

(* Away mode: while a node goes away another one stays READY (Away).  Both *)
(* AWAY_SOON and AWAY are "away" here: ten seconds pass in between, and    *)
(* what was forwarded to the node has arrived before it is AWAY, when it   *)
(* would drop it (away__waiter_pre_cb).                                    *)
GoAway(n) == n \in Leavers /\ ReadyNodes(n) # {} /\ Status(n, "READY", "AWAY")
ComeBack(n) == Status(n, "AWAY", "READY")

Crash(n) == n \in Mortals /\ Fault("crash") /\ status[n] # "DOWN" /\ Dies(n)

(* It starts again, or is new, with all changes (Archive, Sync), and with  *)
(* no marks (storetasks); it looks at all tasks.                           *)
Restart(n) ==
  LET at(t) == LET past == {i \in 1 .. Len(log) : log[i].tp \in
                              {"new", "cancel", "del", "finish"} /\ log[i].task = t}
               IN  IF past = {} THEN NoTask
                   ELSE IF log[Max(past)].tp = "del" THEN NoTask
                   ELSE Task(log[Max(past)].at, log[Max(past)].verr)
      joined == {log[i].node : i \in {j \in 1 .. Len(log) : log[j].tp = "new_node"}}
      left == {log[i].node : i \in {j \in 1 .. Len(log) : log[j].tp = "del_node"}}
  IN
  /\ status[n] = "DOWN"
  /\ n \in (Founders \cup joined) \ left
  /\ status' = [status EXCEPT ![n] = "READY"]
  /\ pos' = [pos EXCEPT ![n] = Len(log)]
  /\ members' = [members EXCEPT ![n] = (Founders \cup joined) \ left]
  /\ tasks' = [tasks EXCEPT ![n] = [t \in TaskIds |-> at(t)]]
  /\ lowest' = [lowest EXCEPT ![n] = 0]
  /\ UNCHANGED <<now, log, queries, fwd, ran, faults>>

(* The change of a query is killed, or has no quorum any more: the query   *)
(* ends, and nobody is told (changes__loop, ti_query_task_result).         *)
ChangeFails(q) ==
  /\ Fault("change")
  /\ q.kind \in {"change", "finish"}
  /\ queries' = queries \ {q}
  /\ UNCHANGED <<now, log, pos, members, status, tasks, lowest, fwd, ran>>

(* A client adds a node, when all are connected, or removes one that is    *)
(* down (do__f_new_node, ti_nodes_check_add, do__f_del_node).              *)
NewNode(n, m) ==
  /\ Fault("add")
  /\ n \in Entry /\ status[n] = "READY" /\ UpToDate(n)
  /\ m \notin members[n] /\ status[m] = "DOWN"
  /\ \A x \in members[n] : status[x] # "DOWN"
  /\ ~\E i \in 1 .. Len(log) : log[i].tp = "del_node"
  /\ Commit(n, NodeChange("new_node", m))
  /\ UNCHANGED <<now, status, queries, fwd, ran>>

DelNode(n, m) ==
  /\ "del" \in Faults /\ faults' = faults + 1
  /\ n \in Entry /\ status[n] = "READY" /\ UpToDate(n)
  /\ m \in members[n] /\ status[m] = "DOWN"
  /\ Commit(n, NodeChange("del_node", m))
  /\ UNCHANGED <<now, status, queries, fwd, ran>>

NodeStep(n) == Follow(n) \/ Timer(n)
QueryStep(q) == \/ RunChange(q) \/ RunAsync(q) \/ RunFutures(q) \/ FuturesDone(q)
                \/ RunFinish(q) \/ RunFinishDies(q)

Next ==
  \/ Tick
  \/ \E n \in Nodes : NodeStep(n) \/ ClientQuery(n) \/ Restart(n) \/ Crash(n)
  \/ \E n \in Nodes : GoAway(n) \/ ComeBack(n)
  \/ \E f \in fwd : OnFwdTask(f)
  \/ \E q \in queries : QueryStep(q) \/ ChangeFails(q)
  \/ \E n, m \in Nodes : NewNode(n, m) \/ DelNode(n, m)

Spec == Init /\ [][Next]_vars
-----------------------------------------------------------------------------
TypeOK ==
  /\ now \in Times
  /\ log \in Seq([tp: {"new", "cancel", "del", "finish"}, task: TaskIds, at: 0 .. MaxTime,
                  verr: {"NULL", "ok", "error"}]
                 \cup [tp: {"new_node", "del_node"}, node: Nodes])
  /\ pos \in [Nodes -> 0 .. MaxLog]
  /\ members \in [Nodes -> SUBSET Nodes]
  /\ status \in [Nodes -> {"READY", "AWAY", "DOWN"}]
  /\ tasks \in [Nodes -> [TaskIds -> [here: BOOLEAN, run_at: 0 .. MaxTime,
                                      running: BOOLEAN, again: BOOLEAN,
                                      verr: {"NULL", "ok", "error"}]]]
  /\ lowest \in [Nodes -> 0 .. Never]
  /\ queries \subseteq [node: Nodes, task: TaskIds,
                        kind: {"change", "async", "future", "finish"}]
  /\ fwd \subseteq [to: Nodes, task: TaskIds, pos: 0 .. MaxLog]
  /\ ran \in [TaskIds -> [Places -> Nat]]
  /\ faults \in Nat

Seen(n, tp) == \E i \in 1 .. pos[n] : log[i].tp = tp

(* The time that a node waits for is never behind the time of a task it    *)
(* has to start: no task that is due is overlooked, whoever made it,       *)
(* finished it or joined the cluster.  Only when a node was removed, and   *)
(* tasks changed owner with it, nobody looks (ti_nodes_del_node); and the  *)
(* time that a running task asked for counts once the task is finished.    *)
NotOverlooked ==
  \A n \in Nodes : status[n] # "DOWN" /\ ~Seen(n, "del_node") =>
    \A t \in Waiting(n) : tasks[n][t].again \/ lowest[n] <= tasks[n][t].run_at

(* A task that is marked as running is being run or forwarded somewhere,   *)
(* or its end is on its way.                                               *)
Backed(n, t) ==
  \/ \E q \in queries : q.task = t
  \/ \E f \in fwd : f.task = t
  \/ \E i \in pos[n] + 1 .. Len(log) : log[i].tp \in {"del", "finish"} /\ log[i].task = t

(* A mark never outlives what it stands for: the owner would not start the *)
(* task ever again.  Forwarding has no answer, and a query can end without *)
(* its change: with a crash or a lost change this is what happens.         *)
MarksEnd ==
  faults = 0 => \A n \in Nodes, t \in TaskIds : tasks[n][t].running => Backed(n, t)

(* A task is run once each time it is scheduled, whichever nodes are away, *)
(* forward it, or are behind with the changes.  A task with side effects   *)
(* also when nodes die and start again, join or are removed: it may be     *)
(* started twice then, by an owner that lost the mark or by a new owner,   *)
(* but the change that runs it also finishes it for everyone.  Not so when *)
(* it makes futures: it is not finished before they are there, and who     *)
(* starts it in between runs it again (ti_query_run_task).                 *)
RunsOnce ==
  \A t \in TaskIds, i \in Places :
    t \notin Quiet \cup Futures \/ faults = 0 => ran[t][i] <= 1

(* No task is run before its time, as long as it is not started twice: a   *)
(* query that was started for one time runs for the time it then finds.    *)
NeverEarly ==
  [][faults = 0 => \A t \in TaskIds, i \in Places :
       ran'[t][i] # ran[t][i] => log[i].at <= now]_vars

(* A query that finishes a task finds the result of the task, which was    *)
(* set "to the task which we will read later" (ti_query_task_result), also *)
(* when a client deletes the task in between.                              *)
ResultIsThere ==
  \A q \in queries : q.kind = "finish" => tasks[q.node][q.task].verr # "NULL"
=============================================================================
