# ThingsDB in TLA+

TLA+ modules for the parts of [ThingsDB](https://github.com/thingsdb/ThingsDB)
where several nodes, threads, timers or crashes meet: how a cluster orders its
changes, how its nodes take turns in going away, what a node keeps on disk, how
a node catches up, which node runs a scheduled task, and how a node runs the
programs of its modules.
TLC checks them on small instances, TLAPS proves theorems for every instance.
`PROJECT.json` lists the components, runs, mutants, findings, hazards and
theorems, and maps every definition to the lines it stands for.

## The system

A ThingsDB cluster is a handful of nodes, all with the full data. A node is one
process with one event loop (libuv) and one worker thread that is busy only
while the node is "away". Clients send queries to any node. A query that
changes data is a *change*: it gets a change id, unique in the cluster, and each
node applies all changes in the order of their ids.

| part | state | operations | talks to |
|------|-------|------------|----------|
| quorum (`quorum.c`) | counts of one round of requests | new, shrink, count an answer, verdict | called by changes and away |
| changes (`changes.c`, `change.c`) | next id, skipped ids, queue, last committed id | propose, accept, retry, queue a package, the change loop, ask for a missing change | all nodes; query engine; archive |
| nodes (`nodes.c`, `node.c`, `stream.c`, `req.c`) | connections, statuses, ids committed and stored by each node, open requests | connect, status, dispatch of packages, timeouts | everything |
| away (`away.c`) | away status, pending away node, timers, syncers | ask for away mode, accept, work, synchronize others, come back | nodes; archive, store, backups, sync |
| archive (`archive.c`, `archfile.c`) | queue of committed changes, list of archive files | push, write, remove, load | changes, store, sync |
| store (`store.c`, `store/`) | directories `store/`, `__tmp/`, `_prev/` | store, restore, rebuild | archive, start |
| sync (`sync*.c`) | what is being sent to whom | full, archive and change synchronization | away, archive, store |
| tasks (`tasks.c`, `vtask.c`) | tasks with their time and result, the RUNNING mark, the next time to look | timer, forward, run, finish, cancel, delete | changes, query engine, nodes |
| modules and futures (`module.c`, `proc.c`, `future.c`) | status, flags, references, process and pipes, installer, open futures by package id | load, install, configure, restart, deploy, delete, call, answer, cancel | query engine, away, libuv |
| backups, rooms, forwarding of queries | see "Not modelled" | | |
| query engine, values, types, access | the data | sequential, inside one change | changes |

What is hard, and so what the properties are about:

* two masters that want the same id, answers in any order, requests that fail
  (unique ids, justified verdicts, one callback per round);
* lost ids that are tried again, packages out of order, ids that never come
  (one id per change, nothing missed, everybody answered);
* nodes that decide who goes away from what they last heard (a READY node is
  left, everybody comes back);
* crashes between two steps that write to disk, write errors, archive files
  removed on the strength of what other nodes announced (what was announced as
  stored survives, no holes, other nodes can be brought up to date);
* a node that catches up while the cluster goes on making changes, and whose
  synchronization fails half way (it passes over nothing, it ends READY, the
  node that serves it comes back);
* tasks that every node has and one node runs: owners that change with the
  cluster or are away, marks that only one node has (run once, not early, not
  forgotten);
* an operation on a module that goes on in the exit of a process, an installer or
  a timer, while others come in between (one result per future, the status is
  true, freed once and last).

`PROJECT.json`, `hazards`, has each of them with its line.

## Modules

### `TiQuorum`, `QuorumRound`

`TiQuorum` has the vote counter of `quorum.c` as a record and pure operators:
`QuorumNew`, `ShrinkOne`, `CountAnswer` (`ti_quorum_req_cb` without the
request), `EarlyVerdict` and `FinalVerdict` (the two halves of `ti_quorum_go`).
`QuorumRound` is one round: a node asks N - 1 others, of which some are not
connected; every other one answers accept, reject, collision or fails, in any
order. It keeps what C keeps outside the counts: the callback pointer (`armed`),
the requests that are out (`waiting`), whether the counter was freed.

### `Changes`

The whole life of a change on a cluster of READY nodes. One action per handler:
`CreateNewChange`, `OnReqChangeId` (with `AcceptId`), `OnResponse` and
`RequestFails` (both through `QuorumStep`, then `OnWin` or `OnLose`),
`AddChange`, `OnMissingChange`. The change loop is four actions, one per outcome
of a turn: `LoopProcess`, `LoopKill`, `LoopMissing`, `LoopGap`. `LoopGap` runs
the first change in the same turn if its turn has come, as the C loop falls
through. Channels are ordered per pair of nodes (TCP) and lost with the
connection. The history variable `votes` notes which node gave which id to whom.

`Faults` turns failures on: "request" (any request may fail at once), "kill" (21
seconds without a verdict), "gap" (42 seconds pass although the missing change
is on its way). `Fragile` are the connections that may break and return. Without
"gap" a missing id is given up only when the change cannot arrive any more.

What a client is told: "ok" when its master has run the change, "error" when
the quorum was lost before. A missing change is answered from the archive queue in
the source; here no node is away, so nothing has left that queue and
`OnMissingChange` answers from the log.

### `Away`

How nodes take turns: `Trigger` asks the others (a `TiQuorum` round again),
`OnReqAway` accepts or not, the winner announces AWAY_SOON, goes AWAY, works and
comes back. Time is counted in ticks, because what the code relies on is the
proportion of its timers: 15 s during which a node that accepted blocks others,
about 10 s of AWAY_SOON, the sleep of each node by its place. A node knows the
status of another only from the packages it received.

A node goes only when it has applied the changes in its queue, and it comes back
only when it looks and finds neither changes nor a node that synchronizes with it
(`away__waiter_after_cb`: `Serve`, `ComeBack`). So the model has the changes that
reach a node (`ChangesArrive`, `RunChanges`), the nodes that ask to be synchronized
(`FindAwayNode`), the list they are put on (`syncers`) and the mark on their
streams (`flags`), which a synchronization that fails leaves behind (`SyncFails`).
What is sent to them is in `Sync`. `Askers` are the nodes that ask for away mode
(others only answer), `Busy` those that changes reach, `Starting` those that
synchronize, `Fragile` the connections that may break; they bound the state space.

### `ReplicatedLog`, `ChangesLog`

`ReplicatedLog` is what the cluster promises: one history of changes, which every
node applies in its order and without leaving anything out; a change enters the
history on the node it was sent to, when that node has applied everything
before it. `ChangesLog` maps `Changes` on it (the history is what any node has
applied), and `ImplementsLog` says that every step of every handler is a step of
the promise or none.

### `Archive`

One node and its disk. `Commit` pushes on the archive queue; `AwayWork` (the
away thread) and `Offline` (the end of the process) start
`ti_archive_to_disk`, of which every step that changes the disk is an action:
`StoreBegin`, `StoreWrite`, `StoreSwap`, `StoreInstall`, `StoreDone`,
`ArchiveOpen`, `ArchiveWrite`, `ArchiveRemove` and the failures. `Crash` may
come at every step. `Restart` loads the store and replays the archive
files; `Rebuild` is what happens without a store. The database is the set of
applied ids. `FullSync`, `FilesSent`, `Sent` say what a node that is behind would
get from this one.

`DiskFails` says what may fail: writing the store, either of its two renames, and
writing or closing an archive file. `harm` remembers what the code does not survive,
and each property names the harm it leaves out:

* "loss": the node crashed between the arrival of a new store and the end of the
  archive file, or while any archive file was written, or an archive file could not
  be written. Changes may be missing from then on: `AnnouncedIsSafe`,
  `RecoversNoHole`, `StopLosesNothing` and `SyncIsComplete` hold up to that point,
  `ArchiveConsistent` also after it.
* "list": an archive file failed to close after it was put on the list; it is
  unlinked, its entry is freed and stays on the list until the next start
  (`ArchiveFails`). Its ids read as what they were or as anything (`FreedEntry`).
  `ArchiveConsistent` says nothing of the list in that time.
* "store": the second rename failed, so there is no store until the next full
  store succeeds (`StoreInstallFails`). `StopLosesNothing`, and `SyncIsComplete` for
  a node that needs the full store, leave that time out.

A crash between the renames leaves no store either; `AnnouncedIsSafe` is about a
node whose store is there. Simplified: the replay
after a restart is one step (it writes nothing), `LoadFull` is one step, and the
lowest stored id of the other nodes (`peers`) only grows, as `ti_nodes_scid`
makes it.

### `Sync`

Two nodes, S that is behind or new, and A that it finds away, in a cluster that
goes on making changes. A: `CommitA`, `GoSoon`, `GoAway`, `WorkFinish`, `Serve`,
`ComeBack`, `OnResponse`, `RequestFails`, with the parts of the full store, the
archive files and the queued changes sent one request after the other
(`Following`). S: `FindAwayNode`, `OnSyncPart` (one operator for each kind of
part), `OnChange`, `Loop`, `Crash`, `Restart`, `Rebuild`. `flag` is
`TI_STREAM_FLAG_SYNCHRONIZING`, `gap` in the queue `TI_CPKG_FLAG_ALLOW_GAP`; a change
that arrives a second time, queued by a broadcast and sent as part of the
synchronization, keeps its place and gets the flags of both (`Add`). The
full store is three parts: the root files with the change id, the file that makes
an empty collection directory, the rest. What `Archive` and `Away` have in
detail is one step here, and ids have no gaps.

Assumed of time, where the code has seconds and the model none: S has applied
what it can apply when it asks; S, connected, has asked when the ten seconds of
AWAY_SOON are over; A has applied what reached it when an answer of S arrives;
what was sent to S before it died does not arrive after it is back.

### `Tasks`

Tasks on every node, on top of a replicated log of changes (what `ChangesLog`
shows of `Changes`). `Timer` is `tasks__cb`: the owner starts what is due, or
forwards it when it is away. `RunChange`, `RunAsync` and `RunFinish` are the
turns of a task query: with side effects it runs in a change that also finishes
the task; without, it runs at once (its result stays on that node) and is
finished by a change of its own. So is a task that makes futures, whether or not it
has side effects, once they are there (`RunFutures`, `FuturesDone`; `Futures` are the
tasks that may). A task may ask to run again, at any time that is not past, also the one
it runs for. `ClientQuery` makes, cancels and deletes tasks;
`NewNode` and `DelNode` change the owners; `Crash`, `Restart`, `ChangeFails` and a
forwarded task that arrives before the changes it relies on ("late") are faults.
`RunFinishDies` is the null pointer of `query.c:1065`. AWAY_SOON and AWAY are one
status, since ten seconds pass in between. `ran` counts how often a task was run for
each change that gave it a time, so the same time set twice is two schedules.

### `Modules`

One module on one node. Operations of clients are `LoadModule`, `RestartModule`,
`DeployModule`, `SetModuleConf` and `DelModule`; what they start goes on in
`Installer` (`module__manifest_finish`, `module__download_finish`,
`module__py_requirements_finish`), `WaitCb` (the deploy timer), `StopCb` and in
the end of the process, `Dies`, `OnProcExit`, `OnClosed` (`ti_module_on_exit`).
`Load`, `Conf`, `Spawn`, `Stop`, `Restart`, `Deploy`, `OnExit` take a module record
and give the records it may become, as each is called from several places. The
process is "alive", "dead" when the node does not know yet, "closing" between
`proc__on_exit` and the last `uv_close`, or "none". A future is `Call`ed, and
resolved by `OnPkg`, `WriteFails`, `CancelFutures`, `StopFuture`, `OnClosed` or by
another one that gets its package id. The list of open futures is a function of the
package id (`futures`), as the code's omap is: `WriteFails` and `StopFuture` take off
whatever has their id by then. Requests are written in the order of the calls, and
complete only while the program lives (`Oldest`, `WriteDone`). `ref` is the reference count; the model ends when it is
0. `cut` and `hurt` are histories of the two orders the code does not survive:
see the known limits below.

## Runs

| run | instance | what it shows |
|-----|----------|---------------|
| quorum_round | N = 6 | one justified verdict, freed in time; decided under weak fairness |
| changes_calm | 3 nodes, 2 changes | clients are answered; every node applies every change |
| changes_even | 4 nodes, ties are possible | no two changes win one id; `Changes` implements `ReplicatedLog`: one history, nothing passed over |
| changes_rough | 3 nodes, kill and gap at any time, two of the three connections break, that of the two masters among them | queues stay in order, no node gives an id away twice, one id per change, what clients are told is true |
| away_turns | 3 nodes, all ask, ticks of 5 s | a READY node is left |
| away_back | one asker that changes reach, a node that synchronizes with it over a connection that breaks | it comes back, unless one of three things keeps it for ever |
| archive_keeps | ids up to 6, crashes at every step, failing stores and archive files | announced is safe, no holes, a stop loses nothing, others can be synchronized, each up to the harm it names; the list of files and the queue stay consistent |
| sync | ids up to 4, S has 0 to 2 of them, one fault of any kind | S passes over nothing, is complete when READY, and catches up unless a stale flag stops it |
| tasks | 2 nodes and a third that joins, a task with side effects and one without that may make futures, one fault | no task is overlooked or stays marked, each schedule is run once and not early |
| modules | 2 futures on one package id, 4 operations of clients | one result per future, none waits off the list or for a process that has gone, the status is true, freed last and at last, no restart is lost |

Two more runs show disagreements between the code and what the repository
says of it (`findings`):

* changes_split: two masters win one id when a connection breaks in the middle
  of a collision. A failed request shrinks the round, the tie that is left is
  broken by `win_collision`. With two nodes this is a deliberate choice
  (`nodes.c:1368`), with three it is not.
* tasks_deleted: a task without side effects is deleted between its run and the
  change that finishes it; the node reads its result through a null pointer.

Other behaviours of the code are known limits rather than findings. They are
notes of their hazards, and the properties say where they stop:

* two nodes can be away, or about to be, at once (`away_turns` shows that the
  third stays READY);
* a crash after the full store and before the archive file leaves a hole in the
  archive that others are synchronized from; an archive file that a crash cut off
  is taken for a complete one; one that fails to close stays on the list; a failing
  rename, or a crash between the two, leaves no store, and the node starts from
  nothing (`harm` in `Archive`; a node that is alone loses everything);
* a node that passes over a missing id after 42 seconds while the change is still on
  its way never gets that change (`Converges` and `ImplementsLog` are false with "gap"
  in `Faults`), and the client of a change that is dropped after 21 seconds is not
  answered (`Answered` is false with "kill");
* changes that keep coming, or a node whose connection breaks again and again while
  it synchronizes, keep a node away (disjuncts of `ComesBack`);
* when a part of a synchronization times out while the connection stays, its stream
  keeps `TI_STREAM_FLAG_SYNCHRONIZING`: in the next round the node counts as being
  served, is not, and the other one stays away (`CatchesUp`, without `StaleFlag`, is
  false with "part" in `Faults`, and `ComesBack` without its last disjunct);
* a crash while a full synchronization overwrites an existing store leaves a mix
  of two stores (`NoHole` is false with "mixed" in `Faults`), and a broken
  connection followed by a crash can lose a change that was only in memory
  (`NoHole` is false with `MaxFaults = 2`);
* a task whose forwarding, node or change is lost stays marked on its owner until
  that node restarts (`MarksEnd` is about `faults = 0`), a removed node leaves
  the time that its heirs wait for as it was (`NotOverlooked` leaves them out), and a
  task that makes futures runs again when its owner crashes, or another node gets it,
  before they are there (`RunsOnce` is about `faults = 0` for it);
* a future that is resolved while its request is still being written is used again
  if that write fails (`cut`, left out of `OneResult`); a module that is deleted
  while it is installed or waits to be deployed may be started and freed under its
  process (`hurt`, left out of `FreedAtRest` and `Released`); and a module that was
  restarted too often, could not be started or ended with a configuration error is
  not started by `restart_module`, since `ti_module_load` passes over its status.

### Bounds

Three nodes are the smallest cluster with a real majority, four the smallest
with ties; both occur. Two changes that compete reach every kind of collision.
`MaxId` leaves room for
each change to lose and retry. `Archive` needs ids for two archive files and a
full store between them with `Threshold = 2`: six, or four (`MaxHarmId`) once
there was harm. In `Sync` four ids are enough for a full store, an archive file
behind it, a change in the archive queue and one that is made meanwhile; `Starts`
has a new node, one that needs the full store and one that does not. `Tasks` has
two times and three changes, which is a task that is made, run, and deleted or
run again while another waits; `Entry` (where clients are), `Leavers` and
`Mortals` (who goes away, who crashes) keep the rest small: node 1, which has both tasks at first, goes away and forwards them,
and it or the node they are forwarded to crashes. The task without side effects is also the one that may make
futures (a task with both takes the same steps, and is in the theorems). `Modules` has one package id for two futures, so the second
always meets the first (65536 in the source), one automatic restart in place of
three, and four operations: load, two that interfere, and a deletion. The timers of `Away` (15 s of blocking, 10 s of AWAY_SOON, a sleep of
2.5 s and 17 s more for each node that goes first) are 3, 2, 1 and 4 ticks of
five seconds in `away_turns`, where nobody synchronizes and no connection breaks (the
theorem has any that break). `away_back` has one asker and a step of 3 ticks, as nobody else
takes a turn; node 3 synchronizes with it, and their connection breaks. With all three
connections breaking `changes_rough` takes longer than five minutes; what it checks is
proved for any. `OneChangePerId` is in `changes_even`, where connections hold, since it is
false otherwise. `Commit` passes over an id, so real gaps are in. TLC explores each
instance completely.

Deadlock is not an error in these models: a cluster without work rests.

### Fairness

`Changes` and `Away` assume weak fairness of a node's own steps and of handling
what arrived: a libuv loop runs every callback that is due, requests have
timers, and the change loop triggers itself while its queue is not empty. In `Away`
also of `RunChanges` (that loop), `FindAwayNode` (a timer) and of the end of a
synchronization, good or bad (each of its requests is answered or times out).
`ComeBack` is taken only in a state in which the code's two conditions hold; nothing
says that they ever will, so what may prevent it for good is in `ComesBack`.
Clients, faults and `LinkUp` get none. `QuorumRound` assumes that every request
is answered or fails, which the request timer guarantees. `Sync` assumes weak
fairness of the steps of each node and of the arrival of a request to
synchronize; a node that is down is started again, a broken connection is tried
again (`nodes.c` connects every few seconds). `Tasks` states safety
only. `Modules` assumes that the loop calls what is due, that the installer ends
and that a program that got its signal ends; nothing is assumed of programs and
clients otherwise.

## Proofs

`QuorumRoundProofs` proves, for every number of nodes and every quorum that
`ti_nodes_quorum` can return, that `QuorumRound` satisfies its type invariant
(TypeCorrect), `FreedWhenIdle` (FreeIsSafe), `CalledOnce` (OneVerdict),
`WinIsJustified` (WinJustified) and the action property `LoseIsHopeless`
(LoseHopeless). `FreedWhenIdle` is not inductive: the C code
decides to free from the counts alone. The inductive invariant `IInv` adds that
the answers counted and the requests still out make up `requests`, which
failures lower, that a round without a verdict is still armed, and the relation
between `requests` and the thresholds. The proof is by one lemma per operator of
`TiQuorum` (GoType, GoWin, NewFields, ShrinkByFields, CollisionFields) and one
step per kind of answer (AnswerIInv).

`ChangesProofs` proves, for a cluster of any size, any set of changes, any bound
on the ids and every combination of faults, that `Changes` keeps its types
(ChangesTypeCorrect) and that no node gives one id to two nodes
(NoDoubleVoteHolds). A node may accept an id that is *below* its next id, when it
skipped it before, so `NoDoubleVote` is not inductive. `VotesBelowNext` makes it
so: every id that was given away is below the next id and not among the skipped
ids, and the skipped ids are below the next id. Accepting an id that is ahead
adds only ids to the skipped ones that nobody was given; accepting a skipped one
takes it out (lemma AcceptIdFacts); asking for an id takes the next one
(ReqChangeIdKeeps); a change package only raises the next id (AddChangeKeeps).
The types are needed on the way: an id arrives in a package, which was made from
a queue, a log or a vote counter. There is one lemma per action, and lemmas for
the operators on sequences and counters (PushType, WithoutType, NewRoundType).
The assumptions are those of `Changes` on its constants.

It goes on, again for any cluster and every combination of faults. `IdsInOrder` (IdsInOrderHolds) needs only the queue itself
(`QueuesInOrder`): lemmas say where `Push` puts a change and what `Without` and the
change loop leave (InsertElements, PushFacts, WithoutFacts, FirstGone).
`OneIdPerChange` and `RepliesAreTrue` (OneIdPerChangeHolds, RepliesAreTrueHolds) are
about all nodes at once, and their inductive invariant `HomeInv` brings them back to
one: the master of a change is the only node that asks for its ids, it has the change
in one place at a time (a round, its queue, or its log; `OnePlace`), a package
of a change that is on its way, queued or applied elsewhere is one that the master has
applied, with the same id (`FromHome`), and what its client was told fits the place
(`Told`). That is why a change may lose an id and try again any number of times, and a
change that was given up because of a timeout is found nowhere.

Last it proves `OneChangePerId` (OneChangePerIdHolds) for any cluster, an even
number of nodes included, when no connection breaks (`Fragile` empty) and no request
times out (`"request"` is not among the faults); an undecided change may be killed and
a gap given up at any time. Without the first of these it is false, as changes_split shows. Two
majorities that meet are not the reason: a node may win with half of the votes or
fewer, when it ties with nodes that ask for the same id themselves and its node id is
lower. So a win is described by what it leaves in the votes, which only grow (`Wins`):
the winner gave the id to itself, at least as many other nodes gave it to the
winner as are unaccounted for, all the rest gave it to themselves, and if the numbers
are equal the winner is below all of these. `Counted` is what the counter of a round
stands for before the verdict, and a verdict "win" makes `Wins` of it (CountedWins).
Two such proofs for one id contradict `NoDoubleVote` (OneWinner): who gave the id to
one winner is unaccounted for by the other, so all numbers are equal, and the higher
of the two winners has the lower one among those that asked themselves. The inductive
invariant `VoteInv` carries this through the cluster: the question or the answer of
every node that a round waits for is on its way (`InFlight`), what an answer on its way
says is in the votes (`TrueAnswers`), the counters and the changes of a master are
right (`Elections`), and what is applied was won by the home of the change (`LogWon`);
with `HomeInv` every change on any node goes back to such a win.

`ChangesLogProofs` proves that `Changes` implements `ReplicatedLog` (ImplementsLogHolds),
for a cluster of any size, any changes and any bound on the ids, when nothing fails
(`Faults` and `Fragile` empty, as in changes_even). Most actions change no log and map to
a stutter; `LoopProcess` and `LoopGap` must map to a step of the promise, which takes two
facts. When a node runs a change of another one, that is the next entry of the history
that it does not have. When a master runs its own change, no node has run a higher id,
and the master has everything below. Both are about ids that are passed over: a node
that gives up a missing id, or rejects a question because it is past it, must know that
nobody wins that id later. The invariant `LInv` adds to `VoteInv` and `HomeInv`
what makes it so (`LogInv`). An id is *settled* when it was won, every node gave it away,
or half of the nodes gave it to another node than themselves; a round is lost only then
(LoseSettled), and settled stays settled because votes only grow. It is *barred* when
in addition nobody who still has a change for it can win it (`Barred`), which contradicts
a win (ReadyIsNew); what a node is past and was not won is barred (`Passed`). The other
parts follow the packages: a change package does not overtake the question for its id
(`AllAhead`, `AskAhead`), a change that was run at home is applied, queued or on its way at
every other node (`Delivered`), an answer that rejects has a reason in the votes
(`Refusals`), and the counters are right about these (`Tally`). TLC checked `LogInv` on
three nodes with three changes and on four with two before it was proved. With "kill"
the argument ends: a change that is dropped without a verdict leaves an id that is not
settled (`Lost`), and whether another node still asks for that id depends on how long
the first question may be on its way, for which `Changes` has no clock.

`AwayProofs` proves, for any cluster and any timers, that `Away` keeps its types
(AwayTypeCorrect), and that a READY node is left (SomeNodeReadyHolds) when there are three
nodes or more, whatever connections break, or two whose connection does not break. The
condition is tight: TLC finds that two nodes with a broken connection both go, since the
quorum of one node that is alone is 0. Nodes that synchronize at the start are left out
(`Starting` empty), as they are not READY. `SomeNodeReady` is not inductive, as it does not say
why the last node stays. A node that accepts another is itself ACCEPTED then, and no node
wins without an accept; so some node is *safe*: idle, ACCEPTED, or asking while
nobody has accepted it, and the step that would take away the last safe node is not
enabled. This needs that an answer is never taken for the answer to a later question
(`Timely`): while a question or an answer is on its way, or a vote is open, the timer
after which that node asks again has not run out.

`TasksProofs` proves, for any cluster, any tasks and any bounds, the type invariant
(TasksTypeCorrect), `NotOverlooked` and the half of `RunsOnce` about tasks with side
effects and without futures whatever fails, and `MarksEnd`, `RunsOnce` and `NeverEarly` as long as nothing
fails (NotOverlookedHolds, MarksEndHolds, RunsOnceHolds, NeverEarlyHolds). `TInv` has
three parts. `Lay` says that what a node has of a task follows from the part of the
log it has applied. `Sound` is what faults cannot break: a task that was not made has
no runs, nothing was run for a change that is not in the log, and a task with side
effects and without futures has not run for the change that set its time last, unless
it is deleted (`Loud`): the change that runs it sets its time anew or deletes it. `Calm`, which holds without
faults, is a token argument: a task has at most one query that runs it or one package
that forwards it (`OneToken`); its owner knows that it was started, and does not start
it again before it has seen the end (`OneStart`); who runs or forwards it knows the
time that was set last, and that time has come (`Known`); a time that it asked for and
no change has set yet is known only to the node that will finish it (`Secret`). The code has no such token: it follows from marks on different
nodes that are set and cleared at different positions of the log.

`ModulesProofs` proves, for any set of futures and any number of operations, the type
invariant (ModulesTypeCorrect), `OneResult`, `NoOrphans`, `StatusIsTrue` and
`FreedAtRest` (OneResultHolds, NoOrphansHolds, StatusIsTrueHolds, FreedAtRestHolds).
`FreedAtRest` is about a count, so the inductive invariant `MInv` accounts for it:
beside the references of the installer and of the deploy timer there is one for each
open future, and one more that goes when the module is deleted and its process has
ended (`Held`). `NoOrphans` has to survive a failing write that takes another future off
the list, the one that has the same package id now. `Requests` says why nothing is
forgotten: who has the package id of a request that is being written was called later,
so its own request is behind it, and the process that failed the first takes no more
(`Lists`): it fails too, or the end of the process cancels it.
The operators that take a module record have a lemma each (LoadKeeps, StopKeeps,
OnExitFacts, InstallerFacts, ...).

`ArchiveProofs` proves, for any threshold, any set of steps at which the node may crash
and any failing writes, the type invariant and `ArchiveConsistent` whatever happens
(ArchiveTypeCorrect, ArchiveConsistentHolds), and `AnnouncedIsSafe`, `RecoversNoHole`
and `StopLosesNothing` up to the harm they name (AnnouncedIsSafeHolds,
RecoversNoHoleHolds, StopLosesNothingHolds). Of the latter none is inductive: they
speak of a node that is down. `AInv` says what makes a restart good at every step. The
archive files do not overlap, each has all changes between its first and last id, and
together with the store they have everything up to `scid` (`FilesGood`); the store is
complete up to its id, not above `scid` outside the unsafe steps, and not below
`last_stored`, which is what makes removing files safe (`FullStore`); the queue is
what lies between `scid` and `ccid` (`Memory`). From that the changes that a restart
loads are exactly those between the store and `scid` (LoadedFacts). `SyncIsComplete`
(SyncIsCompleteHolds) needs more, which is `Serving`: every file on disk is on the list,
and from the first change of any file on, as well as behind the last full store, the
files have all that is announced. It is kept because files are removed from the front.
`FilesSent`, the files a node gets one after the other, is a recursive function:
it is defined because the next file ends behind the id that was asked for
(FilesSentExists), and it leaves nothing out, since the highest id from which it did
would contradict itself (FilesSentAll).

`SyncProofs` proves the type invariant for any number of changes and of faults of
every kind (SyncTypeCorrect), and, when `"crash"` is not among the faults, `NoHole` and
`ReadyIsComplete` for any number of changes, broken connections and requests that time
out (NoHoleHolds, ReadyIsCompleteHolds). Neither is inductive: whether S may apply a
change over a gap depends on what A sent before, and A decides what to send next from
its own archive and from answers that may be late. `SInv` has these parts. `Server`: the
archive of A is one chain of files and then the archive queue, and it begins not behind
the end of the full store. `Node`: what S may run out of order, and what it counts as
stored, it has all of in its queue (`Filled`); an archive file of S is one that A still
has or lies below `scid` (`Copied`); while A would have to send its full store, S is
stuck at its last change (`Stuck`). `Session`: every package on its way is safe to
handle when its turn comes (`Safe`: a store that is complete, files without a hole, a
queued change with all before it), and the request that A waits for stands where A
assumes it does, before S handled it (`Before`) or after (`After`); a request that
failed leaves its package behind but no request open (`Stale`). `Ends`: once the
last package is sent, S has everything when it has handled what comes before it. When
the end of a phase is not confirmed in time, A goes on while it is still on its way, so
two packages can be out at once; `Have` and `Base` are what S will have once it has
handled the first, and that is why the next request is right already. The proof has one
lemma per step: most leave the packages alone and change what S has only for the better
(`Steady`), A chooses the next request (FollowingSent), S handles a package
(FullDoneHandled, ArchivePartHandled, ArchiveDoneHandled, EventPartHandled).
With a crash the two properties are model-checked for one fault, and false for two (see
above), so the theorems leave crashes out.

Assumed of the constants, beside their types: `Changes` has at least one node, ids in
`Archive` go up to at least 1 and `MaxHarmId` is not above `MaxId`, in `Tasks` and
`Modules` the time and the number of operations are not 0.

Every safety property of a passing run is proved. Only model-checked: the liveness
properties, which need ENABLED and rules for fairness that the prover does not have
(`Decided`, `Answered`, `Converges`, `ComesBack`, `CatchesUpUnlessStale`, `Released`,
`RestartEnds`); and what is outside the hypotheses of the theorems above: `NoHole` and
`ReadyIsComplete` of `Sync` with one crash.

## Not modelled

The language and its data model (one change is atomic on a node, and its effect
is its id); sockets, TLS and HTTP; users and access; the contents of the store
files; memory exhaustion. See `components` for the reason of each.

Three parts have state of their own and are left out for another reason:

* requests (`req.c`): 16 bit ids, of which one is reused after 65535 others, all
  within one timeout; `Changes` and `Sync` have what matters below that, an
  answer that comes after its request has failed;
* backups (`backups.c`): one thread works on them under a lock, except for the mark
  named under `hazards`;
* rooms: messages to whoever listens, without a promise of order or delivery.

Of modules the `then` and `else` of a future, its quota, the futures of `async`,
scopes and names are left out, and what packages and manifests contain; so is a signal
that cannot be sent (`module.c:1104-1111`: it goes to a child that is not reaped yet),
the handles that a process that cannot be started leaves to be closed
(`proc.c:222-235`), and a program that closes its input and lives on.

Of away mode the futures that a node waits for before it goes (they are cancelled
after a minute), shutting down, and the start without synchronizing when no node is
READY are left out.

The start of a whole cluster, where nobody is away and a quorum of synchronizing
nodes goes on by itself, needs the connections of every pair of nodes with
their handshake; `Sync` has a cluster that runs.

## Plan

What is left:

1. `NoHole` of `Sync` after one crash, where `SInv` needs the state in which a restart
   leaves S: its archive may have files that A has removed meanwhile.
2. The start of a whole cluster, as a module of its own.
