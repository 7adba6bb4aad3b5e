------------------------------ MODULE Modules -------------------------------
(***************************************************************************)
(* A module of one node: a program that the node installs, starts as a     *)
(* child process, configures and asks (ti/module.c, ti/proc.c), and the    *)
(* futures that wait for its answers (ti/future.c,                         *)
(* ti_query_on_future_result).                                             *)
(*                                                                         *)
(* Everything here is a callback on one event loop, but an operation of a  *)
(* client (restart, deploy, configure, delete) goes on in later callbacks: *)
(* the installer, in threads of its own, the exit of the process, a timer  *)
(* that waits until the module may be deployed.  The module is freed with  *)
(* its last reference (ti_module_drop), and the handles of the process are *)
(* part of it.                                                             *)
(*                                                                         *)
(* The operators on a module return the set of modules it may become.      *)
(* What libuv and the program do is modelled from how the code uses them.  *)
(***************************************************************************)
EXTENDS Naturals, FiniteSets

CONSTANTS
  Futures,          \* calls of the module by queries
  Pids,             \* the number of package ids (65536 in the source)
  TooManyRestarts,  \* MODULE__TOO_MANY_RESTARTS
  MaxOps            \* bound on the operations of clients

ASSUME FuturesAssumption == Futures \subseteq Nat \ {0} /\ IsFiniteSet(Futures)
ASSUME ModulesBoundsAssumption ==
  Pids \in Nat \ {0} /\ TooManyRestarts \in Nat /\ MaxOps \in Nat \ {0}

VARIABLES
  mod,       \* the module and its process
  listed,    \* it can be found in ti.modules
  deleting,  \* module__stop_cb is to be called
  signal,    \* TI_FLAG_SIGNAL: the node is about to stop
  fut,       \* per future: new, open or done
  futures,   \* module->futures: per package id the future, 0 for none
  next_pid,  \* module->next_pid
  writes,    \* the requests that are being written, [pid, future]
  inbox,     \* the requests that the process has, [pid, future]
  results,   \* history: per future, how often it had its result
  cut,       \* history: futures that were resolved while being written
  hurt,      \* history: deleted while it was installed or waited to deploy
  ops        \* the number of operations so far

calls == <<fut, futures, next_pid, writes, inbox, results, cut>>
vars == <<mod, listed, deleting, signal, calls, hurt, ops>>

(* UV_ERR stands for the errors of libuv and PY_INTERPRETER_NOT_FOUND.     *)
Status == {"RUNNING", "NOT_INSTALLED", "INSTALLER_BUSY", "NOT_LOADED", "STOPPING",
           "TOO_MANY_RESTARTS", "CONFIGURATION_ERR", "SOURCE_ERR", "INSTALL_FAILED",
           "UV_ERR"}
Flags == {"IN_USE", "WAIT_CONF", "DESTROY", "RESTARTING", "UPDATE"}

(* ti_module_create: a module that was installed before has a manifest.    *)
(* The process is alive, dead (without the node knowing it), closing (its  *)
(* pid is 0, its pipes are being closed) or none.                          *)
NewModule(source, conf, status) ==
  [source |-> source, conf |-> conf, status |-> status, flags |-> {},
   ref |-> 1, restarts |-> 0, installer |-> "none", waiting |-> FALSE,
   proc |-> "none", killed |-> FALSE, confs |-> 0]

Init ==
  /\ \E conf \in BOOLEAN, status \in {"NOT_INSTALLED", "NOT_LOADED"} :
       \/ mod = NewModule("file", conf, "NOT_INSTALLED")
       \/ mod = NewModule("github", conf, status)
  /\ listed = TRUE /\ deleting = FALSE /\ signal = FALSE
  /\ fut = [f \in Futures |-> "new"]
  /\ futures = [p \in 0 .. Pids - 1 |-> 0]
  /\ next_pid = 0 /\ writes = {} /\ inbox = {}
  /\ results = [f \in Futures |-> 0]
  /\ cut = {} /\ hurt = FALSE /\ ops = 0
-----------------------------------------------------------------------------
(* What can happen to a module.                                            *)

With(m, flag) == [m EXCEPT !.flags = @ \cup {flag}]
Without(m, flag) == [m EXCEPT !.flags = @ \ {flag}]

(* module__conf, module__write_conf: without a configuration there is      *)
(* nothing to wait for.  The pipe of a process that is closing may refuse. *)
Conf(m) ==
  IF ~m.conf THEN {Without(m, "WAIT_CONF")}
  ELSE {[m EXCEPT !.status = "RUNNING", !.confs = @ + 1]}
         \cup {[x EXCEPT !.status = "UV_ERR"] : x \in IF m.proc = "closing" THEN {m} ELSE {}}

(* ti_proc_load and the end of ti_module_load.  The file may be missing.   *)
Spawn(m) ==
  LET w == With(m, "WAIT_CONF") IN
  {[w EXCEPT !.status = "UV_ERR"]}
    \cup Conf([With(w, "IN_USE") EXCEPT !.status = "RUNNING", !.proc = "alive",
                                        !.killed = FALSE, !.confs = 0])

(* ti_module_load.  A file is installed when its directory is there.       *)
Load(m) ==
  LET start(x) == IF x.status = "NOT_LOADED" THEN Spawn(x) ELSE {x}
      install == m.status \in {"NOT_INSTALLED", "INSTALL_FAILED"} \/ "UPDATE" \in m.flags
      n == Without(m, "UPDATE")
  IN
  IF "IN_USE" \in m.flags THEN {m}
  ELSE IF ~install THEN start(m)
  ELSE IF m.source = "file" THEN {n} \cup start([n EXCEPT !.status = "NOT_LOADED"])
  ELSE {[n EXCEPT !.status = "INSTALLER_BUSY", !.installer = "manifest", !.ref = @ + 1]}

(* ti_module_stop: a process without a pid has exited already.             *)
Stop(m) ==
  IF m.proc \in {"alive", "dead"}
  THEN [m EXCEPT !.status = "STOPPING", !.killed = TRUE] ELSE m

(* ti_module_restart.                                                      *)
Restart(m) ==
  IF "IN_USE" \in m.flags THEN {Stop(With(m, "RESTARTING"))} ELSE Load(m)

MayDeploy(m) ==
  m.status \notin {"INSTALLER_BUSY", "STOPPING"} /\ "RESTARTING" \notin m.flags

(* ti_module_deploy: the timer takes a reference.  A file is written,      *)
(* which may fail; the other source is installed anew.                     *)
Deploy(m) ==
  LET filed == IF m.status = "NOT_INSTALLED" THEN [m EXCEPT !.status = "NOT_LOADED"] ELSE m
  IN
  IF ~MayDeploy(m)
  THEN {[m EXCEPT !.waiting = TRUE, !.ref = IF m.waiting THEN @ ELSE @ + 1]}
  ELSE IF m.source = "file" THEN {filed} \cup Restart(filed)
  ELSE Restart(With(m, "UPDATE"))

Drop(m) == [m EXCEPT !.ref = @ - 1]

(* Mutant: the module is dropped although its process is still there.      *)
StopAndDestroyAtOnce(m) == Drop(Stop(With(m, "DESTROY")))

(* Mutant: the module is always dropped when its process ends.             *)
StopAndDestroyLater(m) == Stop(With(m, "DESTROY"))

(* ti_module_stop_and_destroy.                                             *)
StopAndDestroy(m) ==
  IF "IN_USE" \in m.flags THEN Stop(With(m, "DESTROY")) ELSE Drop(With(m, "DESTROY"))

(* Mutant: a restart is taken for an unexpected exit.                      *)
OnExitNoRestart(m) ==
  LET x == [Without(m, "IN_USE") EXCEPT !.proc = "none"]
      down(s) == [x EXCEPT !.status = s]
  IN
  CASE "DESTROY" \in m.flags -> {Drop(x)}
    [] "DESTROY" \notin m.flags /\ m.status = "RUNNING" ->
         Load([down("NOT_LOADED") EXCEPT !.restarts = @ + 1])
    [] OTHER -> {x}

(* Mutant: the module keeps the status of its process.                     *)
OnExitStillRunning(m) ==
  LET x == [Without(m, "IN_USE") EXCEPT !.proc = "none"] IN
  IF "DESTROY" \in m.flags THEN {Drop(x)} ELSE {x}

(* ti_module_on_exit.                                                      *)
OnExit(m) ==
  LET x == [Without(m, "IN_USE") EXCEPT !.proc = "none"]
      down(s) == [x EXCEPT !.status = s]
      again == down("NOT_LOADED")
      unless(b) == "DESTROY" \notin m.flags /\ ~signal /\ b
      restart == "RESTARTING" \in m.flags
  IN
  CASE "DESTROY" \in m.flags -> {Drop(x)}
    [] "DESTROY" \notin m.flags /\ signal -> {again}
    [] unless(restart) -> Load([Without(again, "RESTARTING") EXCEPT !.restarts = 0])
    [] unless(~restart /\ m.status = "STOPPING") -> {again}
    [] unless(~restart /\ m.status = "RUNNING") ->
         IF m.restarts + 1 > TooManyRestarts
         THEN {[down("TOO_MANY_RESTARTS") EXCEPT !.restarts = @ + 1]}
         ELSE Load([again EXCEPT !.restarts = @ + 1])
    [] OTHER -> {x}
-----------------------------------------------------------------------------
(* Operations of clients.                                                  *)

Operation == listed /\ ~signal /\ ops < MaxOps /\ ops' = ops + 1

(* The module is loaded when it is made (do__f_new_module) and when the    *)
(* node starts (ti_modules_load).                                          *)
LoadModule ==
  /\ listed /\ ops = 0
  /\ ops' = 1
  /\ mod' \in Load(mod)
  /\ UNCHANGED <<listed, deleting, signal, calls, hurt>>

RestartModule ==
  /\ Operation
  /\ mod' \in Restart(mod)
  /\ UNCHANGED <<listed, deleting, signal, calls, hurt>>

DeployModule ==
  /\ Operation
  /\ mod' \in Deploy(mod)
  /\ UNCHANGED <<listed, deleting, signal, calls, hurt>>

(* ti_module_update_conf.                                                  *)
SetModuleConf(conf) ==
  LET m == [mod EXCEPT !.conf = conf] IN
  /\ Operation
  /\ mod' \in IF "IN_USE" \in mod.flags THEN Conf(m) ELSE Load(m)
  /\ UNCHANGED <<listed, deleting, signal, calls, hurt>>

(* ti_module_del: the rest is left to a callback.                          *)
DelModule ==
  /\ Operation
  /\ listed' = FALSE /\ deleting' = TRUE
  /\ UNCHANGED <<mod, signal, calls, hurt>>

(* The node gets a signal, and later takes its modules down                *)
(* (ti_modules_stop_and_destroy).                                          *)
Signal ==
  /\ ~signal
  /\ signal' = TRUE
  /\ UNCHANGED <<mod, listed, deleting, calls, hurt, ops>>

StopModules ==
  /\ signal /\ listed
  /\ listed' = FALSE
  /\ mod' = StopAndDestroy(mod)
  /\ hurt' = (mod.installer # "none" \/ mod.waiting)
  /\ UNCHANGED <<deleting, signal, calls, ops>>
-----------------------------------------------------------------------------
(* Futures.                                                                *)

Open == {futures[p] : p \in DOMAIN futures} \ {0}

Waiting == {f \in Futures : fut[f] = "open"}

(* The futures F have their result, an answer or an error, and are dropped *)
(* (ti_query_on_future_result); each held a reference to the module m.     *)
Resolve(F, m) ==
  /\ fut' = [f \in Futures |-> IF f \in F THEN "done" ELSE fut[f]]
  /\ results' = [f \in Futures |-> IF f \in F THEN results[f] + 1 ELSE results[f]]
  /\ mod' = [m EXCEPT !.ref = @ - Cardinality(F)]

Written == {w.future : w \in writes}

Remove(F) == [p \in DOMAIN futures |-> IF futures[p] \in F THEN 0 ELSE futures[p]]

(* module__cb: the process has a pid.                                      *)
Usable ==
  /\ mod.status = "RUNNING" /\ mod.proc \in {"alive", "dead"}
  /\ "WAIT_CONF" \notin mod.flags

(* Futures are numbered in the order of their calls.                       *)
Called(f) == listed /\ fut[f] = "new" /\ \A g \in Futures : g < f => fut[g] # "new"

(* A query calls the module (ti_module_call, module__cb): the future fails *)
(* at once, or its request is written (module__write_req), and a future    *)
(* that still has its package id is cancelled.                             *)
CallFails(f) ==
  /\ Called(f) /\ ~Usable
  /\ Resolve({f}, [mod EXCEPT !.ref = @ + 1])
  /\ UNCHANGED <<listed, deleting, signal, futures, next_pid, writes, inbox, cut, hurt, ops>>

Call(f) ==
  LET prev == {futures[next_pid]} \ {0} IN
  /\ Called(f) /\ Usable
  /\ fut' = [g \in Futures |-> IF g = f THEN "open" ELSE IF g \in prev THEN "done" ELSE fut[g]]
  /\ results' = [g \in Futures |-> IF g \in prev THEN results[g] + 1 ELSE results[g]]
  /\ mod' = [mod EXCEPT !.ref = @ + 1 - Cardinality(prev)]
  /\ futures' = [futures EXCEPT ![next_pid] = f]
  /\ next_pid' = (next_pid + 1) % Pids
  /\ cut' = cut \cup (prev \cap Written)
  /\ writes' = writes \cup {[pid |-> next_pid, future |-> f]}
  /\ UNCHANGED <<listed, deleting, signal, inbox, hurt, ops>>

(* Requests go down the pipe in the order of their calls, and fail from    *)
(* the first that the process does not take any more.                      *)
Oldest(w) == \A v \in writes : w.future <= v.future

WriteDone(w) ==
  /\ mod.proc = "alive" /\ Oldest(w)
  /\ writes' = writes \ {w}
  /\ inbox' = inbox \cup {w}
  /\ UNCHANGED <<mod, listed, deleting, signal, fut, futures, next_pid, results, cut, hurt, ops>>

(* Mutant: the future stays in the list of the module.                     *)
WriteFailsKept(w) ==
  /\ mod.proc \in {"dead", "closing"} /\ Oldest(w)
  /\ writes' = writes \ {w}
  /\ Resolve({w.future}, IF fut[w.future] = "done" THEN [mod EXCEPT !.ref = @ + 1] ELSE mod)
  /\ UNCHANGED <<listed, deleting, signal, futures, next_pid, inbox, cut, hurt, ops>>

(* The process is dead or the pipe was closed (module__write_req_cb).      *)
(* What is taken off the list is what has the package id now, which may be *)
(* a later future.  For a future that is gone this is a use of freed       *)
(* memory, of which the package id is taken to be still there, and only    *)
(* the second result is noted.                                             *)
WriteFails(w) ==
  /\ mod.proc \in {"dead", "closing"} /\ Oldest(w)
  /\ writes' = writes \ {w}
  /\ futures' = [futures EXCEPT ![w.pid] = 0]
  /\ Resolve({w.future}, IF fut[w.future] = "done" THEN [mod EXCEPT !.ref = @ + 1] ELSE mod)
  /\ UNCHANGED <<listed, deleting, signal, next_pid, inbox, cut, hurt, ops>>

(* The program answers a request (ti_module_on_pkg); what it wrote is read *)
(* until its pipe is closed.                                               *)
OnPkg(r) ==
  LET F == {futures[r.pid]} \ {0} IN
  /\ r \in inbox /\ mod.proc # "none"
  /\ inbox' = inbox \ {r}
  /\ futures' = Remove(F)
  /\ Resolve(F, mod)
  /\ cut' = cut \cup (F \cap Written)
  /\ UNCHANGED <<listed, deleting, signal, next_pid, writes, hurt, ops>>

(* All futures are cancelled before away mode or a restore                 *)
(* (ti_modules_cancel_futures).                                            *)
CancelFutures ==
  /\ listed /\ Open # {}
  /\ futures' = Remove(Open)
  /\ Resolve(Open, mod)
  /\ cut' = cut \cup (Open \cap Written)
  /\ UNCHANGED <<listed, deleting, signal, next_pid, writes, inbox, hurt, ops>>

(* A future is stopped as its collection is removed (ti_future_stop),      *)
(* again with the package id p that it has or had.                         *)
StopFuture(f, p) ==
  /\ fut[f] = "open"
  /\ futures[p] = f \/ [pid |-> p, future |-> f] \in writes
  /\ futures' = [futures EXCEPT ![p] = 0]
  /\ Resolve({f}, mod)
  /\ cut' = cut \cup ({f} \cap Written)
  /\ UNCHANGED <<listed, deleting, signal, next_pid, writes, inbox, hurt, ops>>
-----------------------------------------------------------------------------
(* The process.                                                            *)

(* status &= ~TI_MODULE_STAT_CONFIGURATION_ERR: all bits of 7 are cleared, *)
(* which leaves SOURCE_ERR, INSTALL_FAILED and errors of libuv errors.     *)
ClearConfErr(s) ==
  IF s \in {"SOURCE_ERR", "INSTALL_FAILED"} THEN "SOURCE_ERR"
  ELSE IF s = "UV_ERR" THEN s ELSE "RUNNING"

(* The program answers its configuration, well or not.                     *)
OnConfPkg(ok) ==
  /\ mod.confs > 0 /\ mod.proc # "none"
  /\ mod' = [Without(mod, "WAIT_CONF") EXCEPT
               !.confs = @ - 1,
               !.status = IF ok THEN ClearConfErr(@) ELSE "CONFIGURATION_ERR"]
  /\ UNCHANGED <<listed, deleting, signal, calls, hurt, ops>>

(* module__write_conf_cb.                                                  *)
ConfFails ==
  /\ mod.confs > 0 /\ mod.proc \in {"dead", "closing"}
  /\ mod' = [mod EXCEPT !.confs = @ - 1, !.status = "UV_ERR"]
  /\ UNCHANGED <<listed, deleting, signal, calls, hurt, ops>>

(* The program ends by itself, or because it was killed.                   *)
Dies(killed) ==
  /\ mod.proc = "alive" /\ (killed => mod.killed)
  /\ mod' = [mod EXCEPT !.proc = "dead"]
  /\ UNCHANGED <<listed, deleting, signal, calls, hurt, ops>>

(* proc__on_exit.                                                          *)
OnProcExit ==
  /\ mod.proc = "dead"
  /\ mod' = [mod EXCEPT !.proc = "closing"]
  /\ UNCHANGED <<listed, deleting, signal, calls, hurt, ops>>

(* Mutant: the futures of the process are not cancelled.                   *)
OnClosedQuietly ==
  /\ mod.proc = "closing" /\ writes = {}
  /\ mod' \in OnExit(mod)
  /\ inbox' = {}
  /\ UNCHANGED <<listed, deleting, signal, fut, futures, next_pid, writes, results, cut, hurt, ops>>

(* proc__on_child_stdout_close, when the requests that were still being    *)
(* written have failed: first the open futures are cancelled.              *)
OnClosed ==
  /\ mod.proc = "closing" /\ writes = {}
  /\ \E m \in OnExit(mod) : Resolve(Open, m)
  /\ futures' = Remove(Open)
  /\ inbox' = {}
  /\ UNCHANGED <<listed, deleting, signal, next_pid, writes, cut, hurt, ops>>
-----------------------------------------------------------------------------
(* The installer, the deploy timer and the removal.                        *)

Installed(s) == {[mod EXCEPT !.status = s, !.installer = "none", !.ref = @ - 1]}

(* Mutant: the reference of the installer is dropped twice.                *)
InstallFinishTwice ==
  {Drop(Drop(m)) : m \in Load([mod EXCEPT !.status = "NOT_LOADED", !.installer = "none"])}

(* module__install_finish, ti_mod_work_destroy.                            *)
InstallFinish ==
  {Drop(m) : m \in Load([mod EXCEPT !.status = "NOT_LOADED", !.installer = "none"])}

(* module__manifest_finish: there is no manifest but a local one may do,   *)
(* the work failed, the module is there, or has to be downloaded; nothing  *)
(* is done with the last reference.                                        *)
ManifestFinish ==
  InstallFinish \cup Installed("SOURCE_ERR") \cup Installed("INSTALL_FAILED")
    \cup IF mod.ref > 1 THEN {[mod EXCEPT !.installer = "download"]}
         ELSE Installed(mod.status)

(* module__download_finish, module__py_requirements_finish.                *)
DownloadFinish ==
  InstallFinish \cup Installed("SOURCE_ERR") \cup Installed("INSTALL_FAILED")
    \cup {[mod EXCEPT !.installer = "requirements"]}

Installer ==
  /\ \/ mod.installer = "manifest" /\ mod' \in ManifestFinish
     \/ mod.installer = "download" /\ mod' \in DownloadFinish
     \/ mod.installer = "requirements" /\ mod' \in InstallFinish
  /\ UNCHANGED <<listed, deleting, signal, calls, hurt, ops>>

(* module__wait_cb, module__wait_close_cb.                                 *)
WaitCb ==
  /\ mod.waiting /\ MayDeploy(mod)
  /\ mod' \in {[Drop(m) EXCEPT !.waiting = FALSE] : m \in Deploy(mod)}
  /\ UNCHANGED <<listed, deleting, signal, calls, hurt, ops>>

(* module__stop_cb.                                                        *)
StopCb ==
  /\ deleting
  /\ deleting' = FALSE
  /\ mod' = StopAndDestroy(mod)
  /\ hurt' = (mod.installer # "none" \/ mod.waiting)
  /\ UNCHANGED <<listed, signal, calls, ops>>

Clients ==
  \/ LoadModule \/ RestartModule \/ DeployModule \/ DelModule
  \/ \E conf \in BOOLEAN : SetModuleConf(conf)
  \/ \E f \in Futures : CallFails(f) \/ Call(f)
  \/ CancelFutures
  \/ \E f \in Futures, p \in DOMAIN futures : StopFuture(f, p)
  \/ Signal \/ StopModules

Program ==
  \/ \E r \in inbox : OnPkg(r)
  \/ \E ok \in BOOLEAN : OnConfPkg(ok)
  \/ Dies(FALSE)

Writes == \E w \in writes : WriteDone(w) \/ WriteFails(w)

(* Nothing is said of a module after it is freed.                          *)
Next ==
  /\ mod.ref > 0
  /\ \/ Clients \/ Program \/ ConfFails \/ Dies(TRUE)
     \/ Writes \/ OnProcExit \/ OnClosed \/ Installer \/ WaitCb \/ StopCb

Spec == Init /\ [][Next]_vars

(* The loop calls every callback that is due, the installer comes to an    *)
(* end, and a program that is killed ends.                                 *)
FairSpec ==
  /\ Spec
  /\ WF_vars(mod.ref > 0 /\ Dies(TRUE)) /\ WF_vars(mod.ref > 0 /\ OnProcExit)
  /\ WF_vars(mod.ref > 0 /\ Writes) /\ WF_vars(mod.ref > 0 /\ OnClosed)
  /\ WF_vars(mod.ref > 0 /\ Installer) /\ WF_vars(mod.ref > 0 /\ WaitCb)
  /\ WF_vars(mod.ref > 0 /\ StopCb)
-----------------------------------------------------------------------------
TypeOK ==
  /\ mod \in [source: {"file", "github"}, conf: BOOLEAN, status: Status,
              flags: SUBSET Flags, ref: Nat, restarts: Nat,
              installer: {"none", "manifest", "download", "requirements"},
              waiting: BOOLEAN, proc: {"alive", "dead", "closing", "none"},
              killed: BOOLEAN, confs: Nat]
  /\ {listed, deleting, signal, hurt} \subseteq BOOLEAN
  /\ fut \in [Futures -> {"new", "open", "done"}]
  /\ futures \in [0 .. Pids - 1 -> Futures \cup {0}]
  /\ next_pid \in 0 .. Pids - 1
  /\ writes \cup inbox \subseteq [pid: 0 .. Pids - 1, future: Futures]
  /\ cut \subseteq Futures
  /\ results \in [Futures -> Nat]
  /\ ops \in 0 .. MaxOps

(* A future has one result, whether it is answered, its request cannot be  *)
(* written, it is cancelled, its package id is used again or the process   *)
(* ends: a second one would be counted to a query that may be gone.  The   *)
(* exception is a future that is cancelled, or gets a late answer to an    *)
(* older request, while its own is still being written: nothing keeps the  *)
(* failing write from using it (module__write_req_cb).                     *)
OneResult ==
  \A f \in Futures : f \notin cut => results[f] = IF fut[f] = "done" THEN 1 ELSE 0

(* A future that waits will have its result.  It is on the list of the     *)
(* module, where an answer, a cancel and the end of the process find it,   *)
(* or its request is still being written, and fails: its place on the list *)
(* may be lost to an older one with the same package id.  None waits for a *)
(* process that has gone, also when that was replaced by another.          *)
NoOrphans ==
  /\ Open \subseteq Waiting /\ Waiting \subseteq Open \cup Written
  /\ mod.proc = "alive" => Waiting = Open
  /\ mod.proc = "none" => Waiting = {}

(* The status and the flag that operations go by tell the truth about the  *)
(* process, through installs, restarts and configurations.                 *)
StatusIsTrue ==
  /\ "IN_USE" \in mod.flags <=> mod.proc # "none"
  /\ listed /\ mod.status = "RUNNING" => mod.proc # "none"
  /\ mod.installer # "none" => mod.proc = "none"

(* The last reference goes when nothing can call back any more.  Except    *)
(* when the module was deleted while it was installed or waited for its    *)
(* deployment: both may start its process again.                           *)
FreedAtRest ==
  mod.ref = 0 /\ ~hurt =>
    /\ mod.proc = "none" /\ mod.installer = "none"
    /\ ~mod.waiting /\ ~deleting /\ ~listed
    /\ Waiting = {} /\ writes = {}

(* A module that is deleted is freed at last, whatever its process, its    *)
(* futures and its installer are doing.                                    *)
Released == deleting ~> (mod.ref = 0 \/ hurt)

(* A restart does not get lost, although it waits for the process to end,  *)
(* which may end by itself, be configured or killed again meanwhile.       *)
(* Unless the node is stopped.                                             *)
RestartEnds ==
  "RESTARTING" \in mod.flags ~>
    ("RESTARTING" \notin mod.flags \/ signal \/ mod.ref = 0 \/ hurt)
=============================================================================
