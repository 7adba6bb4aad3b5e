---------------------------- MODULE ModulesProofs ---------------------------
(***************************************************************************)
(* Proofs about a module, its process and the futures that wait for it,    *)
(* for any number of futures, package ids, restarts and operations.        *)
(***************************************************************************)
EXTENDS Modules, Integers, FiniteSetTheorems, TLAPS

Mods ==
  [source: {"file", "github"}, conf: BOOLEAN, status: Status,
   flags: SUBSET Flags, ref: Nat, restarts: Nat,
   installer: {"none", "manifest", "download", "requirements"},
   waiting: BOOLEAN, proc: {"alive", "dead", "closing", "none"},
   killed: BOOLEAN, confs: Nat]

(* The flags and the status agree with the process and with the installer: *)
(* what keeps an operation from starting a second one of either.           *)
Agrees(m) ==
  /\ "IN_USE" \in m.flags <=> m.proc # "none"
  /\ m.installer # "none" =>
       m.proc = "none" /\ m.status = "INSTALLER_BUSY" /\ "UPDATE" \notin m.flags
  /\ m.status = "RUNNING" => m.proc # "none" \/ "DESTROY" \in m.flags

(* The references that neither the installer nor the deploy timer hold.    *)
Others(m) ==
  m.ref - (IF m.installer # "none" THEN 1 ELSE 0) - (IF m.waiting THEN 1 ELSE 0)

(* Every future that waits holds a reference, and there is one more, which *)
(* goes when the module is deleted and its process has ended.              *)
Held == Others(mod) = Cardinality(Waiting) + 1
Gone ==
  /\ "DESTROY" \in mod.flags /\ ~listed /\ ~deleting /\ Waiting = {}
  /\ hurt \/ (mod.proc = "none" /\ mod.ref = 0)

Deletion ==
  /\ listed => "DESTROY" \notin mod.flags /\ ~deleting
  /\ deleting => "DESTROY" \notin mod.flags
  /\ hurt => "DESTROY" \in mod.flags
  /\ "DESTROY" \in mod.flags /\ ~hurt => mod.installer = "none" /\ ~mod.waiting

(* A future has one package id, and one request that is being written.     *)
(* Whoever has the package id of a request that is being written was       *)
(* called later, and its own request is being written too: so a failing    *)
(* write takes no future off the list that nothing else would resolve.     *)
Requests ==
  /\ Open \subseteq Waiting /\ Waiting \subseteq Open \cup Written
  /\ \A p, q \in DOMAIN futures : futures[p] = futures[q] /\ futures[p] # 0 => p = q
  /\ \A v, w \in writes : v.future = w.future => v = w
  /\ \A w \in writes : \A p \in DOMAIN futures : futures[p] = w.future => p = w.pid
  /\ \A w \in writes : futures[w.pid] # 0 =>
       futures[w.pid] \in Written /\ w.future <= futures[w.pid]
  /\ \A w \in writes : /\ fut[w.future] # "new"
                       /\ fut[w.future] = "done" => w.future \in cut
  /\ \A f, g \in Futures : g < f /\ fut[g] = "new" => fut[f] = "new"

(* Only a process that does not take requests any more loses futures from  *)
(* the list.                                                               *)
Lists ==
  /\ mod.proc = "none" => Waiting = {} /\ writes = {}
  /\ mod.proc = "alive" => Waiting \subseteq Open

MInv ==
  /\ TypeOK /\ Agrees(mod) /\ Deletion /\ (Held \/ Gone)
  /\ Requests /\ Lists /\ OneResult
-----------------------------------------------------------------------------
(* What the operators on a module keep.                                    *)

Kept(m, r) ==
  /\ r \in Mods /\ Agrees(r) /\ Others(r) = Others(m) /\ r.ref >= m.ref
  /\ "DESTROY" \in r.flags <=> "DESTROY" \in m.flags
  /\ m.proc # "none" => r.proc = m.proc
  /\ m.waiting => r.waiting

LEMMA FlagFields ==
  ASSUME NEW m \in Mods, NEW flag \in Flags
  PROVE  /\ With(m, flag) \in Mods /\ Without(m, flag) \in Mods
         /\ With(m, flag).flags = m.flags \cup {flag}
         /\ Without(m, flag).flags = m.flags \ {flag}
         /\ \A r \in {With(m, flag), Without(m, flag)} :
              /\ r.source = m.source /\ r.conf = m.conf /\ r.status = m.status
              /\ r.ref = m.ref /\ r.restarts = m.restarts
              /\ r.installer = m.installer /\ r.waiting = m.waiting
              /\ r.proc = m.proc /\ r.killed = m.killed /\ r.confs = m.confs
<1>1. m.flags \cup {flag} \in SUBSET Flags /\ m.flags \ {flag} \in SUBSET Flags
  BY DEF Mods
<1>. QED BY <1>1 DEF With, Without, Mods

(* A module with other fields of their types is a module.                  *)
LEMMA FieldTypes ==
  ASSUME NEW m \in Mods
  PROVE  /\ \A s \in Status : [m EXCEPT !.status = s] \in Mods
         /\ \A k \in Nat : /\ [m EXCEPT !.confs = k] \in Mods
                           /\ [m EXCEPT !.ref = k] \in Mods
                           /\ [m EXCEPT !.restarts = k] \in Mods
         /\ \A b \in BOOLEAN : /\ [m EXCEPT !.waiting = b] \in Mods
                               /\ [m EXCEPT !.conf = b] \in Mods
         /\ \A p \in {"alive", "dead", "closing", "none"} : [m EXCEPT !.proc = p] \in Mods
         /\ \A i \in {"none", "manifest", "download", "requirements"} :
              [m EXCEPT !.installer = i] \in Mods
BY DEF Mods

LEMMA ConfKeeps ==
  ASSUME NEW m \in Mods, Agrees(m), m.proc # "none", NEW r \in Conf(m)
  PROVE  Kept(m, r) /\ r.installer = m.installer
<1>1. CASE r = Without(m, "WAIT_CONF")
  <2>1. m.ref \in Nat
    BY DEF Mods
  <2>. QED BY <1>1, <2>1, FlagFields, "WAIT_CONF" \in Flags DEF Kept, Agrees, Others, Flags
<1>2. CASE r = [m EXCEPT !.status = "RUNNING", !.confs = @ + 1]
  <2>1. r \in Mods /\ m.ref \in Nat
    <3> DEFINE x == [m EXCEPT !.status = "RUNNING"]
    <3>1. x \in Mods
      BY FieldTypes, "RUNNING" \in Status DEF Status
    <3>0. m.confs + 1 \in Nat /\ m.ref \in Nat
      BY DEF Mods
    <3>2. r = [x EXCEPT !.confs = m.confs + 1]
      BY <1>2
    <3> HIDE DEF x
    <3>. QED BY <3>0, <3>1, <3>2, FieldTypes
  <2>2. /\ r.status = "RUNNING" /\ r.flags = m.flags /\ r.installer = m.installer
        /\ r.proc = m.proc /\ r.ref = m.ref /\ r.waiting = m.waiting
    BY <1>2 DEF Mods
  <2>. QED BY <2>1, <2>2 DEF Kept, Agrees, Others
<1>3. CASE r = [m EXCEPT !.status = "UV_ERR"]
  BY <1>3 DEF Kept, Mods, Agrees, Others, Status
<1>. QED BY <1>1, <1>2, <1>3 DEF Conf

LEMMA SpawnKeeps ==
  ASSUME NEW m \in Mods, Agrees(m), m.proc = "none", m.installer = "none",
         m.status = "NOT_LOADED", NEW r \in Spawn(m)
  PROVE  Kept(m, r) /\ r.installer = "none"
<1> DEFINE w == With(m, "WAIT_CONF")
           u == With(w, "IN_USE")
           n == [u EXCEPT !.status = "RUNNING", !.proc = "alive",
                          !.killed = FALSE, !.confs = 0]
<1>1. /\ w \in Mods /\ w.flags = m.flags \cup {"WAIT_CONF"}
      /\ w.ref = m.ref /\ w.installer = m.installer /\ w.waiting = m.waiting
      /\ w.proc = m.proc
  BY FlagFields, "WAIT_CONF" \in Flags DEF Flags
<1>2. /\ u \in Mods /\ u.flags = w.flags \cup {"IN_USE"}
      /\ u.ref = w.ref /\ u.installer = w.installer /\ u.waiting = w.waiting
  BY <1>1, FlagFields, "IN_USE" \in Flags DEF Flags
<1> HIDE DEF w, u
<1>3. CASE r = [w EXCEPT !.status = "UV_ERR"]
  BY <1>1, <1>3 DEF Kept, Mods, Agrees, Others, Status
<1>4. CASE r \in Conf(n)
  <2>1. /\ n \in Mods /\ Agrees(n) /\ n.proc = "alive" /\ n.installer = "none"
        /\ Others(n) = Others(m) /\ n.ref = m.ref
        /\ "DESTROY" \in n.flags <=> "DESTROY" \in m.flags
    BY <1>1, <1>2 DEF Mods, Agrees, Others, Status
  <2>3. n.waiting = m.waiting
    BY <1>1, <1>2 DEF Mods
  <2>2. Kept(n, r) /\ r.installer = n.installer
    BY <2>1, <1>4, ConfKeeps
  <2>. QED BY <2>1, <2>2, <2>3 DEF Kept
<1>. QED BY <1>3, <1>4 DEF Spawn, w, u

LEMMA LoadKeeps ==
  ASSUME NEW m \in Mods, Agrees(m), NEW r \in Load(m)
  PROVE  Kept(m, r)
<1> DEFINE n == Without(m, "UPDATE")
<1>1. /\ n \in Mods /\ n.flags = m.flags \ {"UPDATE"} /\ n.status = m.status
      /\ n.ref = m.ref /\ n.installer = m.installer /\ n.waiting = m.waiting
      /\ n.proc = m.proc /\ m.ref \in Nat /\ n.source = m.source
  <2>1. m.ref \in Nat
    BY DEF Mods
  <2>. QED BY <2>1, FlagFields, "UPDATE" \in Flags DEF Flags
<1> HIDE DEF n
<1>2. CASE r = m
  BY <1>1, <1>2 DEF Kept
<1>3. CASE /\ "IN_USE" \notin m.flags /\ m.status = "NOT_LOADED"
           /\ r \in Spawn(m)
  <2>1. m.proc = "none" /\ m.installer = "none"
    BY <1>3 DEF Agrees
  <2>. QED BY <1>3, <2>1, SpawnKeeps
<1>4. CASE /\ "IN_USE" \notin m.flags
           /\ m.status \in {"NOT_INSTALLED", "INSTALL_FAILED"} \/ "UPDATE" \in m.flags
  <2>1. m.proc = "none" /\ m.installer = "none"
    BY <1>4 DEF Agrees
  <2>2. Kept(m, n)
    BY <1>1 DEF Kept, Agrees, Others
  <2>3. CASE r = n
    BY <2>2, <2>3
  <2>4. CASE r \in Spawn([n EXCEPT !.status = "NOT_LOADED"])
    <3> DEFINE o == [n EXCEPT !.status = "NOT_LOADED"]
    <3>1. /\ o \in Mods /\ o.status = "NOT_LOADED" /\ o.proc = n.proc
          /\ o.installer = n.installer /\ o.flags = n.flags /\ o.ref = n.ref
          /\ o.waiting = n.waiting
      BY <1>1 DEF Mods, Status
    <3> HIDE DEF o
    <3>2. Agrees(o)
      BY <1>1, <2>1, <3>1, <2>2 DEF Kept, Agrees
    <3>3. Kept(o, r)
      BY <1>1, <2>1, <2>4, <3>1, <3>2, SpawnKeeps DEF o
    <3>. QED BY <1>1, <2>1, <3>1, <3>3 DEF Kept, Others
  <2>5. CASE r = [n EXCEPT !.status = "INSTALLER_BUSY", !.installer = "manifest",
                           !.ref = @ + 1]
    <3>1. r \in Mods
      <4> DEFINE x == [n EXCEPT !.status = "INSTALLER_BUSY"]
                 y == [x EXCEPT !.installer = "manifest"]
      <4>1. x \in Mods
        BY <1>1, FieldTypes, "INSTALLER_BUSY" \in Status DEF Status
      <4>2. r = [y EXCEPT !.ref = n.ref + 1]
        BY <2>5
      <4> HIDE DEF x
      <4>3. y \in Mods
        BY <4>1, FieldTypes
      <4> HIDE DEF y
      <4>4. n.ref + 1 \in Nat
        BY <1>1
      <4>. QED BY <4>2, <4>3, <4>4, FieldTypes
    <3>2. /\ r.status = "INSTALLER_BUSY" /\ r.installer = "manifest"
          /\ r.ref = n.ref + 1 /\ r.flags = n.flags /\ r.proc = n.proc
          /\ r.waiting = n.waiting
      BY <1>1, <2>5 DEF Mods
    <3>. QED BY <1>1, <2>1, <2>2, <3>1, <3>2 DEF Kept, Agrees, Others
  <2>6. [n EXCEPT !.status = "NOT_LOADED"].status = "NOT_LOADED"
    BY <1>1 DEF Mods
  <2>. QED
    <3>1. CASE m.source = "file"
      BY <1>4, <2>3, <2>4, <2>6, <3>1 DEF Load, n
    <3>2. CASE m.source # "file"
      BY <1>4, <2>5, <3>2 DEF Load, n
    <3>. QED BY <3>1, <3>2
<1>5. \/ r = m
      \/ "IN_USE" \notin m.flags /\ m.status = "NOT_LOADED" /\ r \in Spawn(m)
      \/ /\ "IN_USE" \notin m.flags
         /\ m.status \in {"NOT_INSTALLED", "INSTALL_FAILED"} \/ "UPDATE" \in m.flags
  BY DEF Load
<1>. QED BY <1>2, <1>3, <1>4, <1>5

LEMMA StopKeeps ==
  ASSUME NEW m \in Mods, Agrees(m)
  PROVE  Kept(m, Stop(m)) /\ Stop(m).ref = m.ref /\ Stop(m).installer = m.installer
         /\ Stop(m).waiting = m.waiting /\ Stop(m).flags = m.flags
<1>1. m.ref \in Nat
  BY DEF Mods
<1>2. CASE m.proc \in {"alive", "dead"}
  <2>1. Stop(m) \in Mods
    BY <1>2 DEF Stop, Mods, Status
  <2>2. /\ Stop(m).status = "STOPPING" /\ Stop(m).flags = m.flags
        /\ Stop(m).ref = m.ref /\ Stop(m).installer = m.installer
        /\ Stop(m).waiting = m.waiting /\ Stop(m).proc = m.proc
    BY <1>2 DEF Stop, Mods
  <2>. QED BY <1>1, <1>2, <2>1, <2>2 DEF Kept, Agrees, Others
<1>3. CASE m.proc \notin {"alive", "dead"}
  BY <1>1, <1>3 DEF Stop, Kept
<1>. QED BY <1>2, <1>3

LEMMA RestartKeeps ==
  ASSUME NEW m \in Mods, Agrees(m), NEW r \in Restart(m)
  PROVE  Kept(m, r)
<1>1. CASE "IN_USE" \notin m.flags
  BY <1>1, LoadKeeps DEF Restart
<1>2. CASE "IN_USE" \in m.flags
  <2> DEFINE w == With(m, "RESTARTING")
  <2>1. /\ w \in Mods /\ w.flags = m.flags \cup {"RESTARTING"} /\ w.status = m.status
        /\ w.ref = m.ref /\ w.installer = m.installer /\ w.waiting = m.waiting
        /\ w.proc = m.proc
    BY FlagFields, "RESTARTING" \in Flags DEF Flags
  <2>2. r = Stop(w)
    BY <1>2 DEF Restart
  <2> HIDE DEF w
  <2>3. Agrees(w) /\ Others(w) = Others(m)
    BY <2>1 DEF Agrees, Others
  <2>4. Kept(w, r)
    BY <2>1, <2>2, <2>3, StopKeeps
  <2>. QED BY <2>1, <2>3, <2>4 DEF Kept
<1>. QED BY <1>1, <1>2

LEMMA DeployKeeps ==
  ASSUME NEW m \in Mods, Agrees(m), NEW r \in Deploy(m)
  PROVE  Kept(m, r)
<1>0. m.ref \in Nat /\ m.waiting \in BOOLEAN
  BY DEF Mods
<1>1. CASE ~MayDeploy(m)
  <2> DEFINE k == IF m.waiting THEN m.ref ELSE m.ref + 1
             x == [m EXCEPT !.waiting = TRUE]
  <2>1. r = [x EXCEPT !.ref = k]
    BY <1>1 DEF Deploy
  <2>2. /\ x \in Mods /\ x.ref = m.ref /\ x.flags = m.flags /\ x.proc = m.proc
        /\ x.status = m.status /\ x.installer = m.installer /\ x.waiting = TRUE
    <3>1. x \in Mods
      BY FieldTypes
    <3>. QED BY <3>1 DEF Mods
  <2>3. k \in Nat
    BY <1>0
  <2> HIDE DEF x
  <2>4. r \in Mods
    BY <2>1, <2>2, <2>3, FieldTypes
  <2>5. /\ r.ref = k /\ r.flags = x.flags /\ r.proc = x.proc
        /\ r.status = x.status /\ r.installer = x.installer /\ r.waiting = x.waiting
    BY <2>1, <2>2, <2>4 DEF Mods
  <2>. QED BY <1>0, <2>2, <2>4, <2>5 DEF Kept, Agrees, Others
<1>2. CASE MayDeploy(m) /\ m.source = "file"
  <2> DEFINE n == IF m.status = "NOT_INSTALLED" THEN [m EXCEPT !.status = "NOT_LOADED"] ELSE m
  <2>1. Kept(m, n)
    <3>1. CASE n = m
      BY <1>0, <3>1 DEF Kept
    <3>2. CASE m.status = "NOT_INSTALLED" /\ n = [m EXCEPT !.status = "NOT_LOADED"]
      <4>1. n \in Mods
        BY <3>2, FieldTypes, "NOT_LOADED" \in Status DEF Status
      <4>2. /\ n.ref = m.ref /\ n.flags = m.flags /\ n.proc = m.proc
            /\ n.status = "NOT_LOADED" /\ n.installer = m.installer
            /\ n.waiting = m.waiting
        BY <3>2 DEF Mods
      <4>. QED BY <1>0, <3>2, <4>1, <4>2 DEF Kept, Agrees, Others
    <3>. QED BY <3>1, <3>2
  <2>2. r = n \/ r \in Restart(n)
    BY <1>2 DEF Deploy
  <2> HIDE DEF n
  <2>3. CASE r \in Restart(n)
    <3>1. Kept(n, r)
      BY <2>1, <2>3, RestartKeeps DEF Kept
    <3>2. n.ref \in Nat /\ r.ref \in Nat
      BY <2>1, <3>1 DEF Kept, Mods
    <3>. QED BY <1>0, <2>1, <3>1, <3>2 DEF Kept
  <2>. QED BY <2>1, <2>2, <2>3
<1>3. CASE MayDeploy(m) /\ m.source # "file"
  <2> DEFINE w == With(m, "UPDATE")
  <2>1. /\ w \in Mods /\ w.flags = m.flags \cup {"UPDATE"} /\ w.status = m.status
        /\ w.ref = m.ref /\ w.installer = m.installer /\ w.waiting = m.waiting
        /\ w.proc = m.proc
    BY FlagFields, "UPDATE" \in Flags DEF Flags
  <2>2. r \in Restart(w)
    BY <1>3 DEF Deploy
  <2> HIDE DEF w
  <2>3. Agrees(w) /\ Others(w) = Others(m)
    BY <1>3, <2>1 DEF Agrees, Others, MayDeploy
  <2>4. Kept(w, r)
    BY <2>1, <2>2, <2>3, RestartKeeps
  <2>. QED BY <2>1, <2>3, <2>4 DEF Kept
<1>. QED BY <1>1, <1>2, <1>3

(* A reference less.                                                       *)
Dropped(m, r) ==
  /\ r \in Mods /\ Agrees(r) /\ Others(r) = Others(m) - 1 /\ r.ref = m.ref - 1
  /\ r.flags = m.flags /\ r.proc = m.proc /\ r.installer = m.installer
  /\ r.waiting = m.waiting /\ r.status = m.status

LEMMA DropFacts ==
  ASSUME NEW m \in Mods, Agrees(m), m.ref > 0
  PROVE  Dropped(m, Drop(m))
<1>1. m.ref \in Nat /\ m.ref - 1 \in Nat
  BY DEF Mods
<1>2. Drop(m) \in Mods
  BY <1>1, FieldTypes DEF Drop
<1>3. /\ Drop(m).ref = m.ref - 1 /\ Drop(m).flags = m.flags /\ Drop(m).proc = m.proc
      /\ Drop(m).installer = m.installer /\ Drop(m).waiting = m.waiting
      /\ Drop(m).status = m.status
  BY <1>1 DEF Drop, Mods
<1>. QED BY <1>1, <1>2, <1>3 DEF Dropped, Agrees, Others

LEMMA StopAndDestroyFacts ==
  ASSUME NEW m \in Mods, Agrees(m), m.ref > 0
  PROVE  LET r == StopAndDestroy(m) IN
         /\ r \in Mods /\ Agrees(r) /\ "DESTROY" \in r.flags
         /\ r.installer = m.installer /\ r.waiting = m.waiting /\ r.proc = m.proc
         /\ m.proc = "none" => Others(r) = Others(m) - 1 /\ r.ref = m.ref - 1
         /\ m.proc # "none" => Others(r) = Others(m) /\ r.ref = m.ref
<1> DEFINE w == With(m, "DESTROY")
<1>1. /\ w \in Mods /\ w.flags = m.flags \cup {"DESTROY"} /\ w.status = m.status
      /\ w.ref = m.ref /\ w.installer = m.installer /\ w.waiting = m.waiting
      /\ w.proc = m.proc
  BY FlagFields, "DESTROY" \in Flags DEF Flags
<1>2. StopAndDestroy(m) = IF "IN_USE" \in m.flags THEN Stop(w) ELSE Drop(w)
  BY DEF StopAndDestroy
<1> HIDE DEF w
<1>3. Agrees(w) /\ Others(w) = Others(m)
  BY <1>1 DEF Agrees, Others
<1>4. "IN_USE" \in m.flags <=> m.proc # "none"
  BY DEF Agrees
<1>5. CASE m.proc # "none"
  <2>1. Stop(w).proc = w.proc
    BY <1>1, <1>3, <1>5, StopKeeps DEF Kept
  <2>. QED BY <1>1, <1>2, <1>3, <1>4, <1>5, <2>1, StopKeeps DEF Kept
<1>6. CASE m.proc = "none"
  BY <1>1, <1>2, <1>3, <1>4, <1>6, DropFacts DEF Dropped
<1>. QED BY <1>5, <1>6

LEMMA OnExitFacts ==
  ASSUME NEW m \in Mods, Agrees(m), m.proc # "none", m.ref > 0, NEW r \in OnExit(m)
  PROVE  /\ r \in Mods /\ Agrees(r)
         /\ "DESTROY" \in r.flags <=> "DESTROY" \in m.flags
         /\ "DESTROY" \in m.flags =>
              /\ Others(r) = Others(m) - 1 /\ r.ref = m.ref - 1 /\ r.proc = "none"
              /\ r.installer = m.installer /\ r.waiting = m.waiting
         /\ "DESTROY" \notin m.flags => Others(r) = Others(m) /\ r.ref >= m.ref
<1> DEFINE u == Without(m, "IN_USE")
           x == [u EXCEPT !.proc = "none"]
           again == [x EXCEPT !.status = "NOT_LOADED"]
           many == [[x EXCEPT !.status = "TOO_MANY_RESTARTS"] EXCEPT !.restarts = @ + 1]
           fresh == [Without(again, "RESTARTING") EXCEPT !.restarts = 0]
           retry == [again EXCEPT !.restarts = @ + 1]
<1>1. /\ u \in Mods /\ u.flags = m.flags \ {"IN_USE"} /\ u.status = m.status
      /\ u.ref = m.ref /\ u.installer = m.installer /\ u.waiting = m.waiting
  BY FlagFields, "IN_USE" \in Flags DEF Flags
<1>3. "DESTROY" \in m.flags => r = Drop(x)
  BY DEF OnExit
<1>5. "DESTROY" \notin m.flags => \/ r = x /\ m.status # "RUNNING"
                                  \/ r \in {again, many} \cup Load(fresh) \cup Load(retry)
  BY DEF OnExit
<1> HIDE DEF u
<1>6. /\ x \in Mods /\ x.flags = u.flags /\ x.status = u.status /\ x.proc = "none"
      /\ x.ref = u.ref /\ x.installer = u.installer /\ x.waiting = u.waiting
  <2>1. x \in Mods
    BY <1>1, FieldTypes
  <2>. QED BY <1>1, <2>1 DEF Mods
<1>7. m.installer = "none" /\ m.ref \in Nat
  BY DEF Agrees, Mods
<1> HIDE DEF x
<1>8. CASE "DESTROY" \in m.flags
  <2>1. Agrees(x) /\ Others(x) = Others(m)
    BY <1>1, <1>6, <1>7, <1>8 DEF Agrees, Others
  <2>2. Dropped(x, Drop(x))
    BY <1>1, <1>6, <2>1, DropFacts
  <2>. QED BY <1>1, <1>3, <1>6, <1>8, <2>1, <2>2 DEF Dropped
<1>9. CASE "DESTROY" \notin m.flags
  <2>1. \A n : /\ n \in Mods
               /\ n.flags = x.flags \/ n.flags = x.flags \ {"RESTARTING"}
               /\ n.status # "RUNNING" /\ n.proc = "none"
               /\ n.ref = x.ref /\ n.installer = x.installer /\ n.waiting = x.waiting
               => Agrees(n) /\ Others(n) = Others(m) /\ n.ref = m.ref
                  /\ "DESTROY" \notin n.flags
    BY <1>1, <1>6, <1>7, <1>9 DEF Agrees, Others
  <2>2. CASE r = x /\ m.status # "RUNNING"
    BY <1>1, <1>6, <1>7, <1>9, <2>1, <2>2
  <2>3. /\ again \in Mods /\ again.flags = x.flags /\ again.status = "NOT_LOADED"
        /\ again.proc = x.proc /\ again.ref = x.ref /\ again.installer = x.installer
        /\ again.waiting = x.waiting /\ again.restarts + 1 \in Nat
    <3>1. again \in Mods
      BY <1>6, FieldTypes, "NOT_LOADED" \in Status DEF Status
    <3>. QED BY <1>6, <3>1 DEF Mods
  <2>4. CASE r = many
    <3> DEFINE y == [x EXCEPT !.status = "TOO_MANY_RESTARTS"]
    <3>1. y \in Mods
      BY <1>6, FieldTypes, "TOO_MANY_RESTARTS" \in Status DEF Status
    <3>2. /\ y.flags = x.flags /\ y.status = "TOO_MANY_RESTARTS"
          /\ y.proc = x.proc /\ y.ref = x.ref /\ y.installer = x.installer
          /\ y.waiting = x.waiting /\ y.restarts + 1 \in Nat
      BY <1>6, <3>1 DEF Mods
    <3>3. r = [y EXCEPT !.restarts = y.restarts + 1]
      BY <2>4
    <3> HIDE DEF y
    <3>4. r \in Mods
      BY <3>1, <3>2, <3>3, FieldTypes
    <3>5. /\ r.flags = y.flags /\ r.status = y.status
          /\ r.proc = y.proc /\ r.ref = y.ref /\ r.installer = y.installer
          /\ r.waiting = y.waiting
      BY <3>1, <3>3 DEF Mods
    <3>. QED BY <1>6, <1>7, <1>9, <2>1, <3>2, <3>4, <3>5
  <2> HIDE DEF again
  <2>5. CASE r = again
    BY <1>6, <1>7, <1>9, <2>1, <2>3, <2>5
  <2>6. CASE r \in Load(retry)
    <3>1. retry \in Mods
      BY <2>3, FieldTypes
    <3>2. /\ retry.flags = x.flags /\ retry.status = "NOT_LOADED"
          /\ retry.proc = x.proc /\ retry.ref = x.ref /\ retry.installer = x.installer
          /\ retry.waiting = x.waiting
      BY <2>3 DEF Mods
    <3> HIDE DEF retry
    <3>3. Agrees(retry) /\ Others(retry) = Others(m) /\ retry.ref = m.ref
          /\ "DESTROY" \notin retry.flags
      BY <1>6, <2>1, <3>1, <3>2
    <3>4. Kept(retry, r)
      BY <2>6, <3>1, <3>3, LoadKeeps
    <3>. QED BY <1>9, <3>3, <3>4 DEF Kept
  <2>7. CASE r \in Load(fresh)
    <3> DEFINE w == Without(again, "RESTARTING")
    <3>1. /\ w \in Mods /\ w.flags = again.flags \ {"RESTARTING"}
          /\ w.status = again.status /\ w.proc = again.proc /\ w.ref = again.ref
          /\ w.installer = again.installer /\ w.waiting = again.waiting
      BY <2>3, FlagFields, "RESTARTING" \in Flags DEF Flags
    <3> HIDE DEF w
    <3> DEFINE f == [w EXCEPT !.restarts = 0]
    <3>2. f \in Mods /\ fresh = f
      BY <3>1, FieldTypes DEF w
    <3>3. /\ f.flags = w.flags /\ f.status = w.status /\ f.proc = w.proc
          /\ f.ref = w.ref /\ f.installer = w.installer /\ f.waiting = w.waiting
      BY <3>1 DEF Mods
    <3> HIDE DEF f, fresh
    <3>4. Agrees(f) /\ Others(f) = Others(m) /\ f.ref = m.ref /\ "DESTROY" \notin f.flags
      BY <1>6, <2>1, <2>3, <3>1, <3>2, <3>3
    <3>5. Kept(f, r)
      BY <2>7, <3>2, <3>4, LoadKeeps
    <3>. QED BY <1>9, <3>4, <3>5 DEF Kept
  <2>8. \/ r = x /\ m.status # "RUNNING"
        \/ r \in {again, many} \cup Load(fresh) \cup Load(retry)
    BY <1>5, <1>9
  <2>. QED BY <2>2, <2>4, <2>5, <2>6, <2>7, <2>8
<1>. QED BY <1>8, <1>9

LEMMA InstallerFacts ==
  ASSUME mod \in Mods, Agrees(mod), mod.ref > 0, mod.installer # "none",
         Installer
  PROVE  /\ mod' \in Mods /\ Agrees(mod') /\ Others(mod') = Others(mod)
         /\ "DESTROY" \in mod'.flags <=> "DESTROY" \in mod.flags
<1> DEFINE i == [mod EXCEPT !.installer = "none"]
           l == [[mod EXCEPT !.status = "NOT_LOADED"] EXCEPT !.installer = "none"]
<1>0. /\ mod.ref \in Nat /\ mod.ref - 1 \in Nat /\ mod.status \in Status
      /\ mod.status = "INSTALLER_BUSY" /\ mod.proc = "none"
  BY DEF Mods, Agrees
<1>1. \/ mod' \in {Drop(m) : m \in Load(l)}
      \/ \E s \in {"SOURCE_ERR", "INSTALL_FAILED", mod.status} : mod' \in Installed(s)
      \/ \E w \in {"download", "requirements"} : mod' = [mod EXCEPT !.installer = w]
  BY <1>0 DEF Installer, ManifestFinish, DownloadFinish, InstallFinish
<1>2. CASE mod' \in {Drop(m) : m \in Load(l)}
  <2> DEFINE y == [mod EXCEPT !.status = "NOT_LOADED"]
  <2>1. y \in Mods /\ l = [y EXCEPT !.installer = "none"]
    BY FieldTypes, "NOT_LOADED" \in Status DEF Status
  <2>2. /\ y.flags = mod.flags /\ y.status = "NOT_LOADED" /\ y.proc = mod.proc
        /\ y.ref = mod.ref /\ y.waiting = mod.waiting
    BY DEF Mods
  <2> HIDE DEF y, l
  <2>3. l \in Mods
    BY <2>1, FieldTypes
  <2>4. /\ l.flags = y.flags /\ l.status = y.status /\ l.proc = y.proc
        /\ l.ref = y.ref /\ l.waiting = y.waiting /\ l.installer = "none"
    BY <2>1 DEF Mods
  <2>5. Agrees(l) /\ Others(l) = Others(mod) + 1
    BY <1>0, <2>2, <2>4 DEF Agrees, Others
  <2>6. PICK m \in Load(l) : mod' = Drop(m)
    BY <1>2
  <2>7. Kept(l, m)
    BY <2>3, <2>5, LoadKeeps
  <2>8. Dropped(m, mod')
    <3>1. m.ref > 0
      BY <1>0, <2>2, <2>4, <2>7 DEF Kept, Mods
    <3>. QED BY <2>6, <2>7, <3>1, DropFacts DEF Kept
  <2>9. Others(m) \in Int /\ Others(mod) \in Int
    BY <2>7 DEF Kept, Others, Mods
  <2>. QED BY <2>2, <2>4, <2>5, <2>7, <2>8, <2>9 DEF Kept, Dropped
<1>3. ASSUME NEW s \in {"SOURCE_ERR", "INSTALL_FAILED", mod.status},
             mod' \in Installed(s)
      PROVE  /\ mod' \in Mods /\ Agrees(mod') /\ Others(mod') = Others(mod)
             /\ "DESTROY" \in mod'.flags <=> "DESTROY" \in mod.flags
  <2> DEFINE y == [mod EXCEPT !.status = s]
             z == [y EXCEPT !.installer = "none"]
  <2>1. mod' = [z EXCEPT !.ref = mod.ref - 1]
    BY <1>3 DEF Installed
  <2>2. y \in Mods
    BY <1>0, FieldTypes, s \in Status DEF Status
  <2>3. /\ y.flags = mod.flags /\ y.status = s /\ y.proc = mod.proc
        /\ y.waiting = mod.waiting
    BY DEF Mods
  <2> HIDE DEF y
  <2>4. z \in Mods
    BY <2>2, FieldTypes
  <2>5. /\ z.flags = y.flags /\ z.status = y.status /\ z.proc = y.proc
        /\ z.waiting = y.waiting /\ z.installer = "none"
    BY <2>2 DEF Mods
  <2> HIDE DEF z
  <2>6. mod' \in Mods
    BY <1>0, <2>1, <2>4, FieldTypes
  <2>7. /\ mod'.flags = z.flags /\ mod'.status = z.status /\ mod'.proc = z.proc
        /\ mod'.waiting = z.waiting /\ mod'.installer = z.installer
        /\ mod'.ref = mod.ref - 1
    BY <1>0, <2>1, <2>4 DEF Mods
  <2>. QED BY <1>0, <2>3, <2>5, <2>6, <2>7 DEF Agrees, Others
<1>4. ASSUME NEW w \in {"download", "requirements"}, mod' = [mod EXCEPT !.installer = w]
      PROVE  /\ mod' \in Mods /\ Agrees(mod') /\ Others(mod') = Others(mod)
             /\ "DESTROY" \in mod'.flags <=> "DESTROY" \in mod.flags
  <2>1. mod' \in Mods
    BY <1>4, FieldTypes
  <2>2. /\ mod'.flags = mod.flags /\ mod'.status = mod.status /\ mod'.proc = mod.proc
        /\ mod'.waiting = mod.waiting /\ mod'.installer = w /\ mod'.ref = mod.ref
    BY <1>4 DEF Mods
  <2>. QED BY <1>0, <2>1, <2>2 DEF Agrees, Others
<1>. QED BY <1>1, <1>2, <1>3, <1>4

LEMMA WaitCbFacts ==
  ASSUME mod \in Mods, Agrees(mod), mod.ref > 0, WaitCb
  PROVE  /\ mod' \in Mods /\ Agrees(mod') /\ Others(mod') = Others(mod)
         /\ "DESTROY" \in mod'.flags <=> "DESTROY" \in mod.flags
         /\ mod.proc # "none" => mod'.proc = mod.proc
<1>1. PICK m \in Deploy(mod) : mod' = [Drop(m) EXCEPT !.waiting = FALSE]
  BY DEF WaitCb
<1>2. Kept(mod, m) /\ m.waiting
  BY DeployKeeps DEF Kept, WaitCb
<1>3. Dropped(m, Drop(m))
  <2>1. m.ref > 0
    BY <1>2 DEF Kept, Mods
  <2>. QED BY <1>2, <2>1, DropFacts DEF Kept
<1> DEFINE d == Drop(m)
<1>4. d \in Mods /\ Dropped(m, d) /\ mod' = [d EXCEPT !.waiting = FALSE]
  BY <1>1, <1>3 DEF Dropped
<1> HIDE DEF d
<1>5. mod' \in Mods
  BY <1>4, FieldTypes
<1>6. /\ mod'.flags = d.flags /\ mod'.status = d.status /\ mod'.proc = d.proc
      /\ mod'.waiting = FALSE /\ mod'.installer = d.installer /\ mod'.ref = d.ref
  BY <1>4 DEF Mods
<1>7. Agrees(mod') /\ Others(mod') = Others(m)
  <2>1. m.ref \in Nat
    BY <1>2 DEF Kept, Mods
  <2>. QED BY <1>2, <1>4, <1>6, <2>1 DEF Dropped, Agrees, Others
<1>. QED BY <1>2, <1>4, <1>5, <1>6, <1>7 DEF Kept, Dropped
-----------------------------------------------------------------------------
(* The invariant, part by part.                                            *)

CallTypes ==
  /\ fut \in [Futures -> {"new", "open", "done"}]
  /\ futures \in [0 .. Pids - 1 -> Futures \cup {0}]
  /\ next_pid \in 0 .. Pids - 1
  /\ writes \cup inbox \subseteq [pid: 0 .. Pids - 1, future: Futures]
  /\ cut \subseteq Futures
  /\ results \in [Futures -> Nat]

(* What is said of the futures alone.                                      *)
CallInv == Requests /\ OneResult

LEMMA TypeParts ==
  TypeOK <=> /\ mod \in Mods
             /\ {listed, deleting, signal, hurt} \subseteq BOOLEAN
             /\ CallTypes /\ ops \in 0 .. MaxOps
BY DEF TypeOK, Mods, CallTypes

LEMMA InvParts ==
  MInv <=> TypeOK /\ Agrees(mod) /\ Deletion /\ (Held \/ Gone) /\ CallInv /\ Lists
BY DEF MInv, CallInv

LEMMA NextParts ==
  ASSUME mod' \in Mods, {listed, deleting, signal, hurt}' \subseteq BOOLEAN,
         CallTypes', ops' \in 0 .. MaxOps, Agrees(mod'), Deletion', (Held \/ Gone)',
         CallInv', Lists'
  PROVE  MInv'
<1>1. TypeOK'
  BY DEF TypeOK, Mods, CallTypes
<1>. QED BY <1>1 DEF MInv, CallInv

(* Nothing happens to the futures.                                         *)
LEMMA CallsStay ==
  ASSUME CallTypes, CallInv, UNCHANGED calls
  PROVE  /\ CallTypes' /\ CallInv' /\ Open' = Open /\ Waiting' = Waiting /\ writes' = writes
<1>1. /\ fut' = fut /\ futures' = futures /\ next_pid' = next_pid /\ writes' = writes
      /\ inbox' = inbox /\ results' = results /\ cut' = cut
  BY DEF calls
<1>2. Open' = Open /\ Waiting' = Waiting /\ Written' = Written
  BY <1>1 DEF Open, Waiting, Written
<1>3. CallTypes'
  BY <1>1 DEF CallTypes
<1>4. Requests' /\ OneResult'
  BY <1>1, <1>2 DEF CallInv, Requests, OneResult
<1>. QED BY <1>1, <1>2, <1>3, <1>4 DEF CallInv

LEMMA WaitingFinite ==
  ASSUME CallTypes
  PROVE  /\ Open \subseteq Futures
         /\ Waiting \subseteq Futures /\ IsFiniteSet(Waiting) /\ Cardinality(Waiting) \in Nat
         /\ \A F \in SUBSET Waiting : IsFiniteSet(F) /\ Cardinality(F) \in Nat
<1>1. Open \subseteq Futures /\ Waiting \subseteq Futures
  BY DEF Open, Waiting, CallTypes
<1>2. \A F \in SUBSET Waiting : IsFiniteSet(F)
  BY <1>1, FS_Subset, FuturesAssumption
<1>. QED BY <1>1, <1>2, FS_CardinalityType

(* A step of the module alone, which does not drop a reference of others.  *)
LEMMA PlainStep ==
  ASSUME MInv, mod.ref > 0, UNCHANGED <<listed, deleting, calls, hurt>>,
         signal' \in BOOLEAN, ops' \in 0 .. MaxOps,
         mod' \in Mods, Agrees(mod'), Others(mod') = Others(mod),
         "DESTROY" \in mod'.flags <=> "DESTROY" \in mod.flags,
         mod.proc # "none" => mod'.proc # "none",
         mod'.proc = "alive" => mod.proc \in {"alive", "none"},
         "DESTROY" \in mod.flags /\ ~hurt => mod'.installer = "none" /\ ~mod'.waiting
  PROVE  MInv'
<1> USE InvParts
<1>1. /\ CallTypes /\ CallInv /\ Deletion /\ (Held \/ Gone) /\ Lists
      /\ {listed, deleting, signal, hurt} \subseteq BOOLEAN
  BY TypeParts
<1>2. CallTypes' /\ CallInv' /\ Open' = Open /\ Waiting' = Waiting /\ writes' = writes
  BY <1>1, CallsStay
<1>3. {listed, deleting, signal, hurt}' \subseteq BOOLEAN
  BY <1>1
<1>4. Deletion'
  BY <1>1 DEF Deletion
<1>5. (Held \/ Gone)'
  <2>1. CASE Held
    BY <1>2, <2>1 DEF Held
  <2>2. CASE Gone
    BY <1>2, <2>2 DEF Gone
  <2>. QED BY <1>1, <2>1, <2>2
<1>6. Lists'
  BY <1>1, <1>2 DEF Lists
<1>. QED BY <1>2, <1>3, <1>4, <1>5, <1>6, NextParts

(* The futures F have their result, and entries of the list are freed: at  *)
(* least theirs.                                                           *)
LEMMA ResolveStep ==
  ASSUME CallTypes, CallInv, NEW F \in SUBSET Waiting,
         fut' = [f \in Futures |-> IF f \in F THEN "done" ELSE fut[f]],
         results' = [f \in Futures |-> IF f \in F THEN results[f] + 1 ELSE results[f]],
         futures' \in [0 .. Pids - 1 -> Futures \cup {0}],
         \A p \in 0 .. Pids - 1 : futures'[p] \in {futures[p], 0} /\ futures'[p] \notin F,
         Waiting \ F \subseteq Open' \cup Written',
         next_pid' = next_pid, writes' \subseteq writes,
         \A w \in writes' : futures'[w.pid] # 0 => futures'[w.pid] \in Written',
         inbox' \subseteq [pid: 0 .. Pids - 1, future: Futures],
         cut \subseteq cut', cut' \subseteq Futures,
         \A w \in writes' : w.future \in F => w.future \in cut'
  PROVE  /\ CallTypes' /\ CallInv' /\ Open' \subseteq Open /\ Waiting' = Waiting \ F
         /\ Cardinality(Waiting') = Cardinality(Waiting) - Cardinality(F)
<1>1. DOMAIN futures = 0 .. Pids - 1 /\ DOMAIN futures' = 0 .. Pids - 1
  BY DEF CallTypes
<1>2. Requests
  BY DEF CallInv
<1>3. 0 \notin Futures /\ F \subseteq Futures
  BY FuturesAssumption, WaitingFinite
<1>4. Waiting' = Waiting \ F
  BY <1>3 DEF Waiting, CallTypes
<1>5. Cardinality(Waiting') = Cardinality(Waiting) - Cardinality(F)
  <2>1. IsFiniteSet(Waiting) /\ IsFiniteSet(F)
    BY WaitingFinite
  <2>2. Cardinality(Waiting \ F) = Cardinality(Waiting) - Cardinality(Waiting \cap F)
    BY <2>1, FS_Difference
  <2>3. Waiting \cap F = F
    OBVIOUS
  <2>. QED BY <1>4, <2>2, <2>3
<1>6. CallTypes'
  <2>1. fut' \in [Futures -> {"new", "open", "done"}] /\ results' \in [Futures -> Nat]
    BY DEF CallTypes
  <2>3. next_pid' \in 0 .. Pids - 1 /\ cut' \subseteq Futures
        /\ writes' \cup inbox' \subseteq [pid: 0 .. Pids - 1, future: Futures]
    BY DEF CallTypes
  <2>. QED BY <2>1, <2>3 DEF CallTypes
<1>7. Open' \subseteq Open /\ Open' \cap F = {}
  BY <1>1 DEF Open
<1>8. Open' \subseteq Waiting' /\ Waiting' \subseteq Open' \cup Written'
  BY <1>2, <1>4, <1>7 DEF Requests
<1>9. \A p, q \in DOMAIN futures' : futures'[p] = futures'[q] /\ futures'[p] # 0 => p = q
  BY <1>1, <1>2 DEF Requests
<1>10. \A v, w \in writes' : v.future = w.future => v = w
  BY <1>2 DEF Requests
<1>11. ASSUME NEW w \in writes'
       PROVE  /\ \A p \in DOMAIN futures' : futures'[p] = w.future => p = w.pid
              /\ futures'[w.pid] # 0 => w.future <= futures'[w.pid]
              /\ fut'[w.future] # "new"
              /\ fut'[w.future] = "done" => w.future \in cut'
  <2>1. w \in writes /\ w.future \in Futures /\ w.pid \in 0 .. Pids - 1
    BY DEF CallTypes
  <2>2. /\ fut[w.future] # "new" /\ (fut[w.future] = "done" => w.future \in cut)
        /\ \A p \in DOMAIN futures : futures[p] = w.future => p = w.pid
        /\ futures[w.pid] # 0 => w.future <= futures[w.pid]
    BY <1>2, <2>1 DEF Requests
  <2>3. \A p \in DOMAIN futures' : futures'[p] = w.future => p = w.pid
    BY <1>1, <1>3, <2>1, <2>2
  <2>4. futures'[w.pid] # 0 => w.future <= futures'[w.pid]
    BY <2>1, <2>2
  <2>. QED BY <2>1, <2>2, <2>3, <2>4
<1>12. \A f, g \in Futures : g < f /\ fut'[g] = "new" => fut'[f] = "new"
  <2> SUFFICES ASSUME NEW f \in Futures, NEW g \in Futures, g < f, fut'[g] = "new"
               PROVE  fut'[f] = "new"
    OBVIOUS
  <2>1. fut[g] = "new"
    OBVIOUS
  <2>2. fut[f] = "new"
    BY <1>2, <2>1 DEF Requests
  <2>. QED BY <2>2 DEF Waiting
<1>13. OneResult'
  <2> SUFFICES ASSUME NEW f \in Futures, f \notin cut'
               PROVE  results'[f] = IF fut'[f] = "done" THEN 1 ELSE 0
    BY DEF OneResult
  <2>1. f \notin cut /\ results[f] = IF fut[f] = "done" THEN 1 ELSE 0
    BY DEF CallInv, OneResult
  <2>2. f \in F => fut[f] = "open"
    BY DEF Waiting
  <2>. QED BY <2>1, <2>2
<1>14. Requests'
  BY <1>8, <1>9, <1>10, <1>11, <1>12 DEF Requests
<1>. QED BY <1>4, <1>5, <1>6, <1>7, <1>13, <1>14 DEF CallInv
-----------------------------------------------------------------------------
(* Every action keeps the invariant.                                       *)

LEMMA KeptStep ==
  ASSUME MInv, mod.ref > 0, UNCHANGED <<listed, deleting, signal, calls, hurt>>,
         ops' \in 0 .. MaxOps, listed, Kept(mod, mod')
  PROVE  MInv'
<1>1. "DESTROY" \notin mod.flags /\ signal \in BOOLEAN
  BY InvParts, TypeParts DEF Deletion
<1>. QED BY <1>1, PlainStep DEF Kept

LEMMA OperationStep ==
  ASSUME MInv, mod.ref > 0,
         LoadModule \/ RestartModule \/ DeployModule
           \/ \E conf \in BOOLEAN : SetModuleConf(conf)
  PROVE  MInv'
<1>1. mod \in Mods /\ Agrees(mod) /\ ops \in 0 .. MaxOps /\ "DESTROY" \notin mod.flags
  <2>1. listed
    BY DEF LoadModule, RestartModule, DeployModule, SetModuleConf, Operation
  <2>. QED BY <2>1, InvParts, TypeParts DEF Deletion
<1>2. ops' \in 0 .. MaxOps /\ listed /\ UNCHANGED <<listed, deleting, signal, calls, hurt>>
  <2>1. listed /\ UNCHANGED <<listed, deleting, signal, calls, hurt>>
    BY DEF LoadModule, RestartModule, DeployModule, SetModuleConf, Operation
  <2>2. (ops = 0 /\ ops' = 1) \/ (ops < MaxOps /\ ops' = ops + 1)
    BY DEF LoadModule, RestartModule, DeployModule, SetModuleConf, Operation
  <2>3. ops' \in 0 .. MaxOps
    BY <1>1, <2>2, ModulesBoundsAssumption
  <2>. QED BY <2>1, <2>3
<1>3. CASE mod' \in Load(mod) \cup Restart(mod) \cup Deploy(mod)
  <2>1. Kept(mod, mod')
    BY <1>1, <1>3, LoadKeeps, RestartKeeps, DeployKeeps
  <2>. QED BY <1>2, <2>1, KeptStep
<1>4. ASSUME NEW conf \in BOOLEAN, SetModuleConf(conf)
      PROVE  MInv'
  <2> DEFINE m == [mod EXCEPT !.conf = conf]
  <2>1. m \in Mods
    BY <1>1, FieldTypes
  <2>2. /\ m.flags = mod.flags /\ m.status = mod.status /\ m.proc = mod.proc
        /\ m.waiting = mod.waiting /\ m.installer = mod.installer /\ m.ref = mod.ref
    BY <1>1 DEF Mods
  <2>3. mod' \in IF "IN_USE" \in mod.flags THEN Conf(m) ELSE Load(m)
    BY <1>4 DEF SetModuleConf
  <2> HIDE DEF m
  <2>4. Agrees(m) /\ Others(m) = Others(mod)
    BY <1>1, <2>2 DEF Agrees, Others
  <2>5. Kept(m, mod')
    <3>1. CASE "IN_USE" \in mod.flags
      <4>1. m.proc # "none"
        BY <1>1, <2>2, <3>1 DEF Agrees
      <4>. QED BY <2>1, <2>3, <2>4, <3>1, <4>1, ConfKeeps
    <3>2. CASE "IN_USE" \notin mod.flags
      BY <2>1, <2>3, <2>4, <3>2, LoadKeeps
    <3>. QED BY <3>1, <3>2
  <2>6. Kept(mod, mod')
    BY <2>2, <2>4, <2>5 DEF Kept
  <2>. QED BY <1>2, <2>6, KeptStep
<1>5. \/ mod' \in Load(mod) \cup Restart(mod) \cup Deploy(mod)
      \/ \E conf \in BOOLEAN : SetModuleConf(conf)
  BY DEF LoadModule, RestartModule, DeployModule
<1>. QED BY <1>3, <1>4, <1>5

LEMMA SignalStep ==
  ASSUME MInv, mod.ref > 0, DelModule \/ Signal
  PROVE  MInv'
<1> USE InvParts, TypeParts
<1>1. /\ mod' = mod /\ UNCHANGED <<calls, hurt>> /\ ops' \in 0 .. MaxOps
      /\ {listed, deleting, signal, hurt}' \subseteq BOOLEAN
  <2>0. ops \in 0 .. MaxOps /\ {listed, deleting, signal, hurt} \subseteq BOOLEAN
    OBVIOUS
  <2>1. CASE DelModule
    <3>1. mod' = mod /\ UNCHANGED <<calls, hurt, signal>> /\ ops < MaxOps /\ ops' = ops + 1
      BY <2>1 DEF DelModule, Operation
    <3>2. listed' = FALSE /\ deleting' = TRUE
      BY <2>1 DEF DelModule
    <3>3. ops' \in 0 .. MaxOps
      BY <2>0, <3>1, ModulesBoundsAssumption
    <3>. QED BY <2>0, <3>1, <3>2, <3>3
  <2>2. CASE Signal
    BY <2>0, <2>2 DEF Signal
  <2>. QED BY <2>1, <2>2
<1>2. CallTypes' /\ CallInv' /\ Open' = Open /\ Waiting' = Waiting /\ writes' = writes
  BY <1>1, CallsStay
<1>3. Deletion'
  BY <1>1 DEF Deletion, DelModule, Signal, Operation
<1>4. (Held \/ Gone)'
  <2>1. CASE Held
    BY <1>1, <1>2, <2>1 DEF Held
  <2>2. CASE Gone
    BY <1>1, <1>2, <2>2 DEF Gone, DelModule, Signal, Operation
  <2>. QED BY <2>1, <2>2
<1>5. mod' \in Mods /\ Agrees(mod') /\ Lists'
  BY <1>1, <1>2 DEF Lists
<1>. QED BY <1>1, <1>2, <1>3, <1>4, <1>5, NextParts

LEMMA DestroyStep ==
  ASSUME MInv, mod.ref > 0, StopModules \/ StopCb
  PROVE  MInv'
<1> USE InvParts, TypeParts
<1>1. /\ mod' = StopAndDestroy(mod) /\ UNCHANGED calls /\ ops' \in 0 .. MaxOps
      /\ hurt' = (mod.installer # "none" \/ mod.waiting)
      /\ ~listed' /\ ~deleting'
      /\ "DESTROY" \notin mod.flags
      /\ {listed, deleting, signal, hurt}' \subseteq BOOLEAN
  <2>1. CASE StopModules
    BY <2>1 DEF StopModules, Deletion
  <2>2. CASE StopCb
    BY <2>2 DEF StopCb, Deletion
  <2>. QED BY <2>1, <2>2
<1>2. CallTypes' /\ CallInv' /\ Open' = Open /\ Waiting' = Waiting /\ writes' = writes
  BY <1>1, CallsStay
<1> DEFINE r == StopAndDestroy(mod)
<1>3. /\ r \in Mods /\ Agrees(r) /\ "DESTROY" \in r.flags
      /\ r.installer = mod.installer /\ r.waiting = mod.waiting /\ r.proc = mod.proc
      /\ mod.proc = "none" => Others(r) = Others(mod) - 1 /\ r.ref = mod.ref - 1
      /\ mod.proc # "none" => Others(r) = Others(mod) /\ r.ref = mod.ref
  BY StopAndDestroyFacts
<1> HIDE DEF r
<1>4. mod' = r
  BY <1>1 DEF r
<1>5. Deletion'
  BY <1>1, <1>3, <1>4 DEF Deletion
<1>6. Held
  BY <1>1 DEF Gone
<1>7. (Held \/ Gone)'
  <2>1. CASE mod.proc # "none"
    BY <1>2, <1>3, <1>4, <1>6, <2>1 DEF Held
  <2>2. CASE mod.proc = "none"
    <3>1. Waiting = {} /\ Cardinality(Waiting) = 0
      BY <2>2, FS_EmptySet DEF Lists
    <3>2. mod'.ref = IF mod.installer = "none" /\ ~mod.waiting THEN 0 ELSE mod'.ref
      BY <1>3, <1>4, <1>6, <2>2, <3>1 DEF Held, Others, Mods
    <3>3. hurt' \/ mod'.ref = 0
      BY <1>1, <3>2
    <3>. QED BY <1>1, <1>2, <1>3, <1>4, <2>2, <3>1, <3>3 DEF Gone
  <2>. QED BY <2>1, <2>2
<1>8. Lists'
  BY <1>2, <1>3, <1>4 DEF Lists
<1>. QED BY <1>1, <1>2, <1>3, <1>4, <1>5, <1>7, <1>8, NextParts

LEMMA ProcessStep ==
  ASSUME MInv, mod.ref > 0,
         (\E ok \in BOOLEAN : OnConfPkg(ok)) \/ ConfFails \/ OnProcExit
           \/ (\E killed \in BOOLEAN : Dies(killed))
  PROVE  MInv'
<1> USE InvParts, TypeParts
<1>1. UNCHANGED <<listed, deleting, signal, calls, hurt, ops>>
  BY DEF OnConfPkg, ConfFails, OnProcExit, Dies
<1>2. mod \in Mods /\ Agrees(mod)
  OBVIOUS
<1>3. /\ mod' \in Mods /\ mod.proc # "none" /\ mod'.proc # "none"
      /\ mod'.proc = "alive" => mod.proc = "alive"
      /\ mod'.flags = mod.flags \/ mod'.flags = mod.flags \ {"WAIT_CONF"}
      /\ mod'.ref = mod.ref /\ mod'.installer = mod.installer /\ mod'.waiting = mod.waiting
  <2>1. ASSUME NEW ok \in BOOLEAN, OnConfPkg(ok)
        PROVE  <1>3!:
    <3> DEFINE w == Without(mod, "WAIT_CONF")
               x == [w EXCEPT !.confs = w.confs - 1]
               t == IF ok THEN ClearConfErr(x.status) ELSE "CONFIGURATION_ERR"
    <3>1. mod' = [x EXCEPT !.status = t] /\ mod.confs > 0 /\ mod.proc # "none"
      BY <2>1 DEF OnConfPkg
    <3>2. /\ w \in Mods /\ w.flags = mod.flags \ {"WAIT_CONF"} /\ w.proc = mod.proc
          /\ w.ref = mod.ref /\ w.installer = mod.installer /\ w.waiting = mod.waiting
          /\ w.confs = mod.confs
      BY <1>2, FlagFields, "WAIT_CONF" \in Flags DEF Flags
    <3> HIDE DEF w
    <3>3. w.confs - 1 \in Nat
      BY <1>2, <3>1, <3>2 DEF Mods
    <3>4. x \in Mods
      BY <3>2, <3>3, FieldTypes
    <3>5. /\ x.flags = w.flags /\ x.proc = w.proc
          /\ x.ref = w.ref /\ x.installer = w.installer /\ x.waiting = w.waiting
          /\ x.status \in Status
      BY <3>2, <3>4 DEF Mods
    <3> HIDE DEF x
    <3>6. t \in Status
      BY <3>5 DEF ClearConfErr, Status
    <3> HIDE DEF t
    <3>7. mod' \in Mods
      BY <3>1, <3>4, <3>6, FieldTypes
    <3>8. /\ mod'.flags = x.flags /\ mod'.proc = x.proc
          /\ mod'.ref = x.ref /\ mod'.installer = x.installer /\ mod'.waiting = x.waiting
      BY <3>1, <3>4 DEF Mods
    <3>. QED BY <3>1, <3>2, <3>5, <3>7, <3>8
  <2>2. CASE ConfFails
    <3> DEFINE x == [mod EXCEPT !.confs = mod.confs - 1]
    <3>1. mod' = [x EXCEPT !.status = "UV_ERR"] /\ mod.confs > 0 /\ mod.proc # "none"
      BY <2>2 DEF ConfFails
    <3>2. mod.confs - 1 \in Nat
      BY <1>2, <3>1 DEF Mods
    <3>3. x \in Mods
      BY <1>2, <3>2, FieldTypes
    <3>4. /\ x.flags = mod.flags /\ x.proc = mod.proc
          /\ x.ref = mod.ref /\ x.installer = mod.installer /\ x.waiting = mod.waiting
      BY <1>2 DEF Mods
    <3> HIDE DEF x
    <3>5. mod' \in Mods
      BY <3>1, <3>3, FieldTypes, "UV_ERR" \in Status DEF Status
    <3>6. /\ mod'.flags = x.flags /\ mod'.proc = x.proc
          /\ mod'.ref = x.ref /\ mod'.installer = x.installer /\ mod'.waiting = x.waiting
      BY <3>1, <3>3 DEF Mods
    <3>. QED BY <3>1, <3>4, <3>5, <3>6
  <2>3. ASSUME NEW p \in {"dead", "closing"}, mod.proc # "none", mod' = [mod EXCEPT !.proc = p]
        PROVE  <1>3!:
    <3>1. mod' \in Mods
      BY <1>2, <2>3, FieldTypes
    <3>. QED BY <1>2, <2>3, <3>1 DEF Mods
  <2>4. CASE OnProcExit
    BY <2>3, <2>4 DEF OnProcExit
  <2>5. ASSUME NEW killed \in BOOLEAN, Dies(killed)
        PROVE  <1>3!:
    BY <2>3, <2>5 DEF Dies
  <2>. QED BY <2>1, <2>2, <2>4, <2>5
<1>4. Agrees(mod') /\ Others(mod') = Others(mod)
      /\ ("DESTROY" \in mod'.flags <=> "DESTROY" \in mod.flags)
  BY <1>2, <1>3 DEF Agrees, Others
<1>. QED BY <1>1, <1>3, <1>4, PlainStep DEF Deletion

(* The module r is m with another number of references.                    *)
Counted(m, r, k) ==
  /\ r \in Mods /\ r.ref = k /\ r.flags = m.flags /\ r.proc = m.proc
  /\ r.installer = m.installer /\ r.waiting = m.waiting /\ r.status = m.status

LEMMA CountedFacts ==
  ASSUME NEW m \in Mods, NEW k \in Nat
  PROVE  Counted(m, [m EXCEPT !.ref = k], k)
<1>1. [m EXCEPT !.ref = k] \in Mods
  BY FieldTypes
<1>. QED BY <1>1 DEF Counted, Mods

(* A step of the futures, which hold their references.                     *)
LEMMA FutureStep ==
  ASSUME MInv, mod.ref > 0, UNCHANGED <<listed, deleting, signal, hurt, ops>>,
         CallTypes', CallInv',
         mod.proc = "none" => Waiting' = {} /\ writes' = {},
         mod.proc = "alive" => Waiting' \subseteq Open',
         ~listed => Waiting' \subseteq Waiting,
         mod.ref + Cardinality(Waiting') - Cardinality(Waiting) \in Nat =>
           Counted(mod, mod', mod.ref + Cardinality(Waiting') - Cardinality(Waiting))
  PROVE  MInv'
<1> USE InvParts, TypeParts
<1>1. Cardinality(Waiting) \in Nat /\ mod.ref \in Nat
  BY WaitingFinite DEF Mods
<1>2. Cardinality(Waiting') \in Nat
  <2>1. Waiting' \subseteq Futures
    BY DEF Waiting
  <2>. QED BY <2>1, FS_Subset, FS_CardinalityType, FuturesAssumption
<1> DEFINE a == Cardinality(Waiting)
           b == Cardinality(Waiting')
<1> HIDE DEF a, b
<1>3. a \in Nat /\ b \in Nat /\ (Gone => Waiting' = {} /\ a = 0 /\ b = 0)
  <2>1. Gone => Waiting = {} /\ Waiting' = {}
    BY DEF Gone
  <2>. QED BY <1>1, <1>2, <2>1, FS_EmptySet DEF a, b
<1>4. mod.ref + b - a \in Nat
  <2>1. CASE Held
    BY <1>1, <1>3, <2>1 DEF Held, Others, a
  <2>2. CASE Gone
    BY <1>1, <1>3, <2>2
  <2>. QED BY <2>1, <2>2
<1>5. Counted(mod, mod', mod.ref + b - a)
  BY <1>4 DEF a, b
<1>6. mod' \in Mods /\ Agrees(mod') /\ Others(mod') = Others(mod) + b - a
  BY <1>1, <1>3, <1>5 DEF Counted, Agrees, Others
<1>7. Deletion'
  BY <1>5 DEF Deletion, Counted
<1>8. (Held \/ Gone)'
  <2>1. CASE Held
    BY <1>3, <1>6, <2>1 DEF Held, a, b
  <2>2. CASE Gone
    BY <1>3, <1>5, <2>2 DEF Gone, Counted
  <2>. QED BY <2>1, <2>2
<1>9. Lists'
  BY <1>5 DEF Counted, Lists
<1>10. {listed, deleting, signal, hurt}' \subseteq BOOLEAN /\ ops' \in 0 .. MaxOps
  OBVIOUS
<1>. QED BY <1>6, <1>7, <1>8, <1>9, <1>10, NextParts

(* Futures have their result, and no process is started or ends.           *)
LEMMA ResolveInv ==
  ASSUME MInv, mod.ref > 0, UNCHANGED <<listed, deleting, signal, hurt, ops, next_pid>>,
         NEW F \in SUBSET Waiting, Resolve(F, mod),
         futures' \in [0 .. Pids - 1 -> Futures \cup {0}],
         \A p \in 0 .. Pids - 1 : futures'[p] \in {futures[p], 0} /\ futures'[p] \notin F,
         Waiting \ F \subseteq Open' \cup Written',
         mod.proc = "alive" => Waiting \ F \subseteq Open',
         writes' \subseteq writes,
         \A w \in writes' : futures'[w.pid] # 0 => futures'[w.pid] \in Written',
         inbox' \subseteq [pid: 0 .. Pids - 1, future: Futures],
         cut \subseteq cut', cut' \subseteq Futures,
         \A w \in writes' : w.future \in F => w.future \in cut'
  PROVE  MInv'
<1> USE InvParts, TypeParts
<1>1. /\ CallTypes' /\ CallInv' /\ Waiting' = Waiting \ F
      /\ Cardinality(Waiting') = Cardinality(Waiting) - Cardinality(F)
  BY ResolveStep DEF Resolve
<1>2. Cardinality(F) \in Nat /\ Cardinality(Waiting) \in Nat /\ mod.ref \in Nat
  BY WaitingFinite DEF Mods
<1>3. mod.ref + Cardinality(Waiting') - Cardinality(Waiting) = mod.ref - Cardinality(F)
  BY <1>1, <1>2
<1>4. mod' = [mod EXCEPT !.ref = mod.ref - Cardinality(F)]
  BY DEF Resolve
<1>5. /\ mod.proc = "none" => Waiting' = {} /\ writes' = {}
      /\ mod.proc = "alive" => Waiting' \subseteq Open'
      /\ Waiting' \subseteq Waiting
  BY <1>1 DEF Lists
<1>6. mod.ref - Cardinality(F) \in Nat => Counted(mod, mod', mod.ref - Cardinality(F))
  BY <1>4, CountedFacts
<1>. QED BY <1>1, <1>3, <1>5, <1>6, FutureStep

(* Futures have their result and leave the list.                           *)
LEMMA RemoveInv ==
  ASSUME MInv, mod.ref > 0, UNCHANGED <<listed, deleting, signal, hurt, ops, next_pid, writes>>,
         NEW F \in SUBSET Open, Resolve(F, mod), futures' = Remove(F),
         cut' = cut \cup (F \cap Written), inbox' \subseteq inbox
  PROVE  MInv'
<1> USE InvParts, TypeParts
<1>1. CallTypes /\ Requests /\ 0 \notin Futures /\ Open \subseteq Futures
  BY WaitingFinite, FuturesAssumption DEF CallInv
<1>2. DOMAIN futures = 0 .. Pids - 1 /\ futures' \in [0 .. Pids - 1 -> Futures \cup {0}]
  BY <1>1 DEF Remove, CallTypes
<1>3. \A p \in 0 .. Pids - 1 : futures'[p] = IF futures[p] \in F THEN 0 ELSE futures[p]
  BY <1>2 DEF Remove
<1>4. F \in SUBSET Waiting /\ Written' = Written
  BY <1>1 DEF Requests, Written
<1>5. Open' = Open \ F
  BY <1>1, <1>2, <1>3 DEF Open
<1>6. /\ Waiting \ F \subseteq Open' \cup Written'
      /\ mod.proc = "alive" => Waiting \ F \subseteq Open'
  BY <1>1, <1>4, <1>5 DEF Requests, Lists
<1>7. \A w \in writes' : futures'[w.pid] # 0 => futures'[w.pid] \in Written'
  <2> SUFFICES ASSUME NEW w \in writes, futures'[w.pid] # 0
               PROVE  futures'[w.pid] \in Written
    BY <1>4
  <2>1. w.pid \in 0 .. Pids - 1
    BY <1>1 DEF CallTypes
  <2>2. futures'[w.pid] = futures[w.pid] /\ futures[w.pid] # 0
    BY <1>3, <2>1
  <2>. QED BY <1>1, <2>2 DEF Requests
<1>8. \A w \in writes' : w.future \in F => w.future \in cut'
  BY DEF Written
<1>9. /\ inbox' \subseteq [pid: 0 .. Pids - 1, future: Futures] /\ writes' \subseteq writes
      /\ cut \subseteq cut' /\ cut' \subseteq Futures
  BY <1>1 DEF CallTypes
<1>10. \A p \in 0 .. Pids - 1 : futures'[p] \in {futures[p], 0} /\ futures'[p] \notin F
  BY <1>1, <1>3
<1>. QED BY <1>2, <1>4, <1>6, <1>7, <1>8, <1>9, <1>10, ResolveInv

LEMMA AnswerStep ==
  ASSUME MInv, mod.ref > 0, (\E r \in inbox : OnPkg(r)) \/ CancelFutures
  PROVE  MInv'
<1> USE InvParts, TypeParts
<1>1. ASSUME NEW r \in inbox, OnPkg(r)
      PROVE  MInv'
  <2> DEFINE F == {futures[r.pid]} \ {0}
  <2>1. /\ inbox' = inbox \ {r} /\ futures' = Remove(F) /\ Resolve(F, mod)
        /\ cut' = cut \cup (F \cap Written) /\ writes' = writes
        /\ UNCHANGED <<listed, deleting, signal, hurt, ops, next_pid>>
    BY <1>1 DEF OnPkg
  <2>2. F \in SUBSET Open
    BY DEF Open, CallTypes
  <2> HIDE DEF F
  <2>. QED BY <2>1, <2>2, RemoveInv
<1>2. CASE CancelFutures
  <2>1. Open \in SUBSET Open
    OBVIOUS
  <2>. QED BY <1>2, <2>1, RemoveInv DEF CancelFutures
<1>. QED BY <1>1, <1>2

(* A future that waits has its result, and what has its package id is      *)
(* taken off the list.                                                     *)
LEMMA TakeOffInv ==
  ASSUME MInv, mod.ref > 0, UNCHANGED <<listed, deleting, signal, hurt, ops, next_pid, inbox>>,
         NEW f \in Waiting, NEW p \in 0 .. Pids - 1,
         Resolve({f}, mod), futures' = [futures EXCEPT ![p] = 0],
         futures[p] = f \/ [pid |-> p, future |-> f] \in writes,
         \/ writes' = writes /\ cut' = cut \cup ({f} \cap Written)
         \/ \E w \in writes : /\ w.future = f /\ Oldest(w) /\ mod.proc # "alive"
                             /\ writes' = writes \ {w} /\ cut' = cut
  PROVE  MInv'
<1> USE InvParts, TypeParts
<1>1. CallTypes /\ Requests /\ Lists /\ f \in Futures /\ f # 0 /\ 0 \notin Futures
  BY WaitingFinite, FuturesAssumption DEF CallInv
<1>2. /\ DOMAIN futures = 0 .. Pids - 1 /\ futures' \in [0 .. Pids - 1 -> Futures \cup {0}]
      /\ \A q \in 0 .. Pids - 1 : futures'[q] = IF q = p THEN 0 ELSE futures[q]
  BY <1>1 DEF CallTypes
<1>3. \A q \in 0 .. Pids - 1 : futures[q] = f => q = p
  <2>1. CASE futures[p] = f
    BY <1>1, <1>2, <2>1 DEF Requests
  <2>2. CASE [pid |-> p, future |-> f] \in writes
    BY <1>1, <1>2, <2>2 DEF Requests
  <2>. QED BY <2>1, <2>2
<1>4. \A q \in 0 .. Pids - 1 : futures'[q] \in {futures[q], 0} /\ futures'[q] \notin {f}
  BY <1>1, <1>2, <1>3
<1>5. Open \ {futures[p]} \subseteq Open'
  BY <1>2 DEF Open
<1>6. /\ writes' \subseteq writes /\ Written \ {f} \subseteq Written'
      /\ \A w \in writes' : w.future \in {f} => w.future \in cut'
      /\ cut \subseteq cut' /\ cut' \subseteq Futures
  <2>1. CASE writes' = writes /\ cut' = cut \cup ({f} \cap Written)
    BY <1>1, <2>1 DEF Written, CallTypes
  <2>2. ASSUME NEW w \in writes, w.future = f, writes' = writes \ {w}, cut' = cut
        PROVE  <1>6!:
    BY <1>1, <2>2 DEF Written, CallTypes, Requests
  <2>. QED BY <2>1, <2>2
<1>7. futures[p] # f /\ futures[p] # 0 => futures[p] \in Written' /\ mod.proc # "alive"
  <2> SUFFICES ASSUME futures[p] # f, futures[p] # 0
               PROVE  futures[p] \in Written' /\ mod.proc # "alive"
    OBVIOUS
  <2>1. [pid |-> p, future |-> f] \in writes
    OBVIOUS
  <2>2. futures[p] \in Written
    BY <1>1, <2>1 DEF Requests
  <2>3. f \notin Open
    BY <1>2, <1>3 DEF Open
  <2>. QED BY <1>1, <1>6, <2>2, <2>3 DEF Lists
<1>8. /\ Waiting \ {f} \subseteq Open' \cup Written'
      /\ mod.proc = "alive" => Waiting \ {f} \subseteq Open'
  <2>1. 0 \notin Waiting
    BY <1>1 DEF Waiting
  <2>2. Open \ {f} \subseteq Open' \cup {futures[p]}
    BY <1>5
  <2>3. CASE futures[p] \in {f, 0}
    BY <1>1, <1>5, <1>6, <2>1, <2>3 DEF Requests, Lists
  <2>4. CASE futures[p] \notin {f, 0}
    BY <1>1, <1>6, <1>7, <2>2, <2>4 DEF Requests
  <2>. QED BY <2>3, <2>4
<1>9. \A v \in writes' : futures'[v.pid] # 0 => futures'[v.pid] \in Written'
  <2> SUFFICES ASSUME NEW v \in writes', futures'[v.pid] # 0
               PROVE  futures'[v.pid] \in Written'
    OBVIOUS
  <2>1. v \in writes /\ v.pid \in 0 .. Pids - 1
    BY <1>1, <1>6 DEF CallTypes
  <2>2. futures'[v.pid] = futures[v.pid] /\ futures[v.pid] # f
    BY <1>2, <1>3, <2>1
  <2>3. futures[v.pid] \in Written
    BY <1>1, <2>1, <2>2 DEF Requests
  <2>. QED BY <1>6, <2>2, <2>3
<1>10. {f} \in SUBSET Waiting /\ inbox' \subseteq [pid: 0 .. Pids - 1, future: Futures]
  BY <1>1 DEF CallTypes
<1>. QED BY <1>2, <1>4, <1>6, <1>8, <1>9, <1>10, ResolveInv

LEMMA StopFutureStep ==
  ASSUME MInv, mod.ref > 0, NEW f \in Futures, NEW p \in DOMAIN futures, StopFuture(f, p)
  PROVE  MInv'
<1>1. f \in Waiting /\ p \in 0 .. Pids - 1
  BY InvParts, TypeParts DEF StopFuture, Waiting, CallTypes
<1>. QED BY <1>1, TakeOffInv DEF StopFuture

LEMMA WriteStep ==
  ASSUME MInv, mod.ref > 0, NEW w \in writes, WriteDone(w) \/ WriteFails(w)
  PROVE  MInv'
<1> USE InvParts, TypeParts
<1>0. /\ CallTypes /\ Requests /\ Lists /\ OneResult /\ CallInv
      /\ Open \subseteq Futures /\ cut \subseteq Futures /\ 0 \notin Futures
      /\ inbox \subseteq [pid: 0 .. Pids - 1, future: Futures]
      /\ w \in [pid: 0 .. Pids - 1, future: Futures]
      /\ mod \in Mods /\ mod.ref \in Nat
  BY WaitingFinite, FuturesAssumption DEF CallTypes, Mods, CallInv
<1>a. DOMAIN futures = 0 .. Pids - 1 /\ futures \in [0 .. Pids - 1 -> Futures \cup {0}]
  BY <1>0 DEF CallTypes
<1>b. ASSUME writes' = writes \ {w}, Oldest(w),
             \A q \in 0 .. Pids - 1 : futures'[q] \in {futures[q], 0}
      PROVE  \A v \in writes' : futures'[v.pid] # 0 =>
               futures'[v.pid] \in Written' /\ v.future <= futures'[v.pid]
  <2> SUFFICES ASSUME NEW v \in writes', futures'[v.pid] # 0
               PROVE  futures'[v.pid] \in Written' /\ v.future <= futures'[v.pid]
    OBVIOUS
  <2>1. v \in writes /\ v # w /\ v.pid \in 0 .. Pids - 1 /\ v.future \in Futures
    BY <1>0, <1>b DEF CallTypes
  <2>2. futures'[v.pid] = futures[v.pid] /\ futures[v.pid] # 0
    BY <1>b, <2>1
  <2>3. futures[v.pid] \in Written /\ v.future <= futures[v.pid]
    BY <1>0, <2>1, <2>2 DEF Requests
  <2>4. v.future # w.future
    BY <1>0, <2>1 DEF Requests
  <2>5. w.future <= v.future /\ v.future \in Nat /\ w.future \in Nat
    BY <1>0, <1>b, <2>1, FuturesAssumption DEF Oldest
  <2>6. futures[v.pid] \in Nat
    <3>1. Futures \cup {0} \subseteq Nat
      BY FuturesAssumption
    <3>2. futures[v.pid] \in Futures \cup {0}
      BY <1>a, <2>1
    <3>. QED BY <3>1, <3>2
  <2>7. futures[v.pid] # w.future
    BY <2>3, <2>4, <2>5, <2>6
  <2>8. futures[v.pid] \in Written'
    BY <1>b, <2>3, <2>7 DEF Written
  <2>. QED BY <2>2, <2>3, <2>8
<1>1. CASE WriteDone(w)
  <2>1. /\ writes' = writes \ {w} /\ inbox' = inbox \cup {w} /\ Oldest(w)
        /\ mod.proc = "alive"
        /\ UNCHANGED <<mod, listed, deleting, signal, fut, futures, next_pid, results,
                       cut, hurt, ops>>
    BY <1>1 DEF WriteDone
  <2>2. CallTypes' /\ Open' = Open /\ Waiting' = Waiting
    BY <1>0, <2>1 DEF CallTypes, Open, Waiting
  <2>3. Requests'
    <3>1. \A v \in writes' : futures'[v.pid] # 0 =>
            futures'[v.pid] \in Written' /\ v.future <= futures'[v.pid]
      BY <1>b, <2>1
    <3>2. Open' \subseteq Waiting' /\ Waiting' \subseteq Open' \cup Written'
      BY <1>0, <2>1, <2>2 DEF Requests, Lists
    <3>. QED BY <1>0, <2>1, <3>1, <3>2 DEF Requests
  <2>4. CallInv'
    BY <1>0, <2>1, <2>3 DEF CallInv, OneResult
  <2>5. mod.ref + Cardinality(Waiting') - Cardinality(Waiting) = mod.ref
    BY <1>0, <2>2, WaitingFinite
  <2>6. Counted(mod, mod', mod.ref)
    BY <1>0, <2>1 DEF Counted
  <2>7. /\ mod.proc = "none" => Waiting' = {} /\ writes' = {}
        /\ mod.proc = "alive" => Waiting' \subseteq Open'
    BY <1>0, <2>1, <2>2 DEF Lists
  <2>. QED BY <2>1, <2>2, <2>4, <2>5, <2>6, <2>7, FutureStep
<1>2. CASE WriteFails(w) /\ fut[w.future] = "done"
  <2> DEFINE m == [mod EXCEPT !.ref = mod.ref + 1]
             f == w.future
  <2>1. /\ writes' = writes \ {w} /\ Resolve({f}, m) /\ Oldest(w)
        /\ futures' = [futures EXCEPT ![w.pid] = 0] /\ mod.proc \in {"dead", "closing"}
        /\ UNCHANGED <<listed, deleting, signal, next_pid, inbox, cut, hurt, ops>>
    BY <1>2 DEF WriteFails
  <2>2. f \in cut /\ f \in Futures /\ f \notin Waiting /\ Cardinality({f}) = 1
    <3>1. f \in Futures /\ f \in cut /\ f \notin Waiting
      BY <1>0, <1>2 DEF Requests, Waiting
    <3>. QED BY <3>1, FS_Singleton
  <2>3. /\ futures' \in [0 .. Pids - 1 -> Futures \cup {0}] /\ DOMAIN futures' = 0 .. Pids - 1
        /\ \A q \in 0 .. Pids - 1 : futures'[q] = IF q = w.pid THEN 0 ELSE futures[q]
    BY <1>0, <1>a, <2>1
  <2>4. fut' = fut /\ Waiting' = Waiting
    <3>1. fut' = fut
      BY <1>0, <1>2, <2>1 DEF Resolve, CallTypes
    <3>. QED BY <3>1 DEF Waiting
  <2>5. results' = [g \in Futures |-> IF g \in {f} THEN results[g] + 1 ELSE results[g]]
    BY <2>1 DEF Resolve
  <2>6. CallTypes'
    <3>1. results' \in [Futures -> Nat]
      BY <1>0, <2>5 DEF CallTypes
    <3>2. writes' \cup inbox' \subseteq [pid: 0 .. Pids - 1, future: Futures]
      BY <1>0, <2>1 DEF CallTypes
    <3>. QED BY <1>0, <2>1, <2>3, <2>4, <3>1, <3>2 DEF CallTypes
  <2>7. Requests'
    <3>1. \A v \in writes' : futures'[v.pid] # 0 =>
            futures'[v.pid] \in Written' /\ v.future <= futures'[v.pid]
      BY <1>b, <2>1, <2>3
    <3>2. Open' \subseteq Open /\ Open \ {futures[w.pid]} \subseteq Open'
      BY <1>a, <2>3 DEF Open
    <3>3. Open' \subseteq Waiting' /\ Waiting' \subseteq Open' \cup Written'
      <4>1. Open \subseteq Waiting /\ Waiting \subseteq Open \cup Written
        BY <1>0 DEF Requests
      <4>2. Written \ {f} \subseteq Written'
        BY <2>1 DEF Written
      <4>3. futures[w.pid] = 0 \/ futures[w.pid] \in Written
        BY <1>0 DEF Requests
      <4>4. 0 \notin Waiting
        BY <1>0 DEF Waiting
      <4>. QED BY <2>2, <2>4, <3>2, <4>1, <4>2, <4>3, <4>4
    <3>4. \A p, q \in DOMAIN futures' : futures'[p] = futures'[q] /\ futures'[p] # 0 => p = q
      BY <1>0, <1>a, <2>3 DEF Requests
    <3>5. \A v \in writes' : \A p \in DOMAIN futures' : futures'[p] = v.future => p = v.pid
      <4> SUFFICES ASSUME NEW v \in writes', NEW p \in 0 .. Pids - 1, futures'[p] = v.future
                   PROVE  p = v.pid
        BY <2>3
      <4>1. v \in writes /\ v.future \in Futures
        BY <1>0, <2>1 DEF CallTypes
      <4>2. futures[p] = v.future
        BY <1>0, <2>3, <4>1
      <4>. QED BY <1>0, <1>a, <4>1, <4>2 DEF Requests
    <3>. QED BY <1>0, <2>1, <2>4, <3>1, <3>3, <3>4, <3>5 DEF Requests
  <2>8. CallInv'
    <3>1. OneResult'
      <4> SUFFICES ASSUME NEW g \in Futures, g \notin cut'
                   PROVE  results'[g] = IF fut'[g] = "done" THEN 1 ELSE 0
        BY DEF OneResult
      <4>. QED BY <1>0, <2>1, <2>2, <2>4, <2>5 DEF OneResult
    <3>. QED BY <2>7, <3>1 DEF CallInv
  <2>9. Counted(mod, mod', mod.ref)
    <3>1. Counted(mod, m, mod.ref + 1)
      BY <1>0, CountedFacts
    <3>2. mod' = [m EXCEPT !.ref = m.ref - 1]
      BY <2>1, <2>2 DEF Resolve
    <3> HIDE DEF m
    <3>3. m \in Mods /\ m.ref = mod.ref + 1 /\ m.ref - 1 = mod.ref
      BY <1>0, <3>1 DEF Counted
    <3>4. Counted(m, mod', mod.ref)
      BY <1>0, <3>2, <3>3, CountedFacts
    <3>. QED BY <3>1, <3>4 DEF Counted
  <2>10. mod.ref + Cardinality(Waiting') - Cardinality(Waiting) = mod.ref
    BY <1>0, <2>4, WaitingFinite
  <2>11. mod.proc # "none" /\ mod.proc # "alive"
    BY <2>1
  <2>. QED BY <2>1, <2>4, <2>6, <2>8, <2>9, <2>10, <2>11, FutureStep
<1>3. CASE WriteFails(w) /\ fut[w.future] # "done"
  <2> DEFINE f == w.future
             p == w.pid
  <2>1. /\ writes' = writes \ {w} /\ Resolve({f}, mod) /\ Oldest(w)
        /\ futures' = [futures EXCEPT ![p] = 0] /\ mod.proc # "alive" /\ cut' = cut
        /\ UNCHANGED <<listed, deleting, signal, next_pid, inbox, hurt, ops>>
    BY <1>3 DEF WriteFails
  <2>2. f \in Waiting /\ p \in 0 .. Pids - 1 /\ w = [pid |-> p, future |-> f]
    <3>1. f \in Futures /\ fut[f] = "open"
      BY <1>0, <1>3 DEF Requests, CallTypes
    <3>. QED BY <1>0, <3>1 DEF Waiting
  <2>3. w \in writes /\ w.future = f
    OBVIOUS
  <2> HIDE DEF f, p
  <2>. QED BY <2>1, <2>2, <2>3, TakeOffInv
<1>. QED BY <1>1, <1>2, <1>3

LEMMA CallFailsStep ==
  ASSUME MInv, mod.ref > 0, NEW f \in Futures, CallFails(f)
  PROVE  MInv'
<1> USE InvParts, TypeParts
<1> DEFINE m == [mod EXCEPT !.ref = mod.ref + 1]
<1>0. mod \in Mods /\ mod.ref \in Nat /\ CallTypes /\ CallInv
  BY DEF Mods
<1>1. /\ Resolve({f}, m) /\ fut[f] = "new"
      /\ UNCHANGED <<listed, deleting, signal, futures, next_pid, writes, inbox, cut,
                     hurt, ops>>
  BY DEF CallFails, Called
<1>2. fut' = [g \in Futures |-> IF g = f THEN "done" ELSE fut[g]]
      /\ results' = [g \in Futures |-> IF g = f THEN results[g] + 1 ELSE results[g]]
  BY <1>1 DEF Resolve
<1>3. CallTypes' /\ Open' = Open /\ Waiting' = Waiting /\ Written' = Written
  <2>1. CallTypes' /\ Open' = Open /\ Written' = Written
    BY <1>0, <1>1, <1>2 DEF CallTypes, Open, Written
  <2>2. Waiting' = Waiting
    BY <1>0, <1>1, <1>2 DEF CallTypes, Waiting
  <2>. QED BY <2>1, <2>2
<1>4. CallInv'
  <2>2. \A w \in writes' : /\ fut'[w.future] # "new"
                           /\ fut'[w.future] = "done" => w.future \in cut'
    BY <1>0, <1>1, <1>2 DEF CallInv, Requests, CallTypes
  <2>4. \A h, g \in Futures : g < h /\ fut'[g] = "new" => fut'[h] = "new"
    <3> SUFFICES ASSUME NEW h \in Futures, NEW g \in Futures, g < h, fut'[g] = "new"
                 PROVE  fut'[h] = "new"
      OBVIOUS
    <3>1. g # f /\ fut[g] = "new"
      BY <1>2
    <3>2. h # f
      BY <3>1 DEF CallFails, Called
    <3>3. fut[h] = "new"
      BY <1>0, <3>1 DEF CallInv, Requests
    <3>. QED BY <1>2, <3>2, <3>3
  <2>5. Requests'
    BY <1>0, <1>1, <1>3, <2>2, <2>4 DEF CallInv, Requests
  <2>3. OneResult'
    <3> SUFFICES ASSUME NEW g \in Futures, g \notin cut'
                 PROVE  results'[g] = IF fut'[g] = "done" THEN 1 ELSE 0
      BY DEF OneResult
    <3>1. results[g] = IF fut[g] = "done" THEN 1 ELSE 0
      BY <1>0, <1>1 DEF CallInv, OneResult
    <3>. QED BY <1>1, <1>2, <3>1
  <2>. QED BY <2>3, <2>5 DEF CallInv
<1>5. Counted(mod, mod', mod.ref)
  <2>1. Counted(mod, m, mod.ref + 1)
    BY <1>0, CountedFacts
  <2>2. mod' = [m EXCEPT !.ref = m.ref - 1]
    BY <1>1, FS_Singleton DEF Resolve
  <2> HIDE DEF m
  <2>3. m \in Mods /\ m.ref = mod.ref + 1 /\ m.ref - 1 = mod.ref
    BY <1>0, <2>1 DEF Counted
  <2>4. Counted(m, mod', mod.ref)
    BY <1>0, <2>2, <2>3, CountedFacts
  <2>. QED BY <2>1, <2>4 DEF Counted
<1>6. mod.ref + Cardinality(Waiting') - Cardinality(Waiting) = mod.ref
  BY <1>0, <1>3, WaitingFinite
<1>7. /\ mod.proc = "none" => Waiting' = {} /\ writes' = {}
      /\ mod.proc = "alive" => Waiting' \subseteq Open'
  BY <1>1, <1>3 DEF Lists
<1>. QED BY <1>1, <1>3, <1>4, <1>5, <1>6, <1>7, FutureStep

LEMMA CallStep ==
  ASSUME MInv, mod.ref > 0, NEW f \in Futures, Call(f)
  PROVE  MInv'
<1> USE InvParts, TypeParts
<1> DEFINE prev == {futures[next_pid]} \ {0}
           new == [pid |-> next_pid, future |-> f]
<1>0. /\ mod \in Mods /\ mod.ref \in Nat /\ CallTypes /\ CallInv /\ Requests /\ Lists
      /\ Open \subseteq Futures /\ f # 0 /\ 0 \notin Futures
  BY WaitingFinite, FuturesAssumption DEF Mods, CallInv
<1>1. /\ fut[f] = "new" /\ mod.proc # "none" /\ listed
      /\ fut' = [g \in Futures |-> IF g = f THEN "open" ELSE
                                   IF g \in prev THEN "done" ELSE fut[g]]
      /\ results' = [g \in Futures |-> IF g \in prev THEN results[g] + 1 ELSE results[g]]
      /\ mod' = [mod EXCEPT !.ref = mod.ref + 1 - Cardinality(prev)]
      /\ futures' = [futures EXCEPT ![next_pid] = f]
      /\ next_pid' = (next_pid + 1) % Pids
      /\ cut' = cut \cup (prev \cap Written)
      /\ writes' = writes \cup {new}
      /\ UNCHANGED <<listed, deleting, signal, inbox, hurt, ops>>
  BY DEF Call, Called, Usable
<1>2. /\ prev \subseteq Open /\ prev \subseteq Waiting /\ f \notin Open /\ f \notin Waiting
      /\ f \notin prev /\ f \notin Written
  <2>1. f \notin Waiting
    BY <1>1 DEF Waiting
  <2>2. prev \subseteq Open /\ Open \subseteq Waiting
    BY <1>0 DEF Open, CallTypes, Requests
  <2>3. f \notin Written
    BY <1>0, <1>1 DEF Requests, Written
  <2>. QED BY <2>1, <2>2, <2>3
<1>3. next_pid' \in 0 .. Pids - 1 /\ next_pid \in 0 .. Pids - 1
  BY <1>0, <1>1, ModulesBoundsAssumption DEF CallTypes
<1>4. /\ DOMAIN futures = 0 .. Pids - 1 /\ DOMAIN futures' = 0 .. Pids - 1
      /\ \A p \in 0 .. Pids - 1 : futures'[p] = IF p = next_pid THEN f ELSE futures[p]
  BY <1>0, <1>1, <1>3 DEF CallTypes
<1>5. Open' = (Open \ prev) \cup {f}
  <2>1. \A p \in 0 .. Pids - 1 : p # next_pid => futures[p] \notin prev
    BY <1>0, <1>3, <1>4 DEF Requests
  <2>2. \A g \in Open \ prev : \E p \in 0 .. Pids - 1 : p # next_pid /\ futures[p] = g
    BY <1>4 DEF Open
  <2>. QED BY <1>0, <1>3, <1>4, <2>1, <2>2 DEF Open
<1> HIDE DEF prev
<1>6. CallTypes'
  <2>1. fut' \in [Futures -> {"new", "open", "done"}] /\ results' \in [Futures -> Nat]
    BY <1>0, <1>1 DEF CallTypes
  <2>2. futures' \in [0 .. Pids - 1 -> Futures \cup {0}]
    BY <1>0, <1>1 DEF CallTypes
  <2>3. writes' \cup inbox' \subseteq [pid: 0 .. Pids - 1, future: Futures]
    BY <1>0, <1>1, <1>3 DEF CallTypes
  <2>4. cut' \subseteq Futures
    BY <1>0, <1>1, <1>2 DEF CallTypes
  <2>. QED BY <1>3, <2>1, <2>2, <2>3, <2>4 DEF CallTypes
<1>a. Waiting' = (Waiting \ prev) \cup {f} /\ Written' = Written \cup {f}
  <2>1. Waiting' = (Waiting \ prev) \cup {f}
    <3>1. \A g \in Futures : g \in Waiting' <=> g = f \/ (g \in Waiting /\ g \notin prev)
      BY <1>1, <1>2 DEF Waiting
    <3>2. Waiting' \subseteq Futures /\ Waiting \subseteq Futures
      BY DEF Waiting
    <3>. QED BY <3>1, <3>2
  <2>2. new.future = f
    OBVIOUS
  <2>3. Written' = Written \cup {f}
    <3> HIDE DEF new
    <3>. QED BY <1>1, <2>2 DEF Written
  <2>. QED BY <2>1, <2>3
<1>7. CallInv'
  <2>1. Open' \subseteq Waiting' /\ Waiting' \subseteq Open' \cup Written'
    BY <1>0, <1>2, <1>5, <1>a DEF Requests
  <2>2. \A p, q \in DOMAIN futures' : futures'[p] = futures'[q] /\ futures'[p] # 0 => p = q
    <3>1. \A p \in 0 .. Pids - 1 : futures[p] # f
      BY <1>0, <1>2, <1>4 DEF Open
    <3>. QED BY <1>0, <1>4, <3>1 DEF Requests
  <2>3. \A v, w \in writes' : v.future = w.future => v = w
    BY <1>0, <1>1, <1>2 DEF Requests, Written
  <2>4. \A w \in writes' : /\ fut'[w.future] # "new"
                           /\ fut'[w.future] = "done" => w.future \in cut'
    <3> SUFFICES ASSUME NEW w \in writes'
                 PROVE  /\ fut'[w.future] # "new"
                        /\ fut'[w.future] = "done" => w.future \in cut'
      OBVIOUS
    <3>1. CASE w = new
      BY <1>1, <3>1
    <3>2. CASE w \in writes
      <4>1. w.future \in Futures /\ w.future \in Written
        BY <1>0, <3>2 DEF CallTypes, Written
      <4>2. fut[w.future] # "new" /\ (fut[w.future] = "done" => w.future \in cut)
        BY <1>0, <3>2 DEF Requests
      <4>. QED BY <1>1, <1>2, <4>1, <4>2
    <3>. QED BY <1>1, <3>1, <3>2
  <2>5. OneResult'
    <3> SUFFICES ASSUME NEW g \in Futures, g \notin cut'
                 PROVE  results'[g] = IF fut'[g] = "done" THEN 1 ELSE 0
      BY DEF OneResult
    <3>1. results[g] = IF fut[g] = "done" THEN 1 ELSE 0
      BY <1>0, <1>1 DEF CallInv, OneResult
    <3>2. g \in prev => fut[g] = "open"
      BY <1>2 DEF Waiting
    <3>. QED BY <1>1, <1>2, <3>1, <3>2
  <2>6. \A w \in writes' : \A p \in DOMAIN futures' : futures'[p] = w.future => p = w.pid
    <3> SUFFICES ASSUME NEW w \in writes', NEW p \in 0 .. Pids - 1, futures'[p] = w.future
                 PROVE  p = w.pid
      BY <1>4
    <3>1. CASE w = new
      <4>1. futures[p] # f
        BY <1>0, <1>2, <1>4 DEF Open
      <4>. QED BY <1>4, <3>1, <4>1
    <3>2. CASE w \in writes
      <4>1. w.future # f
        BY <1>2, <3>2 DEF Written
      <4>2. futures[p] = w.future
        BY <1>4, <4>1
      <4>. QED BY <1>0, <1>4, <3>2, <4>2 DEF Requests
    <3>. QED BY <1>1, <3>1, <3>2
  <2>7. \A w \in writes' : futures'[w.pid] # 0 =>
          futures'[w.pid] \in Written' /\ w.future <= futures'[w.pid]
    <3> SUFFICES ASSUME NEW w \in writes', futures'[w.pid] # 0
                 PROVE  futures'[w.pid] \in Written' /\ w.future <= futures'[w.pid]
      OBVIOUS
    <3>1. f \in Nat
      BY FuturesAssumption
    <3>2. CASE w = new
      BY <1>3, <1>4, <1>a, <3>1, <3>2
    <3>3. CASE w \in writes
      <4>1. w.pid \in 0 .. Pids - 1 /\ w.future \in Futures /\ w.future \in Nat
        BY <1>0, <3>3, FuturesAssumption DEF CallTypes
      <4>2. CASE w.pid = next_pid
        <5>1. fut[w.future] # "new"
          BY <1>0, <3>3 DEF Requests
        <5>2. ~(f < w.future)
          BY <1>0, <1>1, <4>1, <5>1 DEF Requests
        <5>3. w.future <= f
          BY <3>1, <4>1, <5>2
        <5>. QED BY <1>4, <1>a, <4>1, <4>2, <5>3
      <4>3. CASE w.pid # next_pid
        BY <1>0, <1>4, <1>a, <3>3, <4>1, <4>3 DEF Requests
      <4>. QED BY <4>2, <4>3
    <3>. QED BY <1>1, <3>2, <3>3
  <2>8. \A h, g \in Futures : g < h /\ fut'[g] = "new" => fut'[h] = "new"
    <3> SUFFICES ASSUME NEW h \in Futures, NEW g \in Futures, g < h, fut'[g] = "new"
                 PROVE  fut'[h] = "new"
      OBVIOUS
    <3>1. g # f /\ fut[g] = "new"
      BY <1>1
    <3>2. h # f
      BY <3>1 DEF Call, Called
    <3>3. fut[h] = "new"
      BY <1>0, <3>1 DEF Requests
    <3>4. h \notin prev
      BY <1>2, <3>3 DEF Waiting
    <3>. QED BY <1>1, <3>2, <3>3, <3>4
  <2>9. Requests'
    BY <2>1, <2>2, <2>3, <2>4, <2>6, <2>7, <2>8 DEF Requests
  <2>. QED BY <2>5, <2>9 DEF CallInv
<1>8. /\ Cardinality(Waiting') = Cardinality(Waiting) - Cardinality(prev) + 1
      /\ Cardinality(Waiting) \in Nat /\ Cardinality(prev) \in Nat
  <2>1. /\ IsFiniteSet(Waiting) /\ IsFiniteSet(prev) /\ Cardinality(Waiting) \in Nat
        /\ Cardinality(prev) \in Nat
    BY <1>0, <1>2, WaitingFinite
  <2>2. Cardinality(Waiting \ prev) = Cardinality(Waiting) - Cardinality(Waiting \cap prev)
        /\ IsFiniteSet(Waiting \ prev)
    BY <2>1, FS_Difference
  <2>3. Waiting \cap prev = prev /\ f \notin Waiting \ prev
    BY <1>2
  <2>4. Cardinality((Waiting \ prev) \cup {f}) = Cardinality(Waiting \ prev) + 1
    BY <2>2, <2>3, FS_AddElement
  <2>. QED BY <1>a, <2>1, <2>2, <2>3, <2>4
<1>9. mod.ref + Cardinality(Waiting') - Cardinality(Waiting) = mod.ref + 1 - Cardinality(prev)
  BY <1>0, <1>8
<1>10. mod.ref + 1 - Cardinality(prev) \in Nat =>
         Counted(mod, mod', mod.ref + 1 - Cardinality(prev))
  BY <1>0, <1>1, CountedFacts
<1>11. mod.proc = "alive" => Waiting' \subseteq Open'
  BY <1>0, <1>5, <1>a DEF Lists
<1>. QED BY <1>1, <1>6, <1>7, <1>9, <1>10, <1>11, FutureStep

LEMMA OnClosedStep ==
  ASSUME MInv, mod.ref > 0, OnClosed
  PROVE  MInv'
<1> USE InvParts, TypeParts
<1>0. /\ mod \in Mods /\ Agrees(mod) /\ mod.ref \in Nat /\ CallTypes /\ CallInv
      /\ 0 \notin Futures
  BY FuturesAssumption DEF Mods
<1>1. PICK m \in OnExit(mod) : Resolve(Open, m)
  BY DEF OnClosed
<1>2. /\ mod.proc # "none" /\ writes = {} /\ writes' = {} /\ futures' = Remove(Open)
      /\ inbox' = {}
      /\ UNCHANGED <<listed, deleting, signal, next_pid, cut, hurt, ops>>
  BY DEF OnClosed
<1>3. /\ m \in Mods /\ Agrees(m)
      /\ "DESTROY" \in m.flags <=> "DESTROY" \in mod.flags
      /\ "DESTROY" \in mod.flags =>
           /\ Others(m) = Others(mod) - 1 /\ m.ref = mod.ref - 1 /\ m.proc = "none"
           /\ m.installer = mod.installer /\ m.waiting = mod.waiting
      /\ "DESTROY" \notin mod.flags => Others(m) = Others(mod) /\ m.ref >= mod.ref
  BY <1>0, <1>2, OnExitFacts
<1>a. Waiting = Open
  BY <1>0, <1>2 DEF CallInv, Requests, Written
<1>4. /\ CallTypes' /\ CallInv' /\ Open' = {} /\ Waiting' = {}
      /\ Cardinality(Waiting') = 0
  <2>1. Open \in SUBSET Waiting /\ cut' \subseteq Futures /\ cut \subseteq cut'
        /\ writes' \subseteq writes
        /\ inbox' \subseteq [pid: 0 .. Pids - 1, future: Futures]
    BY <1>0, <1>2, <1>a DEF CallTypes
  <2>2. /\ fut' = [f \in Futures |-> IF f \in Open THEN "done" ELSE fut[f]]
        /\ results' = [f \in Futures |-> IF f \in Open THEN results[f] + 1 ELSE results[f]]
    BY <1>1 DEF Resolve
  <2>3. /\ futures' \in [0 .. Pids - 1 -> Futures \cup {0}]
        /\ \A p \in 0 .. Pids - 1 : futures'[p] = 0
    BY <1>0, <1>2 DEF CallTypes, Remove, Open
  <2>4. \A p \in 0 .. Pids - 1 : futures'[p] \in {futures[p], 0} /\ futures'[p] \notin Open
    BY <2>3 DEF Open
  <2>5. /\ Waiting \ Open \subseteq Open' \cup Written'
        /\ \A w \in writes' : futures'[w.pid] # 0 => futures'[w.pid] \in Written'
        /\ \A w \in writes' : w.future \in Open => w.future \in cut'
    BY <1>2, <1>a
  <2>6. CallTypes' /\ CallInv' /\ Waiting' = Waiting \ Open
    BY <1>0, <1>2, <2>1, <2>2, <2>3, <2>4, <2>5, ResolveStep
  <2>7. Open' = {}
    BY <2>3 DEF Open
  <2>. QED BY <1>a, <2>6, <2>7, FS_EmptySet
<1> DEFINE k == Cardinality(Open)
<1>5. k \in Nat /\ mod' = [m EXCEPT !.ref = m.ref - k] /\ m.ref \in Nat
  BY <1>0, <1>1, <1>3, <1>a, WaitingFinite DEF Resolve, Mods
<1>6. Waiting = {} => k = 0
  BY <1>a, FS_EmptySet
<1>7. Held => Others(mod) = k + 1 /\ mod.ref >= k + 1
  BY <1>0, <1>5, <1>a DEF Held, Others
<1>8. Gone => k = 0
  BY <1>6 DEF Gone
<1> HIDE DEF k
<1>9. m.ref - k \in Nat
  <2>1. m.ref >= mod.ref - 1
    BY <1>0, <1>3, <1>5
  <2>. QED BY <1>0, <1>5, <1>7, <1>8, <2>1
<1>10. Counted(m, mod', m.ref - k)
  BY <1>3, <1>5, <1>9, CountedFacts
<1>11. mod' \in Mods /\ Agrees(mod') /\ Others(mod') = Others(m) - k
  BY <1>3, <1>5, <1>10 DEF Counted, Agrees, Others
<1>12. Deletion'
  BY <1>2, <1>3, <1>10 DEF Deletion, Counted
<1>13. (Held \/ Gone)'
  <2>1. CASE "DESTROY" \notin mod.flags
    <3>1. Others(mod') = 1
      BY <1>3, <1>5, <1>7, <1>11, <2>1 DEF Gone
    <3>. QED BY <1>4, <3>1 DEF Held
  <2>2. CASE "DESTROY" \in mod.flags
    <3>1. deleting = FALSE /\ listed = FALSE
      BY <2>2, {listed, deleting, signal, hurt} \subseteq BOOLEAN DEF Deletion
    <3>2. CASE hurt
      BY <1>2, <1>3, <1>4, <1>10, <2>2, <3>1, <3>2 DEF Gone, Counted
    <3>3. CASE ~hurt
      <4>1. Held /\ mod.installer = "none" /\ ~mod.waiting
        BY <1>2, <2>2, <3>3 DEF Gone, Deletion
      <4>2. mod.ref = k + 1
        BY <1>0, <1>5, <1>7, <4>1 DEF Others
      <4>3. mod'.ref = 0
        BY <1>3, <1>5, <1>10, <2>2, <4>2 DEF Counted
      <4>. QED BY <1>2, <1>3, <1>4, <1>10, <2>2, <3>1, <4>3 DEF Gone, Counted
    <3>. QED BY <3>2, <3>3
  <2>. QED BY <2>1, <2>2
<1>14. {listed, deleting, signal, hurt}' \subseteq BOOLEAN /\ ops' \in 0 .. MaxOps
  BY <1>2
<1>15. Lists'
  BY <1>2, <1>4 DEF Lists
<1>. QED BY <1>2, <1>4, <1>11, <1>12, <1>13, <1>14, <1>15, NextParts

LEMMA LaterStep ==
  ASSUME MInv, mod.ref > 0, Installer \/ WaitCb
  PROVE  MInv'
<1> USE InvParts, TypeParts
<1>0. mod \in Mods /\ Agrees(mod) /\ ops \in 0 .. MaxOps /\ signal \in BOOLEAN
  OBVIOUS
<1>1. CASE Installer
  <2>1. mod.installer # "none" /\ UNCHANGED <<listed, deleting, signal, calls, hurt, ops>>
    BY <1>1 DEF Installer
  <2>2. mod.proc = "none" /\ ~("DESTROY" \in mod.flags /\ ~hurt)
    BY <1>0, <2>1 DEF Agrees, Deletion
  <2>3. /\ mod' \in Mods /\ Agrees(mod') /\ Others(mod') = Others(mod)
        /\ "DESTROY" \in mod'.flags <=> "DESTROY" \in mod.flags
    BY <1>0, <1>1, <2>1, InstallerFacts
  <2>. QED BY <1>0, <2>1, <2>2, <2>3, PlainStep
<1>2. CASE WaitCb
  <2>1. mod.waiting /\ UNCHANGED <<listed, deleting, signal, calls, hurt, ops>>
    BY <1>2 DEF WaitCb
  <2>2. ~("DESTROY" \in mod.flags /\ ~hurt)
    BY <2>1 DEF Deletion
  <2>3. /\ mod' \in Mods /\ Agrees(mod') /\ Others(mod') = Others(mod)
        /\ "DESTROY" \in mod'.flags <=> "DESTROY" \in mod.flags
        /\ mod.proc # "none" => mod'.proc = mod.proc
    BY <1>0, <1>2, WaitCbFacts
  <2>. QED BY <1>0, <2>1, <2>2, <2>3, PlainStep
<1>. QED BY <1>1, <1>2

LEMMA InitMInv ==
  ASSUME Init
  PROVE  MInv
<1>1. PICK conf \in BOOLEAN, source \in {"file", "github"},
           status \in {"NOT_INSTALLED", "NOT_LOADED"} :
        mod = NewModule(source, conf, status)
  BY DEF Init
<1>2. /\ mod \in Mods /\ mod.ref = 1 /\ mod.flags = {} /\ mod.proc = "none"
      /\ mod.installer = "none" /\ mod.waiting = FALSE /\ mod.status # "RUNNING"
  BY <1>1 DEF NewModule, Mods, Status
<1>3. /\ listed = TRUE /\ deleting = FALSE /\ signal = FALSE /\ hurt = FALSE /\ ops = 0
      /\ fut = [f \in Futures |-> "new"] /\ futures = [p \in 0 .. Pids - 1 |-> 0]
      /\ next_pid = 0 /\ writes = {} /\ inbox = {}
      /\ results = [f \in Futures |-> 0] /\ cut = {}
  BY DEF Init
<1>4. Open = {} /\ Waiting = {} /\ Cardinality(Waiting) = 0
  BY <1>3, FS_EmptySet DEF Open, Waiting
<1>5. CallTypes
  BY <1>3, ModulesBoundsAssumption DEF CallTypes
<1>6. CallInv /\ Lists
  BY <1>3, <1>4 DEF CallInv, Requests, Lists, OneResult
<1>7. Agrees(mod) /\ Deletion /\ Held
  BY <1>2, <1>3, <1>4 DEF Agrees, Deletion, Held, Others
<1>8. TypeOK
  <2>1. ops \in 0 .. MaxOps
    BY <1>3, ModulesBoundsAssumption
  <2>2. {listed, deleting, signal, hurt} \subseteq BOOLEAN
    BY <1>3
  <2>. QED BY <1>2, <1>5, <2>1, <2>2, TypeParts
<1>. QED BY <1>6, <1>7, <1>8, InvParts

LEMMA NextMInv ==
  ASSUME MInv, [Next]_vars
  PROVE  MInv'
<1>1. CASE UNCHANGED vars
  <2>1. TypeOK' /\ Agrees(mod') /\ Deletion'
    BY <1>1 DEF vars, calls, MInv, TypeOK, Deletion
  <2>3. Held \/ Gone => (Held \/ Gone)'
    BY <1>1 DEF vars, calls, Held, Gone, Waiting
  <2>2. CallInv' /\ Lists'
    <3>1. CallTypes /\ CallInv /\ Lists /\ UNCHANGED calls /\ mod' = mod
      BY <1>1, InvParts, TypeParts DEF vars
    <3>. QED BY <3>1, CallsStay DEF Lists
  <2>. QED BY <2>1, <2>2, <2>3 DEF MInv, CallInv
<1>2. CASE Next
  <2>1. mod.ref > 0
    BY <1>2 DEF Next
  <2>2. CASE Clients
    <3>1. CASE \E f \in Futures : CallFails(f) \/ Call(f)
      BY <2>1, <3>1, CallFailsStep, CallStep
    <3>2. CASE \E f \in Futures, p \in DOMAIN futures : StopFuture(f, p)
      BY <2>1, <3>2, StopFutureStep
    <3>. QED
      BY <2>1, <2>2, <3>1, <3>2, OperationStep, SignalStep, DestroyStep, AnswerStep DEF Clients
  <2>3. CASE Program
    BY <2>1, <2>3, AnswerStep, ProcessStep DEF Program
  <2>4. CASE ConfFails \/ Dies(TRUE) \/ OnProcExit
    BY <2>1, <2>4, ProcessStep
  <2>5. CASE Writes
    BY <2>1, <2>5, WriteStep DEF Writes
  <2>6. CASE OnClosed
    BY <2>1, <2>6, OnClosedStep
  <2>7. CASE Installer \/ WaitCb
    BY <2>1, <2>7, LaterStep
  <2>8. CASE StopCb
    BY <2>1, <2>8, DestroyStep
  <2>. QED BY <1>2, <2>2, <2>3, <2>4, <2>5, <2>6, <2>7, <2>8 DEF Next
<1>. QED BY <1>1, <1>2

LEMMA MInvHolds == Spec => []MInv
<1>1. Init => MInv
  BY InitMInv
<1>2. MInv /\ [Next]_vars => MInv'
  BY NextMInv
<1>. QED BY <1>1, <1>2, PTL DEF Spec

(* The state of a module, its process and its futures has its type.  The   *)
(* count of references is not negative: ti_module_drop is never called     *)
(* without one, by the client operations, the installer, the deploy timer, *)
(* the futures or the end of the process.                                  *)
THEOREM ModulesTypeCorrect == Spec => []TypeOK
<1>1. MInv => TypeOK
  BY DEF MInv
<1>. QED BY <1>1, MInvHolds, PTL

(* A future has one result, whatever becomes of its request, its package   *)
(* id and the process (module__write_req_cb, ti_module_on_pkg,             *)
(* ti_module_cancel_futures), unless it was resolved while being written.  *)
THEOREM OneResultHolds == Spec => []OneResult
<1>1. MInv => OneResult
  BY DEF MInv
<1>. QED BY <1>1, MInvHolds, PTL

(* A future that waits is on the list of its module or its request is      *)
(* being written and fails, although a failing write and a future that is  *)
(* stopped take whatever has their package id off the list (module.c:41,   *)
(* future.c:105), and none is left when its process has gone               *)
(* (proc__on_child_stdout_close cancels them before ti_module_on_exit may  *)
(* start another).                                                         *)
THEOREM NoOrphansHolds == Spec => []NoOrphans
<1>1. MInv => NoOrphans
  BY DEF MInv, Requests, Lists, NoOrphans
<1>. QED BY <1>1, MInvHolds, PTL

(* IN_USE, RUNNING and the installer agree with the process, so that the   *)
(* tests of ti_module_load and ti_module_restart start no second process.  *)
THEOREM StatusIsTrueHolds == Spec => []StatusIsTrue
<1>1. MInv => StatusIsTrue
  BY DEF MInv, Agrees, Deletion, StatusIsTrue
<1>. QED BY <1>1, MInvHolds, PTL

(* When ti_module_drop frees the module, nothing that could call back is   *)
(* left: no process, installer, timer, removal, future or write.           *)
THEOREM FreedAtRestHolds == Spec => []FreedAtRest
<1>1. MInv => FreedAtRest
  <2> SUFFICES ASSUME MInv, mod.ref = 0, ~hurt
               PROVE  /\ mod.proc = "none" /\ mod.installer = "none"
                      /\ ~mod.waiting /\ ~deleting /\ ~listed
                      /\ Waiting = {} /\ writes = {}
    BY DEF FreedAtRest
  <2>1. Cardinality(Waiting) \in Nat
    BY InvParts, TypeParts, WaitingFinite
  <2>2. ~Held
    BY <2>1 DEF Held, Others
  <2>3. Gone
    BY <2>2 DEF MInv
  <2>. QED BY <2>3 DEF MInv, Gone, Deletion, Lists
<1>. QED BY <1>1, MInvHolds, PTL
=============================================================================
