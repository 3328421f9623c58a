---------------------------- MODULE RollingUpdate ----------------------------
(***************************************************************************)
(* Replacing the pods of an old revision: checkandUpdatePods               *)
(* (sync_handler.go) and what leads to it in Reconcile.  The StatefulSets  *)
(* have the OnDelete strategy: a pod is replaced when the operator deletes *)
(* it.  Replicas are deleted first, all of them in one reconcile, then the *)
(* masters, one per reconcile; a master that goes down is failed over to a *)
(* replica in sync.                                                        *)
(*                                                                         *)
(* The pods, their revisions, the replication links and the failover are   *)
(* external: they are modelled from what the code reads and deletes.       *)
(* The storage is a PersistentClaim (redisDataVolume): a pod that comes    *)
(* back is the same Redis node, with its role and data.  What becomes of a *)
(* pod with an emptyDir, which comes back as a new node, is in Zones.      *)
(***************************************************************************)
EXTENDS Integers, FiniteSets

CONSTANTS
  NumSts,      \* Spec.MasterSize: one StatefulSet per shard
  Replicas,    \* Spec.ClusterReplicas
  Faults,      \* the kinds of fault that happen: a subset of FaultKind
  MaxFaults    \* bound on the number of faults in a behaviour

\* "crash": the operator dies.  "k8s": a request to the API server fails.
\* "restart": a pod goes down by itself.  "slow": a deleted pod takes its time
\* to terminate, and is ready until then.  "edit": the template changes again.
FaultKind == {"crash", "k8s", "restart", "slow", "edit"}

Shard == 0 .. NumSts - 1
Pod == Shard \X (0 .. Replicas)
PodsOf(s) == {p \in Pod : p[1] = s}
Role == {"master", "slave"}

ASSUME RollingUpdateAssumption ==
  /\ NumSts \in Nat \ {0}
  /\ Replicas \in Nat
  /\ Faults \subseteq FaultKind
  /\ MaxFaults \in Nat

VARIABLES
  up,        \* pods that are ready
  stopping,  \* pods that are ready and have a deletion timestamp
  old,       \* pods of an older revision than the StatefulSet's
  master,    \* master[s]: the pod that is the master of shard s
  synced,    \* replicas that have the data of their master
  label,     \* label[p]: role label of the pod, or "none"
  conn,      \* pods that still have the address the operator read
  pc,        \* what the reconcile does next
  seen,      \* pods whose listed revision is not the one read of their StatefulSet
  revs,      \* number of StatefulSets whose update revision was read
  slaves,    \* replicas not visited yet
  masters,   \* masters not visited yet
  cur,       \* the replica found ready, {} or one pod
  ok,        \* the last replica visited was ready
  updated,   \* the last pod visited was deleted
  faults,    \* number of faults so far
  hit        \* the kinds of fault so far

podVars == << up, stopping, old, master, synced, label, conn >>
opVars == << pc, seen, revs, slaves, masters, cur, ok, updated >>
faultVars == << faults, hit >>
vars == << podVars, opVars, faultVars >>

PC == {"idle", "ready", "health", "roles", "slaves", "slave", "masters"}

TypeOK ==
  /\ stopping \subseteq up /\ up \subseteq Pod
  /\ old \subseteq Pod
  /\ master \in [Shard -> Pod] /\ \A s \in Shard : master[s] \in PodsOf(s)
  /\ synced \subseteq up
  /\ label \in [Pod -> Role \cup {"none"}]
  /\ conn \subseteq up
  /\ pc \in PC
  /\ seen \subseteq Pod
  /\ revs \in 0 .. NumSts
  /\ slaves \subseteq Pod /\ masters \subseteq Pod /\ cur \subseteq Pod
  /\ ok \in BOOLEAN /\ updated \in BOOLEAN
  /\ faults \in 0 .. MaxFaults /\ hit \subseteq Faults

Masters == {master[s] : s \in Shard}
RoleOf(p) == IF p \in Masters THEN "master" ELSE "slave"

\* All pods are there, in sync and labelled, when the template has changed.
Init ==
  /\ up = Pod /\ conn = {} /\ stopping = {}
  /\ old = Pod
  /\ master = [s \in Shard |-> << s, 0 >>]
  /\ synced = Pod \ Masters
  /\ label = [p \in Pod |-> RoleOf(p)]
  /\ pc = "idle"
  /\ seen = {} /\ revs = 0 /\ slaves = {} /\ masters = {} /\ cur = {}
  /\ ok = FALSE /\ updated = FALSE
  /\ faults = 0 /\ hit = {}

Fault(kind) ==
  /\ kind \in Faults
  /\ faults < MaxFaults
  /\ faults' = faults + 1
  /\ hit' = hit \cup {kind}

\* Reconcile returns and is queued again.
Return ==
  /\ pc' = "idle"
  /\ seen' = {} /\ revs' = 0 /\ slaves' = {} /\ masters' = {} /\ cur' = {}
  /\ ok' = FALSE /\ updated' = FALSE

-----------------------------------------------------------------------------
(* The pods.                                                               *)

\* Pod p is gone, and with it its address.
Stop(p) ==
  /\ up' = up \ {p}
  /\ stopping' = stopping \ {p}
  /\ synced' = synced \ {p}
  /\ conn' = conn \ {p}
  /\ UNCHANGED << old, master, label >>

\* DELETE of a ready pod: it goes down at once, or is slow to do so.
DeletePod(p) ==
  \/ p \notin stopping /\ Stop(p) /\ UNCHANGED faultVars
  \/ /\ p \notin stopping /\ Fault("slow")
     /\ stopping' = stopping \cup {p}
     /\ UNCHANGED << up, old, master, synced, label, conn >>
  \/ p \in stopping /\ UNCHANGED << podVars, faultVars >>

PodStops == \E p \in stopping : Stop(p)

\* The StatefulSet controller creates the pod again with its volume, of the new
\* revision and without the labels the operator has set.
PodBack ==
  \E p \in Pod \ up :
    /\ up' = up \cup {p}
    /\ old' = old \ {p}
    /\ label' = [label EXCEPT ![p] = "none"]
    /\ UNCHANGED << stopping, master, synced, conn >>

\* A replica gets in sync with its master.
Resync ==
  \E p \in (up \ synced) \ Masters :
    /\ master[p[1]] \in up
    /\ synced' = synced \cup {p}
    /\ UNCHANGED << up, stopping, old, master, label, conn >>

\* A replica in sync takes over from a master that is down; the others have to
\* get in sync with it.
Failover ==
  \E p \in synced :
    /\ master[p[1]] \notin up
    /\ master' = [master EXCEPT ![p[1]] = p]
    /\ synced' = synced \ PodsOf(p[1])
    /\ UNCHANGED << up, stopping, old, label, conn >>

-----------------------------------------------------------------------------
(* Reconcile up to the update.                                             *)

\* The list of the running pods, and connections to them.
GetStatefulSetPods ==
  /\ pc = "idle"
  /\ conn' = up
  /\ pc' = "ready"
  /\ UNCHANGED << up, stopping, old, master, synced, label >>
  /\ UNCHANGED << seen, revs, slaves, masters, cur, ok, updated, faultVars >>

\* CheckRedisNodeNum: every StatefulSet has all of its pods ready.
waitPodReady ==
  /\ pc = "ready"
  /\ IF up = Pod THEN pc' = "health" /\ UNCHANGED << seen, revs, slaves, masters, cur, ok, updated >>
                 ELSE Return
  /\ UNCHANGED << podVars, faultVars >>

\* INFO replication: no sync in progress and master_link_status:up.
Linked(p) == p \in synced /\ p \notin Masters /\ master[p[1]] \in up

\* The cluster infos are complete and every replica is ready, else the reconcile
\* ends before the update.
HealthOk == conn = Pod /\ \A p \in Pod \ Masters : Linked(p)

CheackandUpdateClusterHealth ==
  /\ pc = "health"
  /\ IF HealthOk THEN pc' = "roles" /\ UNCHANGED << seen, revs, slaves, masters, cur, ok, updated >>
                 ELSE Return
  /\ UNCHANGED << podVars, faultVars >>

-----------------------------------------------------------------------------
(* checkandUpdatePods.                                                     *)

\* Mutant: one StatefulSet more than there are.
getRedisIPsByRolePastEnd ==
  /\ pc = "roles"
  /\ conn = Pod
  /\ masters' = Masters
  /\ slaves' = Pod \ Masters
  /\ seen' = old
  /\ revs' = NumSts + 1
  /\ pc' = "slaves"
  /\ UNCHANGED << podVars, cur, ok, updated, faultVars >>

\* getRedisIPsByRole asks every node for its role, then
\* getStatefulsetUpdatedRevision reads the revisions; its error is ignored, and
\* the revisions read before it are used.  The pods are still the listed ones, so
\* those of an old revision are the ones whose listed revision differs.
getRedisIPsByRole ==
  /\ pc = "roles"
  /\ conn = Pod
  /\ masters' = Masters
  /\ slaves' = Pod \ Masters
  /\ seen' = old
  /\ \/ revs' = NumSts /\ UNCHANGED faultVars
     \/ revs' \in 0 .. NumSts - 1 /\ Fault("k8s")
  /\ pc' = "slaves"
  /\ UNCHANGED << podVars, cur, ok, updated >>

getRedisIPsByRoleError ==
  /\ pc = "roles"
  /\ conn # Pod
  /\ Return
  /\ UNCHANGED << podVars, faultVars >>

\* The next replica, in any order.
IsSlaveReady ==
  /\ pc = "slaves"
  /\ \E p \in slaves \cap conn :
       /\ slaves' = slaves \ {p}
       /\ ok' = Linked(p)
       /\ IF Linked(p) THEN cur' = {p} /\ pc' = "slave" ELSE UNCHANGED << cur, pc >>
  /\ UNCHANGED << podVars, seen, revs, masters, updated, faultVars >>

IsSlaveReadyError ==
  /\ pc = "slaves"
  /\ \E p \in slaves : p \notin conn
  /\ Return
  /\ UNCHANGED << podVars, faultVars >>

\* Mutant: only a pod without a label gets one.
updatePodIfNeededOnce(p, role, result) ==
  \/ result = "deleted" /\ p \in seen /\ p \in up /\ DeletePod(p)
  \/ /\ result = "kept"
     /\ p \notin seen
     /\ label' = [label EXCEPT ![p] = IF @ = "none" THEN role ELSE @]
     /\ UNCHANGED << up, stopping, old, master, synced, conn, faultVars >>
  \/ result = "error" /\ p \notin conn /\ UNCHANGED << podVars, faultVars >>

\* updatePodIfNeeded: a pod that had an old revision in the list is deleted, by
\* name; any other one gets its label.  Both fail when the pod is not the listed
\* one any more, or when the API server does.
updatePodIfNeeded(p, role, result) ==
  \/ /\ result = "deleted"
     /\ p \in seen
     /\ IF p \in up THEN DeletePod(p) ELSE UNCHANGED << podVars, faultVars >>
  \/ /\ result = "kept"
     /\ p \notin seen
     /\ IF p \in conn THEN label' = [label EXCEPT ![p] = role] ELSE UNCHANGED label
     /\ UNCHANGED << up, stopping, old, master, synced, conn, faultVars >>
  \/ /\ result = "error"
     /\ IF p \in conn THEN Fault("k8s") ELSE UNCHANGED faultVars
     /\ UNCHANGED podVars

Result == {"deleted", "kept", "error"}

\* updatePodIfNeeded of the replica; an error ends the reconcile.
updateSlave ==
  /\ pc = "slave"
  /\ \E p \in cur, result \in Result :
       /\ p[1] < revs
       /\ updatePodIfNeeded(p, "slave", result)
       /\ IF result = "error" THEN Return
          ELSE /\ updated' = (result = "deleted")
               /\ cur' = {}
               /\ pc' = "slaves"
               /\ UNCHANGED << seen, revs, slaves, masters, ok >>

\* revision_hashes is indexed by StatefulSet: out of range, and the reconcile
\* ends in a panic.
revisionMissing ==
  /\ \/ pc = "slave" /\ \E p \in cur : p[1] >= revs
     \/ pc = "masters" /\ \E p \in masters : p[1] >= revs
  /\ Return
  /\ UNCHANGED << podVars, faultVars >>

\* Mutant: the replicas were updated, and the masters follow at once.
slavesDoneGoOn ==
  /\ pc = "slaves"
  /\ slaves = {}
  /\ IF ~ok THEN Return
     ELSE pc' = "masters" /\ UNCHANGED << seen, revs, slaves, masters, cur, ok, updated >>
  /\ UNCHANGED << podVars, faultVars >>

\* Every replica was visited.  When the last one was deleted, wait until some
\* StatefulSet misses a pod, or time out, and return; when the last one was not
\* ready, return; otherwise go on with the masters.
slavesDone ==
  /\ pc = "slaves"
  /\ slaves = {}
  /\ IF updated \/ ~ok THEN Return
     ELSE pc' = "masters" /\ UNCHANGED << seen, revs, slaves, masters, cur, ok, updated >>
  /\ UNCHANGED << podVars, faultVars >>

\* Mutant: only the first master is looked at.
updateMasterFirstOnly ==
  /\ pc = "masters"
  /\ \E p \in masters, result \in Result :
       p[1] < revs /\ updatePodIfNeeded(p, "master", result) /\ Return

\* Mutant: every master is deleted, whatever its revision.
updateMasterAlways ==
  /\ pc = "masters"
  /\ \E p \in masters : p \in up /\ p[1] < revs /\ DeletePod(p) /\ Return

\* The next master, in any order.  One that was deleted ends the reconcile,
\* after the same wait; an error is passed over.
updateMaster ==
  /\ pc = "masters"
  /\ \E p \in masters, result \in Result :
       /\ p[1] < revs
       /\ updatePodIfNeeded(p, "master", result)
       /\ IF result = "deleted" THEN Return
          ELSE /\ masters' = masters \ {p}
               /\ updated' = FALSE
               /\ UNCHANGED << pc, seen, revs, slaves, cur, ok >>

mastersDone ==
  /\ pc = "masters"
  /\ masters = {}
  /\ Return
  /\ UNCHANGED << podVars, faultVars >>

-----------------------------------------------------------------------------
Crash ==
  /\ pc # "idle"
  /\ Fault("crash")
  /\ Return
  /\ UNCHANGED podVars

\* A pod goes down by itself: its node fails, or it is evicted.
PodRestart ==
  /\ Fault("restart")
  /\ \E p \in up : Stop(p)
  /\ UNCHANGED opVars

\* The user has edited the resource again and ensureCluster has updated a
\* StatefulSet; its controller sets the update revision some time later, also
\* during the update of the pods.
EditSpec ==
  /\ Fault("edit")
  /\ \E s \in Shard : old' = old \cup PodsOf(s)
  /\ UNCHANGED << up, stopping, master, synced, label, conn, opVars >>

Operator ==
  \/ GetStatefulSetPods \/ waitPodReady \/ CheackandUpdateClusterHealth
  \/ getRedisIPsByRole \/ getRedisIPsByRoleError
  \/ IsSlaveReady \/ IsSlaveReadyError \/ updateSlave \/ slavesDone
  \/ revisionMissing \/ updateMaster \/ mastersDone

\* What Kubernetes and the replication do in the end.
Settle == (PodStops \/ PodBack \/ Resync) /\ UNCHANGED << opVars, faultVars >>

FailoverStep == Failover /\ UNCHANGED << opVars, faultVars >>

Next == Operator \/ Crash \/ PodRestart \/ EditSpec \/ Settle \/ FailoverStep

\* A reconcile runs and is repeated; a pod that is to stop stops, one that is
\* missing is created, a replica gets in sync.  A failover need not happen.
Spec == Init /\ [][Next]_vars /\ WF_vars(Operator) /\ WF_vars(Settle)

-----------------------------------------------------------------------------
(* Properties.                                                             *)

\* A shard has a pod that is ready, has the data and is not to be deleted.
Serving(p) == p \in up \ stopping /\ (p \in Masters \/ p \in synced)
ShardServed == \A s \in Shard : \E p \in PodsOf(s) : Serving(p)

\* Without disturbances, checkandUpdatePods never takes the last pod of a shard
\* that serves its data: a master is deleted only while a replica is in sync.
ShardServedUndisturbed == hit = {} => ShardServed

\* The operator deletes a pod only if it is of an old revision, also when it
\* crashes, requests fail or the template changes meanwhile: it decides by the
\* list read at the start of the reconcile and by the revisions read before the
\* first deletion, and deletes by name.
OnlyOldPodsDeleted ==
  [][hit' \subseteq {"crash", "k8s", "edit"} => up \ up' \subseteq old]_vars

\* Whatever happens, all pods are of the new revision in the end.
UpdateCompletes == <>[](old = {})

\* In the end the role labels, by which clients find master and replicas, are
\* the roles, also after failovers.
LabelsFollowRoles == <>[](\A p \in Pod : label[p] = RoleOf(p))
=============================================================================
