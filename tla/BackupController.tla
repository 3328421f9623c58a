-------------------------- MODULE BackupController --------------------------
(***************************************************************************)
(* The controller of RedisClusterBackup objects                            *)
(* (controllers/redisclusterbackup): Reconcile keeps the utility           *)
(* deployment of a cluster and, through a finalizer, deletes it with the   *)
(* backup.  All backups of a cluster share one deployment, named after the *)
(* cluster; two reconciles run at a time, never two of the same object.    *)
(* One Kubernetes request per action.                                      *)
(***************************************************************************)
EXTENDS Naturals, FiniteSets

CONSTANTS
  Backup,         \* the RedisClusterBackup objects of one cluster
  Image,          \* the images a UtilSpec may name
  ClusterScoped,  \* whether the operator watches every namespace
  InNamespace,    \* whether the objects are in a watched namespace
  Scope,          \* Scope[b]: the scope annotation of b, None if it has none
  None,
  Faults,         \* the kinds of fault that happen: a subset of FaultKind
  MaxFaults,      \* bound on the number of faults in a behaviour
  MaxCreates,     \* bound on the number of objects created
  MaxChanges      \* bound on the edits of objects and changes of the cluster

FaultKind == {"api", "crash"}

\* What else can happen that a property depends on.
EventKind == {"early", "unready", "shared", "conflict"}

ASSUME BackupAssumption ==
  /\ ClusterScoped \in BOOLEAN
  /\ InNamespace \in BOOLEAN
  /\ Faults \subseteq FaultKind
  /\ MaxFaults \in Nat
  /\ MaxCreates \in Nat
  /\ MaxChanges \in Nat

VARIABLES
  obj,       \* obj[b]: the object b in Kubernetes
  queued,    \* queued[b]: b is in the work queue, at once or after a delay
  depl,      \* the deployment of the cluster, or None
  cluster,   \* the DistributedRedisCluster the backups name
  pc,        \* pc[b]: the next request of the reconcile of b
  inst,      \* inst[b]: the object b as that reconcile read it, None outside
  size,      \* size[b]: the MasterSize that reconcile read
  created,   \* number of objects created so far
  changes,   \* number of edits and changes so far
  faults,    \* number of faults so far
  hit        \* the kinds of fault and event so far

workVars == << pc, inst, size >>
boundVars == << created, changes >>
faultVars == << faults, hit >>
vars == << obj, queued, depl, cluster, workVars, boundVars, faultVars >>

Size == 1 .. 2      \* the MasterSize of the cluster, a few values are enough

\* version stands for resourceVersion: it moves with every change.
Object ==
  [there : BOOLEAN, deleting : BOOLEAN, fin : BOOLEAN, image : Image,
   version : Nat]

Deployment == [image : Image, size : Size]

ASSUME NoneAssumption == None \notin Deployment

PC == {"idle", "cluster", "get", "create", "update", "addFinalizer",
       "finGet", "finDelete", "removeFinalizer"}

Absent(image, version) ==
  [there |-> FALSE, deleting |-> FALSE, fin |-> FALSE, image |-> image,
   version |-> version]

TypeOK ==
  /\ obj \in [Backup -> Object]
  /\ queued \in [Backup -> BOOLEAN]
  /\ depl \in Deployment \cup {None}
  /\ cluster \in [there : BOOLEAN, ready : BOOLEAN, size : Size]
  /\ pc \in [Backup -> PC]
  /\ inst \in [Backup -> Object \cup {None}]
  /\ size \in [Backup -> Size]
  /\ created \in 0 .. MaxCreates
  /\ changes \in 0 .. MaxChanges
  /\ faults \in 0 .. MaxFaults
  /\ hit \subseteq FaultKind \cup EventKind

Init ==
  /\ \E i \in Image : obj = [b \in Backup |-> Absent(i, 0)]
  /\ queued = [b \in Backup |-> FALSE]
  /\ depl = None
  /\ cluster \in [there : {TRUE}, ready : BOOLEAN, size : {1}]
  /\ pc = [b \in Backup |-> "idle"]
  /\ inst = [b \in Backup |-> None]
  /\ size = [b \in Backup |-> 1]
  /\ created = 0
  /\ changes = 0
  /\ faults = 0
  /\ hit = {}

-----------------------------------------------------------------------------
(* Users and the cluster.                                                  *)

\* Whether events of b reach this operator.
ShoudManage(b) ==
  \/ ClusterScoped /\ Scope[b] = "cluster-scoped"
  \/ ~ClusterScoped /\ InNamespace /\ Scope[b] \in {"namespace-scoped", None}

\* An event of b passes the predicates of the controller's watch.
Notify(b) == queued' = [queued EXCEPT ![b] = @ \/ ShoudManage(b)]

\* obj[b] is replaced by o in a new version.
Store(b, o) == obj' = [obj EXCEPT ![b] = [o EXCEPT !.version = obj[b].version + 1]]

CreateCR(b) ==
  /\ ~obj[b].there
  /\ created < MaxCreates
  /\ created' = created + 1
  /\ \E i \in Image : Store(b, [Absent(i, 0) EXCEPT !.there = TRUE])
  /\ Notify(b)
  /\ hit' = IF \E c \in Backup \ {b} : obj[c].there
            THEN hit \cup {"shared"} ELSE hit
  /\ UNCHANGED << depl, cluster, workVars, changes, faults >>

EditCR(b) ==
  /\ obj[b].there
  /\ changes < MaxChanges
  /\ changes' = changes + 1
  /\ \E i \in Image \ {obj[b].image} : Store(b, [obj[b] EXCEPT !.image = i])
  /\ Notify(b)
  /\ UNCHANGED << depl, cluster, workVars, created, faultVars >>

\* Without a finalizer the object is gone at once.
DeleteCR(b) ==
  /\ obj[b].there
  /\ ~obj[b].deleting
  /\ IF obj[b].fin
     THEN Store(b, [obj[b] EXCEPT !.deleting = TRUE]) /\ UNCHANGED hit
     ELSE Store(b, Absent(obj[b].image, 0)) /\ hit' = hit \cup {"early"}
  /\ Notify(b)
  /\ UNCHANGED << depl, cluster, workVars, boundVars, faults >>

\* The cluster is scaled, deleted, created, or its StatefulSets or its admin
\* secret become ready or not.
ChangeCluster ==
  /\ changes < MaxChanges
  /\ changes' = changes + 1
  /\ cluster' \in [there : BOOLEAN, ready : BOOLEAN, size : Size] \ {cluster}
  /\ UNCHANGED << obj, queued, depl, workVars, created, faultVars >>

-----------------------------------------------------------------------------
(* Reconcile.                                                              *)

Goto(b, l) == pc' = [pc EXCEPT ![b] = l] /\ UNCHANGED << queued, inst >>

Return(b) ==
  /\ pc' = [pc EXCEPT ![b] = "idle"]
  /\ inst' = [inst EXCEPT ![b] = None]

\* Reconcile returns an error or asks to be called again in 60 seconds.
Requeue(b) == Return(b) /\ queued' = [queued EXCEPT ![b] = TRUE]

\* Reconcile returns without either.
Done(b) == Return(b) /\ UNCHANGED queued

\* Where Reconcile continues with the object o it has read.
Branch(o) ==
  IF o.there /\ ~o.deleting THEN "cluster"
  ELSE IF o.there /\ o.fin THEN "finGet"
  ELSE "idle"

\* Reconcile reads the object, and finds out what it is to do.
Reconcile(b) ==
  /\ pc[b] = "idle"
  /\ queued[b]
  /\ queued' = [queued EXCEPT ![b] = FALSE]
  /\ pc' = [pc EXCEPT ![b] = Branch(obj[b])]
  /\ inst' = [inst EXCEPT ![b] = IF Branch(obj[b]) = "idle" THEN None ELSE obj[b]]
  /\ UNCHANGED << obj, depl, cluster, size, boundVars, faultVars >>

\* The StatefulSets of the cluster, and its admin secret, are ready.
ValidateBackup == cluster.ready

\* No cluster: try again in 60 seconds.  No admin secret or a StatefulSet that
\* is not ready: no deployment, but the reconcile goes on to the finalizer.
GetDistributedRedisCluster(b) ==
  /\ pc[b] = "cluster"
  /\ IF ~cluster.there
     THEN Requeue(b) /\ UNCHANGED size
     ELSE /\ size' = [size EXCEPT ![b] = cluster.size]
          /\ Goto(b, IF ValidateBackup THEN "get" ELSE "addFinalizer")
  /\ UNCHANGED << obj, depl, cluster, boundVars, faultVars >>

\* Mutant: one master too many.
UtilOneMore(b) == [image |-> inst[b].image, size |-> size[b] + 1]

\* The deployment the reconcile of b wants.
UtilNewDeploymentForCR(b) == [image |-> inst[b].image, size |-> size[b]]

\* Mutant: only the image is compared, as the comment in the code says.
ImageDiffers(b) == depl.image # inst[b].image

\* What of the deployment is compared with the object and the cluster.
validateUtilCRandDeploymentSpec(b) ==
  \/ depl.image # inst[b].image
  \/ depl.size # size[b]

reconcileUtilDeployment(b) ==
  /\ pc[b] = "get"
  /\ Goto(b, IF depl = None THEN "create"
             ELSE IF validateUtilCRandDeploymentSpec(b) THEN "update"
             ELSE "addFinalizer")
  /\ UNCHANGED << obj, depl, cluster, size, boundVars, faultVars >>

\* An error (the other reconcile was faster) is logged.
CreateDeployment(b) ==
  /\ pc[b] = "create"
  /\ depl' = IF depl = None THEN UtilNewDeploymentForCR(b) ELSE depl
  /\ Goto(b, "addFinalizer")
  /\ UNCHANGED << obj, cluster, size, boundVars, faultVars >>

\* The object sent has no resourceVersion: it replaces whatever is there.
UpdateDeployment(b) ==
  /\ pc[b] = "update"
  /\ depl' = IF depl # None THEN UtilNewDeploymentForCR(b) ELSE depl
  /\ Goto(b, "addFinalizer")
  /\ UNCHANGED << obj, cluster, size, boundVars, faultVars >>

\* Mutant: the update does not notice that the object changed.
NeverRefused(b) == FALSE

\* Update(ctx, instance) is refused when the object changed since it was read.
UpdateRefused(b) == obj[b].version # inst[b].version

AddFinalizer(b) ==
  /\ pc[b] = "addFinalizer"
  /\ Requeue(b)
  /\ IF inst[b].fin \/ UpdateRefused(b)
     THEN UNCHANGED << obj, hit >>
     ELSE /\ Store(b, [inst[b] EXCEPT !.fin = TRUE])
          /\ hit' = IF depl = None THEN hit \cup {"unready"} ELSE hit
  /\ UNCHANGED << depl, cluster, size, boundVars, faults >>

\* finalizeBackup.  A deployment that is not there is an error like any other.
GetDeployment(b) ==
  /\ pc[b] = "finGet"
  /\ IF depl = None THEN Requeue(b)
     ELSE Goto(b, "finDelete")
  /\ UNCHANGED << obj, depl, cluster, size, boundVars, faultVars >>

\* Mutant: the deployment is left to Kubernetes' garbage collector.
DeleteNothing(b) ==
  /\ pc[b] = "finDelete"
  /\ Goto(b, "removeFinalizer")
  /\ UNCHANGED << obj, depl, cluster, size, boundVars, faultVars >>

\* Mutant: the finalizer is left to the next reconcile.
DeleteAndReturn(b) ==
  /\ pc[b] = "finDelete"
  /\ Requeue(b)
  /\ depl' = None
  /\ UNCHANGED << obj, cluster, size, boundVars, faultVars >>

DeleteDeployment(b) ==
  /\ pc[b] = "finDelete"
  /\ IF depl = None THEN Requeue(b)
     ELSE Goto(b, "removeFinalizer")
  /\ depl' = None
  /\ UNCHANGED << obj, cluster, size, boundVars, faultVars >>

\* The object is gone with its last finalizer.
RemoveFinalizer(b) ==
  /\ pc[b] = "removeFinalizer"
  /\ IF UpdateRefused(b)
     THEN Requeue(b) /\ hit' = hit \cup {"conflict"} /\ UNCHANGED obj
     ELSE Done(b) /\ Store(b, Absent(inst[b].image, 0)) /\ UNCHANGED hit
  /\ UNCHANGED << depl, cluster, size, boundVars, faults >>

-----------------------------------------------------------------------------
(* Faults.                                                                 *)

Fault(kind) ==
  /\ kind \in Faults
  /\ faults < MaxFaults
  /\ faults' = faults + 1
  /\ hit' = hit \cup {kind}

\* A request fails.  Errors of reconcileUtilDeployment are only logged.
RequestFails(b) ==
  /\ pc[b] # "idle"
  /\ Fault("api")
  /\ IF pc[b] \in {"get", "create", "update"}
     THEN Goto(b, "addFinalizer")
     ELSE Requeue(b)
  /\ UNCHANGED << obj, depl, cluster, size, boundVars >>

\* The operator stops; when it starts again it lists all objects.
Crash ==
  /\ Fault("crash")
  /\ pc' = [b \in Backup |-> "idle"]
  /\ inst' = [b \in Backup |-> None]
  /\ queued' = [b \in Backup |-> obj[b].there /\ ShoudManage(b)]
  /\ UNCHANGED << obj, depl, cluster, size, boundVars >>

Worker(b) ==
  \/ Reconcile(b)
  \/ GetDistributedRedisCluster(b)
  \/ reconcileUtilDeployment(b)
  \/ CreateDeployment(b)
  \/ UpdateDeployment(b)
  \/ AddFinalizer(b)
  \/ GetDeployment(b)
  \/ DeleteDeployment(b)
  \/ RemoveFinalizer(b)

Users(b) == CreateCR(b) \/ EditCR(b) \/ DeleteCR(b)

Next ==
  \/ \E b \in Backup : Worker(b) \/ Users(b) \/ RequestFails(b)
  \/ ChangeCluster
  \/ Crash

\* controller-runtime calls Reconcile for what is queued; no request hangs.
Fairness == \A b \in Backup : WF_vars(Worker(b))

Spec == Init /\ [][Next]_vars /\ Fairness

-----------------------------------------------------------------------------
(* Properties.                                                             *)

\* The deployment, which has no owner reference, never outlives the last
\* backup of its cluster, whatever fails and however the reconciles of several
\* backups interleave, as long as no object is deleted before Reconcile has
\* added the finalizer (it does so only after creating the deployment).
DeploymentHasBackup ==
  "early" \notin hit => (depl # None => \E b \in Backup : obj[b].there)

\* Where b is in the life the abstract controller gives it.
PhaseOf(b) ==
  CASE ~obj[b].there                                    -> "absent"
    [] obj[b].there /\ obj[b].deleting /\ pc[b] = "removeFinalizer" -> "cleaned"
    [] obj[b].there /\ obj[b].deleting /\ pc[b] # "removeFinalizer" -> "deleting"
    [] obj[b].there /\ ~obj[b].deleting /\ obj[b].fin   -> "protected"
    [] obj[b].there /\ ~obj[b].deleting /\ ~obj[b].fin  -> "live"

Lifecycle == INSTANCE BackupLifecycle WITH
  phase <- [b \in Backup |-> PhaseOf(b)],
  util <- depl # None

\* A backup leaves Kubernetes only as the abstract controller allows: with
\* the finalizer never without its own deletion of the deployment.
LifecycleSpec == Lifecycle!Spec

\* Whatever was edited, failed or deleted before, the deployment comes to have
\* the image of a backup that stays and the size of its cluster, again and
\* again if other backups of the cluster want another image.
DeploymentFollows ==
  \A b \in Backup :
    (ShoudManage(b) /\ <>[](obj[b].there /\ ~obj[b].deleting
                            /\ cluster.there /\ cluster.ready))
      => []<>(depl # None /\ depl.image = obj[b].image /\ depl.size = cluster.size)

\* A deletion completes when the backup is the only one, had a deployment when
\* it got its finalizer, and no request fails or is refused.  In every other case
\* finalizeBackup may wait for ever for a deployment that is already gone.
DeletionCompletes ==
  [](hit = {}) => \A b \in Backup : obj[b].deleting ~> ~obj[b].there
=============================================================================
