------------------------------ MODULE Provision ------------------------------
(***************************************************************************)
(* The first half of Reconcile of a DistributedRedisCluster: the checks and*)
(* defaults of the spec, the Kubernetes objects of the cluster             *)
(* (controllers/manager/ensurer.go), and the users of Redis, which come    *)
(* from secrets (checkandUpdatePassword).  A new pod takes its users from  *)
(* the ACL config map; later changes of a secret reach the pods as ACL     *)
(* commands, and the versions sent are recorded in the status.  One pod    *)
(* stands for the pods of a shard.  One request per action.                *)
(***************************************************************************)
EXTENDS Naturals, FiniteSets

CONSTANTS
  Shard,        \* the shards, one StatefulSet and one service each
  User,         \* the Redis users, one secret each
  Admin,        \* the user the operator connects as
  Image,        \* the images of Redis
  None,
  MaxVersion,   \* bound on the versions of a secret
  Faults,       \* the kinds of fault that happen: a subset of FaultKind
  MaxFaults,    \* bound on the number of faults in a behaviour
  MaxChanges    \* bound on the changes users make

\* refused: a request fails for good; the others can be tried again.
FaultKind == {"api", "refused", "crash", "restart"}

\* What else can happen that a property depends on.
EventKind ==
  {"admin", "burst", "metadata", "race", "revert", "skip", "unrecorded"}

ASSUME ProvisionAssumption ==
  /\ Admin \in User
  /\ IsFiniteSet(Shard)
  /\ Image # {}
  /\ None \notin Image
  /\ None \notin [User -> 0 .. MaxVersion]
  /\ None \notin [User -> SUBSET (1 .. MaxVersion)]
  /\ MaxVersion \in Nat \ {0}
  /\ Faults \subseteq FaultKind
  /\ MaxFaults \in Nat
  /\ MaxChanges \in Nat

Version == 0 .. MaxVersion      \* of a secret; 0: missing or incomplete
Versions == [User -> Version]   \* 0: the user is not in the map
NoVersions == [u \in User |-> 0]

VARIABLES
  cr,       \* the DistributedRedisCluster, spec and status
  queued,   \* whether the object is in the work queue
  secret,   \* secret[u]: the version of the secret of u
  conf,     \* whether the config map of redis.conf exists
  file,     \* the users in the ACL config map, None if there is no map
  pdb,      \* the shards that have a PodDisruptionBudget
  sts,      \* sts[n]: the image of the StatefulSet of n, None if there is none
  svc,      \* the shards that have a service
  csvc,     \* whether the service of the cluster exists
  acl,      \* acl[n][u]: the versions the pod of n accepts for u; None: down
  pc,       \* the next request of the reconcile
  inst,     \* the object as the reconcile read and changed it
  stale,    \* whether someone else changed the object since
  pass,     \* the version of the admin password the connections use
  newver,   \* the secret versions checkandUpdatePassword read
  todo,     \* the ACL commands not sent yet: user and node
  changes,  \* number of changes so far
  faults,   \* number of faults so far
  hit       \* the kinds of fault and event so far

k8sVars == << conf, file, pdb, sts, svc, csvc >>
opVars == << inst, stale, pass, newver, todo >>
faultVars == << faults, hit >>
vars == << cr, queued, secret, k8sVars, acl, pc, opVars, changes, faultVars >>

\* ver, sstat and st: SecretsVer, SecretStatus and Status of the status.
CR == [valid : BOOLEAN, defaulted : BOOLEAN, image : Image,
       users : SUBSET User, ver : Versions,
       sstat : {"", "aclconferror", "aclconfdone", "ACLupdateERR",
                "ACLupdateSuccess", "ACLintact"},
       st : {"", "Scaling", "ResetPassword", "OK"}]

PC == {"idle", "default", "conf", "acl", "pdb", "sts", "svc", "csvc", "status",
       "wait", "check", "num", "send", "rest"}

TypeOK ==
  /\ cr \in CR
  /\ queued \in BOOLEAN
  /\ secret \in Versions
  /\ conf \in BOOLEAN
  /\ file \in Versions \cup {None}
  /\ pdb \subseteq Shard
  /\ sts \in [Shard -> Image \cup {None}]
  /\ svc \subseteq Shard
  /\ csvc \in BOOLEAN
  /\ acl \in [Shard -> [User -> SUBSET (1 .. MaxVersion)] \cup {None}]
  /\ pc \in PC
  /\ inst \in CR
  /\ stale \in BOOLEAN
  /\ pass \in Version
  /\ newver \in Versions
  /\ todo \subseteq User \X Shard
  /\ changes \in 0 .. MaxChanges
  /\ faults \in 0 .. MaxFaults
  /\ hit \subseteq FaultKind \cup EventKind

\* A new object, valid or not, that names some of the users.
Init ==
  /\ \E valid \in BOOLEAN, us \in SUBSET User :
        /\ Admin \in us
        /\ cr = [valid |-> valid, defaulted |-> FALSE,
                 image |-> CHOOSE i \in Image : TRUE, users |-> us,
                 ver |-> NoVersions, sstat |-> "", st |-> ""]
  /\ queued = TRUE
  /\ secret \in [User -> {0, 1}]
  /\ secret[Admin] = 1
  /\ conf = FALSE
  /\ file = None
  /\ pdb = {}
  /\ sts = [n \in Shard |-> None]
  /\ svc = {}
  /\ csvc = FALSE
  /\ acl = [n \in Shard |-> None]
  /\ pc = "idle"
  /\ inst = cr
  /\ stale = FALSE
  /\ pass = 0
  /\ newver = NoVersions
  /\ todo = {}
  /\ changes = 0
  /\ faults = 0
  /\ hit = {}

-----------------------------------------------------------------------------
(* Users, secrets and pods.                                                *)

Change ==
  /\ changes < MaxChanges
  /\ changes' = changes + 1
  /\ UNCHANGED << k8sVars, acl, pc, inst, pass, newver, todo, faults >>

\* The new object o replaces cr; a reconcile under way does not see it.
Put(o) == cr' = o /\ stale' = (pc # "idle")

\* The webhook refuses a new image while the status is neither unset nor OK.
ValidateUpdate(o) == cr.image = o.image \/ cr.st \in {"", "OK"}

\* A user is added or removed again before the first change was recorded.
Reverts(us) ==
  /\ cr.ver # NoVersions
  /\ \E u \in User : /\ (u \in us) # (u \in cr.users)
                      /\ (u \in us) = (cr.ver[u] # 0)

\* The versions that ought to be recorded.
Wanted == [u \in User |-> IF u \in cr.users THEN secret[u] ELSE 0]

\* No reconcile has recorded, and then found unchanged, the present secrets.
Unsettled ==
  /\ cr.ver # NoVersions
  /\ cr.ver # Wanted \/ cr.sstat = "ACLupdateSuccess"

\* The generation of the object changes, so the event passes the predicates.
EditSpec ==
  /\ Change
  /\ \E valid \in BOOLEAN, i \in Image, us \in SUBSET User :
        /\ Admin \in us
        /\ LET o == [cr EXCEPT !.valid = valid, !.image = i, !.users = us]
           IN  o # cr /\ ValidateUpdate(o) /\ Put(o)
        /\ hit' = hit \cup (IF Reverts(us) THEN {"revert"} ELSE {})
                      \cup (IF us # cr.users /\ Unsettled THEN {"burst"} ELSE {})
  /\ queued' = TRUE
  /\ UNCHANGED secret

\* An annotation or a label changes: the event is dropped.
EditMetadata ==
  /\ Change
  /\ pc # "idle"
  /\ Put(cr)
  /\ hit' = IF pc = "default" THEN hit \cup {"metadata"} ELSE hit
  /\ UNCHANGED << queued, secret >>

RotateSecret(u) ==
  /\ Change
  /\ secret[u] < MaxVersion
  /\ secret' = [secret EXCEPT ![u] = @ + 1]
  /\ hit' = hit \cup (IF u = Admin THEN {"admin"} ELSE {})
                \cup (IF Unsettled THEN {"burst"} ELSE {})
  /\ UNCHANGED << cr, queued, stale >>

\* The config maps that are volumes of the pods, without which none starts.
redisVolumes == conf /\ file # None

\* Mutant: the file has a line for every user, with or without a secret.
PodStartsAll(n) ==
  /\ sts[n] # None
  /\ acl[n] = None
  /\ redisVolumes
  /\ acl' = [acl EXCEPT ![n] = [u \in User |-> {file[u]}]]
  /\ UNCHANGED << cr, queued, secret, k8sVars, pc, opVars, changes, faultVars >>

\* Kubernetes starts the pod of a StatefulSet once its volumes are there.
PodStarts(n) ==
  /\ sts[n] # None
  /\ acl[n] = None
  /\ redisVolumes
  /\ acl' = [acl EXCEPT ![n] = [u \in User |-> {file[u]} \ {0}]]
  /\ UNCHANGED << cr, queued, secret, k8sVars, pc, opVars, changes, faultVars >>

-----------------------------------------------------------------------------
(* Reconcile.                                                              *)

NoRequeue == pc' = "idle" /\ UNCHANGED queued
Requeue == pc' = "idle" /\ queued' = TRUE
Goto(l) == pc' = l /\ UNCHANGED queued

\* The status o is kept in memory; the write is lost, and its error ignored,
\* when the object changed.
WriteStatus(o) ==
  /\ inst' = o
  /\ cr' = IF stale THEN cr
           ELSE [cr EXCEPT !.ver = o.ver, !.sstat = o.sstat, !.st = o.st]

\* What Reconcile writes into the status.
SetClusterScaling(o) == [o EXCEPT !.st = "Scaling"]
SetClusterResetPassword(o) == [o EXCEPT !.st = "ResetPassword"]
SetSecretStatus(o, state) == [o EXCEPT !.sstat = state]

\* Whether o differs from the status in memory, as far as that is compared:
\* not in the versions, unless none is recorded yet.
compareStatus(o) ==
  o.st # inst.st \/ o.sstat # inst.sstat \/ inst.ver = NoVersions

updateClusterIfNeed(o) ==
  IF compareStatus(o) THEN WriteStatus(o) ELSE UNCHANGED << cr, inst >>

\* Reconcile reads the object.  An invalid spec is not looked at again until
\* it is edited; a missing field is given its default.
validateAndSetDefault ==
  /\ pc = "idle"
  /\ queued
  /\ inst' = cr
  /\ stale' = FALSE
  /\ queued' = FALSE
  /\ pc' = IF ~cr.valid THEN "idle"
           ELSE IF cr.defaulted THEN "conf" ELSE "default"
  /\ UNCHANGED << cr, secret, k8sVars, acl, pass, newver, todo, changes, faultVars >>

\* UpdateCR.  A conflict is not retryable: the reconcile gives up.
DefaultSpec ==
  /\ pc = "default"
  /\ IF stale
     THEN NoRequeue /\ UNCHANGED << cr, inst >>
     ELSE /\ cr' = [cr EXCEPT !.defaulted = TRUE]
          /\ inst' = [inst EXCEPT !.defaulted = TRUE]
          /\ pc' = "conf"
          /\ queued' = TRUE
  /\ UNCHANGED << secret, k8sVars, acl, stale, pass, newver, todo, changes, faultVars >>

\* The versions of the secrets the object in memory names.
Getsecretversions == [u \in User |-> IF u \in inst.users THEN secret[u] ELSE 0]

\* Each of them can be read and has all of its fields.
GetAcldataFromSecrets(u) == secret[u] # 0
Complete == \A u \in inst.users : GetAcldataFromSecrets(u)

\* The users of the ACL file.
GenerateAclconf == [u \in User |-> IF u \in inst.users THEN secret[u] ELSE 0]

\* Created, or updated with its own content.
EnsureRedisConfigMap ==
  /\ pc = "conf"
  /\ conf' = TRUE
  /\ Goto("acl")
  /\ UNCHANGED << cr, secret, file, pdb, sts, svc, csvc, acl, opVars, changes, faultVars >>

\* Mutant: Reconcile returns without asking to be called again.
EnsureGivesUp ==
  /\ updateClusterIfNeed(SetClusterScaling(inst))
  /\ NoRequeue

\* ensureCluster fails with an error Reconcile retries.
EnsureFails ==
  /\ updateClusterIfNeed(SetClusterScaling(inst))
  /\ Requeue

\* The content of the ACL config map, None when a secret is missing.
NewACLConfigMap == IF Complete THEN GenerateAclconf ELSE None

\* The ACL config map is created once and never updated.
EnsureAclConfigMap ==
  /\ pc = "acl"
  /\ IF file = None /\ NewACLConfigMap = None
     THEN EnsureFails /\ UNCHANGED file
     ELSE /\ file' = IF file = None THEN NewACLConfigMap ELSE file
          /\ Goto("pdb")
          /\ UNCHANGED << cr, inst >>
  /\ UNCHANGED << secret, conf, pdb, sts, svc, csvc, acl, stale, pass, newver,
                  todo, changes, faultVars >>

\* Shards whose StatefulSet is missing or has another image, in no order:
\* what happens to one does not depend on the others.
shouldUpdateRedis == {n \in Shard : sts[n] # inst.image}

ensureRedisPDB ==
  /\ pc = "pdb"
  /\ IF shouldUpdateRedis = {} THEN Goto("svc") /\ UNCHANGED pdb
     ELSE \E n \in shouldUpdateRedis : pdb' = pdb \cup {n} /\ Goto("sts")
  /\ UNCHANGED << cr, secret, conf, file, sts, svc, csvc, acl, opVars, changes, faultVars >>

\* The StatefulSet of a shard, of which the image is what differs.
NewStatefulSetForCR == inst.image

\* Mutant: the StatefulSet comes before its PodDisruptionBudget.
createRedisStatefulset ==
  /\ pc = "sts"
  /\ \E n \in shouldUpdateRedis : sts' = [sts EXCEPT ![n] = NewStatefulSetForCR]
  /\ Goto("pdb")
  /\ UNCHANGED << cr, secret, conf, file, pdb, svc, csvc, acl, opVars, changes, faultVars >>

\* Created or updated.  OnDelete: running pods are left alone.
ensureRedisStatefulset ==
  /\ pc = "sts"
  /\ \E n \in shouldUpdateRedis \cap pdb : sts' = [sts EXCEPT ![n] = NewStatefulSetForCR]
  /\ Goto("pdb")
  /\ UNCHANGED << cr, secret, conf, file, pdb, svc, csvc, acl, opVars, changes, faultVars >>

\* Shard by shard: its PodDisruptionBudget, then its StatefulSet.
EnsureRedisStatefulsets == ensureRedisPDB \/ ensureRedisStatefulset

EnsureClusterShardsHeadLessSvcs ==
  /\ pc = "svc"
  /\ IF svc = Shard THEN Goto("csvc") /\ UNCHANGED svc
     ELSE (\E n \in Shard \ svc : svc' = svc \cup {n}) /\ Goto("svc")
  /\ UNCHANGED << cr, secret, conf, file, pdb, sts, csvc, acl, opVars, changes, faultVars >>

EnsureClusterHeadLessSvc ==
  /\ pc = "csvc"
  /\ csvc' = TRUE
  /\ Goto("status")
  /\ UNCHANGED << cr, secret, conf, file, pdb, sts, svc, acl, opVars, changes, faultVars >>

\* The versions are recorded once, whether or not that succeeds.
RecordVersions(ok) ==
  IF inst.sstat # "" THEN UNCHANGED << cr, inst, hit >>
  ELSE IF ok
  THEN /\ WriteStatus([SetSecretStatus(inst, "aclconfdone") EXCEPT
                         !.ver = Getsecretversions])
       /\ hit' = IF file # Getsecretversions THEN hit \cup {"race"} ELSE hit
  ELSE /\ WriteStatus(SetSecretStatus(inst, "aclconferror"))
       /\ hit' = hit \cup {"unrecorded"}

ensureClusterDone ==
  /\ pc = "status"
  /\ RecordVersions(Complete)
  /\ Goto("wait")
  /\ UNCHANGED << secret, k8sVars, acl, stale, pass, newver, todo, changes, faults >>

GetRedisClusterAdminPassword == secret[Admin]

\* CheckRedisNodeNum, then the password and the connections of the admin.
waitPodReady ==
  /\ pc = "wait"
  /\ IF \E n \in Shard : acl[n] = None
     THEN updateClusterIfNeed(SetClusterScaling(inst)) /\ Requeue
          /\ UNCHANGED pass
     ELSE pass' = GetRedisClusterAdminPassword /\ Goto("check") /\ UNCHANGED << cr, inst >>
  /\ UNCHANGED << secret, k8sVars, acl, stale, newver, todo, changes, faultVars >>

\* Mutant: only changed secrets count, not users added or removed.
IsdiffCommon ==
  \E u \in User : inst.ver[u] # 0 /\ Getsecretversions[u] # 0
                  /\ inst.ver[u] # Getsecretversions[u]

IsdiffAclVerions == inst.ver # Getsecretversions

\* CheckPasswordChanged: no version recorded, or a secret that cannot be read,
\* means no change.
CheckPasswordChanged ==
  /\ pc = "check"
  /\ IF inst.ver = NoVersions \/ ~Complete \/ ~IsdiffAclVerions
     THEN /\ updateClusterIfNeed(SetSecretStatus(inst, "ACLintact"))
          /\ Goto("rest")
          /\ UNCHANGED newver
     ELSE /\ WriteStatus(SetClusterResetPassword(inst))
          /\ newver' = Getsecretversions
          /\ Goto("num")
  /\ UNCHANGED << secret, k8sVars, acl, stale, pass, todo, changes, faultVars >>

\* The users whose version differs, each for every node.
GenerateAclcommands == {u \in User : inst.ver[u] # newver[u]} \X Shard

\* Mutant: only the status of the update is recorded.
StatusUpdated == updateClusterIfNeed(SetSecretStatus(inst, "ACLupdateSuccess"))

\* checkandUpdatePassword returns; Reconcile records what it reports.
Updated ==
  updateClusterIfNeed([SetSecretStatus(inst, "ACLupdateSuccess") EXCEPT !.ver = newver])
UpdateFailed == updateClusterIfNeed(SetSecretStatus(inst, "ACLupdateERR"))

\* When pods are missing nothing is sent, and that is reported as success.
CheckRedisNodeNum ==
  /\ pc = "num"
  /\ IF \E n \in Shard : acl[n] = None
     THEN /\ Updated
          /\ hit' = hit \cup {"skip"}
          /\ Goto("rest")
          /\ UNCHANGED todo
     ELSE /\ todo' = GenerateAclcommands
          /\ Goto("send")
          /\ UNCHANGED << cr, inst, hit >>
  /\ UNCHANGED << secret, k8sVars, acl, stale, pass, newver, changes, faults >>

\* One command goes to all nodes before the next.  Redis adds the password to
\* those of the user, or deletes the user.  It refuses the command for the
\* admin, whose rules parseAclInput leaves out, and every command of a
\* connection with another password than the admin's.
Accepts(u, n) == acl[n] # None /\ u # Admin /\ pass \in acl[n][Admin]

\* Mutant: the answer of the node is not looked at.
SendUnchecked(u, n) ==
  /\ acl' = IF Accepts(u, n)
            THEN [acl EXCEPT ![n][u] =
                    IF newver[u] = 0 THEN {} ELSE @ \cup {newver[u]}]
            ELSE acl
  /\ todo' = todo \ {<< u, n >>}
  /\ UNCHANGED << cr, queued, inst, pc >>

Send(u, n) ==
  IF Accepts(u, n)
  THEN /\ acl' = [acl EXCEPT ![n][u] =
                    IF newver[u] = 0 THEN {} ELSE @ \cup {newver[u]}]
       /\ todo' = todo \ {<< u, n >>}
       /\ UNCHANGED << cr, queued, inst, pc >>
  ELSE /\ UpdateFailed
       /\ todo' = {}
       /\ Goto("rest")
       /\ UNCHANGED acl

checkandUpdatePassword ==
  /\ pc = "send"
  /\ IF todo = {}
     THEN Updated /\ Goto("rest") /\ UNCHANGED << acl, todo >>
     ELSE \E u \in User, n \in Shard :
            /\ << u, n >> \in todo
            /\ \A v \in User \ {u}, m \in Shard :
                 << v, m >> \in todo => {v} \X Shard \subseteq todo
            /\ Send(u, n)
  /\ UNCHANGED << secret, k8sVars, stale, pass, newver, changes, faultVars >>

\* The rest of the reconcile may or may not find the cluster healthy.
Rest ==
  /\ pc = "rest"
  /\ \E st \in {inst.st, "OK"} : updateClusterIfNeed([inst EXCEPT !.st = st])
  /\ Requeue
  /\ UNCHANGED << secret, k8sVars, acl, stale, pass, newver, todo, changes, faultVars >>

-----------------------------------------------------------------------------
(* Faults.                                                                 *)

Fault(kind) ==
  /\ kind \in Faults
  /\ faults < MaxFaults
  /\ faults' = faults + 1

\* The operator starts again and lists the object.
Restarted ==
  /\ Requeue
  /\ todo' = {}
  /\ UNCHANGED << cr, inst >>

\* A request fails.  The error of a failing service request is lost: Reconcile
\* dereferences nil, and the operator ends.
RequestFails ==
  /\ Fault("api")
  /\ \/ /\ pc = "default"
        /\ Requeue /\ UNCHANGED << cr, inst, todo >>
        /\ hit' = hit \cup {"api"}
     \/ /\ pc \in {"conf", "acl", "pdb", "sts"}
        /\ EnsureFails /\ UNCHANGED todo
        /\ hit' = hit \cup {"api"}
     \/ /\ pc \in {"svc", "csvc"}
        /\ Restarted
        /\ hit' = hit \cup {"api"}
     \/ /\ pc = "status"
        /\ RecordVersions(FALSE)
        /\ Goto("wait") /\ UNCHANGED todo
     \/ /\ pc = "wait"
        /\ Requeue /\ UNCHANGED << cr, inst, todo >>
        /\ hit' = hit \cup {"api"}
     \/ /\ pc = "num"
        /\ Updated /\ Goto("rest") /\ UNCHANGED todo
        /\ hit' = hit \cup {"skip"}
     \/ /\ pc = "send"
        /\ UpdateFailed /\ Goto("rest") /\ todo' = {}
        /\ hit' = hit \cup {"api"}
  /\ UNCHANGED << secret, k8sVars, acl, stale, pass, newver, changes >>

\* UpdateCR of the defaults fails for good: the reconcile gives up.
DefaultRefused ==
  /\ Fault("refused")
  /\ pc = "default"
  /\ NoRequeue
  /\ hit' = hit \cup {"refused"}
  /\ UNCHANGED << cr, secret, k8sVars, acl, opVars, changes >>

Crash ==
  /\ Fault("crash")
  /\ pc # "idle"
  /\ Restarted
  /\ hit' = hit \cup {"crash"}
  /\ UNCHANGED << secret, k8sVars, acl, stale, pass, newver, changes >>

PodStops(n) ==
  /\ Fault("restart")
  /\ acl[n] # None
  /\ acl' = [acl EXCEPT ![n] = None]
  /\ hit' = hit \cup {"restart"}
  /\ UNCHANGED << cr, queued, secret, k8sVars, pc, opVars, changes >>

ensureCluster ==
  \/ validateAndSetDefault
  \/ DefaultSpec
  \/ EnsureRedisConfigMap
  \/ EnsureAclConfigMap
  \/ EnsureRedisStatefulsets
  \/ EnsureClusterShardsHeadLessSvcs
  \/ EnsureClusterHeadLessSvc
  \/ ensureClusterDone

Operator ==
  \/ ensureCluster
  \/ waitPodReady
  \/ CheckPasswordChanged
  \/ CheckRedisNodeNum
  \/ checkandUpdatePassword
  \/ Rest

Next ==
  \/ Operator
  \/ EditSpec \/ EditMetadata
  \/ \E u \in User : RotateSecret(u)
  \/ \E n \in Shard : PodStarts(n) \/ PodStops(n)
  \/ RequestFails \/ DefaultRefused \/ Crash

\* controller-runtime calls Reconcile for what is queued, no request hangs, and
\* Kubernetes starts the pods.
Fairness ==
  /\ WF_vars(Operator)
  /\ \A n \in Shard : WF_vars(PodStarts(n))

Spec == Init /\ [][Next]_vars /\ Fairness

-----------------------------------------------------------------------------
(* Properties.                                                             *)

\* What the status records as the version of a user of the spec, every pod
\* that runs accepts, whatever fails half way, unless a pod restarted with the
\* old ACL file, secrets changed between the file and the first record,
\* CheckRedisNodeNum failed inside checkandUpdatePassword, or a user came back
\* into the spec before its removal was recorded (the write of the status is
\* lost when the object changed, and the next reconcile sees no difference).
RecordedApplied ==
  hit \cap {"restart", "race", "skip", "revert"} = {} =>
    \A n \in Shard, u \in cr.users :
      acl[n] # None /\ cr.ver[u] # 0 => cr.ver[u] \in acl[n][u]

\* A pod that starts knows the admin the operator connects as, because no
\* StatefulSet is created before the ACL config map; and every StatefulSet
\* has its PodDisruptionBudget before its first pod.
PodsStartProtected ==
  \A n \in Shard : sts[n] # None =>
    conf /\ file # None /\ file[Admin] # 0 /\ n \in pdb

\* The secrets the object names are all there.
Provided == cr.valid /\ \A u \in cr.users : secret[u] # 0

\* Whatever fails, also through a lost error and the crash it causes, all
\* objects come to exist and follow the spec, unless the update of the
\* defaults failed for good or met a change that causes no event.
ClusterProvisioned ==
  ([](hit \cap {"refused", "metadata"} = {}) /\ <>[]Provided) =>
    <>[](csvc /\ svc = Shard
         /\ \A n \in Shard : sts[n] = cr.image /\ acl[n] # None)

\* When secrets and spec stop changing, every pod comes to accept the secrets
\* of the users the spec names and to have forgotten the others, even if
\* secrets changed faster than the operator ran.
SecretsReachPods ==
  ([](hit \subseteq {"burst", "api", "crash"}) /\ <>[]Provided) =>
    <>[](\A n \in Shard, u \in User :
           /\ acl[n] # None
           /\ IF u \in cr.users THEN secret[u] \in acl[n][u] ELSE acl[n][u] = {})

\* The record in the status follows too, unless secrets or users changed again
\* before a reconcile saw no change: compareStatus does not look at the versions, so
\* a second success in a row is never written, and the commands are sent for
\* ever.
RecordSettles ==
  ([](hit \subseteq {"api", "crash", "restart", "race", "skip"})
      /\ <>[]Provided) =>
    <>[](cr.ver = Wanted)
=============================================================================
