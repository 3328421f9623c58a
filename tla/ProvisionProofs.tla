--------------------------- MODULE ProvisionProofs ---------------------------
(***************************************************************************)
(* Proofs about Provision, for any sets of shards, users and images and    *)
(* any bounds on versions, changes and faults.                             *)
(***************************************************************************)
EXTENDS Provision, TLAPS

(***************************************************************************)
(* PodsStartProtected is not inductive: what makes it hold is how far the  *)
(* reconcile has come, and that the admin is never without its secret.     *)
(***************************************************************************)
AdminNamed ==
  /\ Admin \in cr.users
  /\ Admin \in inst.users
  /\ secret[Admin] # 0

EnsuredInOrder ==
  /\ pc \in {"acl", "pdb", "sts"} => conf
  /\ pc \in {"pdb", "sts"} => file # None
  /\ file # None => file[Admin] # 0

ProtectInv == AdminNamed /\ EnsuredInOrder /\ PodsStartProtected

(***************************************************************************)
(* RecordedApplied, under the condition that none of its exceptions has    *)
(* happened.                                                               *)
(***************************************************************************)
Clean == hit \cap {"restart", "race", "skip", "revert"} = {}

\* Every pod that runs accepts the versions o records for the users it names.
Applied(o) ==
  \A n \in Shard, u \in o.users :
    acl[n] # None /\ o.ver[u] # 0 => o.ver[u] \in acl[n][u]

\* Until versions are recorded, every pod accepts what the ACL file says ...
FileApplied ==
  /\ \A n \in Shard : acl[n] # None => file # None
  /\ cr.ver = NoVersions =>
       \A n \in Shard, u \in User :
         acl[n] # None /\ file[u] # 0 => file[u] \in acl[n][u]

\* ... and as long as a pod is missing, nothing else has been recorded.
FileRecorded ==
  \A n \in Shard : acl[n] = None =>
    cr.ver \in {NoVersions, file} /\ inst.ver \in {NoVersions, file}

\* Versions are recorded together with the state of the secrets.
RecordedOnce ==
  /\ cr.sstat = "" => cr.ver = NoVersions
  /\ pc # "idle" /\ inst.sstat = "" => cr.sstat = ""

\* What the reconcile has in memory, compared with the object: the same unless
\* the object changed; and a user whose version is recorded was named by the
\* object when the reconcile read it.
MemoryCurrent ==
  pc # "idle" =>
    /\ ~stale => cr.users = inst.users /\ cr.ver = inst.ver
    /\ \A u \in cr.users : cr.ver[u] # 0 => u \in inst.users
    /\ cr.ver = NoVersions => \A u \in User : inst.ver[u] # 0 => u \in inst.users

\* The versions to be sent are those of the users of the spec, and what has
\* been sent is in force.
SentApplied ==
  /\ pc \in {"num", "send"} => \A u \in User : newver[u] # 0 <=> u \in inst.users
  /\ pc = "send" =>
       /\ \A n \in Shard : acl[n] # None
       /\ todo \subseteq GenerateAclcommands
       /\ \A n \in Shard, u \in User :
            << u, n >> \notin todo /\ newver[u] # 0 => newver[u] \in acl[n][u]

RecordInv ==
  Clean =>
    /\ Applied(cr)
    /\ pc # "idle" => Applied(inst)
    /\ FileApplied
    /\ FileRecorded
    /\ RecordedOnce
    /\ MemoryCurrent
    /\ SentApplied

-----------------------------------------------------------------------------
(* Type correctness.                                                       *)

LEMMA NoVersionsType == NoVersions \in Versions
BY ProvisionAssumption DEF NoVersions, Versions, Version

LEMMA GetsecretversionsType ==
  ASSUME TypeOK PROVE Getsecretversions \in Versions /\ GenerateAclconf \in Versions
BY NoVersionsType, ProvisionAssumption
DEF TypeOK, Getsecretversions, GenerateAclconf, Versions, Version

\* The record of an object, field by field.
LEMMA CRFields ==
  ASSUME NEW o \in CR
  PROVE  /\ o.valid \in BOOLEAN /\ o.defaulted \in BOOLEAN /\ o.image \in Image
         /\ o.users \subseteq User /\ o.ver \in Versions
         /\ o.sstat \in {"", "aclconferror", "aclconfdone", "ACLupdateERR",
                         "ACLupdateSuccess", "ACLintact"}
         /\ o.st \in {"", "Scaling", "ResetPassword", "OK"}
BY DEF CR

\* The states Reconcile writes.
LEMMA SetStatusTypes ==
  ASSUME NEW o \in CR
  PROVE  /\ SetClusterScaling(o) \in CR /\ SetClusterResetPassword(o) \in CR
         /\ [o EXCEPT !.st = "OK"] \in CR /\ [o EXCEPT !.st = o.st] \in CR
         /\ \A state \in {"aclconferror", "aclconfdone", "ACLupdateERR",
                          "ACLupdateSuccess", "ACLintact"} :
              /\ SetSecretStatus(o, state) \in CR
              /\ \A v \in Versions : [SetSecretStatus(o, state) EXCEPT !.ver = v] \in CR
BY DEF CR, SetClusterScaling, SetClusterResetPassword, SetSecretStatus

\* A write of the status keeps the types and changes no other field of cr.
LEMMA WriteStatusTypes ==
  ASSUME TypeOK, NEW o \in CR, WriteStatus(o)
  PROVE  cr' \in CR /\ inst' \in CR
BY DEF TypeOK, WriteStatus, CR

LEMMA UpdateTypes ==
  ASSUME TypeOK, NEW o \in CR, updateClusterIfNeed(o)
  PROVE  cr' \in CR /\ inst' \in CR
BY WriteStatusTypes DEF TypeOK, updateClusterIfNeed

\* The first record of the versions.
LEMMA RecordVersionsTypes ==
  ASSUME TypeOK, NEW ok \in BOOLEAN, RecordVersions(ok)
  PROVE  cr' \in CR /\ inst' \in CR /\ hit' \subseteq FaultKind \cup EventKind
<1>0. inst \in CR /\ cr \in CR
  BY DEF TypeOK
<1>1. CASE inst.sstat # ""
  BY <1>1 DEF RecordVersions, TypeOK
<1>2. CASE inst.sstat = "" /\ ok
  <2>1. WriteStatus([SetSecretStatus(inst, "aclconfdone") EXCEPT !.ver = Getsecretversions])
    BY <1>2 DEF RecordVersions
  <2>2. [SetSecretStatus(inst, "aclconfdone") EXCEPT !.ver = Getsecretversions] \in CR
    BY <1>0, SetStatusTypes, GetsecretversionsType
  <2>3. hit' \subseteq FaultKind \cup EventKind
    BY <1>2 DEF RecordVersions, TypeOK, EventKind
  <2> QED BY <2>1, <2>2, <2>3, WriteStatusTypes
<1>3. CASE inst.sstat = "" /\ ~ok
  <2>1. WriteStatus(SetSecretStatus(inst, "aclconferror"))
    BY <1>3 DEF RecordVersions
  <2>2. SetSecretStatus(inst, "aclconferror") \in CR
    BY <1>0, SetStatusTypes
  <2>3. hit' \subseteq FaultKind \cup EventKind
    BY <1>3 DEF RecordVersions, TypeOK, EventKind
  <2> QED BY <2>1, <2>2, <2>3, WriteStatusTypes
<1> QED BY <1>1, <1>2, <1>3

LEMMA UpdatedTypes ==
  ASSUME TypeOK, Updated PROVE cr' \in CR /\ inst' \in CR
BY UpdateTypes, SetStatusTypes DEF Updated, TypeOK

LEMMA UpdateFailedTypes ==
  ASSUME TypeOK, UpdateFailed PROVE cr' \in CR /\ inst' \in CR
BY UpdateTypes, SetStatusTypes DEF UpdateFailed, TypeOK

LEMMA EnsureFailsTypes ==
  ASSUME TypeOK, EnsureFails
  PROVE  cr' \in CR /\ inst' \in CR /\ pc' \in PC /\ queued' \in BOOLEAN
BY UpdateTypes, SetStatusTypes DEF EnsureFails, Requeue, TypeOK, PC

LEMMA ChangeTypes ==
  ASSUME TypeOK, Change PROVE changes' \in 0 .. MaxChanges
BY ProvisionAssumption DEF Change, TypeOK

LEMMA FaultTypes ==
  ASSUME TypeOK, NEW kind, Fault(kind) PROVE faults' \in 0 .. MaxFaults
BY ProvisionAssumption DEF Fault, TypeOK

LEMMA TypeInit == Init => TypeOK
<1> SUFFICES ASSUME Init PROVE TypeOK
  OBVIOUS
<1>1. PICK valid \in BOOLEAN, us \in SUBSET User :
        cr = [valid |-> valid, defaulted |-> FALSE,
              image |-> CHOOSE i \in Image : TRUE, users |-> us,
              ver |-> NoVersions, sstat |-> "", st |-> ""]
  BY DEF Init
<1>2. (CHOOSE i \in Image : TRUE) \in Image
  BY ProvisionAssumption
<1>3. cr \in CR
  BY <1>1, <1>2, NoVersionsType DEF CR
<1>4. 0 \in Version /\ 0 \in 0 .. MaxChanges /\ 0 \in 0 .. MaxFaults /\ {0, 1} \subseteq Version
  BY ProvisionAssumption DEF Version
<1>5. secret \in Versions
  BY <1>4 DEF Init, Versions
<1> QED BY <1>3, <1>4, <1>5, NoVersionsType DEF Init, TypeOK, PC

LEMMA PutTypes ==
  ASSUME TypeOK, NEW o \in CR, Put(o) PROVE cr' \in CR /\ stale' \in BOOLEAN
BY DEF Put, TypeOK

LEMMA TypeEditSpec == ASSUME TypeOK, EditSpec PROVE TypeOK'
<1>1. PICK valid \in BOOLEAN, i \in Image, us \in SUBSET User :
        /\ Put([cr EXCEPT !.valid = valid, !.image = i, !.users = us])
        /\ hit' = hit \cup (IF Reverts(us) THEN {"revert"} ELSE {})
                      \cup (IF us # cr.users /\ Unsettled THEN {"burst"} ELSE {})
  BY DEF EditSpec
<1>2. [cr EXCEPT !.valid = valid, !.image = i, !.users = us] \in CR
  BY DEF TypeOK, CR
<1>3. hit' \subseteq FaultKind \cup EventKind
  BY <1>1 DEF TypeOK, EventKind
<1> QED BY <1>1, <1>2, <1>3, PutTypes, ChangeTypes DEF EditSpec, Change, TypeOK, k8sVars

LEMMA TypeRotate == ASSUME TypeOK, NEW u \in User, RotateSecret(u) PROVE TypeOK'
<1>1. secret[u] + 1 \in Version
  BY ProvisionAssumption DEF RotateSecret, TypeOK, Versions, Version
<1>2. secret' \in Versions
  BY <1>1 DEF RotateSecret, TypeOK, Versions
<1>3. hit' \subseteq FaultKind \cup EventKind
  BY DEF RotateSecret, TypeOK, EventKind
<1> QED BY <1>2, <1>3, ChangeTypes DEF RotateSecret, Change, TypeOK, k8sVars

LEMMA TypePodStarts == ASSUME TypeOK, NEW n \in Shard, PodStarts(n) PROVE TypeOK'
<1>1. file \in [User -> 0 .. MaxVersion]
  BY DEF TypeOK, PodStarts, redisVolumes, Versions, Version
<1>2. \A u \in User : {file[u]} \ {0} \subseteq 1 .. MaxVersion
  BY <1>1, ProvisionAssumption
<1>3. [u \in User |-> {file[u]} \ {0}] \in [User -> SUBSET (1 .. MaxVersion)]
  BY <1>2
<1>4. acl' \in [Shard -> [User -> SUBSET (1 .. MaxVersion)] \cup {None}]
  BY <1>3 DEF TypeOK, PodStarts
<1> QED BY <1>4 DEF TypeOK, PodStarts, k8sVars, opVars, faultVars

LEMMA TypeEnsure ==
  ASSUME TypeOK,
         \/ validateAndSetDefault \/ DefaultSpec \/ EnsureRedisConfigMap
         \/ EnsureRedisStatefulsets \/ EnsureClusterShardsHeadLessSvcs
         \/ EnsureClusterHeadLessSvc
  PROVE  TypeOK'
<1>1. CASE validateAndSetDefault
  BY <1>1 DEF validateAndSetDefault, TypeOK, PC, k8sVars, faultVars
<1>2. CASE DefaultSpec
  <2>0. \A o \in CR : [o EXCEPT !.defaulted = TRUE] \in CR
    BY DEF CR
  <2>1. cr' \in CR /\ inst' \in CR
    BY <1>2, <2>0 DEF DefaultSpec, TypeOK
  <2> QED BY <1>2, <2>1 DEF DefaultSpec, NoRequeue, TypeOK, PC, k8sVars, faultVars
<1>3. CASE EnsureRedisConfigMap
  BY <1>3 DEF EnsureRedisConfigMap, Goto, TypeOK, PC, opVars, faultVars
<1>4. CASE ensureRedisPDB
  BY <1>4 DEF ensureRedisPDB, shouldUpdateRedis, Goto, TypeOK, PC, opVars, faultVars
<1>5. CASE ensureRedisStatefulset
  <2>1. inst.image \in Image
    BY CRFields DEF TypeOK
  <2>2. sts' \in [Shard -> Image \cup {None}]
    BY <1>5, <2>1 DEF ensureRedisStatefulset, shouldUpdateRedis, NewStatefulSetForCR, TypeOK
  <2> QED BY <1>5, <2>2 DEF ensureRedisStatefulset, Goto, TypeOK, PC, opVars, faultVars
<1>6. CASE EnsureClusterShardsHeadLessSvcs
  BY <1>6 DEF EnsureClusterShardsHeadLessSvcs, Goto, TypeOK, PC, opVars, faultVars
<1>7. CASE EnsureClusterHeadLessSvc
  BY <1>7 DEF EnsureClusterHeadLessSvc, Goto, TypeOK, PC, opVars, faultVars
<1> QED BY <1>1, <1>2, <1>3, <1>4, <1>5, <1>6, <1>7 DEF EnsureRedisStatefulsets

LEMMA TypeEnsureAcl == ASSUME TypeOK, EnsureAclConfigMap PROVE TypeOK'
<1>1. CASE file = None /\ NewACLConfigMap = None
  BY <1>1, EnsureFailsTypes DEF EnsureAclConfigMap, TypeOK, faultVars
<1>2. CASE ~(file = None /\ NewACLConfigMap = None)
  <2>1. NewACLConfigMap \in Versions \cup {None}
    BY GetsecretversionsType DEF NewACLConfigMap
  <2> QED BY <1>2, <2>1 DEF EnsureAclConfigMap, Goto, TypeOK, PC, faultVars
<1> QED BY <1>1, <1>2

LEMMA TypeDone == ASSUME TypeOK, ensureClusterDone PROVE TypeOK'
<1>1. Complete \in BOOLEAN
  BY DEF Complete
<1>2. cr' \in CR /\ inst' \in CR /\ hit' \subseteq FaultKind \cup EventKind
  BY <1>1, RecordVersionsTypes DEF ensureClusterDone
<1> QED BY <1>2 DEF ensureClusterDone, Goto, TypeOK, PC, k8sVars

LEMMA TypeWait == ASSUME TypeOK, waitPodReady PROVE TypeOK'
<1>1. CASE \E n \in Shard : acl[n] = None
  <2>1. cr' \in CR /\ inst' \in CR
    BY <1>1, UpdateTypes, SetStatusTypes DEF waitPodReady, TypeOK
  <2> QED BY <1>1, <2>1 DEF waitPodReady, Requeue, TypeOK, PC, k8sVars, faultVars
<1>2. CASE ~\E n \in Shard : acl[n] = None
  <2>1. GetRedisClusterAdminPassword \in Version
    BY ProvisionAssumption DEF TypeOK, Versions, GetRedisClusterAdminPassword
  <2> QED BY <1>2, <2>1 DEF waitPodReady, Goto, TypeOK, PC, k8sVars, faultVars
<1> QED BY <1>1, <1>2

LEMMA TypeCheck == ASSUME TypeOK, CheckPasswordChanged PROVE TypeOK'
<1>1. cr' \in CR /\ inst' \in CR
  BY UpdateTypes, WriteStatusTypes, SetStatusTypes DEF CheckPasswordChanged, TypeOK
<1>2. newver' \in Versions
  BY GetsecretversionsType DEF CheckPasswordChanged, TypeOK
<1> QED BY <1>1, <1>2 DEF CheckPasswordChanged, Goto, TypeOK, PC, k8sVars, faultVars

LEMMA TypeNum == ASSUME TypeOK, CheckRedisNodeNum PROVE TypeOK'
<1>1. cr' \in CR /\ inst' \in CR
  BY UpdatedTypes DEF CheckRedisNodeNum, TypeOK
<1>2. todo' \subseteq User \X Shard
  BY DEF CheckRedisNodeNum, GenerateAclcommands, TypeOK
<1>3. hit' \subseteq FaultKind \cup EventKind
  BY DEF CheckRedisNodeNum, TypeOK, EventKind
<1> QED BY <1>1, <1>2, <1>3 DEF CheckRedisNodeNum, Goto, TypeOK, PC, k8sVars

\* What one accepted ACL command does.
LEMMA SendEffect ==
  ASSUME TypeOK, NEW u \in User, NEW n \in Shard, Accepts(u, n), Send(u, n)
  PROVE  /\ acl' \in [Shard -> [User -> SUBSET (1 .. MaxVersion)] \cup {None}]
         /\ \A m \in Shard : m # n => acl'[m] = acl[m]
         /\ \A v \in User : v # u => acl'[n][v] = acl[n][v]
         /\ acl'[n][u] = IF newver[u] = 0 THEN {} ELSE acl[n][u] \cup {newver[u]}
         /\ acl'[n] \in [User -> SUBSET (1 .. MaxVersion)]
         /\ UNCHANGED << cr, queued, inst, pc >> /\ todo' = todo \ {<< u, n >>}
<1> DEFINE new == IF newver[u] = 0 THEN {} ELSE acl[n][u] \cup {newver[u]}
<1>1. acl[n] \in [User -> SUBSET (1 .. MaxVersion)]
  BY DEF TypeOK, Accepts
<1>2. newver[u] \in 0 .. MaxVersion
  BY DEF TypeOK, Versions, Version
<1>3. new \subseteq 1 .. MaxVersion
  BY <1>1, <1>2, ProvisionAssumption
<1>4. acl' = [acl EXCEPT ![n] = [acl[n] EXCEPT ![u] = new]]
  BY <1>1 DEF Send, TypeOK
<1>5. acl'[n] = [acl[n] EXCEPT ![u] = new]
  BY <1>4 DEF TypeOK
<1>6. [acl[n] EXCEPT ![u] = new] \in [User -> SUBSET (1 .. MaxVersion)]
  BY <1>1, <1>3
<1>7. acl' \in [Shard -> [User -> SUBSET (1 .. MaxVersion)] \cup {None}]
  BY <1>4, <1>6 DEF TypeOK
<1>8. \A m \in Shard : m # n => acl'[m] = acl[m]
  BY <1>4 DEF TypeOK
<1>9. (\A v \in User : v # u => acl'[n][v] = acl[n][v]) /\ acl'[n][u] = new
  BY <1>1, <1>5
<1> QED BY <1>5, <1>6, <1>7, <1>8, <1>9 DEF Send

LEMMA TypeSend == ASSUME TypeOK, checkandUpdatePassword PROVE TypeOK'
<1>1. CASE todo = {}
  BY <1>1, UpdatedTypes DEF checkandUpdatePassword, Goto, TypeOK, PC, k8sVars, faultVars
<1>2. CASE todo # {}
  <2>1. PICK u \in User, n \in Shard : Send(u, n)
    BY <1>2 DEF checkandUpdatePassword
  <2>2. CASE Accepts(u, n)
    <3>1. /\ acl' \in [Shard -> [User -> SUBSET (1 .. MaxVersion)] \cup {None}]
          /\ UNCHANGED << cr, queued, inst, pc >> /\ todo' \subseteq todo
      BY <2>1, <2>2, SendEffect
    <3> QED BY <3>1 DEF checkandUpdatePassword, TypeOK, k8sVars, faultVars
  <2>3. CASE ~Accepts(u, n)
    BY <1>2, <2>1, <2>3, UpdateFailedTypes
    DEF checkandUpdatePassword, Send, Goto, TypeOK, PC, k8sVars, faultVars
  <2> QED BY <2>2, <2>3
<1> QED BY <1>1, <1>2

LEMMA TypeRest == ASSUME TypeOK, Rest PROVE TypeOK'
<1>1. cr' \in CR /\ inst' \in CR
  BY UpdateTypes, SetStatusTypes DEF Rest, TypeOK
<1> QED BY <1>1 DEF Rest, Requeue, TypeOK, PC, k8sVars, faultVars

LEMMA TypeRequestFails == ASSUME TypeOK, RequestFails PROVE TypeOK'
<1>1. faults' \in 0 .. MaxFaults
  BY FaultTypes DEF RequestFails
<1>2. cr' \in CR /\ inst' \in CR
  BY EnsureFailsTypes, RecordVersionsTypes, UpdatedTypes, UpdateFailedTypes
  DEF RequestFails, Restarted, TypeOK
<1>3. hit' \subseteq FaultKind \cup EventKind
  BY RecordVersionsTypes DEF RequestFails, TypeOK, FaultKind, EventKind
<1>4. pc' \in PC /\ queued' \in BOOLEAN
  BY EnsureFailsTypes DEF RequestFails, Restarted, Requeue, Goto, TypeOK, PC
<1>5. todo' \subseteq User \X Shard
  BY DEF RequestFails, Restarted, TypeOK
<1> QED BY <1>1, <1>2, <1>3, <1>4, <1>5 DEF RequestFails, TypeOK, k8sVars

LEMMA TypeFaults ==
  ASSUME TypeOK, DefaultRefused \/ Crash \/ \E n \in Shard : PodStops(n) PROVE TypeOK'
<1>1. CASE DefaultRefused
  BY <1>1, FaultTypes DEF DefaultRefused, NoRequeue, TypeOK, PC, FaultKind, k8sVars, opVars
<1>2. CASE Crash
  BY <1>2, FaultTypes DEF Crash, Restarted, Requeue, TypeOK, PC, FaultKind, k8sVars
<1>3. CASE \E n \in Shard : PodStops(n)
  BY <1>3, FaultTypes DEF PodStops, TypeOK, FaultKind, k8sVars, opVars
<1> QED BY <1>1, <1>2, <1>3

LEMMA TypeNext == TypeOK /\ [Next]_vars => TypeOK'
<1> SUFFICES ASSUME TypeOK, [Next]_vars PROVE TypeOK'
  OBVIOUS
<1>1. CASE UNCHANGED vars
  BY <1>1 DEF vars, k8sVars, opVars, faultVars, TypeOK
<1>2. CASE EditMetadata
  BY <1>2, PutTypes, ChangeTypes DEF EditMetadata, Change, TypeOK, EventKind, k8sVars
<1>3. CASE Operator
  BY <1>3, TypeEnsure, TypeEnsureAcl, TypeDone, TypeWait, TypeCheck, TypeNum, TypeSend, TypeRest
  DEF Operator, ensureCluster
<1> QED
  BY <1>1, <1>2, <1>3, TypeEditSpec, TypeRotate, TypePodStarts, TypeRequestFails, TypeFaults
  DEF Next

\* Type correctness: the object, the Kubernetes objects, the ACL of the pods and
\* what the reconcile keeps in memory stay within their types, whatever is edited
\* and whatever fails.
THEOREM ProvisionTypeCorrect == Spec => []TypeOK
BY TypeInit, TypeNext, PTL DEF Spec

-----------------------------------------------------------------------------
(* What a write of the status does to the two copies of the object.        *)

\* o is what the reconcile has in memory, but for the status of cluster and
\* secrets.
SameRecord(o) ==
  /\ o \in CR /\ o.users = inst.users /\ o.ver = inst.ver
  /\ o.sstat = "" => inst.sstat = ""

LEMMA SetStatusSame ==
  ASSUME TypeOK
  PROVE  /\ SameRecord(SetClusterScaling(inst))
         /\ SameRecord(SetClusterResetPassword(inst))
         /\ SameRecord([inst EXCEPT !.st = "OK"])
         /\ SameRecord([inst EXCEPT !.st = inst.st])
         /\ \A state \in {"aclconferror", "aclconfdone", "ACLupdateERR",
                          "ACLupdateSuccess", "ACLintact"} :
              SameRecord(SetSecretStatus(inst, state))
<1>0. inst \in CR
  BY DEF TypeOK
<1>1. \A x : LET o == [inst EXCEPT !.st = x]
             IN  o.users = inst.users /\ o.ver = inst.ver /\ o.sstat = inst.sstat
  BY <1>0 DEF CR
<1>2. \A x : LET o == [inst EXCEPT !.sstat = x]
             IN  o.users = inst.users /\ o.ver = inst.ver /\ o.sstat = x
  BY <1>0 DEF CR
<1>3. SameRecord(SetClusterScaling(inst)) /\ SameRecord(SetClusterResetPassword(inst))
  BY <1>0, <1>1, SetStatusTypes DEF SameRecord, SetClusterScaling, SetClusterResetPassword
<1>4. SameRecord([inst EXCEPT !.st = "OK"]) /\ SameRecord([inst EXCEPT !.st = inst.st])
  BY <1>0, <1>1, SetStatusTypes DEF SameRecord
<1>5. ASSUME NEW state \in {"aclconferror", "aclconfdone", "ACLupdateERR",
                            "ACLupdateSuccess", "ACLintact"}
      PROVE  SameRecord(SetSecretStatus(inst, state))
  <2>1. state # "" /\ SetSecretStatus(inst, state) \in CR
    BY <1>0, SetStatusTypes
  <2> QED BY <1>0, <1>2, <2>1 DEF SameRecord, SetSecretStatus
<1> QED BY <1>3, <1>4, <1>5

\* The record with other versions and another state of the secrets.
LEMMA SetVersionsFields ==
  ASSUME TypeOK, NEW v \in Versions, NEW state \in {"aclconfdone", "ACLupdateSuccess"}
  PROVE  /\ [SetSecretStatus(inst, state) EXCEPT !.ver = v] \in CR
         /\ [SetSecretStatus(inst, state) EXCEPT !.ver = v].users = inst.users
         /\ [SetSecretStatus(inst, state) EXCEPT !.ver = v].ver = v
         /\ [SetSecretStatus(inst, state) EXCEPT !.ver = v].sstat = state
<1>1. [SetSecretStatus(inst, state) EXCEPT !.ver = v] \in CR
  BY SetStatusTypes DEF TypeOK
<1> QED BY <1>1 DEF TypeOK, SetSecretStatus, CR

LEMMA WriteStatusEffect ==
  ASSUME TypeOK, NEW o \in CR, WriteStatus(o)
  PROVE  /\ inst' = o
         /\ cr'.users = cr.users
         /\ stale => cr' = cr
         /\ ~stale => cr'.ver = o.ver /\ cr'.sstat = o.sstat
BY DEF TypeOK, WriteStatus, CR

\* The steps that write the status leave the users alone.
LEMMA UsersKept ==
  ASSUME TypeOK
  PROVE  /\ \A o \in CR : (WriteStatus(o) \/ updateClusterIfNeed(o)) /\ o.users = inst.users
                => cr'.users = cr.users /\ inst'.users = inst.users
         /\ Updated => cr'.users = cr.users /\ inst'.users = inst.users
         /\ UpdateFailed => cr'.users = cr.users /\ inst'.users = inst.users
         /\ EnsureFails => cr'.users = cr.users /\ inst'.users = inst.users
         /\ \A ok \in BOOLEAN : RecordVersions(ok) =>
              cr'.users = cr.users /\ inst'.users = inst.users
<1>1. \A o \in CR : (WriteStatus(o) \/ updateClusterIfNeed(o)) /\ o.users = inst.users
        => cr'.users = cr.users /\ inst'.users = inst.users
  BY WriteStatusEffect DEF updateClusterIfNeed
<1>2. Updated => cr'.users = cr.users /\ inst'.users = inst.users
  BY <1>1, SetVersionsFields DEF Updated, TypeOK
<1>3. UpdateFailed => cr'.users = cr.users /\ inst'.users = inst.users
  BY <1>1, SetStatusSame DEF UpdateFailed, SameRecord
<1>4. EnsureFails => cr'.users = cr.users /\ inst'.users = inst.users
  BY <1>1, SetStatusSame DEF EnsureFails, SameRecord
<1>5. ASSUME NEW ok \in BOOLEAN, RecordVersions(ok)
      PROVE  cr'.users = cr.users /\ inst'.users = inst.users
  <2>1. CASE inst.sstat # ""
    BY <1>5, <2>1 DEF RecordVersions
  <2>2. CASE inst.sstat = "" /\ ok
    <3> DEFINE o == [SetSecretStatus(inst, "aclconfdone") EXCEPT !.ver = Getsecretversions]
    <3>1. WriteStatus(o)
      BY <1>5, <2>2 DEF RecordVersions
    <3>2. Getsecretversions \in Versions
      BY GetsecretversionsType
    <3>3. o \in CR /\ o.users = inst.users
      BY <3>2, SetVersionsFields
    <3> QED BY <1>1, <3>1, <3>3
  <2>3. CASE inst.sstat = "" /\ ~ok
    BY <1>1, <1>5, <2>3, SetStatusSame DEF RecordVersions, SameRecord
  <2> QED BY <2>1, <2>2, <2>3
<1> QED BY <1>1, <1>2, <1>3, <1>4, <1>5

-----------------------------------------------------------------------------
(* Pods start protected.                                                   *)

LEMMA AdminInit == Init => AdminNamed
<1> SUFFICES ASSUME Init PROVE AdminNamed
  OBVIOUS
<1>1. PICK valid \in BOOLEAN, us \in SUBSET User :
        /\ Admin \in us
        /\ cr = [valid |-> valid, defaulted |-> FALSE,
                 image |-> CHOOSE i \in Image : TRUE, users |-> us,
                 ver |-> NoVersions, sstat |-> "", st |-> ""]
  BY DEF Init
<1>2. cr.users = us
  BY <1>1
<1>3. inst = cr /\ secret[Admin] = 1
  BY Zenon DEF Init
<1>4. Admin \in us
  BY <1>1
<1> QED BY <1>2, <1>3, <1>4 DEF AdminNamed

LEMMA AdminNext == ASSUME TypeOK, AdminNamed, [Next]_vars PROVE AdminNamed'
<1>1. CASE EditSpec
  <2>1. PICK valid \in BOOLEAN, i \in Image, us \in SUBSET User :
          Admin \in us /\ Put([cr EXCEPT !.valid = valid, !.image = i, !.users = us])
    BY <1>1 DEF EditSpec
  <2>2. cr' = [cr EXCEPT !.valid = valid, !.image = i, !.users = us]
    BY <2>1 DEF Put
  <2>3. cr'.users = us
    BY <2>2 DEF TypeOK, CR
  <2> QED BY <1>1, <2>1, <2>3 DEF EditSpec, Change, AdminNamed
<1>2. CASE EditMetadata
  BY <1>2 DEF EditMetadata, Change, Put, AdminNamed
<1>3. CASE \E u \in User : RotateSecret(u)
  <2>1. PICK u \in User : RotateSecret(u)
    BY <1>3
  <2>2. secret'[Admin] # 0
    BY <2>1, ProvisionAssumption DEF RotateSecret, AdminNamed, TypeOK, Versions, Version
  <2> QED BY <2>1, <2>2 DEF RotateSecret, Change, AdminNamed
<1>4. CASE \E n \in Shard : PodStarts(n) \/ PodStops(n)
  BY <1>4 DEF PodStarts, PodStops, opVars, AdminNamed
<1>5. CASE DefaultRefused \/ Crash
  BY <1>5 DEF DefaultRefused, Crash, Restarted, opVars, AdminNamed
<1>6. CASE RequestFails
  <2>1. cr'.users = cr.users /\ inst'.users = inst.users
    BY <1>6, UsersKept DEF RequestFails, Restarted
  <2> QED BY <1>6, <2>1 DEF RequestFails, AdminNamed
<1>7. CASE validateAndSetDefault
  BY <1>7 DEF validateAndSetDefault, AdminNamed
<1>8. CASE DefaultSpec
  <2>1. cr'.users = cr.users /\ inst'.users = inst.users
    BY <1>8 DEF DefaultSpec, TypeOK, CR
  <2> QED BY <1>8, <2>1 DEF DefaultSpec, AdminNamed
<1>9. CASE EnsureRedisConfigMap \/ EnsureRedisStatefulsets
           \/ EnsureClusterShardsHeadLessSvcs \/ EnsureClusterHeadLessSvc
  BY <1>9 DEF EnsureRedisConfigMap, EnsureRedisStatefulsets, ensureRedisPDB,
     ensureRedisStatefulset, EnsureClusterShardsHeadLessSvcs, EnsureClusterHeadLessSvc,
     opVars, AdminNamed
<1>10. CASE EnsureAclConfigMap
  BY <1>10, UsersKept DEF EnsureAclConfigMap, AdminNamed
<1>11. CASE ensureClusterDone
  <2>1. Complete \in BOOLEAN
    BY DEF Complete
  <2> QED BY <1>11, <2>1, UsersKept DEF ensureClusterDone, AdminNamed
<1>12. CASE waitPodReady
  BY <1>12, UsersKept, SetStatusSame DEF waitPodReady, AdminNamed, SameRecord
<1>13. CASE CheckPasswordChanged
  BY <1>13, UsersKept, SetStatusSame DEF CheckPasswordChanged, AdminNamed, SameRecord
<1>14. CASE CheckRedisNodeNum
  BY <1>14, UsersKept DEF CheckRedisNodeNum, AdminNamed
<1>15. CASE checkandUpdatePassword
  <2>1. cr'.users = cr.users /\ inst'.users = inst.users
    BY <1>15, UsersKept DEF checkandUpdatePassword, Send
  <2> QED BY <1>15, <2>1 DEF checkandUpdatePassword, AdminNamed
<1>16. CASE Rest
  BY <1>16, UsersKept, SetStatusSame DEF Rest, AdminNamed, SameRecord
<1>17. CASE UNCHANGED vars
  BY <1>17 DEF vars, opVars, AdminNamed
<1> QED
  BY <1>1, <1>2, <1>3, <1>4, <1>5, <1>6, <1>7, <1>8, <1>9, <1>10, <1>11, <1>12, <1>13,
     <1>14, <1>15, <1>16, <1>17
  DEF Next, Operator, ensureCluster

\* The config maps and budgets are not deleted: what a step leaves of them.
LEMMA EnsuredNext ==
  ASSUME TypeOK, AdminNamed, EnsuredInOrder, PodsStartProtected, [Next]_vars
  PROVE  EnsuredInOrder' /\ PodsStartProtected'
<1>1. CASE EditSpec \/ EditMetadata \/ \E u \in User : RotateSecret(u)
  BY <1>1 DEF EditSpec, EditMetadata, RotateSecret, Change, k8sVars, EnsuredInOrder,
     PodsStartProtected
<1>2. CASE \E n \in Shard : PodStarts(n) \/ PodStops(n)
  BY <1>2 DEF PodStarts, PodStops, k8sVars, EnsuredInOrder, PodsStartProtected
<1>3. CASE DefaultRefused \/ Crash
  BY <1>3 DEF DefaultRefused, NoRequeue, Crash, Restarted, Requeue, k8sVars, EnsuredInOrder,
     PodsStartProtected
<1>4. CASE RequestFails
  BY <1>4 DEF RequestFails, Restarted, Requeue, EnsureFails, Goto, k8sVars, EnsuredInOrder,
     PodsStartProtected
<1>5. CASE validateAndSetDefault
  BY <1>5 DEF validateAndSetDefault, k8sVars, EnsuredInOrder, PodsStartProtected
<1>6. CASE DefaultSpec
  BY <1>6 DEF DefaultSpec, NoRequeue, k8sVars, EnsuredInOrder, PodsStartProtected
<1>7. CASE EnsureRedisConfigMap
  BY <1>7 DEF EnsureRedisConfigMap, Goto, EnsuredInOrder, PodsStartProtected
<1>8. CASE EnsureAclConfigMap
  <2>1. CASE file = None /\ NewACLConfigMap = None
    BY <1>8, <2>1 DEF EnsureAclConfigMap, EnsureFails, Requeue, EnsuredInOrder, PodsStartProtected
  <2>2. CASE file = None /\ NewACLConfigMap # None
    <3>1. file' = GenerateAclconf /\ file' # None
      BY <1>8, <2>2 DEF EnsureAclConfigMap, NewACLConfigMap
    <3>2. file'[Admin] # 0
      BY <3>1, ProvisionAssumption DEF GenerateAclconf, AdminNamed
    <3> QED BY <1>8, <2>2, <3>1, <3>2 DEF EnsureAclConfigMap, Goto, EnsuredInOrder, PodsStartProtected
  <2>3. CASE file # None
    BY <1>8, <2>3 DEF EnsureAclConfigMap, Goto, EnsuredInOrder, PodsStartProtected
  <2> QED BY <2>1, <2>2, <2>3
<1>9. CASE ensureRedisPDB
  BY <1>9 DEF ensureRedisPDB, Goto, EnsuredInOrder, PodsStartProtected
<1>10. CASE ensureRedisStatefulset
  <2>1. PICK n \in pdb : sts' = [sts EXCEPT ![n] = NewStatefulSetForCR]
    BY <1>10 DEF ensureRedisStatefulset
  <2>2. conf /\ file # None /\ file[Admin] # 0
    BY <1>10 DEF ensureRedisStatefulset, EnsuredInOrder
  <2>3. \A m \in Shard : sts'[m] # None => m = n \/ sts[m] # None
    BY <2>1 DEF TypeOK
  <2> QED BY <1>10, <2>1, <2>2, <2>3 DEF ensureRedisStatefulset, Goto, EnsuredInOrder, PodsStartProtected
<1>11. CASE EnsureClusterShardsHeadLessSvcs \/ EnsureClusterHeadLessSvc
  BY <1>11 DEF EnsureClusterShardsHeadLessSvcs, EnsureClusterHeadLessSvc, Goto, EnsuredInOrder,
     PodsStartProtected
<1>12. CASE ensureClusterDone \/ waitPodReady \/ CheckPasswordChanged \/ CheckRedisNodeNum \/ Rest
  BY <1>12 DEF ensureClusterDone, waitPodReady, CheckPasswordChanged, CheckRedisNodeNum, Rest,
     Goto, Requeue, k8sVars, EnsuredInOrder, PodsStartProtected
<1>13. CASE checkandUpdatePassword
  <2>1. pc' \in {"send", "rest"} /\ UNCHANGED << conf, file, pdb, sts >>
    BY <1>13 DEF checkandUpdatePassword, Send, Goto, k8sVars
  <2> QED BY <2>1 DEF EnsuredInOrder, PodsStartProtected
<1>14. CASE UNCHANGED vars
  BY <1>14 DEF vars, k8sVars, EnsuredInOrder, PodsStartProtected
<1> QED
  BY <1>1, <1>2, <1>3, <1>4, <1>5, <1>6, <1>7, <1>8, <1>9, <1>10, <1>11, <1>12, <1>13, <1>14
  DEF Next, Operator, ensureCluster, EnsureRedisStatefulsets

\* A pod that starts knows the admin the operator connects as, and its shard has
\* a PodDisruptionBudget: EnsureRedisStatefulsets comes after both config maps
\* in every reconcile, whichever request fails and wherever the operator dies.
THEOREM PodsAlwaysStartProtected == Spec => []PodsStartProtected
<1>1. Init => ProtectInv
  <2>1. Init => EnsuredInOrder /\ PodsStartProtected
    BY DEF Init, EnsuredInOrder, PodsStartProtected
  <2> QED BY <2>1, AdminInit DEF ProtectInv
<1>2. TypeOK /\ ProtectInv /\ [Next]_vars => ProtectInv'
  BY AdminNext, EnsuredNext DEF ProtectInv
<1>3. ProtectInv => PodsStartProtected
  BY DEF ProtectInv
<1> QED BY <1>1, <1>2, <1>3, ProvisionTypeCorrect, PTL DEF Spec

-----------------------------------------------------------------------------
(* What is recorded is applied.                                            *)

\* Exceptions are remembered: a clean state has a clean past.
LEMMA CleanBefore ==
  ASSUME TypeOK, hit \subseteq hit', Clean' PROVE Clean
BY DEF Clean

LEMMA NoVersionsZero ==
  ASSUME NEW u \in User PROVE NoVersions[u] = 0
BY DEF NoVersions

LEMMA VersionsExt ==
  ASSUME NEW v \in Versions, v # NoVersions PROVE \E u \in User : v[u] # 0
BY DEF Versions, NoVersions

\* A step that changes neither users nor versions on either side, no pod, and
\* not the commands to be sent.
Quiet ==
  /\ UNCHANGED << acl, file, stale, newver >>
  /\ cr'.users = cr.users /\ cr'.ver = cr.ver
  /\ inst'.users = inst.users /\ inst'.ver = inst.ver
  /\ cr.sstat # "" => cr'.sstat # ""
  /\ pc' # "idle" => pc # "idle"
  /\ pc' # "idle" /\ inst'.sstat = "" => cr'.sstat = ""
  /\ pc' \in {"num", "send"} => pc' = pc /\ todo' = todo

LEMMA QuietStep ==
  ASSUME TypeOK, RecordInv, Clean, Quiet PROVE RecordInv'
<1>1. Applied(cr)' /\ (pc' # "idle" => Applied(inst)')
  BY DEF RecordInv, Quiet, Applied
<1>2. FileApplied' /\ FileRecorded'
  BY DEF RecordInv, Quiet, FileApplied, FileRecorded
<1>3. RecordedOnce'
  BY DEF RecordInv, Quiet, RecordedOnce
<1>4. MemoryCurrent'
  BY DEF RecordInv, Quiet, MemoryCurrent
<1>5. SentApplied'
  BY DEF RecordInv, Quiet, SentApplied, GenerateAclcommands
<1> QED BY <1>1, <1>2, <1>3, <1>4, <1>5 DEF RecordInv

\* A write of the status that is about neither users nor versions.
LEMMA StatusStep ==
  ASSUME TypeOK, RecordInv, Clean, pc # "idle", NEW o, SameRecord(o),
         WriteStatus(o) \/ updateClusterIfNeed(o)
  PROVE  /\ cr'.users = cr.users /\ cr'.ver = cr.ver
         /\ inst'.users = inst.users /\ inst'.ver = inst.ver
         /\ cr.sstat # "" => cr'.sstat # ""
         /\ inst'.sstat = "" => cr'.sstat = ""
<1>1. o \in CR /\ o.users = inst.users /\ o.ver = inst.ver /\ (o.sstat = "" => inst.sstat = "")
  BY DEF SameRecord
<1>2. /\ ~stale => cr.users = inst.users /\ cr.ver = inst.ver
      /\ inst.sstat = "" => cr.sstat = ""
  BY DEF RecordInv, MemoryCurrent, RecordedOnce
<1>3. CASE WriteStatus(o)
  BY <1>1, <1>2, <1>3, WriteStatusEffect
<1>4. CASE UNCHANGED << cr, inst >>
  BY <1>2, <1>4
<1> QED BY <1>3, <1>4 DEF updateClusterIfNeed

\* The operator's failures: the status is written and the reconcile ends, or
\* goes on to what does not concern the users.
LEMMA FailureSteps ==
  ASSUME TypeOK, RecordInv, Clean, pc # "idle",
         UNCHANGED << acl, file, stale, newver >>,
         \/ EnsureFails
         \/ UpdateFailed /\ pc' = "rest"
         \/ UNCHANGED << cr, inst >> /\ pc' \in {"idle", "conf", "acl", "pdb", "sts", "svc",
                                                 "csvc", "status", "wait", "check"}
  PROVE  RecordInv'
<1>1. CASE EnsureFails
  BY <1>1, StatusStep, SetStatusSame, QuietStep DEF EnsureFails, Requeue, Quiet
<1>2. CASE UpdateFailed /\ pc' = "rest"
  BY <1>2, StatusStep, SetStatusSame, QuietStep DEF UpdateFailed, Quiet
<1>3. CASE UNCHANGED << cr, inst >> /\ pc' \in {"idle", "conf", "acl", "pdb", "sts", "svc",
                                                "csvc", "status", "wait", "check"}
  BY <1>3, QuietStep DEF RecordInv, RecordedOnce, Quiet
<1> QED BY <1>1, <1>2, <1>3

LEMMA RecordEditSpec == ASSUME TypeOK, RecordInv, EditSpec PROVE RecordInv'
<1>1. PICK valid \in BOOLEAN, i \in Image, us \in SUBSET User :
        /\ Put([cr EXCEPT !.valid = valid, !.image = i, !.users = us])
        /\ hit' = hit \cup (IF Reverts(us) THEN {"revert"} ELSE {})
                      \cup (IF us # cr.users /\ Unsettled THEN {"burst"} ELSE {})
  BY DEF EditSpec
<1>2. cr' = [cr EXCEPT !.valid = valid, !.image = i, !.users = us]
  BY <1>1 DEF Put
<1>3. cr'.users = us /\ cr'.ver = cr.ver /\ cr'.sstat = cr.sstat
  BY <1>2 DEF TypeOK, CR
<1>4. stale' = (pc # "idle") /\ UNCHANGED << acl, file, inst, newver, todo, pc >>
  BY <1>1 DEF Put, EditSpec, Change, k8sVars
<1> SUFFICES ASSUME Clean' PROVE RecordInv'
  BY DEF RecordInv
<1>5. Clean /\ ~Reverts(us)
  BY <1>1 DEF Clean
<1>6. cr.ver \in Versions
  BY CRFields DEF TypeOK
<1>7. \A u \in us : cr.ver[u] # 0 => u \in cr.users
  BY <1>5, <1>6, NoVersionsZero DEF Reverts
<1>8. Applied(cr)'
  BY <1>3, <1>4, <1>5, <1>7 DEF RecordInv, Applied
<1>9. pc' # "idle" => Applied(inst)'
  BY <1>4, <1>5 DEF RecordInv, Applied
<1>10. FileApplied' /\ FileRecorded' /\ RecordedOnce'
  BY <1>3, <1>4, <1>5 DEF RecordInv, FileApplied, FileRecorded, RecordedOnce
<1>11. MemoryCurrent'
  BY <1>3, <1>4, <1>5, <1>7 DEF RecordInv, MemoryCurrent
<1>12. SentApplied'
  BY <1>4, <1>5 DEF RecordInv, SentApplied, GenerateAclcommands
<1> QED BY <1>8, <1>9, <1>10, <1>11, <1>12 DEF RecordInv

LEMMA RecordEditMetadata ==
  ASSUME TypeOK, RecordInv, Clean, EditMetadata PROVE RecordInv'
<1>1. stale' /\ UNCHANGED << cr, acl, file, inst, newver, todo, pc >>
  BY DEF EditMetadata, Put, Change, k8sVars
<1>2. Applied(cr)' /\ (pc' # "idle" => Applied(inst)')
  BY <1>1 DEF RecordInv, Applied
<1>3. FileApplied' /\ FileRecorded' /\ RecordedOnce' /\ MemoryCurrent'
  BY <1>1 DEF RecordInv, FileApplied, FileRecorded, RecordedOnce, MemoryCurrent
<1>4. SentApplied'
  BY <1>1 DEF RecordInv, SentApplied, GenerateAclcommands
<1> QED BY <1>2, <1>3, <1>4 DEF RecordInv

\* A pod starts with the users of the ACL file, which is what is recorded, if
\* anything is, as long as a pod is missing.
LEMMA RecordPodStarts ==
  ASSUME TypeOK, RecordInv, Clean, NEW n \in Shard, PodStarts(n) PROVE RecordInv'
<1>1. /\ acl[n] = None /\ file # None
      /\ acl' = [acl EXCEPT ![n] = [u \in User |-> {file[u]} \ {0}]]
      /\ UNCHANGED << cr, inst, pc, file, stale, newver, todo >>
  BY DEF PodStarts, redisVolumes, k8sVars, opVars
<1>2. /\ \A m \in Shard : m # n => acl'[m] = acl[m]
      /\ \A u \in User : acl'[n][u] = {file[u]} \ {0}
  BY <1>1 DEF TypeOK
<1>3. /\ cr.ver = NoVersions \/ cr.ver = file
      /\ inst.ver = NoVersions \/ inst.ver = file
  BY <1>1 DEF RecordInv, FileRecorded
<1>4. cr.users \subseteq User /\ inst.users \subseteq User
  BY CRFields DEF TypeOK
<1>5. \A u \in User : /\ cr.ver[u] # 0 => cr.ver[u] \in acl'[n][u]
                      /\ inst.ver[u] # 0 => inst.ver[u] \in acl'[n][u]
  BY <1>2, <1>3, NoVersionsZero
<1>6. Applied(cr)' /\ (pc' # "idle" => Applied(inst)')
  BY <1>1, <1>2, <1>4, <1>5 DEF RecordInv, Applied
<1>7. FileApplied'
  BY <1>1, <1>2 DEF RecordInv, FileApplied
<1>8. FileRecorded'
  BY <1>1, <1>2, <1>3 DEF RecordInv, FileRecorded
<1>9. RecordedOnce' /\ MemoryCurrent'
  BY <1>1 DEF RecordInv, RecordedOnce, MemoryCurrent
<1>10. SentApplied'
  <2>1. pc # "send"
    BY <1>1 DEF RecordInv, SentApplied
  <2> QED BY <1>1, <2>1 DEF RecordInv, SentApplied
<1> QED BY <1>6, <1>7, <1>8, <1>9, <1>10 DEF RecordInv

\* A reconcile starts from the object.
LEMMA RecordRead ==
  ASSUME TypeOK, RecordInv, Clean, validateAndSetDefault PROVE RecordInv'
<1>1. /\ inst' = cr /\ ~stale' /\ UNCHANGED << cr, acl, file, newver, todo >>
      /\ pc' \in {"idle", "conf", "default"}
  BY DEF validateAndSetDefault, k8sVars
<1>2. Applied(cr)' /\ Applied(inst)'
  BY <1>1 DEF RecordInv, Applied
<1>3. FileApplied' /\ FileRecorded' /\ RecordedOnce'
  BY <1>1 DEF RecordInv, FileApplied, FileRecorded, RecordedOnce
<1>4. MemoryCurrent'
  BY <1>1, NoVersionsZero DEF RecordInv, MemoryCurrent
<1>5. SentApplied'
  BY <1>1 DEF SentApplied
<1> QED BY <1>2, <1>3, <1>4, <1>5 DEF RecordInv

\* The ACL file is created: no pod runs, and nothing is recorded.
LEMMA RecordEnsureAcl ==
  ASSUME TypeOK, RecordInv, Clean, EnsureAclConfigMap PROVE RecordInv'
<1>1. CASE file = None /\ NewACLConfigMap = None
  BY <1>1, FailureSteps DEF EnsureAclConfigMap
<1>2. CASE file # None
  <2>1. /\ UNCHANGED << acl, file, stale, newver, cr, inst >> /\ pc' = "pdb" /\ pc # "idle"
    BY <1>2 DEF EnsureAclConfigMap, Goto
  <2> QED BY <2>1, FailureSteps
<1>3. CASE file = None /\ NewACLConfigMap # None
  <2>1. UNCHANGED << acl, stale, newver, cr, inst >> /\ pc' = "pdb" /\ pc = "acl"
    BY <1>3 DEF EnsureAclConfigMap, Goto
  <2>2. \A n \in Shard : acl[n] = None
    BY <1>3 DEF RecordInv, FileApplied
  <2>3. cr.ver \in Versions /\ inst.ver \in Versions /\ None \notin Versions
    BY CRFields, ProvisionAssumption DEF TypeOK, Versions, Version
  <2>4. \A n \in Shard : cr.ver = NoVersions /\ inst.ver = NoVersions
    BY <1>3, <2>2, <2>3 DEF RecordInv, FileRecorded
  <2>5. Applied(cr)' /\ Applied(inst)'
    BY <2>1, <2>2 DEF Applied
  <2>6. FileApplied' /\ FileRecorded'
    BY <2>1, <2>2, <2>4 DEF FileApplied, FileRecorded
  <2>7. RecordedOnce' /\ MemoryCurrent'
    BY <2>1 DEF RecordInv, RecordedOnce, MemoryCurrent
  <2>8. SentApplied'
    BY <2>1 DEF SentApplied
  <2> QED BY <2>5, <2>6, <2>7, <2>8 DEF RecordInv
<1> QED BY <1>1, <1>2, <1>3

\* The first record: what it says is the ACL file, or else the secrets raced.
LEMMA RecordFirst ==
  ASSUME TypeOK, RecordInv, Clean', Clean, pc = "status", NEW ok \in BOOLEAN,
         RecordVersions(ok), pc' = "wait", UNCHANGED << acl, file, stale, newver >>
  PROVE  RecordInv'
<1>1. CASE inst.sstat # ""
  BY <1>1, FailureSteps DEF RecordVersions
<1>2. CASE inst.sstat = "" /\ ~ok
  <2>1. WriteStatus(SetSecretStatus(inst, "aclconferror"))
    BY <1>2 DEF RecordVersions
  <2>2. SameRecord(SetSecretStatus(inst, "aclconferror"))
    BY SetStatusSame
  <2> QED BY <2>1, <2>2, StatusStep, QuietStep DEF Quiet
<1>3. CASE inst.sstat = "" /\ ok
  <2> DEFINE V == Getsecretversions
             o == [SetSecretStatus(inst, "aclconfdone") EXCEPT !.ver = V]
  <2>1. WriteStatus(o)
    BY <1>3 DEF RecordVersions
  <2>2. V \in Versions
    BY GetsecretversionsType
  <2>3. o \in CR /\ o.users = inst.users /\ o.ver = V /\ o.sstat = "aclconfdone"
    BY <2>2, SetVersionsFields
  <2>4. file = V
    BY <1>3 DEF RecordVersions, Clean
  <2>5. cr.sstat = "" /\ cr.ver = NoVersions
    BY <1>3 DEF RecordInv, RecordedOnce
  <2> HIDE DEF V, o
  <2>6. /\ inst'.users = inst.users /\ inst'.ver = V /\ inst'.sstat = "aclconfdone"
        /\ cr'.users = cr.users
        /\ stale => cr' = cr
        /\ ~stale => cr'.ver = V /\ cr'.sstat = "aclconfdone" /\ cr.users = inst.users
    BY <2>1, <2>3, WriteStatusEffect DEF RecordInv, MemoryCurrent
  <2>7. cr.users \subseteq User /\ inst.users \subseteq User
    BY CRFields DEF TypeOK
  <2>8. \A n \in Shard, u \in User : acl[n] # None /\ V[u] # 0 => V[u] \in acl[n][u]
    BY <2>4, <2>5 DEF RecordInv, FileApplied
  <2>9. \A u \in User : V[u] # 0 => u \in inst.users
    BY DEF V, Getsecretversions
  <2>10. cr'.ver = NoVersions \/ cr'.ver = V
    BY <2>5, <2>6
  <2>11. Applied(cr)' /\ Applied(inst)'
    BY <2>6, <2>7, <2>8, <2>10, NoVersionsZero DEF Applied
  <2>12. FileApplied' /\ FileRecorded'
    BY <2>4, <2>5, <2>6, <2>10 DEF RecordInv, FileApplied, FileRecorded
  <2>13. RecordedOnce'
    BY <2>5, <2>6 DEF RecordedOnce
  <2>14. MemoryCurrent'
    BY <2>5, <2>6, <2>7, <2>9, NoVersionsZero DEF RecordInv, MemoryCurrent
  <2>15. SentApplied'
    BY DEF SentApplied
  <2> QED BY <2>11, <2>12, <2>13, <2>14, <2>15 DEF RecordInv
<1> QED BY <1>1, <1>2, <1>3

LEMMA RecordCheck ==
  ASSUME TypeOK, RecordInv, Clean, CheckPasswordChanged PROVE RecordInv'
<1>0. pc = "check" /\ UNCHANGED << acl, file, stale >>
  BY DEF CheckPasswordChanged, k8sVars
<1>1. CASE inst.ver = NoVersions \/ ~Complete \/ ~IsdiffAclVerions
  <2>1. updateClusterIfNeed(SetSecretStatus(inst, "ACLintact")) /\ pc' = "rest" /\ newver' = newver
    BY <1>1 DEF CheckPasswordChanged, Goto
  <2>2. SameRecord(SetSecretStatus(inst, "ACLintact"))
    BY SetStatusSame
  <2> QED BY <1>0, <2>1, <2>2, StatusStep, QuietStep DEF Quiet
<1>2. CASE ~(inst.ver = NoVersions \/ ~Complete \/ ~IsdiffAclVerions)
  <2>1. /\ WriteStatus(SetClusterResetPassword(inst))
        /\ pc' = "num" /\ newver' = Getsecretversions /\ Complete
    BY <1>2 DEF CheckPasswordChanged, Goto
  <2>2. SameRecord(SetClusterResetPassword(inst))
    BY SetStatusSame
  <2>3. /\ cr'.users = cr.users /\ cr'.ver = cr.ver
        /\ inst'.users = inst.users /\ inst'.ver = inst.ver
        /\ cr.sstat # "" => cr'.sstat # ""
        /\ inst'.sstat = "" => cr'.sstat = ""
    BY <1>0, <2>1, <2>2, StatusStep
  <2>4. inst.users \subseteq User
    BY CRFields DEF TypeOK
  <2>5. \A u \in User : newver'[u] # 0 <=> u \in inst.users
    BY <2>1, <2>4 DEF Complete, GetAcldataFromSecrets, Getsecretversions
  <2>6. Applied(cr)' /\ Applied(inst)'
    BY <1>0, <2>3 DEF RecordInv, Applied
  <2>7. FileApplied' /\ FileRecorded' /\ RecordedOnce'
    BY <1>0, <2>3 DEF RecordInv, FileApplied, FileRecorded, RecordedOnce
  <2>8. MemoryCurrent'
    BY <1>0, <2>3 DEF RecordInv, MemoryCurrent
  <2>9. SentApplied'
    BY <2>1, <2>3, <2>5 DEF SentApplied
  <2> QED BY <2>6, <2>7, <2>8, <2>9 DEF RecordInv
<1> QED BY <1>1, <1>2

\* The commands are generated when all pods run.
LEMMA RecordNum ==
  ASSUME TypeOK, RecordInv, Clean', Clean, CheckRedisNodeNum PROVE RecordInv'
<1>1. \A n \in Shard : acl[n] # None
  BY DEF CheckRedisNodeNum, Clean
<1>2. /\ pc = "num" /\ pc' = "send" /\ todo' = GenerateAclcommands
      /\ UNCHANGED << acl, file, stale, newver, cr, inst >>
  BY <1>1 DEF CheckRedisNodeNum, Goto, k8sVars
<1>3. Applied(cr)' /\ Applied(inst)'
  BY <1>2 DEF RecordInv, Applied
<1>4. FileApplied' /\ FileRecorded' /\ RecordedOnce' /\ MemoryCurrent'
  BY <1>2 DEF RecordInv, FileApplied, FileRecorded, RecordedOnce, MemoryCurrent
<1>5. SentApplied'
  <2>1. \A u \in User : newver[u] # 0 <=> u \in inst.users
    BY <1>2 DEF RecordInv, SentApplied
  <2>2. todo' \subseteq GenerateAclcommands'
    BY <1>2 DEF GenerateAclcommands
  <2>3. ASSUME NEW n \in Shard, NEW u \in User, << u, n >> \notin todo', newver[u] # 0
        PROVE  newver[u] \in acl[n][u]
    <3>1. inst.ver[u] = newver[u]
      BY <1>2, <2>3 DEF GenerateAclcommands
    <3> QED BY <1>1, <1>2, <2>1, <2>3, <3>1 DEF RecordInv, Applied
  <2> QED BY <1>1, <1>2, <2>1, <2>2, <2>3 DEF SentApplied
<1> QED BY <1>3, <1>4, <1>5 DEF RecordInv

\* One command: only users that the spec had dropped are deleted.
LEMMA RecordSent ==
  ASSUME TypeOK, RecordInv, Clean, pc = "send", NEW u \in User, NEW n \in Shard,
         << u, n >> \in todo, Accepts(u, n), Send(u, n),
         UNCHANGED << file, stale, newver >>
  PROVE  RecordInv'
<1>1. /\ \A m \in Shard : m # n => acl'[m] = acl[m]
      /\ \A v \in User : v # u => acl'[n][v] = acl[n][v]
      /\ acl'[n][u] = IF newver[u] = 0 THEN {} ELSE acl[n][u] \cup {newver[u]}
      /\ UNCHANGED << cr, inst, pc >> /\ todo' = todo \ {<< u, n >>}
  BY SendEffect
<1>2. \A m \in Shard : acl[m] # None /\ acl'[m] # None
  <2>1. acl'[n] \in [User -> SUBSET (1 .. MaxVersion)]
    BY SendEffect
  <2>2. acl'[n] # None
    BY <2>1, ProvisionAssumption
  <2> QED BY <1>1, <2>2 DEF RecordInv, SentApplied
<1>3. /\ \A v \in User : newver[v] # 0 <=> v \in inst.users
      /\ todo \subseteq GenerateAclcommands
  BY DEF RecordInv, SentApplied
<1>4. cr.users \subseteq User /\ inst.users \subseteq User
  BY CRFields DEF TypeOK
\* What a pod accepted it still accepts, but for a user that is deleted.
<1>5. ASSUME NEW m \in Shard, NEW v \in User, NEW x, x \in acl[m][v], v \in inst.users
      PROVE  x \in acl'[m][v]
  BY <1>1, <1>3, <1>5
<1>6. Applied(cr)'
  <2>1. \A v \in cr.users : cr.ver[v] # 0 => v \in inst.users
    BY DEF RecordInv, MemoryCurrent
  <2>2. \A m \in Shard, v \in cr.users : cr.ver[v] # 0 => cr.ver[v] \in acl[m][v]
    BY <1>2 DEF RecordInv, Applied
  <2>3. \A m \in Shard, v \in cr.users : cr.ver[v] # 0 => cr.ver[v] \in acl'[m][v]
    BY <1>4, <1>5, <2>1, <2>2
  <2> QED BY <1>1, <2>3 DEF Applied
<1>7. Applied(inst)'
  <2>1. \A m \in Shard, v \in inst.users : inst.ver[v] # 0 => inst.ver[v] \in acl[m][v]
    BY <1>2 DEF RecordInv, Applied
  <2>2. \A m \in Shard, v \in inst.users : inst.ver[v] # 0 => inst.ver[v] \in acl'[m][v]
    BY <1>4, <1>5, <2>1
  <2> QED BY <1>1, <2>2 DEF Applied
<1>8. FileApplied'
  <2>1. SUFFICES ASSUME cr.ver = NoVersions, NEW m \in Shard, NEW v \in User, file[v] # 0
                 PROVE  file[v] \in acl'[m][v]
    BY <1>1, <1>2 DEF RecordInv, FileApplied
  <2>2. file[v] \in acl[m][v]
    BY <1>2, <2>1 DEF RecordInv, FileApplied
  <2>3. CASE v \in inst.users
    BY <1>5, <2>2, <2>3
  <2>4. CASE v \notin inst.users
    <3>1. newver[v] = 0 /\ inst.ver[v] = 0
      BY <1>3, <2>1, <2>4 DEF RecordInv, MemoryCurrent
    <3>2. v # u
      BY <1>3, <3>1 DEF GenerateAclcommands
    <3> QED BY <1>1, <2>2, <3>2
  <2> QED BY <2>3, <2>4
<1>9. FileRecorded'
  BY <1>2 DEF FileRecorded
<1>10. RecordedOnce' /\ MemoryCurrent'
  BY <1>1 DEF RecordInv, RecordedOnce, MemoryCurrent
<1>11. SentApplied'
  <2>1. todo' \subseteq GenerateAclcommands'
    BY <1>1, <1>3 DEF GenerateAclcommands
  <2>2. ASSUME NEW m \in Shard, NEW v \in User, << v, m >> \notin todo', newver[v] # 0
        PROVE  newver[v] \in acl'[m][v]
    <3>1. CASE v = u /\ m = n
      BY <1>1, <2>2, <3>1
    <3>2. CASE ~(v = u /\ m = n)
      <4>1. << v, m >> \notin todo
        BY <1>1, <2>2, <3>2
      <4>2. newver[v] \in acl[m][v]
        BY <2>2, <4>1 DEF RecordInv, SentApplied
      <4> QED BY <1>3, <1>5, <2>2, <4>2
    <3> QED BY <3>1, <3>2
  <2> QED BY <1>1, <1>2, <1>3, <2>1, <2>2 DEF SentApplied
<1> QED BY <1>6, <1>7, <1>8, <1>9, <1>10, <1>11 DEF RecordInv

\* All commands sent: what is recorded now is in force.
LEMMA RecordUpdated ==
  ASSUME TypeOK, AdminNamed, RecordInv, Clean, pc = "send", todo = {}, Updated, pc' = "rest",
         UNCHANGED << acl, file, stale, newver >>
  PROVE  RecordInv'
<1> DEFINE o == [SetSecretStatus(inst, "ACLupdateSuccess") EXCEPT !.ver = newver]
<1>1. newver \in Versions
  BY DEF TypeOK
<1>2. o \in CR /\ o.users = inst.users /\ o.ver = newver /\ o.sstat = "ACLupdateSuccess"
  BY <1>1, SetVersionsFields
<1>3. updateClusterIfNeed(o)
  BY DEF Updated
<1> HIDE DEF o
<1>4. CASE UNCHANGED << cr, inst >>
  BY <1>4, QuietStep DEF RecordInv, RecordedOnce, Quiet
<1>5. CASE WriteStatus(o)
  <2>1. /\ inst'.users = inst.users /\ inst'.ver = newver /\ inst'.sstat # ""
        /\ cr'.users = cr.users
        /\ stale => cr' = cr
        /\ ~stale => cr'.ver = newver /\ cr'.sstat # "" /\ cr.users = inst.users
    BY <1>2, <1>5, WriteStatusEffect DEF RecordInv, MemoryCurrent
  <2>2. cr.users \subseteq User /\ inst.users \subseteq User
    BY CRFields DEF TypeOK
  <2>3. /\ \A v \in User : newver[v] # 0 <=> v \in inst.users
        /\ \A n \in Shard : acl[n] # None
        /\ \A n \in Shard, v \in User : newver[v] # 0 => newver[v] \in acl[n][v]
    BY DEF RecordInv, SentApplied
  <2>4. newver # NoVersions
    BY <2>3, NoVersionsZero, ProvisionAssumption DEF AdminNamed
  <2>5. Applied(cr)' /\ Applied(inst)'
    BY <2>1, <2>2, <2>3 DEF RecordInv, Applied
  <2>6. FileApplied'
    BY <2>1, <2>4 DEF RecordInv, FileApplied
  <2>7. FileRecorded'
    BY <2>3 DEF FileRecorded
  <2>8. RecordedOnce'
    BY <2>1 DEF RecordInv, RecordedOnce
  <2>9. MemoryCurrent'
    BY <2>1, <2>2, <2>3 DEF RecordInv, MemoryCurrent
  <2>10. SentApplied'
    BY DEF SentApplied
  <2> QED BY <2>5, <2>6, <2>7, <2>8, <2>9, <2>10 DEF RecordInv
<1> QED BY <1>3, <1>4, <1>5 DEF updateClusterIfNeed

LEMMA RecordSend ==
  ASSUME TypeOK, AdminNamed, RecordInv, Clean, checkandUpdatePassword PROVE RecordInv'
<1>0. pc = "send" /\ UNCHANGED << file, stale, newver >>
  BY DEF checkandUpdatePassword, k8sVars
<1>1. CASE todo = {}
  <2>1. Updated /\ pc' = "rest" /\ acl' = acl
    BY <1>1 DEF checkandUpdatePassword, Goto
  <2> QED BY <1>0, <1>1, <2>1, RecordUpdated
<1>2. CASE todo # {}
  <2>1. PICK u \in User, n \in Shard : << u, n >> \in todo /\ Send(u, n)
    BY <1>2 DEF checkandUpdatePassword
  <2>2. CASE Accepts(u, n)
    BY <1>0, <2>1, <2>2, RecordSent
  <2>3. CASE ~Accepts(u, n)
    <3>1. UpdateFailed /\ pc' = "rest" /\ acl' = acl
      BY <2>1, <2>3 DEF Send, Goto
    <3> QED BY <1>0, <3>1, FailureSteps
  <2> QED BY <2>2, <2>3
<1> QED BY <1>1, <1>2

LEMMA RecordRequestFails ==
  ASSUME TypeOK, RecordInv, Clean', Clean, RequestFails PROVE RecordInv'
<1>0. UNCHANGED << acl, file, stale, newver >>
  BY DEF RequestFails, k8sVars
<1>1. CASE pc \in {"default", "wait"} /\ Requeue /\ UNCHANGED << cr, inst, todo >>
  BY <1>0, <1>1, FailureSteps DEF Requeue
<1>2. CASE pc \in {"conf", "acl", "pdb", "sts"} /\ EnsureFails
  BY <1>0, <1>2, FailureSteps
<1>3. CASE pc \in {"svc", "csvc"} /\ Restarted
  BY <1>0, <1>3, FailureSteps DEF Restarted, Requeue
<1>4. CASE pc = "status" /\ RecordVersions(FALSE) /\ Goto("wait")
  BY <1>0, <1>4, RecordFirst DEF Goto
<1>5. CASE pc = "num" /\ hit' = hit \cup {"skip"}
  BY <1>5 DEF Clean
<1>6. CASE pc = "send" /\ UpdateFailed /\ Goto("rest")
  BY <1>0, <1>6, FailureSteps DEF Goto
<1> QED BY <1>1, <1>2, <1>3, <1>4, <1>5, <1>6 DEF RequestFails

\* Nothing that has happened is forgotten.
LEMMA HitGrows ==
  ASSUME TypeOK, [Next]_vars PROVE hit \subseteq hit'
<1>1. CASE Operator
  BY <1>1 DEF Operator, ensureCluster, validateAndSetDefault, DefaultSpec, EnsureRedisConfigMap,
     EnsureAclConfigMap, EnsureRedisStatefulsets, ensureRedisPDB, ensureRedisStatefulset,
     EnsureClusterShardsHeadLessSvcs, EnsureClusterHeadLessSvc, ensureClusterDone,
     RecordVersions, waitPodReady, CheckPasswordChanged, CheckRedisNodeNum,
     checkandUpdatePassword, Rest, faultVars
<1>2. CASE EditSpec \/ EditMetadata \/ \E u \in User : RotateSecret(u)
  BY <1>2 DEF EditSpec, EditMetadata, RotateSecret
<1>3. CASE \E n \in Shard : PodStarts(n) \/ PodStops(n)
  BY <1>3 DEF PodStarts, PodStops, faultVars
<1>4. CASE RequestFails \/ DefaultRefused \/ Crash
  BY <1>4 DEF RequestFails, DefaultRefused, Crash, RecordVersions
<1>5. CASE UNCHANGED vars
  BY <1>5 DEF vars, faultVars
<1> QED BY <1>1, <1>2, <1>3, <1>4, <1>5 DEF Next

LEMMA RecordNext ==
  ASSUME TypeOK, AdminNamed, RecordInv, [Next]_vars PROVE RecordInv'
<1> SUFFICES ASSUME Clean' PROVE RecordInv'
  BY DEF RecordInv
<1>0. Clean
  BY HitGrows, CleanBefore
<1>1. CASE EditSpec \/ EditMetadata
  BY <1>0, <1>1, RecordEditSpec, RecordEditMetadata
<1>2. CASE \E u \in User : RotateSecret(u)
  <2>1. UNCHANGED << cr, inst, acl, file, stale, newver, todo, pc >>
    BY <1>2 DEF RotateSecret, Change, k8sVars
  <2> QED BY <1>0, <2>1, QuietStep DEF RecordInv, RecordedOnce, Quiet
<1>3. CASE \E n \in Shard : PodStarts(n)
  BY <1>0, <1>3, RecordPodStarts
<1>4. CASE \E n \in Shard : PodStops(n)
  BY <1>4 DEF PodStops, Clean
<1>5. CASE RequestFails
  BY <1>0, <1>5, RecordRequestFails
<1>6. CASE DefaultRefused \/ Crash
  <2>1. pc # "idle" /\ pc' = "idle" /\ UNCHANGED << cr, inst, acl, file, stale, newver >>
    BY <1>6 DEF DefaultRefused, NoRequeue, Crash, Restarted, Requeue, k8sVars, opVars
  <2> QED BY <1>0, <2>1, FailureSteps
<1>7. CASE validateAndSetDefault \/ EnsureAclConfigMap
  BY <1>0, <1>7, RecordRead, RecordEnsureAcl
<1>8. CASE DefaultSpec
  <2>1. /\ cr'.users = cr.users /\ cr'.ver = cr.ver /\ cr'.sstat = cr.sstat
        /\ inst'.users = inst.users /\ inst'.ver = inst.ver /\ inst'.sstat = inst.sstat
    BY <1>8 DEF DefaultSpec, TypeOK, CR
  <2>2. pc = "default" /\ pc' \in {"idle", "conf"} /\ UNCHANGED << acl, file, stale, newver >>
    BY <1>8 DEF DefaultSpec, NoRequeue, k8sVars
  <2> QED BY <1>0, <2>1, <2>2, QuietStep DEF RecordInv, RecordedOnce, Quiet
<1>9. CASE \/ EnsureRedisConfigMap \/ EnsureRedisStatefulsets
           \/ EnsureClusterShardsHeadLessSvcs \/ EnsureClusterHeadLessSvc
  <2>1. /\ pc # "idle" /\ pc' \in {"acl", "pdb", "sts", "svc", "csvc", "status"}
        /\ UNCHANGED << cr, inst, acl, file, stale, newver >>
    BY <1>9 DEF EnsureRedisConfigMap, EnsureRedisStatefulsets, ensureRedisPDB,
       ensureRedisStatefulset, EnsureClusterShardsHeadLessSvcs, EnsureClusterHeadLessSvc,
       Goto, opVars
  <2> QED BY <1>0, <2>1, FailureSteps
<1>10. CASE ensureClusterDone
  <2>1. Complete \in BOOLEAN
    BY DEF Complete
  <2>2. /\ pc = "status" /\ pc' = "wait" /\ RecordVersions(Complete)
        /\ UNCHANGED << acl, file, stale, newver >>
    BY <1>10 DEF ensureClusterDone, Goto, k8sVars
  <2> QED BY <1>0, <2>1, <2>2, RecordFirst
<1>11. CASE waitPodReady
  <2>1. pc = "wait" /\ UNCHANGED << acl, file, stale, newver >>
    BY <1>11 DEF waitPodReady, k8sVars
  <2>2. CASE \E n \in Shard : acl[n] = None
    <3>1. EnsureFails
      BY <1>11, <2>2, Zenon DEF waitPodReady, EnsureFails
    <3> QED BY <1>0, <2>1, <3>1, FailureSteps
  <2>3. CASE ~\E n \in Shard : acl[n] = None
    <3>1. UNCHANGED << cr, inst >> /\ pc' = "check"
      BY <1>11, <2>3 DEF waitPodReady, Goto
    <3> QED BY <1>0, <2>1, <3>1, FailureSteps
  <2> QED BY <2>2, <2>3
<1>12. CASE CheckPasswordChanged \/ CheckRedisNodeNum \/ checkandUpdatePassword
  BY <1>0, <1>12, RecordCheck, RecordNum, RecordSend
<1>13. CASE Rest
  <2>1. /\ pc = "rest" /\ pc' = "idle" /\ UNCHANGED << acl, file, stale, newver >>
        /\ \E st \in {inst.st, "OK"} : updateClusterIfNeed([inst EXCEPT !.st = st])
    BY <1>13 DEF Rest, Requeue, k8sVars
  <2>2. PICK o : SameRecord(o) /\ updateClusterIfNeed(o)
    BY <2>1, SetStatusSame
  <2> QED BY <1>0, <2>1, <2>2, StatusStep, QuietStep DEF Quiet
<1>14. CASE UNCHANGED vars
  <2>1. UNCHANGED << cr, inst, acl, file, stale, newver, todo, pc >>
    BY <1>14 DEF vars, opVars, k8sVars
  <2> QED BY <1>0, <2>1, QuietStep DEF RecordInv, RecordedOnce, Quiet
<1> QED
  BY <1>1, <1>2, <1>3, <1>4, <1>5, <1>6, <1>7, <1>8, <1>9, <1>10, <1>11, <1>12, <1>13, <1>14
  DEF Next, Operator, ensureCluster

LEMMA RecordInit == Init => RecordInv
<1> SUFFICES ASSUME Init PROVE RecordInv
  OBVIOUS
<1>1. PICK valid \in BOOLEAN, us \in SUBSET User :
        cr = [valid |-> valid, defaulted |-> FALSE,
              image |-> CHOOSE i \in Image : TRUE, users |-> us,
              ver |-> NoVersions, sstat |-> "", st |-> ""]
  BY DEF Init
<1>2. cr.ver = NoVersions /\ cr.sstat = ""
  BY <1>1
<1>3. inst = cr
  BY Zenon DEF Init
<1>4. pc = "idle" /\ \A n \in Shard : acl[n] = None
  BY DEF Init
<1> HIDE DEF Init
<1>5. Applied(cr) /\ FileApplied
  BY <1>2, <1>4 DEF Applied, FileApplied
<1>6. FileRecorded /\ RecordedOnce
  BY <1>2, <1>3, <1>4 DEF FileRecorded, RecordedOnce
<1>7. MemoryCurrent /\ SentApplied
  BY <1>4 DEF MemoryCurrent, SentApplied
<1> QED BY <1>4, <1>5, <1>6, <1>7 DEF RecordInv

\* What the status records as the version of a user of the spec, every running
\* pod accepts, whatever fails half way through checkandUpdatePassword, as long as
\* none of the four exceptions has happened: a pod restarted, a secret changed
\* between the ACL file and the first record, CheckRedisNodeNum found pods
\* missing, or a user came back before its removal was recorded.
THEOREM RecordedIsApplied == Spec => []RecordedApplied
<1>1. TypeOK /\ AdminNamed /\ [Next]_vars => AdminNamed'
  BY AdminNext
<1>2. TypeOK /\ AdminNamed /\ RecordInv /\ [Next]_vars => RecordInv'
  BY RecordNext
<1>3. RecordInv => RecordedApplied
  BY DEF RecordInv, RecordedApplied, Clean, Applied
<1> QED BY <1>1, <1>2, <1>3, AdminInit, RecordInit, ProvisionTypeCorrect, PTL DEF Spec
=============================================================================
