------------------------- MODULE RollingUpdateProofs -------------------------
(***************************************************************************)
(* Proofs about RollingUpdate, for any number of StatefulSets and replicas *)
(* and any bound on the faults.                                            *)
(***************************************************************************)
EXTENDS RollingUpdate, TLAPS

\* No pod goes down by itself, and a deleted pod goes down at once.
PodsObey == hit \subseteq {"crash", "k8s", "edit"}

Pending == slaves \cup masters \cup cur

(***************************************************************************)
(* What the operator may still delete is old and ready: what it read is    *)
(* stale only about pods it has visited already.                           *)
(***************************************************************************)
ListIsFresh ==
  /\ stopping = {}
  /\ pc \in {"idle", "ready", "health", "roles"} => Pending = {}
  /\ Pending \cap seen \subseteq old \cap up

\* Every pod is visited once.
VisitedOnce ==
  /\ slaves \cap masters = {}
  /\ cur \cap (slaves \cup masters) = {}
  /\ \A p, q \in cur : p = q
  /\ pc # "slave" => cur = {}

IInv == ListIsFresh /\ VisitedOnce

(***************************************************************************)
(* As long as there is no disturbance, a reconcile deletes all replicas or *)
(* none, and goes on to the masters only if it deleted none: either no     *)
(* replica has been replaced, or all of them have.                         *)
(***************************************************************************)
ReplicaPods == Pod \ Masters

\* Nothing has been deleted; or every replica that is there is new.
Untouched == ReplicaPods \subseteq old \cap up \cap synced /\ Masters \subseteq up
Renewed == ReplicaPods \cap old \cap up = {}

\* The health check has passed and nothing has been deleted since.
AllReady == conn = Pod /\ ReplicaPods \subseteq synced

Waiting ==
  /\ slaves = {} /\ masters = {} /\ cur = {} /\ ok = FALSE
  /\ Untouched \/ Renewed
  /\ pc = "roles" => AllReady

\* This reconcile deletes every replica it visits and leaves the masters alone.
Replacing ==
  /\ pc # "masters"
  /\ ReplicaPods \subseteq seen /\ Masters \subseteq up
  /\ slaves \cup cur \subseteq ReplicaPods \cap conn \cap synced
  /\ (ReplicaPods \ (slaves \cup cur)) \cap old \cap up = {}
  /\ pc = "slaves" /\ ok => updated

\* This reconcile deletes no replica.
Checking ==
  /\ AllReady /\ Renewed
  /\ ReplicaPods \cap seen = {}
  /\ slaves \cup cur \subseteq ReplicaPods /\ masters \subseteq Masters
  /\ ok => ReplicaPods # {}
  /\ pc = "masters" => ok

Undisturbed ==
  /\ ShardServed
  /\ IF pc \in {"slaves", "slave", "masters"} THEN revs = NumSts /\ (Replacing \/ Checking)
                                              ELSE Waiting

UndisturbedInv == hit = {} => Undisturbed

-----------------------------------------------------------------------------
\* A pod belongs to the shard it names.
LEMMA PodShard ==
  \A p \in Pod : p[1] \in Shard /\ p \in PodsOf(p[1])
BY DEF Pod, PodsOf

LEMMA MastersArePods ==
  ASSUME TypeOK PROVE Masters \subseteq Pod
BY DEF TypeOK, Masters

\* The effects on the pods keep the type of the pods.
PodsTyped ==
  /\ stopping \subseteq up /\ up \subseteq Pod
  /\ old \subseteq Pod
  /\ master \in [Shard -> Pod] /\ \A s \in Shard : master[s] \in PodsOf(s)
  /\ synced \subseteq up
  /\ label \in [Pod -> Role \cup {"none"}]
  /\ conn \subseteq up

FaultsTyped == faults \in 0 .. MaxFaults /\ hit \subseteq Faults

LEMMA FaultTypes ==
  ASSUME FaultsTyped, NEW kind, Fault(kind) PROVE FaultsTyped'
BY RollingUpdateAssumption DEF FaultsTyped, Fault

LEMMA StopTypes ==
  ASSUME PodsTyped, NEW p \in Pod, Stop(p) PROVE PodsTyped'
BY DEF PodsTyped, Stop

LEMMA DeleteTypes ==
  ASSUME PodsTyped, FaultsTyped, NEW p \in up, DeletePod(p)
  PROVE  PodsTyped' /\ FaultsTyped'
<1>1. CASE p \notin stopping /\ Stop(p) /\ UNCHANGED faultVars
  BY <1>1, StopTypes DEF PodsTyped, FaultsTyped, faultVars
<1>2. CASE /\ p \notin stopping /\ Fault("slow")
           /\ stopping' = stopping \cup {p}
           /\ UNCHANGED << up, old, master, synced, label, conn >>
  BY <1>2, FaultTypes DEF PodsTyped
<1>3. CASE p \in stopping /\ UNCHANGED << podVars, faultVars >>
  BY <1>3 DEF PodsTyped, FaultsTyped, podVars, faultVars
<1> QED BY <1>1, <1>2, <1>3 DEF DeletePod

LEMMA UpdateTypes ==
  ASSUME PodsTyped, FaultsTyped, NEW p \in Pod, NEW role \in Role, NEW result,
         updatePodIfNeeded(p, role, result)
  PROVE  PodsTyped' /\ FaultsTyped'
<1>1. CASE /\ result = "deleted"
           /\ IF p \in up THEN DeletePod(p) ELSE UNCHANGED << podVars, faultVars >>
  BY <1>1, DeleteTypes DEF PodsTyped, FaultsTyped, podVars, faultVars
<1>2. CASE /\ IF p \in conn THEN label' = [label EXCEPT ![p] = role] ELSE UNCHANGED label
           /\ UNCHANGED << up, stopping, old, master, synced, conn, faultVars >>
  BY <1>2 DEF PodsTyped, FaultsTyped, faultVars
<1>3. CASE /\ IF p \in conn THEN Fault("k8s") ELSE UNCHANGED faultVars
           /\ UNCHANGED podVars
  BY <1>3, FaultTypes DEF PodsTyped, FaultsTyped, podVars, faultVars
<1> QED BY <1>1, <1>2, <1>3 DEF updatePodIfNeeded

LEMMA SettleTypes ==
  ASSUME PodsTyped, PodStops \/ PodBack \/ Resync \/ Failover PROVE PodsTyped'
<1>1. CASE PodStops
  BY <1>1, StopTypes DEF PodStops, PodsTyped
<1>2. CASE PodBack
  BY <1>2 DEF PodBack, PodsTyped
<1>3. CASE Resync
  BY <1>3 DEF Resync, PodsTyped
<1>4. CASE Failover
  BY <1>4, PodShard DEF Failover, PodsTyped
<1> QED BY <1>1, <1>2, <1>3, <1>4

\* The operator's part of the type.
OpTyped ==
  /\ pc \in PC
  /\ seen \subseteq Pod
  /\ revs \in 0 .. NumSts
  /\ slaves \subseteq Pod /\ masters \subseteq Pod /\ cur \subseteq Pod
  /\ ok \in BOOLEAN /\ updated \in BOOLEAN

LEMMA TypeParts == TypeOK <=> PodsTyped /\ OpTyped /\ FaultsTyped
BY DEF TypeOK, PodsTyped, OpTyped, FaultsTyped

LEMMA ReturnTypes == Return => OpTyped'
<1>1. 0 \in 0 .. NumSts
  BY RollingUpdateAssumption
<1> QED BY <1>1 DEF Return, OpTyped, PC

LEMMA TypeInit == Init => TypeOK
<1> SUFFICES ASSUME Init PROVE TypeOK
  OBVIOUS
<1>1. \A s \in Shard : << s, 0 >> \in Pod /\ << s, 0 >> \in PodsOf(s)
  BY RollingUpdateAssumption DEF Pod, PodsOf
<1>2. master \in [Shard -> Pod] /\ \A s \in Shard : master[s] \in PodsOf(s)
  BY <1>1 DEF Init
<1>3. label \in [Pod -> Role \cup {"none"}]
  BY DEF Init, RoleOf, Role
<1>4. PodsTyped
  BY <1>2, <1>3 DEF Init, PodsTyped
<1>5. revs \in 0 .. NumSts /\ faults \in 0 .. MaxFaults
  BY RollingUpdateAssumption DEF Init
<1>6. OpTyped
  BY <1>5 DEF Init, OpTyped, PC
<1>7. FaultsTyped
  BY <1>5 DEF Init, FaultsTyped
<1> QED BY <1>4, <1>6, <1>7, TypeParts

LEMMA TypeNext == TypeOK /\ [Next]_vars => TypeOK'
<1> SUFFICES ASSUME TypeOK, [Next]_vars PROVE TypeOK'
  OBVIOUS
<1>0. PodsTyped /\ OpTyped /\ FaultsTyped /\ Masters \subseteq Pod
  BY TypeParts, MastersArePods
<1> SUFFICES PodsTyped' /\ OpTyped' /\ FaultsTyped'
  BY DEF TypeOK, PodsTyped, OpTyped, FaultsTyped
<1>p. UNCHANGED podVars => PodsTyped'
  BY <1>0 DEF PodsTyped, podVars
<1>f. UNCHANGED faultVars => FaultsTyped'
  BY <1>0 DEF FaultsTyped, faultVars
<1>o. UNCHANGED opVars => OpTyped'
  BY <1>0 DEF OpTyped, opVars
<1>1. CASE GetStatefulSetPods
  BY <1>0, <1>1, <1>f DEF GetStatefulSetPods, PodsTyped, OpTyped, PC
<1>2. CASE waitPodReady
  BY <1>0, <1>2, <1>p, <1>f, ReturnTypes DEF waitPodReady, OpTyped, PC
<1>3. CASE CheackandUpdateClusterHealth
  BY <1>0, <1>3, <1>p, <1>f, ReturnTypes DEF CheackandUpdateClusterHealth, OpTyped, PC
<1>4. CASE getRedisIPsByRole
  <2>1. PodsTyped' /\ FaultsTyped'
    BY <1>0, <1>4, <1>p, <1>f, FaultTypes DEF getRedisIPsByRole
  <2>2. revs' \in 0 .. NumSts
    BY <1>4, RollingUpdateAssumption DEF getRedisIPsByRole
  <2>3. OpTyped'
    BY <1>0, <1>4, <2>2 DEF getRedisIPsByRole, OpTyped, PodsTyped, PC
  <2> QED BY <2>1, <2>3
<1>5. CASE getRedisIPsByRoleError
  BY <1>5, <1>p, <1>f, ReturnTypes DEF getRedisIPsByRoleError
<1>6. CASE IsSlaveReady
  <2>1. PodsTyped' /\ FaultsTyped'
    BY <1>6, <1>p, <1>f DEF IsSlaveReady
  <2>2. PICK p \in slaves \cap conn :
          /\ slaves' = slaves \ {p}
          /\ ok' = Linked(p)
          /\ IF Linked(p) THEN cur' = {p} /\ pc' = "slave" ELSE UNCHANGED << cur, pc >>
    BY <1>6 DEF IsSlaveReady
  <2>3. ok' \in BOOLEAN
    BY <2>2 DEF Linked
  <2>4. pc' \in PC /\ cur' \subseteq Pod /\ slaves' \subseteq Pod
    BY <1>0, <2>2 DEF OpTyped, PC
  <2>5. OpTyped'
    BY <1>0, <1>6, <2>3, <2>4 DEF IsSlaveReady, OpTyped
  <2> QED BY <2>1, <2>5
<1>7. CASE IsSlaveReadyError
  BY <1>7, <1>p, <1>f, ReturnTypes DEF IsSlaveReadyError
<1>8. CASE updateSlave
  <2>1. PICK p \in cur, result \in Result :
          /\ updatePodIfNeeded(p, "slave", result)
          /\ IF result = "error" THEN Return
             ELSE /\ updated' = (result = "deleted")
                  /\ cur' = {}
                  /\ pc' = "slaves"
                  /\ UNCHANGED << seen, revs, slaves, masters, ok >>
    BY <1>8 DEF updateSlave
  <2>2. p \in Pod /\ "slave" \in Role
    BY <1>0, <2>1 DEF OpTyped, Role
  <2>3. PodsTyped' /\ FaultsTyped'
    BY <1>0, <2>1, <2>2, UpdateTypes
  <2>4. OpTyped'
    BY <1>0, <2>1, ReturnTypes DEF OpTyped, PC
  <2> QED BY <2>3, <2>4
<1>9. CASE slavesDone
  BY <1>0, <1>9, <1>p, <1>f, ReturnTypes DEF slavesDone, OpTyped, PC
<1>10. CASE revisionMissing
  BY <1>10, <1>p, <1>f, ReturnTypes DEF revisionMissing
<1>11. CASE updateMaster
  <2>1. PICK p \in masters, result \in Result :
          /\ updatePodIfNeeded(p, "master", result)
          /\ IF result = "deleted" THEN Return
             ELSE /\ masters' = masters \ {p}
                  /\ updated' = FALSE
                  /\ UNCHANGED << pc, seen, revs, slaves, cur, ok >>
    BY <1>11 DEF updateMaster
  <2>2. p \in Pod /\ "master" \in Role
    BY <1>0, <2>1 DEF OpTyped, Role
  <2>3. PodsTyped' /\ FaultsTyped'
    BY <1>0, <2>1, <2>2, UpdateTypes
  <2>4. OpTyped'
    BY <1>0, <2>1, ReturnTypes DEF OpTyped
  <2> QED BY <2>3, <2>4
<1>12. CASE mastersDone
  BY <1>12, <1>p, <1>f, ReturnTypes DEF mastersDone
<1>13. CASE Crash
  BY <1>0, <1>13, <1>p, FaultTypes, ReturnTypes DEF Crash
<1>14. CASE PodRestart
  BY <1>0, <1>14, <1>o, FaultTypes, StopTypes DEF PodRestart, PodsTyped
<1>15. CASE EditSpec
  BY <1>0, <1>15, <1>o, FaultTypes DEF EditSpec, PodsTyped, PodsOf
<1>16. CASE Settle
  BY <1>0, <1>16, <1>o, <1>f, SettleTypes DEF Settle
<1>17. CASE FailoverStep
  BY <1>0, <1>17, <1>o, <1>f, SettleTypes DEF FailoverStep
<1>18. CASE UNCHANGED vars
  BY <1>18, <1>p, <1>o, <1>f DEF vars
<1> QED
  BY <1>1, <1>2, <1>3, <1>4, <1>5, <1>6, <1>7, <1>8, <1>9, <1>10, <1>11, <1>12,
     <1>13, <1>14, <1>15, <1>16, <1>17, <1>18 DEF Next, Operator

\* Type correctness: every variable of the rolling update keeps its type, whatever
\* the faults; in particular a ready replica is one of the pods, and revisions are
\* read of StatefulSets that exist.
THEOREM RollingTypeCorrect == Spec => []TypeOK
<1>1. Init => TypeOK
  BY TypeInit
<1>2. TypeOK /\ [Next]_vars => TypeOK'
  BY TypeNext
<1> QED BY <1>1, <1>2, PTL DEF Spec

-----------------------------------------------------------------------------
\* Faults are never forgotten.
LEMMA HitGrows == [Next]_vars => hit \subseteq hit'
<1> SUFFICES ASSUME [Next]_vars PROVE hit \subseteq hit'
  OBVIOUS
<1>1. \A kind : Fault(kind) => hit \subseteq hit'
  BY DEF Fault
<1>2. UNCHANGED faultVars => hit \subseteq hit'
  BY DEF faultVars
<1>3. \A p : DeletePod(p) => hit \subseteq hit'
  BY <1>1, <1>2 DEF DeletePod
<1>4. \A p, role, result : updatePodIfNeeded(p, role, result) => hit \subseteq hit'
  BY <1>1, <1>2, <1>3 DEF updatePodIfNeeded
<1>5. CASE updateSlave
  BY <1>4, <1>5 DEF updateSlave
<1>6. CASE updateMaster
  BY <1>4, <1>6 DEF updateMaster
<1>7. CASE getRedisIPsByRole
  BY <1>1, <1>2, <1>7 DEF getRedisIPsByRole
<1>8. CASE GetStatefulSetPods \/ waitPodReady \/ CheackandUpdateClusterHealth
           \/ getRedisIPsByRoleError \/ IsSlaveReady \/ IsSlaveReadyError
           \/ slavesDone \/ revisionMissing \/ mastersDone
  BY <1>2, <1>8 DEF GetStatefulSetPods, waitPodReady, CheackandUpdateClusterHealth,
     getRedisIPsByRoleError, IsSlaveReady, IsSlaveReadyError, slavesDone,
     revisionMissing, mastersDone
<1>9. CASE Crash \/ PodRestart \/ EditSpec
  BY <1>1, <1>9 DEF Crash, PodRestart, EditSpec
<1>10. CASE Settle \/ FailoverStep \/ UNCHANGED vars
  BY <1>2, <1>10 DEF Settle, FailoverStep, vars
<1> QED
  BY <1>5, <1>6, <1>7, <1>8, <1>9, <1>10 DEF Next, Operator

\* A visit deletes the visited pod or none, and only if it is old.
LEMMA VisitDeletesOld ==
  ASSUME TypeOK, IInv, PodsObey', NEW p \in Pending, NEW role, NEW result,
         updatePodIfNeeded(p, role, result)
  PROVE  /\ stopping' = {} /\ old' = old
         /\ up \ up' \subseteq old /\ up \ {p} \subseteq up'
         /\ result # "deleted" => up' = up
<1>1. CASE result = "deleted" /\ p \in seen /\ p \in up /\ DeletePod(p)
  <2>1. ~ Fault("slow")
    BY DEF Fault, PodsObey
  <2>2. Stop(p)
    BY <1>1, <2>1 DEF DeletePod, IInv, ListIsFresh
  <2>3. p \in old
    BY <1>1 DEF IInv, ListIsFresh
  <2> QED BY <1>1, <2>2, <2>3 DEF Stop, IInv, ListIsFresh
<1>2. CASE up' = up /\ stopping' = stopping /\ old' = old
  BY <1>2 DEF IInv, ListIsFresh
<1> QED BY <1>1, <1>2 DEF updatePodIfNeeded, podVars

\* Nothing is left to visit when the reconcile returns.
LEMMA ReturnFresh ==
  ASSUME Return, stopping' = {} PROVE IInv'
BY DEF Return, IInv, ListIsFresh, VisitedOnce, Pending

\* The list stays fresh about what is still to be visited, and a step takes down
\* no pod but an old one.
LEMMA IInvNext ==
  ASSUME TypeOK, IInv, [Next]_vars, PodsObey'
  PROVE  IInv' /\ up \ up' \subseteq old
<1>0. TypeOK'
  BY TypeNext
<1>p. UNCHANGED podVars => stopping' = {} /\ old' = old /\ up' = up
  BY DEF podVars, IInv, ListIsFresh
<1>r. ASSUME Return, UNCHANGED podVars PROVE IInv' /\ up \ up' \subseteq old
  BY <1>r, <1>p, ReturnFresh
<1>k. ASSUME UNCHANGED opVars, stopping' = {}, old \cap up \subseteq old' \cap up'
      PROVE  IInv'
  BY <1>k DEF opVars, IInv, ListIsFresh, VisitedOnce, Pending
<1>1. CASE GetStatefulSetPods
  BY <1>1 DEF GetStatefulSetPods, IInv, ListIsFresh, VisitedOnce, Pending
<1>2. CASE waitPodReady
  <2>1. CASE up = Pod
    BY <1>2, <2>1, <1>p DEF waitPodReady, IInv, ListIsFresh, VisitedOnce, Pending
  <2>2. CASE up # Pod
    BY <1>2, <2>2, <1>r DEF waitPodReady
  <2> QED BY <2>1, <2>2
<1>3. CASE CheackandUpdateClusterHealth
  <2>1. CASE HealthOk
    BY <1>3, <2>1, <1>p DEF CheackandUpdateClusterHealth, IInv, ListIsFresh, VisitedOnce, Pending
  <2>2. CASE ~HealthOk
    BY <1>3, <2>2, <1>r DEF CheackandUpdateClusterHealth
  <2> QED BY <2>1, <2>2
<1>4. CASE getRedisIPsByRole
  <2>1. /\ stopping' = {} /\ old' = old /\ up' = up
        /\ pc = "roles" /\ pc' = "slaves" /\ seen' = old /\ cur' = cur
        /\ masters' = Masters /\ slaves' = Pod \ Masters
    BY <1>4, <1>p DEF getRedisIPsByRole
  <2>2. cur' = {}
    BY <2>1 DEF IInv, ListIsFresh, Pending
  <2>3. old \subseteq up
    BY <1>4 DEF getRedisIPsByRole, TypeOK
  <2> QED BY <2>1, <2>2, <2>3 DEF IInv, ListIsFresh, VisitedOnce, Pending
<1>5. CASE getRedisIPsByRoleError
  BY <1>5, <1>r DEF getRedisIPsByRoleError
<1>6. CASE IsSlaveReady
  <2>1. /\ stopping' = {} /\ old' = old /\ up' = up /\ seen' = seen
        /\ masters' = masters /\ pc = "slaves" /\ cur = {}
    BY <1>6, <1>p DEF IsSlaveReady, IInv, VisitedOnce
  <2>2. PICK p \in slaves :
          /\ slaves' = slaves \ {p}
          /\ IF Linked(p) THEN cur' = {p} /\ pc' = "slave" ELSE UNCHANGED << cur, pc >>
    BY <1>6 DEF IsSlaveReady
  <2>3. p \notin masters
    BY DEF IInv, VisitedOnce
  <2>4. (cur' = {p} /\ pc' = "slave") \/ (cur' = {} /\ pc' = "slaves")
    BY <2>1, <2>2
  <2>5. Pending' \subseteq Pending
    BY <2>1, <2>2, <2>4 DEF Pending
  <2>6. ListIsFresh'
    BY <2>1, <2>4, <2>5 DEF IInv, ListIsFresh
  <2>7. VisitedOnce'
    BY <2>1, <2>2, <2>3, <2>4 DEF IInv, VisitedOnce
  <2> QED BY <2>1, <2>6, <2>7 DEF IInv
<1>7. CASE IsSlaveReadyError
  BY <1>7, <1>r DEF IsSlaveReadyError
<1>8. CASE updateSlave
  <2>1. PICK p \in cur, result \in Result :
          /\ updatePodIfNeeded(p, "slave", result)
          /\ IF result = "error" THEN Return
             ELSE /\ cur' = {}
                  /\ pc' = "slaves"
                  /\ UNCHANGED << seen, slaves, masters >>
    BY <1>8 DEF updateSlave
  <2>2. p \in Pending
    BY DEF Pending
  <2>3. /\ stopping' = {} /\ old' = old
        /\ up \ up' \subseteq old /\ up \ {p} \subseteq up'
    BY <2>1, <2>2, VisitDeletesOld
  <2>4. CASE result = "error"
    BY <2>1, <2>3, <2>4, ReturnFresh
  <2>5. CASE result # "error"
    <3>1. Pending' \subseteq Pending \ {p}
      BY <2>1, <2>5 DEF Pending, IInv, VisitedOnce
    <3>2. Pending' \cap seen' \subseteq old' \cap up'
      BY <2>1, <2>3, <2>5, <3>1 DEF IInv, ListIsFresh
    <3>3. ListIsFresh'
      BY <2>1, <2>3, <2>5, <3>2 DEF ListIsFresh
    <3>4. VisitedOnce'
      BY <2>1, <2>5 DEF IInv, VisitedOnce
    <3> QED BY <2>3, <3>3, <3>4 DEF IInv
  <2> QED BY <2>4, <2>5
<1>9. CASE slavesDone
  <2>1. CASE updated \/ ~ok
    BY <1>9, <2>1, <1>r DEF slavesDone
  <2>2. CASE ~(updated \/ ~ok)
    BY <1>9, <2>2, <1>p DEF slavesDone, IInv, ListIsFresh, VisitedOnce, Pending
  <2> QED BY <2>1, <2>2
<1>10. CASE revisionMissing
  BY <1>10, <1>r DEF revisionMissing
<1>11. CASE updateMaster
  <2>1. PICK p \in masters, result \in Result :
          /\ updatePodIfNeeded(p, "master", result)
          /\ IF result = "deleted" THEN Return
             ELSE /\ masters' = masters \ {p}
                  /\ UNCHANGED << pc, seen, slaves, cur >>
    BY <1>11 DEF updateMaster
  <2>2. p \in Pending /\ pc = "masters"
    BY <1>11 DEF Pending, updateMaster
  <2>3. /\ stopping' = {} /\ old' = old
        /\ up \ up' \subseteq old
        /\ result # "deleted" => up' = up
    BY <2>1, <2>2, VisitDeletesOld
  <2>4. CASE result = "deleted"
    BY <2>1, <2>3, <2>4, ReturnFresh
  <2>5. CASE result # "deleted"
    <3>1. Pending' \subseteq Pending
      BY <2>1, <2>5 DEF Pending
    <3>2. ListIsFresh'
      BY <2>1, <2>2, <2>3, <2>5, <3>1 DEF IInv, ListIsFresh
    <3>3. VisitedOnce'
      BY <2>1, <2>5 DEF IInv, VisitedOnce
    <3> QED BY <2>3, <3>2, <3>3 DEF IInv
  <2> QED BY <2>4, <2>5
<1>12. CASE mastersDone
  BY <1>12, <1>r DEF mastersDone
<1>13. CASE Crash
  BY <1>13, <1>r DEF Crash
<1>14. CASE PodRestart
  BY <1>14 DEF PodRestart, Fault, PodsObey
<1>15. CASE EditSpec
  <2>1. stopping' = {} /\ up' = up /\ old \subseteq old' /\ UNCHANGED opVars
    BY <1>15 DEF EditSpec, IInv, ListIsFresh
  <2> QED BY <2>1, <1>k
<1>16. CASE Settle \/ FailoverStep
  <2>1. UNCHANGED opVars
    BY <1>16 DEF Settle, FailoverStep
  <2>2. ~ PodStops
    BY DEF PodStops, IInv, ListIsFresh
  <2>3. CASE PodBack
    BY <2>1, <2>3, <1>k DEF PodBack, IInv, ListIsFresh
  <2>4. CASE Resync \/ Failover
    BY <2>1, <2>4, <1>k DEF Resync, Failover, IInv, ListIsFresh
  <2> QED BY <1>16, <2>2, <2>3, <2>4 DEF Settle, FailoverStep
<1>17. CASE UNCHANGED vars
  BY <1>17, <1>p, <1>k DEF vars
<1> QED
  BY <1>1, <1>2, <1>3, <1>4, <1>5, <1>6, <1>7, <1>8, <1>9, <1>10, <1>11, <1>12,
     <1>13, <1>14, <1>15, <1>16, <1>17 DEF Next, Operator

\* Only pods of an old revision are deleted, for any number of shards and
\* replicas and any number of crashes, failed requests and edits: a reconcile
\* that started from a stale list would restart an updated pod a second time.
THEOREM OnlyOldDeleted == Spec => OnlyOldPodsDeleted
<1> DEFINE Inv == TypeOK /\ (PodsObey => IInv)
<1>1. Init => Inv
  BY TypeInit DEF Init, IInv, ListIsFresh, VisitedOnce, Pending
<1>2. Inv /\ [Next]_vars => Inv'
  BY TypeNext, HitGrows, IInvNext DEF PodsObey
<1>3. Inv /\ [Next]_vars
        => [hit' \subseteq {"crash", "k8s", "edit"} => up \ up' \subseteq old]_vars
  BY HitGrows, IInvNext DEF PodsObey
<1> QED BY <1>1, <1>2, <1>3, PTL DEF Spec, OnlyOldPodsDeleted

-----------------------------------------------------------------------------
(* No shard is left without a pod that serves it.                          *)

LEMMA MasterOf ==
  ASSUME TypeOK, NEW s \in Shard
  PROVE  /\ master[s] \in PodsOf(s) /\ master[s] \in Masters
         /\ \A q \in PodsOf(s) : q # master[s] => q \in ReplicaPods
<1>1. ASSUME NEW q \in PodsOf(s), q # master[s] PROVE q \notin Masters
  <2> SUFFICES ASSUME NEW t \in Shard, q = master[t] PROVE FALSE
    BY DEF Masters
  <2>1. q[1] = s /\ q[1] = t
    BY DEF TypeOK, PodsOf
  <2> QED BY <1>1, <2>1
<1> QED BY <1>1 DEF TypeOK, Masters, PodsOf, ReplicaPods

\* If one shard has a replica, all have.
LEMMA ReplicaOf ==
  ASSUME TypeOK, ReplicaPods # {}, NEW s \in Shard
  PROVE  \E q \in PodsOf(s) : q \in ReplicaPods
<1>1. PICK r \in Pod : r \notin Masters
  BY DEF ReplicaPods
<1>2. r[1] \in Shard /\ r[2] \in 0 .. Replicas /\ r = << r[1], r[2] >>
  BY DEF Pod
<1>3. /\ master[r[1]] \in Pod /\ master[r[1]][1] = r[1] /\ master[r[1]][2] \in 0 .. Replicas
      /\ master[r[1]] # r /\ master[r[1]] = << master[r[1]][1], master[r[1]][2] >>
  BY <1>1, <1>2, MasterOf DEF PodsOf, Pod
<1>4. master[r[1]][2] # r[2]
  BY <1>2, <1>3
<1>5. 0 \in 0 .. Replicas /\ 1 \in 0 .. Replicas
  BY <1>2, <1>3, <1>4, RollingUpdateAssumption
<1>6. << s, 0 >> \in PodsOf(s) /\ << s, 1 >> \in PodsOf(s) /\ << s, 0 >> # << s, 1 >>
  BY <1>5 DEF Pod, PodsOf
<1> QED BY <1>6, MasterOf

LEMMA ServedByMasters ==
  ASSUME TypeOK, UNCHANGED master, Masters \subseteq up', stopping' = {} PROVE ShardServed'
<1>1. Masters' = Masters
  BY DEF Masters
<1> QED BY <1>1, MasterOf DEF ShardServed, Serving

LEMMA ServedMore ==
  ASSUME ShardServed, UNCHANGED master, up \subseteq up', synced \subseteq synced',
         stopping' \subseteq stopping
  PROVE  ShardServed'
<1>1. Masters' = Masters
  BY DEF Masters
<1> QED BY <1>1 DEF ShardServed, Serving

\* The outcomes of updatePodIfNeeded without disturbances.
LEMMA Visit ==
  ASSUME IInv, hit' = {}, NEW p, NEW role, NEW result, updatePodIfNeeded(p, role, result)
  PROVE  \/ result = "deleted" /\ p \in seen /\ p \in up /\ Stop(p)
         \/ result = "deleted" /\ p \in seen /\ p \notin up /\ UNCHANGED podVars
         \/ /\ result = "kept" /\ p \notin seen
            /\ UNCHANGED << up, stopping, old, master, synced, conn >>
         \/ result = "error" /\ p \notin conn /\ UNCHANGED podVars
<1>1. \A kind : ~ Fault(kind)
  BY DEF Fault
<1>2. stopping = {}
  BY DEF IInv, ListIsFresh
<1>3. p \in up /\ DeletePod(p) => Stop(p)
  BY <1>1, <1>2 DEF DeletePod
<1> QED BY <1>1, <1>3 DEF updatePodIfNeeded

\* The pods as the invariant sees them.
LEMMA SamePods ==
  ASSUME UNCHANGED << up, old, master, synced, conn >>
  PROVE  /\ ReplicaPods' = ReplicaPods /\ Masters' = Masters
         /\ Untouched' = Untouched /\ Renewed' = Renewed /\ AllReady' = AllReady
BY DEF ReplicaPods, Masters, Untouched, Renewed, AllReady

\* The reconcile returns.
LEMMA WaitingAgain ==
  ASSUME Return, ShardServed', Untouched' \/ Renewed' PROVE Undisturbed'
BY DEF Return, Undisturbed, Waiting

LEMMA UndisturbedPods ==
  ASSUME TypeOK, IInv, Undisturbed, Settle \/ FailoverStep, hit' = {}
  PROVE  Undisturbed'
<1>0. UNCHANGED opVars /\ ~PodStops /\ stopping = {}
  BY DEF Settle, FailoverStep, PodStops, IInv, ListIsFresh
<1>o. UNCHANGED << pc, seen, revs, slaves, masters, cur, ok, updated >>
  BY <1>0 DEF opVars
<1>1. CASE Failover
  <2>1. PICK p \in synced :
          /\ master[p[1]] \notin up /\ master' = [master EXCEPT ![p[1]] = p]
          /\ synced' = synced \ PodsOf(p[1])
          /\ UNCHANGED << up, stopping, old, label, conn >>
    BY <1>1 DEF Failover
  <2>2. p \in Pod /\ p \in up /\ p[1] \in Shard /\ p \in PodsOf(p[1])
    BY PodShard DEF TypeOK
  <2>3. master[p[1]] \in Masters
    BY <2>2, MasterOf
  <2>4. ~(Masters \subseteq up)
    BY <2>1, <2>3
  <2>5. up # Pod
    BY <2>4, MastersArePods
  <2>6. ~Untouched /\ ~Replacing /\ ~AllReady
    BY <2>4, <2>5 DEF Untouched, Replacing, AllReady, TypeOK
  <2>7. pc \notin {"slaves", "slave", "masters", "roles"} /\ Waiting /\ Renewed
    BY <2>6 DEF Undisturbed, Waiting, Checking
  <2>8. master \in [Shard -> Pod]
    BY DEF TypeOK
  <2>9. \A s \in Shard : master'[s] = IF s = p[1] THEN p ELSE master[s]
    BY <2>1, <2>2, <2>8
  <2>10. Masters \subseteq Masters' \cup {master[p[1]]} /\ p \in Masters'
    BY <2>2, <2>9 DEF Masters
  <2>11. Renewed'
    BY <2>1, <2>7, <2>10 DEF Renewed, ReplicaPods
  <2>12. ShardServed'
    <3> SUFFICES ASSUME NEW s \in Shard PROVE \E q \in PodsOf(s) : Serving(q)'
      BY DEF ShardServed
    <3>1. CASE s = p[1]
      BY <1>0, <2>1, <2>2, <2>10, <3>1 DEF Serving
    <3>2. CASE s # p[1]
      <4>1. PICK q \in PodsOf(s) : Serving(q)
        BY DEF Undisturbed, ShardServed
      <4>2. q \notin PodsOf(p[1])
        BY <3>2 DEF PodsOf
      <4>3. q \in Masters => q \in Masters'
        <5>1. master[p[1]] \in PodsOf(p[1])
          BY <2>2, MasterOf
        <5> QED BY <2>10, <4>2, <5>1
      <4> QED BY <2>1, <4>1, <4>2, <4>3 DEF Serving
    <3> QED BY <3>1, <3>2
  <2> QED BY <1>o, <2>7, <2>11, <2>12 DEF Undisturbed, Waiting
<1>2. CASE PodBack
  <2>1. PICK p \in Pod \ up : /\ up' = up \cup {p} /\ old' = old \ {p}
                              /\ UNCHANGED << stopping, master, synced, conn >>
    BY <1>2 DEF PodBack
  <2>2. up # Pod
    BY <2>1
  <2>3. ~Untouched /\ ~AllReady
    BY <2>1, MastersArePods DEF Untouched, AllReady, ReplicaPods, TypeOK
  <2>4. ReplicaPods' = ReplicaPods /\ Masters' = Masters
    BY <2>1 DEF ReplicaPods, Masters
  <2>5. ShardServed'
    BY <2>1, ServedMore DEF Undisturbed
  <2>6. CASE pc \in {"slaves", "slave", "masters"}
    <3>1. Replacing /\ revs = NumSts
      BY <2>3, <2>6 DEF Undisturbed, Checking
    <3>2. Replacing'
      BY <1>o, <2>1, <2>4, <3>1 DEF Replacing
    <3> QED BY <1>o, <2>5, <2>6, <3>1, <3>2 DEF Undisturbed
  <2>7. CASE pc \notin {"slaves", "slave", "masters"}
    <3>1. Waiting /\ Renewed /\ pc # "roles"
      BY <2>3, <2>7 DEF Undisturbed, Waiting
    <3>2. Renewed'
      BY <2>1, <2>4, <3>1 DEF Renewed
    <3> QED BY <1>o, <2>5, <2>7, <3>1, <3>2 DEF Undisturbed, Waiting
  <2> QED BY <2>6, <2>7
<1>3. CASE Resync
  <2>1. synced \subseteq synced' /\ UNCHANGED << up, stopping, old, master, conn >>
    BY <1>3 DEF Resync
  <2>2. ReplicaPods' = ReplicaPods /\ Masters' = Masters
    BY <2>1 DEF ReplicaPods, Masters
  <2>3. ShardServed'
    BY <2>1, ServedMore DEF Undisturbed
  <2>4. (Untouched => Untouched') /\ (Renewed => Renewed') /\ (AllReady => AllReady')
    BY <2>1, <2>2 DEF Untouched, Renewed, AllReady
  <2>5. Replacing => Replacing'
    BY <1>o, <2>1, <2>2 DEF Replacing
  <2>6. Checking => Checking'
    BY <1>o, <2>2, <2>4 DEF Checking
  <2>7. Waiting => Waiting'
    BY <1>o, <2>4 DEF Waiting
  <2> QED BY <1>o, <2>3, <2>5, <2>6, <2>7 DEF Undisturbed
<1> QED BY <1>0, <1>1, <1>2, <1>3 DEF Settle, FailoverStep

LEMMA UndisturbedRoles ==
  ASSUME TypeOK, IInv, Undisturbed, getRedisIPsByRole, hit' = {} PROVE Undisturbed'
<1>1. /\ pc = "roles" /\ pc' = "slaves" /\ conn = Pod /\ masters' = Masters
      /\ slaves' = ReplicaPods /\ seen' = old /\ revs' = NumSts
      /\ UNCHANGED << up, stopping, old, master, synced, conn, cur, ok, updated >>
  BY DEF getRedisIPsByRole, Fault, ReplicaPods, podVars
<1>2. Waiting /\ AllReady /\ up = Pod
  BY <1>1 DEF Undisturbed, Waiting, TypeOK
<1>3. /\ ReplicaPods' = ReplicaPods /\ Masters' = Masters
      /\ Renewed' = Renewed /\ AllReady' = AllReady
  BY <1>1, SamePods
<1>4. ShardServed'
  BY <1>1, ServedMore DEF Undisturbed
<1>5. CASE Untouched
  <2>1. Replacing'
    BY <1>1, <1>2, <1>3, <1>5 DEF Replacing, Untouched, Waiting, AllReady, ReplicaPods
  <2> QED BY <1>1, <1>4, <2>1 DEF Undisturbed
<1>6. CASE Renewed
  <2>1. Checking'
    BY <1>1, <1>2, <1>3, <1>6 DEF Checking, Renewed, Waiting, ReplicaPods
  <2> QED BY <1>1, <1>4, <2>1 DEF Undisturbed
<1> QED BY <1>2, <1>5, <1>6 DEF Waiting

LEMMA UndisturbedReady ==
  ASSUME TypeOK, IInv, Undisturbed, IsSlaveReady PROVE Undisturbed'
<1>1. PICK p \in slaves \cap conn :
       /\ slaves' = slaves \ {p}
       /\ ok' = Linked(p)
       /\ IF Linked(p) THEN cur' = {p} /\ pc' = "slave" ELSE UNCHANGED << cur, pc >>
  BY DEF IsSlaveReady
<1>2. /\ pc = "slaves" /\ cur = {}
      /\ UNCHANGED << up, stopping, old, master, synced, conn, seen, revs, masters, updated >>
  BY DEF IsSlaveReady, podVars, IInv, VisitedOnce
<1>3. /\ ReplicaPods' = ReplicaPods /\ Masters' = Masters
      /\ Renewed' = Renewed /\ AllReady' = AllReady
  BY <1>2, SamePods
<1>4. ShardServed'
  BY <1>2, ServedMore DEF Undisturbed
<1>5. revs = NumSts
  BY <1>2 DEF Undisturbed
<1>6. CASE Replacing
  <2>1. p \in ReplicaPods /\ p \in synced /\ Masters \subseteq up /\ p \in Pod
    BY <1>6 DEF Replacing, ReplicaPods
  <2>2. Linked(p)
    BY <2>1, PodShard, MasterOf DEF Linked, ReplicaPods
  <2>3. Replacing'
    BY <1>1, <1>2, <1>3, <1>6, <2>2 DEF Replacing
  <2> QED BY <1>1, <1>2, <1>4, <1>5, <2>2, <2>3 DEF Undisturbed
<1>7. CASE Checking
  <2>1. Checking'
    BY <1>1, <1>2, <1>3, <1>7 DEF Checking
  <2>2. pc' \in {"slaves", "slave"}
    BY <1>1, <1>2
  <2> QED BY <1>2, <1>4, <1>5, <2>1, <2>2 DEF Undisturbed
<1> QED BY <1>2, <1>6, <1>7 DEF Undisturbed

LEMMA UndisturbedSlave ==
  ASSUME TypeOK, IInv, Undisturbed, updateSlave, hit' = {} PROVE Undisturbed'
<1>1. PICK p \in cur, result \in Result :
       /\ updatePodIfNeeded(p, "slave", result)
       /\ IF result = "error" THEN Return
          ELSE /\ updated' = (result = "deleted")
               /\ cur' = {}
               /\ pc' = "slaves"
               /\ UNCHANGED << seen, revs, slaves, masters, ok >>
  BY DEF updateSlave
<1>2. /\ pc = "slave" /\ \A q \in cur : q = p
      /\ cur \cap slaves = {}
  BY DEF updateSlave, IInv, VisitedOnce
<1>3. revs = NumSts /\ stopping = {}
  BY <1>2 DEF Undisturbed, IInv, ListIsFresh
<1>v. \/ result = "deleted" /\ p \in seen /\ p \in up /\ Stop(p)
      \/ result = "deleted" /\ p \in seen /\ p \notin up /\ UNCHANGED podVars
      \/ /\ result = "kept" /\ p \notin seen
         /\ UNCHANGED << up, stopping, old, master, synced, conn >>
      \/ result = "error" /\ p \notin conn /\ UNCHANGED podVars
  BY <1>1, Visit
<1>4. CASE Replacing
  <2>1. p \in ReplicaPods /\ p \in seen /\ p \in conn /\ p \in up
    BY <1>4 DEF Replacing, TypeOK
  <2>2. result = "deleted" /\ Stop(p)
    BY <1>v, <2>1
  <2>3. /\ up' = up \ {p} /\ stopping' = {} /\ synced' = synced \ {p} /\ conn' = conn \ {p}
        /\ UNCHANGED << old, master >>
    BY <1>3, <2>2 DEF Stop
  <2>4. ReplicaPods' = ReplicaPods /\ Masters' = Masters
    BY <2>3 DEF ReplicaPods, Masters
  <2>5. Masters \subseteq up'
    BY <1>4, <2>1, <2>3 DEF Replacing, ReplicaPods
  <2>6. ShardServed'
    BY <2>3, <2>5, ServedByMasters
  <2>7. p \notin slaves
    BY <1>2
  <2>8. /\ updated' = TRUE /\ cur' = {} /\ pc' = "slaves"
        /\ UNCHANGED << seen, revs, slaves >>
    BY <1>1, <2>2
  <2>9. Replacing'
    BY <1>2, <1>4, <2>3, <2>4, <2>5, <2>7, <2>8 DEF Replacing
  <2> QED BY <1>3, <2>6, <2>8, <2>9 DEF Undisturbed
<1>5. CASE Checking
  <2>1. p \in ReplicaPods /\ p \notin seen /\ p \in conn
    BY <1>5 DEF Checking, AllReady, ReplicaPods
  <2>2. result = "kept" /\ UNCHANGED << up, stopping, old, master, synced, conn >>
    BY <1>v, <2>1
  <2>3. /\ ReplicaPods' = ReplicaPods /\ Masters' = Masters
        /\ Renewed' = Renewed /\ AllReady' = AllReady
    BY <2>2, SamePods
  <2>4. ShardServed'
    BY <2>2, ServedMore DEF Undisturbed
  <2>5. cur' = {} /\ pc' = "slaves" /\ UNCHANGED << seen, revs, slaves, masters, ok >>
    BY <1>1, <2>2
  <2>6. Checking'
    BY <1>5, <2>3, <2>5 DEF Checking
  <2> QED BY <1>3, <2>4, <2>5, <2>6 DEF Undisturbed
<1> QED BY <1>2, <1>4, <1>5 DEF Undisturbed

LEMMA UndisturbedSlavesDone ==
  ASSUME TypeOK, IInv, Undisturbed, slavesDone PROVE Undisturbed'
<1>1. /\ pc = "slaves" /\ slaves = {} /\ cur = {}
      /\ UNCHANGED << up, stopping, old, master, synced, conn >>
  BY DEF slavesDone, podVars, IInv, VisitedOnce
<1>2. /\ ReplicaPods' = ReplicaPods /\ Masters' = Masters
      /\ Untouched' = Untouched /\ Renewed' = Renewed /\ AllReady' = AllReady
  BY <1>1, SamePods
<1>3. ShardServed'
  BY <1>1, ServedMore DEF Undisturbed
<1>4. Renewed
  BY <1>1 DEF Undisturbed, Replacing, Checking, Renewed
<1>5. CASE updated \/ ~ok
  BY <1>2, <1>3, <1>4, <1>5, WaitingAgain DEF slavesDone
<1>6. CASE ~(updated \/ ~ok)
  <2>1. Checking /\ ok /\ revs = NumSts
    BY <1>1, <1>6 DEF Undisturbed, Replacing
  <2>2. pc' = "masters" /\ UNCHANGED << seen, revs, slaves, masters, cur, ok >>
    BY <1>6 DEF slavesDone
  <2>3. Checking'
    BY <1>2, <2>1, <2>2 DEF Checking
  <2> QED BY <1>3, <2>1, <2>2, <2>3 DEF Undisturbed
<1> QED BY <1>5, <1>6

LEMMA UndisturbedMaster ==
  ASSUME TypeOK, IInv, Undisturbed, updateMaster, hit' = {} PROVE Undisturbed'
<1>1. PICK p \in masters, result \in Result :
       /\ updatePodIfNeeded(p, "master", result)
       /\ IF result = "deleted" THEN Return
          ELSE /\ masters' = masters \ {p}
               /\ UNCHANGED << pc, seen, revs, slaves, cur, ok >>
  BY DEF updateMaster
<1>2. pc = "masters" /\ revs = NumSts /\ Checking /\ ok
  BY DEF updateMaster, Undisturbed, Replacing, Checking
<1>3. /\ p \in Masters /\ up = Pod /\ ReplicaPods \subseteq synced /\ stopping = {}
      /\ ReplicaPods # {} /\ Renewed /\ p \notin ReplicaPods
  BY <1>2 DEF Checking, AllReady, TypeOK, IInv, ListIsFresh, ReplicaPods
<1>v. \/ result = "deleted" /\ p \in seen /\ p \in up /\ Stop(p)
      \/ result = "deleted" /\ p \in seen /\ p \notin up /\ UNCHANGED podVars
      \/ /\ result = "kept" /\ p \notin seen
         /\ UNCHANGED << up, stopping, old, master, synced, conn >>
      \/ result = "error" /\ p \notin conn /\ UNCHANGED podVars
  BY <1>1, Visit
<1>4. CASE Stop(p) /\ result = "deleted"
  <2>1. /\ up' = up \ {p} /\ stopping' = {} /\ synced' = synced \ {p}
        /\ UNCHANGED << old, master >>
    BY <1>3, <1>4 DEF Stop
  <2>2. ReplicaPods' = ReplicaPods /\ Masters' = Masters
    BY <2>1 DEF ReplicaPods, Masters
  <2>3. Renewed'
    BY <1>3, <2>1, <2>2 DEF Renewed
  <2>4. ReplicaPods \subseteq up' /\ ReplicaPods \subseteq synced'
    BY <1>3, <2>1 DEF ReplicaPods
  <2>5. ShardServed'
    <3> SUFFICES ASSUME NEW s \in Shard PROVE \E q \in PodsOf(s) : Serving(q)'
      BY DEF ShardServed
    <3>1. PICK q \in PodsOf(s) : q \in ReplicaPods
      BY <1>3, ReplicaOf
    <3> QED BY <2>1, <2>4, <3>1 DEF Serving
  <2> QED BY <1>1, <1>4, <2>3, <2>5, WaitingAgain
<1>5. CASE UNCHANGED << up, stopping, old, master, synced, conn >>
  <2>1. /\ ReplicaPods' = ReplicaPods /\ Masters' = Masters
        /\ Renewed' = Renewed /\ AllReady' = AllReady
    BY <1>5, SamePods
  <2>2. ShardServed'
    BY <1>5, ServedMore DEF Undisturbed
  <2>3. CASE result = "deleted"
    BY <1>1, <1>3, <2>1, <2>2, <2>3, WaitingAgain
  <2>4. CASE result # "deleted"
    <3>1. masters' \subseteq masters /\ UNCHANGED << pc, seen, revs, slaves, cur, ok >>
      BY <1>1, <2>4
    <3>2. Checking'
      BY <1>2, <2>1, <3>1 DEF Checking
    <3> QED BY <1>2, <2>2, <3>1, <3>2 DEF Undisturbed
  <2> QED BY <2>3, <2>4
<1> QED BY <1>v, <1>4, <1>5 DEF podVars

LEMMA UndisturbedInit == Init => Undisturbed
<1> SUFFICES ASSUME Init PROVE Undisturbed
  OBVIOUS
<1>1. TypeOK /\ Masters \subseteq Pod
  BY TypeInit, MastersArePods
<1>2. ShardServed
  BY <1>1, MasterOf DEF ShardServed, Serving, Init, PodsOf
<1>3. Untouched
  BY <1>1 DEF Untouched, ReplicaPods, Init
<1> QED BY <1>2, <1>3 DEF Init, Undisturbed, Waiting

LEMMA UndisturbedNext ==
  ASSUME TypeOK, IInv, Undisturbed, [Next]_vars, hit' = {} PROVE Undisturbed'
<1>f. \A kind : ~Fault(kind)
  BY DEF Fault
<1>p. UNCHANGED podVars => UNCHANGED << up, stopping, old, master, synced, conn >>
  BY DEF podVars
<1>s. ASSUME UNCHANGED << up, stopping, old, master, synced, conn >>
      PROVE  /\ ShardServed' /\ ReplicaPods' = ReplicaPods /\ Masters' = Masters
             /\ Untouched' = Untouched /\ Renewed' = Renewed /\ AllReady' = AllReady
  BY <1>s, SamePods, ServedMore DEF Undisturbed
<1>r. ASSUME Return, UNCHANGED podVars, Untouched \/ Renewed PROVE Undisturbed'
  BY <1>p, <1>r, <1>s, WaitingAgain
<1>1. CASE GetStatefulSetPods
  <2>1. /\ UNCHANGED << up, stopping, old, master, synced, slaves, masters, cur, ok >>
        /\ pc = "idle" /\ pc' = "ready"
    BY <1>1 DEF GetStatefulSetPods
  <2>2. ShardServed'
    BY <2>1, ServedMore DEF Undisturbed
  <2>3. Untouched' = Untouched /\ Renewed' = Renewed
    BY <2>1 DEF Untouched, Renewed, ReplicaPods, Masters
  <2> QED BY <2>1, <2>2, <2>3 DEF Undisturbed, Waiting
<1>2. CASE waitPodReady \/ CheackandUpdateClusterHealth
  <2>1. pc \in {"ready", "health"} /\ Waiting
    BY <1>2 DEF waitPodReady, CheackandUpdateClusterHealth, Undisturbed
  <2>2. UNCHANGED podVars
    BY <1>2 DEF waitPodReady, CheackandUpdateClusterHealth
  <2>3. CASE Return
    BY <1>r, <2>1, <2>2, <2>3 DEF Waiting
  <2>4. CASE ~Return
    <3>1. /\ UNCHANGED << slaves, masters, cur, ok >>
          /\ pc' = "health" \/ (pc' = "roles" /\ HealthOk)
      BY <1>2, <2>4 DEF waitPodReady, CheackandUpdateClusterHealth
    <3>2. HealthOk => AllReady
      BY DEF HealthOk, AllReady, ReplicaPods, Linked
    <3> QED BY <1>p, <1>s, <2>1, <2>2, <3>1, <3>2 DEF Undisturbed, Waiting
  <2> QED BY <2>3, <2>4
<1>3. CASE getRedisIPsByRole
  BY <1>3, UndisturbedRoles
<1>4. CASE getRedisIPsByRoleError
  BY <1>4, <1>r DEF getRedisIPsByRoleError, Undisturbed, Waiting
<1>5. CASE IsSlaveReady
  BY <1>5, UndisturbedReady
<1>6. CASE IsSlaveReadyError
  <2>1. pc = "slaves" /\ ~(slaves \subseteq conn) /\ slaves \subseteq Pod
    BY <1>6 DEF IsSlaveReadyError, TypeOK
  <2> QED BY <2>1 DEF Undisturbed, Replacing, Checking, AllReady
<1>7. CASE updateSlave
  BY <1>7, UndisturbedSlave
<1>8. CASE slavesDone
  BY <1>8, UndisturbedSlavesDone
<1>9. CASE revisionMissing
  <2>1. revs = NumSts /\ \E p \in cur \cup masters : p[1] >= revs
    BY <1>9 DEF revisionMissing, Undisturbed
  <2>2. \A p \in cur \cup masters : p[1] \in 0 .. NumSts - 1
    BY PodShard DEF TypeOK, Shard
  <2> QED BY <2>1, <2>2, RollingUpdateAssumption
<1>10. CASE updateMaster
  BY <1>10, UndisturbedMaster
<1>11. CASE mastersDone
  <2>1. Renewed
    BY <1>11 DEF mastersDone, Undisturbed, Replacing, Checking
  <2> QED BY <1>11, <1>r, <2>1 DEF mastersDone
<1>12. CASE Crash \/ PodRestart \/ EditSpec
  BY <1>12, <1>f DEF Crash, PodRestart, EditSpec
<1>13. CASE Settle \/ FailoverStep
  BY <1>13, UndisturbedPods
<1>14. CASE UNCHANGED vars
  <2>1. UNCHANGED << pc, seen, revs, slaves, masters, cur, ok, updated >> /\ UNCHANGED podVars
    BY <1>14 DEF vars, opVars
  <2>2. UNCHANGED << up, stopping, old, master, synced, conn >>
    BY <1>p, <2>1
  <2>3. Waiting => Waiting'
    BY <1>s, <2>1, <2>2 DEF Waiting
  <2>4. Replacing => Replacing'
    BY <1>s, <2>1, <2>2 DEF Replacing
  <2>5. Checking => Checking'
    BY <1>s, <2>1, <2>2 DEF Checking
  <2> QED BY <1>s, <2>1, <2>2, <2>3, <2>4, <2>5 DEF Undisturbed
<1> QED
  BY <1>1, <1>2, <1>3, <1>4, <1>5, <1>6, <1>7, <1>8, <1>9, <1>10, <1>11, <1>12, <1>13, <1>14
  DEF Next, Operator

\* Without disturbances, whatever the number of shards and replicas, every shard has at
\* every moment of the update a pod that serves its data: checkandUpdatePods, which asks
\* only about the last replica it visited, still deletes all replicas or none before it
\* turns to the masters, and deletes a master only while all replicas are in sync.
THEOREM UpdateKeepsShardsServed == Spec => []ShardServedUndisturbed
<1> DEFINE Inv == TypeOK /\ (PodsObey => IInv) /\ UndisturbedInv
<1>1. Init => Inv
  BY TypeInit, UndisturbedInit
  DEF Init, IInv, ListIsFresh, VisitedOnce, Pending, UndisturbedInv
<1>2. Inv /\ [Next]_vars => Inv'
  <2> SUFFICES ASSUME Inv, [Next]_vars PROVE Inv'
    OBVIOUS
  <2>1. TypeOK' /\ (PodsObey => IInv)'
    BY TypeNext, HitGrows, IInvNext DEF PodsObey
  <2>2. ASSUME hit' = {} PROVE Undisturbed'
    <3>1. hit = {}
      BY <2>2, HitGrows
    <3> QED BY <2>2, <3>1, UndisturbedNext DEF UndisturbedInv, PodsObey
  <2> QED BY <2>1, <2>2 DEF UndisturbedInv
<1>3. Inv => ShardServedUndisturbed
  BY DEF UndisturbedInv, Undisturbed, ShardServedUndisturbed
<1> QED BY <1>1, <1>2, <1>3, PTL DEF Spec
=============================================================================
