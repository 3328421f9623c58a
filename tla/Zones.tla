-------------------------------- MODULE Zones --------------------------------
(***************************************************************************)
(* The part of Reconcile that keeps a cluster whole and spread over the    *)
(* availability zones: healing (controllers/heal), joining, placing        *)
(* masters and replicas (clustering/placement_v2.go), the health and HA    *)
(* status (status.go), and the redistribution a user asks for with the     *)
(* annotation reDistributeNode: replicas in a crowded zone are deleted,    *)
(* then a replica in the zone of every displaced master is promoted.       *)
(*                                                                         *)
(* A pod keeps its data in an emptyDir (redisVolumes' default): one that   *)
(* starts is a new Redis node, and its old node id is left behind in the   *)
(* views of the others.  Scheduler, replication and failover are external. *)
(***************************************************************************)
EXTENDS Integers, FiniteSets, FiniteSetsExt

CONSTANTS
  NumSts,      \* Spec.MasterSize: one StatefulSet per shard
  Replicas,    \* Spec.ClusterReplicas
  NumZones,    \* len(Spec.HaConfig.ZonesInfo)
  None,
  Faults,      \* the kinds of fault that happen: a subset of FaultKind
  MaxFaults,   \* bound on the number of faults in a behaviour
  MaxAsks      \* bound on how often a user sets the annotation

\* "zone": the nodes of a zone disappear.  "restart": a pod goes down by itself.
\* "early": a pod is back before a replica has taken over from its old node.
\* "failover": a replica takes over from a master that is up.  "silent": a node
\* does not answer once.  "redis": a command fails.  "expired": a failover that
\* was accepted times out.  "forget": CLUSTER FORGET fails on the way.  "k8s": a
\* request to the API server fails.  "crash": the operator dies.
FaultKind == {"zone", "restart", "early", "failover", "silent", "redis",
              "expired", "forget", "k8s", "crash"}

\* "homeless": a creation finds no pod in the zone of a master.  "crowded": the
\* nodes to delete do not add up.  "stale": a replica was deleted that had taken
\* over, or had lost its master, since the cluster infos were read.  "late": a
\* failover of an earlier reconcile took place in a shard of which this one has a
\* pod to delete or to promote.  "free": a shard without data was given a master
\* but not its slots.
EventKind == {"homeless", "crowded", "stale", "late", "free"}

\* The faults that a property makes an exception for.
Excused == {"early", "failover", "redis", "expired"}

Shard == 0 .. NumSts - 1
Pod == Shard \X (0 .. Replicas)
PodsOf(s) == {p \in Pod : p[1] = s}
Zone == 0 .. NumZones - 1

\* An old node id: whose it was, and its role in the views of the others.
Ghost == Pod \X {"master", "slave"}

\* "alone": has not met the others; "meeting": in handshake with them; "empty": a
\* master without slots.
NodeKind == {"down", "alone", "meeting", "empty", "slave", "master"}
Outside == {"alone", "meeting"}

\* validateAndSetDefault: as many pods of a shard as there are zones.
ASSUME ZonesAssumption ==
  /\ NumSts \in Nat \ {0}
  /\ Replicas \in Nat
  /\ NumZones = Replicas + 1
  /\ None \notin Zone /\ None \notin NodeKind
  /\ Faults \subseteq FaultKind
  /\ MaxFaults \in Nat
  /\ MaxAsks \in Nat

VARIABLES
  zone,      \* zone[p]: where pod p runs, None when it does not
  zones,     \* the zones that have nodes
  node,      \* node[p]: what the Redis node of p is
  synced,    \* replicas that have the data of their shard
  scheduled, \* replicas whose CLUSTER FAILOVER is under way
  ghosts,    \* ghosts[g]: the pods that list the old node id g as failed
  strays,    \* pods that went while the others were in handshake with them
  annot,     \* the annotation reDistributeNode is "true"
  creating,  \* Status.HAStatus is "hacreating"
  pc,        \* what the reconcile does next
  asked,     \* the annotation as the reconcile has read it
  listed,    \* the pods it has listed and not deleted
  conn,      \* those that still have the address it has read
  view,      \* view[p]: what the first cluster infos say of p
  todo,      \* pods to delete or replicas to promote
  asks,      \* number of times the annotation was set
  faults,    \* number of faults so far
  hit        \* the events and excused faults so far

clusterVars == << zone, node, synced, scheduled, ghosts, strays >>
userVars == << annot, asks >>
opVars == << pc, asked, listed, view, todo >>
faultVars == << faults, hit >>
vars == << clusterVars, zones, creating, userVars, opVars, conn, faultVars >>

PC == {"idle", "ready", "heal", "join", "sync", "infos",
       "delete", "failover", "annotate"}

Seen == (NodeKind \ {"down"}) \cup {None}

Unseen == [p \in Pod |-> None]

TypeOK ==
  /\ zone \in [Pod -> Zone \cup {None}]
  /\ zones \subseteq Zone
  /\ node \in [Pod -> NodeKind]
  /\ \A p \in Pod : (zone[p] = None) = (node[p] = "down")
  /\ \A s \in Shard : Cardinality({p \in PodsOf(s) : node[p] = "master"}) <= 1
  /\ synced \subseteq {p \in Pod : node[p] = "slave"} /\ scheduled \subseteq synced
  /\ ghosts \in [Ghost -> SUBSET Pod]
  /\ strays \subseteq Pod
  /\ annot \in BOOLEAN /\ creating \in BOOLEAN /\ asked \in BOOLEAN
  /\ pc \in PC
  /\ conn \subseteq listed /\ listed \subseteq Pod
  /\ view \in [Pod -> Seen]
  /\ todo \subseteq Pod
  /\ asks \in 0 .. MaxAsks
  /\ faults \in 0 .. MaxFaults /\ hit \subseteq Excused \cup EventKind

Up == {p \in Pod : node[p] # "down"}
MasterOf(s) == {p \in PodsOf(s) : node[p] = "master"}
Copies(s) == MasterOf(s) \cup (synced \cap PodsOf(s))
Formed(s) == Copies(s) # {}

\* The pods of a new cluster: new nodes, one of every StatefulSet in each zone as
\* far as there are zones.
Init ==
  /\ zone = [p \in Pod |-> p[2] % NumZones]
  /\ zones = Zone
  /\ node = [p \in Pod |-> "alone"]
  /\ synced = {} /\ scheduled = {}
  /\ ghosts = [g \in Ghost |-> {}]
  /\ strays = {}
  /\ annot = FALSE /\ asks = 0
  /\ creating = TRUE
  /\ pc = "idle" /\ asked = FALSE /\ listed = {} /\ conn = {}
  /\ view = Unseen /\ todo = {}
  /\ faults = 0 /\ hit = {}

Fault(kind) ==
  /\ kind \in Faults
  /\ faults < MaxFaults
  /\ faults' = faults + 1
  /\ hit' = hit \cup ({kind} \cap Excused)

Event(kind) == hit' = hit \cup {kind} /\ UNCHANGED faults

\* Reconcile returns and is queued again.
Return ==
  /\ pc' = "idle" /\ asked' = FALSE /\ listed' = {} /\ conn' = {}
  /\ view' = Unseen /\ todo' = {}

-----------------------------------------------------------------------------
(* Pods, zones, replication and the user.                                  *)

\* The pods of P are gone, their data and their node ids with them.
Stop(P) ==
  /\ zone' = [p \in Pod |-> IF p \in P THEN None ELSE zone[p]]
  /\ node' = [p \in Pod |-> IF p \in P THEN "down" ELSE node[p]]
  /\ synced' = synced \ P /\ scheduled' = scheduled \ P
  /\ conn' = conn \ P
  /\ ghosts' =
       [g \in Ghost |->
          (ghosts[g] \cup (IF g[1] \in P /\ node[g[1]] \notin Outside
                              /\ (g[2] = "slave") = (node[g[1]] = "slave")
                           THEN {q \in Up : node[q] \notin Outside} ELSE {})) \ P]
  /\ strays' = strays \cup {p \in P : node[p] = "meeting"}

\* Faults of the environment leave a copy of every shard.
SparesCopies(P) == \A s \in Shard : Formed(s) => Copies(s) \ P # {}

ZoneFails ==
  \E z \in zones :
    /\ SparesCopies({p \in Pod : zone[p] = z})
    /\ Fault("zone")
    /\ zones' = zones \ {z}
    /\ Stop({p \in Pod : zone[p] = z})
    /\ UNCHANGED << creating, userVars, opVars >>

PodRestart ==
  /\ \E p \in Up : SparesCopies({p}) /\ Stop({p})
  /\ Fault("restart")
  /\ UNCHANGED << zones, creating, userVars, opVars >>

\* getTopolgyspreadConstraints: maxSkew 1 over the zones that have nodes,
\* DoNotSchedule, counted per StatefulSet.
Allowed(p, z) ==
  LET Count(y) == Cardinality({q \in PodsOf(p[1]) : zone[q] = y})
  IN \A y \in zones : Count(z) + 1 - Count(y) <= 1

\* The first missing pod of a StatefulSet is created and scheduled, with an empty
\* data directory.
PodStarts ==
  \E p \in Pod \ Up, z \in zones :
    /\ \A q \in PodsOf(p[1]) \ Up : p[2] <= q[2]
    /\ Allowed(p, z)
    /\ IF Formed(p[1]) /\ MasterOf(p[1]) = {} THEN Fault("early") ELSE UNCHANGED faultVars
    /\ zone' = [zone EXCEPT ![p] = z]
    /\ node' = [node EXCEPT ![p] = "alone"]
    /\ UNCHANGED << synced, scheduled, ghosts, strays, zones, creating, userVars, opVars, conn >>

ZoneBack ==
  /\ \E z \in Zone \ zones : zones' = zones \cup {z}
  /\ UNCHANGED << clusterVars, creating, userVars, opVars, conn, faultVars >>

\* A replica gets in sync with its master.
Resync ==
  /\ \E p \in Pod \ synced : node[p] = "slave" /\ MasterOf(p[1]) # {} /\ synced' = synced \cup {p}
  /\ UNCHANGED << zone, node, scheduled, ghosts, strays, zones, creating, userVars, opVars, conn,
                  faultVars >>

\* The handshake of a node that was met succeeds.
Join ==
  /\ \E p \in Pod : node[p] = "meeting" /\ node' = [node EXCEPT ![p] = "empty"]
  /\ UNCHANGED << zone, synced, scheduled, ghosts, strays, zones, creating, userVars, opVars, conn,
                  faultVars >>

\* The handshakes with pods that are gone time out.
HandshakeTimeout ==
  /\ strays # {} /\ strays' = {}
  /\ UNCHANGED << zone, node, synced, scheduled, ghosts, zones, creating, userVars, opVars, conn,
                  faultVars >>

\* p becomes the master of its shard; the others get in sync with it anew and drop
\* a failover they were to make.
TakeOver(p) ==
  /\ node' = [q \in Pod |-> IF q = p THEN "master"
                            ELSE IF q \in MasterOf(p[1]) THEN "slave" ELSE node[q]]
  /\ synced' = synced \ PodsOf(p[1])
  /\ scheduled' = scheduled \ PodsOf(p[1])
  /\ UNCHANGED << zone, ghosts, strays >>

Failover ==
  /\ \E p \in synced : MasterOf(p[1]) = {} /\ TakeOver(p)
  /\ UNCHANGED << zones, creating, userVars, opVars, conn, faultVars >>

FailoverOfLive ==
  /\ \E p \in synced : MasterOf(p[1]) # {} /\ TakeOver(p)
  /\ Fault("failover")
  /\ UNCHANGED << zones, creating, userVars, opVars, conn >>

\* The failover that CLUSTER FAILOVER began: the replica has caught up with its
\* master and takes over.
ManualFailover ==
  /\ \E p \in scheduled :
       /\ MasterOf(p[1]) # {} /\ TakeOver(p)
       /\ IF \E q \in todo : q[1] = p[1] THEN Event("late") ELSE UNCHANGED faultVars
  /\ UNCHANGED << zones, creating, userVars, opVars, conn >>

\* It times out, which nobody is told; always when the master is gone.
ManualFailoverTimeout ==
  /\ \E p \in scheduled :
       /\ scheduled' = scheduled \ {p}
       /\ IF MasterOf(p[1]) # {} THEN Fault("expired") ELSE UNCHANGED faultVars
  /\ UNCHANGED << zone, node, synced, ghosts, strays, zones, creating, userVars, opVars, conn >>

Ask ==
  /\ ~annot /\ asks < MaxAsks
  /\ annot' = TRUE /\ asks' = asks + 1
  /\ UNCHANGED << clusterVars, zones, creating, opVars, conn, faultVars >>

-----------------------------------------------------------------------------
(* Reconcile: the pods, healing, joining.                                  *)

\* The pods that run.
clusterPods == Up

\* The resource is read, the running pods are listed and connected to.
GetStatefulSetPods ==
  /\ pc = "idle"
  /\ asked' = annot
  /\ listed' = clusterPods /\ conn' = clusterPods
  /\ pc' = "ready"
  /\ UNCHANGED << clusterVars, zones, creating, userVars, view, todo, faultVars >>

\* Mutant: the reconcile goes on without all pods.
waitPodReadyNot ==
  /\ pc = "ready"
  /\ pc' = "heal"
  /\ UNCHANGED << asked, listed, view, todo, conn, clusterVars, zones, creating, userVars, faultVars >>

\* CheckRedisNodeNum looks at the StatefulSets, after the pods were listed.
waitPodReady ==
  /\ pc = "ready"
  /\ IF Up = Pod
     THEN pc' = "heal" /\ UNCHANGED << asked, listed, view, todo, conn >>
     ELSE Return
  /\ UNCHANGED << clusterVars, zones, creating, userVars, faultVars >>

Threshold == ((Replicas + 1) * NumSts) \div 2

\* The node ids that enough of the listed nodes see as failed.
listGhostNodes == {g \in Ghost : Cardinality(ghosts[g] \cap listed) >= Threshold /\ ghosts[g] # {}}

\* The replicas that ForgetNode resets and meets again: their master's id is
\* forgotten before one of them has taken over.
Detached == {q \in listed : node[q] = "slave" /\ MasterOf(q[1]) = {}
                              /\ \E g \in listGhostNodes : g[2] = "master" /\ g[1][1] = q[1]}

\* GetClusterInfos fails when a listed node is gone; that ends the reconcile.
\* FixFailedNodes: CLUSTER FORGET of every ghost on every node, DetachSlave of its
\* replicas; the reconcile ends.  An error ends ForgetNode, so that a part of the
\* nodes still lists the ghost.  A master that is not yet seen as failed by the
\* majority, because no replica has taken over, may be passed over.
FixFailedNodes ==
  /\ pc = "heal" /\ conn = listed
  /\ listGhostNodes # {}
  /\ \/ /\ ghosts' = [g \in Ghost |-> IF g \in listGhostNodes THEN ghosts[g] \ listed ELSE ghosts[g]]
        /\ UNCHANGED faultVars
     \/ /\ \E Q \in SUBSET listed :
             ghosts' = [g \in Ghost |-> IF g \in listGhostNodes THEN ghosts[g] \ Q ELSE ghosts[g]]
        /\ Fault("forget")
  /\ node' = [q \in Pod |-> IF q \in Detached THEN "meeting" ELSE node[q]]
  /\ synced' = synced \ Detached /\ scheduled' = scheduled \ Detached
  /\ Return
  /\ UNCHANGED << zone, strays, zones, creating, userVars >>

Role(p) == IF p \in conn THEN node[p] ELSE None

\* The nodes some node is in handshake with, under a temporary id.
listUntrustedNodes == {p \in listed : node[p] = "meeting"} \cup strays

\* A node in handshake is left alone if another id is read at its address, which is
\* the case for every pod that runs.  The others are forgotten; their pods stay,
\* since no pod name is known of them here.
FixUntrustedNodes ==
  /\ pc = "heal" /\ conn = listed
  /\ listGhostNodes = {} /\ listUntrustedNodes \cap strays # {}
  /\ strays' = strays \ listUntrustedNodes
  /\ Return
  /\ UNCHANGED << zone, node, synced, scheduled, ghosts, zones, creating, userVars, faultVars >>

\* Nothing to heal: the infos that were read are used until the next ones.
Healed ==
  /\ pc = "heal" /\ conn = listed
  /\ \A g \in listGhostNodes : g[2] = "master" /\ Formed(g[1][1]) /\ MasterOf(g[1][1]) = {}
  /\ strays = {}
  /\ view' = [p \in Pod |-> Role(p)]
  /\ pc' = "join"
  /\ UNCHANGED << clusterVars, zones, creating, userVars, asked, listed, conn, todo, faultVars >>

Heal == FixFailedNodes \/ FixUntrustedNodes \/ Healed

GetClusterInfosError ==
  /\ pc = "heal" /\ conn # listed
  /\ Return
  /\ UNCHANGED << clusterVars, zones, creating, userVars, faultVars >>

Alone == {p \in conn : node[p] \in Outside}

\* No listed node lists a failed master: its signature would differ from the
\* consolidated one, which has only masters that answered.
SignaturesAgree == \A p \in Pod : ghosts[<< p, "master" >>] \cap listed = {}

\* CLUSTER MEET when the views differ.  A second later they agree, or the
\* reconcile ends; it ends also when a node is gone.
waitForClusterJoin ==
  /\ pc = "join"
  /\ \/ /\ conn = listed /\ SignaturesAgree
        /\ node' = [p \in Pod |-> IF p \in Alone THEN "empty" ELSE node[p]]
        /\ pc' = "sync"
        /\ UNCHANGED << asked, listed, conn, view, todo >>
     \/ /\ Alone # {} \/ conn # listed \/ ~SignaturesAgree
        /\ node' = [p \in Pod |-> IF p \in Alone THEN "meeting" ELSE node[p]]
        /\ Return
  /\ UNCHANGED << zone, synced, scheduled, ghosts, strays, zones, creating, userVars, faultVars >>

-----------------------------------------------------------------------------
(* buildClusterStatus, needClusterOperation and syncCluster.               *)

MastersIn(v, s) == {p \in PodsOf(s) : v[p] = "master"}
SlavesIn(v, s) == {p \in PodsOf(s) : v[p] = "slave"}

\* nbSlaveByMaster has an entry for a master with slots that is seen, and for the
\* master a replica that is seen names.
Counted(v) == {s \in Shard : MastersIn(v, s) \cup SlavesIn(v, s) # {}}
MinReplicationFactor(v) ==
  IF Counted(v) = {} THEN 0 ELSE Min({Cardinality(SlavesIn(v, s)) : s \in Counted(v)})
MaxReplicationFactor(v) == Max({Cardinality(SlavesIn(v, s)) : s \in Counted(v)} \cup {0})
NumberOfMaster(v) == Cardinality(UNION {MastersIn(v, s) : s \in Shard})

\* Mutant: only the number of masters is looked at.
needMasters(v) == NumberOfMaster(v) # NumSts

needClusterOperation(v) ==
  \/ NumberOfMaster(v) # NumSts
  \/ MinReplicationFactor(v) # Replicas
  \/ MaxReplicationFactor(v) # Replicas

HomeZone(s) == s % NumZones

\* The pods that may become the master of a shard without one.
PlaceMastersHA(v, s) == {p \in PodsOf(s) : v[p] # None /\ zone[p] = HomeZone(s)}

\* One on a Kubernetes node without a master if there is one: which one depends on
\* the nodes.
PlaceMasters(v, s) == {p \in PodsOf(s) : v[p] # None}

Candidates(v, s) ==
  IF MastersIn(v, s) # {} THEN MastersIn(v, s)
  ELSE IF creating THEN PlaceMastersHA(v, s) ELSE PlaceMasters(v, s)

\* Pods whose node is no replica, or whose master is not the one dispatched.
PlaceSlaves(v, t) ==
  {p \in Pod : v[p] # None /\ p # t[p[1]]
                 /\ ~(v[p] = "slave" /\ MastersIn(v, p[1]) # {})}

\* CLUSTER REPLICATE is refused by a node that has slots, and for a master that is
\* a replica.  A replica of a dead master gives its data up for an empty master.
Replicable(p, t) == p \in conn /\ node[p] \in {"empty", "slave"} /\ node[t[p[1]]] # "slave"

\* AttachingSlavesToMaster: A are attached, the others not.
Attach(A, new) ==
  /\ node' = [p \in Pod |-> IF p \in A THEN "slave" ELSE IF p \in new THEN "master" ELSE node[p]]
  /\ synced' = synced \ A /\ scheduled' = scheduled \ A
  /\ UNCHANGED << zone, ghosts, strays >>

\* DispatchMasters, PlaceSlaves, AttachingSlavesToMaster, which goes on after an
\* error and reports the last one, and AllocSlots or, in a cluster that has masters
\* already, RebalancedCluster when there are new masters: that one gives them a
\* share of the other masters' slots, and the free slots to nobody.  Otherwise the
\* reconcile ends with an error.
syncCluster ==
  /\ pc = "sync" /\ needClusterOperation(view)
  /\ \E t \in [Shard -> Pod] :
       /\ \A s \in Shard : t[s] \in Candidates(view, s)
       /\ LET slaves == PlaceSlaves(view, t)
              able == {p \in slaves : Replicable(p, t)}
              new == {t[s] : s \in {r \in Shard : MastersIn(view, r) = {}}}
          IN \/ /\ able = slaves /\ \A p \in new : p \in conn /\ node[p] = "empty"
                /\ Attach(able, new)
                /\ IF new # {} /\ \E s \in Shard : MastersIn(view, s) # {}
                   THEN Event("free") ELSE UNCHANGED faultVars
                /\ pc' = "infos" /\ view' = Unseen
                /\ UNCHANGED << asked, listed, conn, todo >>
             \/ /\ ~(able = slaves /\ \A p \in new : p \in conn /\ node[p] = "empty")
                /\ Attach(able, {})
                /\ Return /\ UNCHANGED faultVars
             \/ /\ \E A \in SUBSET able : Attach(A, {})
                /\ Return /\ Fault("redis")
  /\ UNCHANGED << zones, creating, userVars >>

\* "missing statefulset" or "unable to place master".
DispatchMastersError ==
  /\ pc = "sync" /\ needClusterOperation(view)
  /\ \E s \in Shard : Candidates(view, s) = {}
  /\ IF \E s \in Shard : creating /\ PlaceMastersHA(view, s) = {} /\ PlaceMasters(view, s) # {}
     THEN Event("homeless") ELSE UNCHANGED faultVars
  /\ Return
  /\ UNCHANGED << clusterVars, zones, creating, userVars >>

noClusterOperation ==
  /\ pc = "sync" /\ ~needClusterOperation(view)
  /\ pc' = "infos" /\ view' = Unseen
  /\ UNCHANGED << clusterVars, zones, creating, userVars, asked, listed, conn, todo, faultVars >>

-----------------------------------------------------------------------------
(* Health, HA status and redistribution.                                   *)

\* cluster_state is ok: every slot is served.
clusterGetStatus == "free" \notin hit /\ \A s \in Shard : MasterOf(s) # {}

\* The nodes say so, every replica seen has its link up, and no node seen lists a
\* failed one or is in handshake.
ClusterStateOk(v) ==
  /\ clusterGetStatus
  /\ \A p \in Pod : v[p] = "slave" => p \in synced
  /\ \A g \in Ghost : \A q \in ghosts[g] : v[q] = None
  /\ strays = {}

\* The views agree.  Infos that miss a node are "partial", not "inconsistent".
Consistent(v) == \A p \in Pod : v[p] \notin Outside

CheackandUpdateClusterHealth(v) ==
  Consistent(v) /\ MinReplicationFactor(v) >= Replicas /\ ClusterStateOk(v)

\* Every node with the master role counts here, with slots or without.
MasterNodes(v) == {p \in Pod : v[p] \in Outside \cup {"master", "empty"}}
Misplaced(v) == {p \in MasterNodes(v) : zone[p] # HomeZone(p[1])}

buildHAStatus(v) ==
  IF Cardinality(MasterNodes(v)) # NumSts THEN "Failed"
  ELSE IF Misplaced(v) # {} THEN "Redistribute" ELSE "Healthy"

MinPerZone == (1 + Replicas) \div NumZones
MaxPerZone == (1 + Replicas + NumZones - 1) \div NumZones

InZone(v, s, z) == {p \in PodsOf(s) : v[p] # None /\ zone[p] = z}

\* How many pods zones lack: the places of a StatefulSet in a zone, from the first
\* to the minimum, that have no pod.
NumNodesToDelete(v) ==
  Cardinality({x \in (Shard \X Zone) \X (1 .. MinPerZone) :
                 Cardinality(InZone(v, x[1][1], x[1][2])) < x[2]})

\* The replicas of a StatefulSet in its crowded zones.
CrowdedSlaves(v, s) ==
  {p \in SlavesIn(v, s) : Cardinality(InZone(v, s, zone[p])) > MaxPerZone}

\* Mutant: the list is kept under the right key.
AllCrowded(v) == {UNION {CrowdedSlaves(v, s) : s \in Shard}}

\* nodesToDelete is filled under the StatefulSet but read under the zone, so only
\* the last replica of every StatefulSet stays in it.
LastOnly(v) ==
  {{f[s] : s \in DOMAIN f} :
     f \in {g \in [{s \in Shard : CrowdedSlaves(v, s) # {}} -> Pod] :
              \A s \in DOMAIN g : g[s] \in CrowdedSlaves(v, s)}}

\* The lists getListofNodestoDelete may return: {} when it reports an error,
\* because the replicas in crowded zones are not as many as the pods lacking.
getListofNodestoDelete(v) ==
  LET slaves == UNION {CrowdedSlaves(v, s) : s \in Shard} IN
  IF \E s \in Shard : \E p \in PodsOf(s) : v[p] = None THEN {}
  ELSE IF NumNodesToDelete(v) = 0 THEN {{}}
  ELSE IF NumNodesToDelete(v) = Cardinality(slaves) THEN LastOnly(v)
  ELSE {}

\* Mutant: the replicas in the other zones.
PromotedElsewhere(v) ==
  {p \in Pod : v[p] = "slave" /\ zone[p] # HomeZone(p[1])
                 /\ \E m \in Misplaced(v) : m[1] = p[1]}

\* PlaceMastersbySTS: the replicas in the zone a displaced master should be in.
Promoted(v) ==
  {p \in Pod : v[p] = "slave" /\ zone[p] = HomeZone(p[1])
                 /\ \E m \in Misplaced(v) : m[1] = p[1]}

CheckallZonesActive == zones = Zone

\* Mutant: the annotation is read the other way round.
RedistributeUnasked(v) ==
  /\ CheackandUpdateClusterHealth(v)
  /\ buildHAStatus(v) = "Redistribute"
  /\ CheckallZonesActive /\ ~asked

\* All zones active and the annotation "true", as read at the start.
RedistributeNow(v) ==
  /\ CheackandUpdateClusterHealth(v)
  /\ buildHAStatus(v) = "Redistribute"
  /\ CheckallZonesActive /\ asked

\* The second cluster infos.  Their error is passed over: the check looks at the
\* status of the first ones, which is not partial here.
NewInfos(A) == [p \in Pod |-> IF p \in A THEN Role(p) ELSE None]

GetNewClusterInfos ==
  /\ pc = "infos"
  /\ \E A \in SUBSET conn :
       /\ \/ A = conn /\ (IF RedistributeNow(NewInfos(A)) /\ getListofNodestoDelete(NewInfos(A)) = {}
                          THEN Event("crowded") ELSE UNCHANGED faultVars)
          \/ Cardinality(conn \ A) = 1 /\ Fault("silent")
       /\ creating' = FALSE
       /\ LET v == NewInfos(A) IN
          \/ /\ RedistributeNow(v)
             /\ \E D \in getListofNodestoDelete(v) :
                  \/ D # {} /\ pc' = "delete" /\ todo' = D
                  \/ D = {} /\ pc' = "failover" /\ todo' = Promoted(v)
             /\ UNCHANGED << asked, listed, conn, view >>
          \/ (~RedistributeNow(v) \/ getListofNodestoDelete(v) = {}) /\ Return
  /\ UNCHANGED << clusterVars, zones, userVars >>

\* DELETE of the listed pods, by name; the first error ends the reconcile.  A pod
\* that is down is not there any more or waits to be started again.
DeletePodByName ==
  /\ pc = "delete"
  /\ \E p \in todo :
       \/ /\ IF p \in Up THEN Stop({p}) ELSE UNCHANGED << clusterVars, conn >>
          /\ IF node[p] = "master" \/ (node[p] = "slave" /\ MasterOf(p[1]) = {})
             THEN Event("stale") ELSE UNCHANGED faultVars
          /\ todo' = todo \ {p} /\ listed' = listed \ {p}
          /\ UNCHANGED << pc, asked, view >>
       \/ /\ IF p \in Up THEN Fault("k8s") ELSE UNCHANGED faultVars
          /\ Return
          /\ UNCHANGED clusterVars
  /\ UNCHANGED << zones, creating, userVars >>

DeleteDone ==
  /\ pc = "delete" /\ todo = {}
  /\ Return
  /\ UNCHANGED << clusterVars, zones, creating, userVars, faultVars >>

\* Mutant: the replica is promoted without the consent of its master.
FailoverForced ==
  /\ pc = "failover"
  /\ \E p \in todo \cap conn :
       /\ todo' = todo \ {p}
       /\ node' = [node EXCEPT ![p] = "master"]
       /\ synced' = synced \ {p}
  /\ UNCHANGED << pc, faultVars, zone, scheduled, ghosts, strays, zones, creating, userVars, asked,
                  listed, conn, view >>

\* CLUSTER FAILOVER of a replica in sync: its OK says that the failover has begun.
\* A node that is gone or refuses ends PlaceMastersbySTS; Reconcile logs that and
\* goes on.
FailoverSlaveToMaster ==
  /\ pc = "failover"
  /\ \E p \in todo :
       LET able == p \in conn /\ p \in synced /\ MasterOf(p[1]) # {} IN
       \/ /\ able /\ scheduled' = scheduled \cup {p}
          /\ todo' = todo \ {p}
          /\ UNCHANGED << zone, node, synced, ghosts, strays, pc, faultVars >>
       \/ /\ IF able THEN Fault("redis") ELSE UNCHANGED faultVars
          /\ todo' = {}
          /\ pc' = "annotate"
          /\ UNCHANGED clusterVars
  /\ UNCHANGED << zones, creating, userVars, asked, listed, conn, view >>

PlaceMastersbySTSDone ==
  /\ pc = "failover" /\ todo = {}
  /\ pc' = "annotate"
  /\ UNCHANGED << clusterVars, zones, creating, userVars, asked, listed, conn, view, todo, faultVars >>

\* The annotation becomes "false", as soon as the failovers have begun and also
\* after an error of one.
UpdateCrdAnnotations ==
  /\ pc = "annotate"
  /\ \/ annot' = FALSE /\ UNCHANGED faultVars
     \/ UNCHANGED annot /\ Fault("k8s")
  /\ Return
  /\ UNCHANGED << clusterVars, zones, creating, asks >>

Crash ==
  /\ pc # "idle"
  /\ Fault("crash")
  /\ Return
  /\ UNCHANGED << clusterVars, zones, creating, userVars >>

Operator ==
  \/ GetStatefulSetPods \/ waitPodReady
  \/ Heal \/ GetClusterInfosError \/ waitForClusterJoin
  \/ syncCluster \/ DispatchMastersError \/ noClusterOperation \/ GetNewClusterInfos
  \/ DeletePodByName \/ DeleteDone
  \/ FailoverSlaveToMaster \/ PlaceMastersbySTSDone \/ UpdateCrdAnnotations

Environment == ZoneFails \/ PodRestart \/ FailoverOfLive \/ Ask

\* What Kubernetes and Redis do in the end.
Settle ==
  \/ PodStarts \/ ZoneBack \/ Resync \/ Join \/ HandshakeTimeout
  \/ Failover \/ ManualFailover \/ ManualFailoverTimeout

Next == Operator \/ Crash \/ Environment \/ Settle

\* The infos are ranged over as a Go map, in a random order, so that a choice of
\* masters that works is made in the end if it is possible over and over.
Placed == syncCluster /\ pc' = "infos"

\* A reconcile runs and is repeated.  Zones recover, missing pods are started
\* somewhere, handshakes end, replicas get in sync and take over from dead masters.
Fairness == WF_vars(Operator) /\ WF_vars(Settle) /\ SF_vars(Placed)

Spec == Init /\ [][Next]_vars /\ Fairness

-----------------------------------------------------------------------------
(* Properties.                                                             *)

\* A shard that has its data keeps a copy of it, whatever the reconcile does on
\* stale infos, except in two windows: a pod was back before a replica had taken
\* over from its old node, when FixFailedNodes may reset the replicas; or the
\* redistribution deletes a replica that has just taken over, or that its master
\* has just left alone.
CopiesKept ==
  [][\A s \in Shard : Formed(s) /\ {"early", "stale"} \cap hit' = {} => Copies(s)' # {}]_vars

\* The redistribution deletes replicas only, and one per shard and reconcile: as
\* long as the pods it has listed are still there, the shard keeps all of its
\* copies but the deleted one.
DeletionIsSafe ==
  [][pc = "delete" /\ conn = listed /\ {"failover", "late"} \cap hit = {} =>
       \A p \in todo \ todo' :
         node[p] = "slave" /\ Cardinality(Copies(p[1])') >= Replicas]_vars

Home(s) == \A p \in MasterOf(s) : zone[p] = HomeZone(s)

\* When the annotation becomes "false" every master is in its zone, or a replica in
\* that zone has begun to take over from it, unless a failover failed, was dropped
\* or came from elsewhere, or a pod went meanwhile.
DoneMeansScheduled ==
  [][annot /\ ~annot' /\ conn = listed /\ {"redis", "failover", "expired", "late"} \cap hit = {} =>
       \A s \in Shard :
         Home(s) \/ \E p \in scheduled : p[1] = s /\ zone[p] = HomeZone(s)]_vars

Whole(s) == MasterOf(s) # {} /\ PodsOf(s) \ MasterOf(s) \subseteq synced

\* A ghost that fewer nodes list than listGhostNodes asks for is never forgotten.
Haunted == \E g \in Ghost : ghosts[g] # {} /\ Cardinality(ghosts[g]) < Threshold

\* In the end every shard has its master and all of its replicas, and no node
\* lists a failed one, unless a creation met a zone without a pod, which it never
\* gets, or too few nodes list a ghost.
ClusterHealed ==
  <>[](\/ {"homeless", "free"} \cap hit # {} \/ Haunted
       \/ \A s \in Shard : Whole(s) /\ \A g \in Ghost : ghosts[g] = {})

\* A redistribution that was asked for is done in the end, unless the replicas of
\* a crowded zone were not as many as the pods lacking elsewhere.  The annotation
\* says that it is done before a role has changed; all the same it has brought every
\* master home, if nothing has happened but the fault that displaced one.
RedistributionCompletes ==
  <>[](\/ \A s \in Shard : Home(s)
       \/ annot /\ ({"crowded", "homeless", "free"} \cap hit # {} \/ Haunted)
       \/ ~annot /\ (asks = 0 \/ faults > 1 \/ "homeless" \in hit))

\* The comment on HA healing in Reconcile: "if all zone are present then, we need
\* to heal the cluster for master and node distrubution".
Redistributes == <>[](annot => \A s \in Shard : Home(s))
=============================================================================
