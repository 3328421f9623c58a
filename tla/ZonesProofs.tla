----------------------------- MODULE ZonesProofs -----------------------------
(***************************************************************************)
(* Proofs about Zones, for any number of shards, any number of zones with  *)
(* one pod of a shard for each (what validateAndSetDefault asks for), and  *)
(* any number of faults of all kinds.                                      *)
(***************************************************************************)
EXTENDS Zones, FiniteSetTheorems, TLAPS

(***************************************************************************)
(* Type correctness.  That a shard never has two masters needs to know     *)
(* what a reconcile cannot see: a pod it has not listed is new.            *)
(***************************************************************************)

\* No shard has two masters.
OneMaster ==
  \A p, q \in Pod : p[1] = q[1] /\ node[p] = "master" /\ node[q] = "master" => p = q

\* The cluster; the connections of a reconcile are to pods that run.
ClusterTyped ==
  /\ zone \in [Pod -> Zone \cup {None}]
  /\ node \in [Pod -> NodeKind]
  /\ \A p \in Pod : zone[p] = None <=> node[p] = "down"
  /\ synced \subseteq {p \in Pod : node[p] = "slave"} /\ scheduled \subseteq synced
  /\ ghosts \in [Ghost -> SUBSET Pod]
  /\ strays \subseteq Pod
  /\ conn \subseteq Up
  /\ OneMaster

\* What a reconcile has in memory.
OpTyped ==
  /\ pc \in PC /\ asked \in BOOLEAN
  /\ conn \subseteq listed /\ listed \subseteq Pod
  /\ view \in [Pod -> Seen]
  /\ todo \subseteq Pod

RestTyped ==
  /\ zones \subseteq Zone /\ creating \in BOOLEAN
  /\ annot \in BOOLEAN /\ asks \in 0 .. MaxAsks
  /\ faults \in 0 .. MaxFaults /\ hit \subseteq Excused \cup EventKind

\* A pod the reconcile has not listed has not met the others.
UnlistedIsNew ==
  pc # "idle" => \A p \in Pod \ listed : node[p] \in {"down", "alone"}

\* Healed has seen every listed pod.
ListIsSeen ==
  pc \in {"join", "sync"} => \A p \in listed : view[p] # None

TypeInv == ClusterTyped /\ OpTyped /\ RestTyped /\ UnlistedIsNew /\ ListIsSeen

(***************************************************************************)
(* What keeps a copy of every shard.                                       *)
(***************************************************************************)

NotEarly == "early" \notin hit

\* A shard whose replicas have not taken over yet lacks a pod.
DeadMasterIsDown ==
  NotEarly => \A s \in Shard : Formed(s) /\ MasterOf(s) = {} => PodsOf(s) \ Up # {}

\* As long as FixFailedNodes would go on, every shard with data has its master.
HealSeesMasters ==
  NotEarly /\ pc = "heal" /\ conn = listed => \A s \in Shard : Formed(s) => MasterOf(s) # {}

\* What syncCluster takes for a shard without a master has no data.
ViewSeesMasters ==
  NotEarly /\ pc \in {"join", "sync"} => \A s \in Shard : MastersIn(view, s) = {} => ~Formed(s)

\* What Healed saw as no replica and no master is neither, if it still runs.
NewStaysNew ==
  pc \in {"join", "sync"} =>
    /\ \A p \in conn : view[p] \in Outside \cup {"empty"} => node[p] \in Outside \cup {"empty"}
    /\ \A p, q \in Pod : p[1] = q[1] /\ view[p] = "master" /\ view[q] = "master" => p = q

CopyInv == DeadMasterIsDown /\ HealSeesMasters /\ ViewSeesMasters /\ NewStaysNew

(***************************************************************************)
(* The deletions of a redistribution.                                      *)
(***************************************************************************)

NotTakenOver == {"failover", "late"} \cap hit = {}

\* A shard in which every pod has the data.
Complete(s) == MasterOf(s) # {} /\ \A p \in PodsOf(s) : node[p] = "master" \/ p \in synced

\* One pod is to be deleted of a shard; as long as the pods of the shard are those that
\* were read, it is a replica and the shard is complete.
DeleteInv ==
  pc = "delete" =>
    /\ \A p, q \in todo : p[1] = q[1] => p = q
    /\ \A p \in todo :
         /\ PodsOf(p[1]) \subseteq listed
         /\ NotTakenOver /\ PodsOf(p[1]) \subseteq conn => node[p] = "slave" /\ Complete(p[1])

(***************************************************************************)
(* The failovers of a redistribution.                                      *)
(***************************************************************************)

\* Only replicas in the zone of their shard's master are promoted.
HomeInv ==
  /\ \A p \in scheduled : zone[p] = HomeZone(p[1])
  /\ pc = "failover" => \A p \in todo \cap conn : zone[p] = HomeZone(p[1])

\* No failover was refused, dropped or came from elsewhere, and every listed pod is there.
Undisturbed == conn = listed /\ {"redis", "failover", "expired", "late"} \cap hit = {}

\* A master that is not at home has a replica that is to be promoted, or whose failover
\* is under way.
PlaceInv ==
  pc \in {"failover", "annotate"} =>
    /\ listed = Pod
    /\ pc = "annotate" => todo = {}
    /\ \A p, q \in todo : p[1] = q[1] => p = q
    /\ Undisturbed =>
         /\ \A s \in Shard : MasterOf(s) # {}
         /\ todo \subseteq synced
         /\ \A s \in Shard : Home(s) \/ \E p \in todo \cup scheduled : p[1] = s

-----------------------------------------------------------------------------
(***************************************************************************)
(* Lemmas about pods.                                                      *)
(***************************************************************************)

LEMMA ZoneNumber == NumZones \in Nat \ {0} /\ Replicas \in Nat /\ NumSts \in Nat \ {0}
BY ZonesAssumption

LEMMA PodFacts ==
  /\ \A p \in Pod : p[1] \in Shard /\ p \in PodsOf(p[1])
  /\ \A s \in Shard : PodsOf(s) \subseteq Pod /\ \A p \in PodsOf(s) : p[1] = s
BY DEF Pod, PodsOf

LEMMA PodsFinite == IsFiniteSet(Pod) /\ \A s \in Shard : IsFiniteSet(PodsOf(s))
<1>1. IsFiniteSet(Shard) /\ IsFiniteSet(0 .. Replicas)
  BY FS_Interval, ZoneNumber DEF Shard
<1>2. IsFiniteSet(Pod)
  BY <1>1, FS_Product DEF Pod
<1>3. QED
  BY <1>2, PodFacts, FS_Subset

LEMMA HomeZoneIsZone == \A s \in Shard : HomeZone(s) \in Zone
BY ZoneNumber DEF HomeZone, Shard, Zone

\* What OneMaster says of the roles f, counted.
LEMMA OneMasterCounted ==
  ASSUME NEW f,
         \A p, q \in Pod : p[1] = q[1] /\ f[p] = "master" /\ f[q] = "master" => p = q,
         NEW s \in Shard
  PROVE  Cardinality({p \in PodsOf(s) : f[p] = "master"}) <= 1
<1> DEFINE M == {p \in PodsOf(s) : f[p] = "master"}
<1>1. CASE M = {}
  BY <1>1, FS_EmptySet
<1>2. CASE M # {}
  <2>1. PICK p \in M : TRUE
    BY <1>2
  <2>2. M = {p}
    BY <2>1, PodFacts
  <2>3. Cardinality(M) = 1
    BY <2>2, FS_Singleton
  <2> QED
    BY <2>3
<1> QED
  BY <1>1, <1>2

LEMMA TypeInvImpliesTypeOK == TypeInv => TypeOK
<1> SUFFICES ASSUME TypeInv PROVE TypeOK
  OBVIOUS
<1> USE DEF TypeInv
<1>1. \A p \in Pod : (zone[p] = None) = (node[p] = "down")
  <2> TAKE p \in Pod
  <2>1. zone[p] = None <=> node[p] = "down"
    BY DEF ClusterTyped
  <2> QED
    BY <2>1, Zenon
<1>2. \A s \in Shard : Cardinality({p \in PodsOf(s) : node[p] = "master"}) <= 1
  BY OneMasterCounted DEF ClusterTyped, OneMaster
<1> QED
  BY <1>1, <1>2 DEF TypeOK, ClusterTyped, OpTyped, RestTyped

LEMMA TypeInit == Init => TypeInv
<1> SUFFICES ASSUME Init PROVE TypeInv
  OBVIOUS
<1>1. \A p \in Pod : p[2] % NumZones \in Zone
  BY ZoneNumber DEF Pod, Zone
<1>2. ClusterTyped
  BY <1>1, ZonesAssumption DEF Init, ClusterTyped, OneMaster, NodeKind, Up
<1>3. OpTyped
  BY DEF Init, OpTyped, PC, Unseen, Seen
<1>4. RestTyped
  <2>1. 0 \in 0 .. MaxAsks /\ 0 \in 0 .. MaxFaults
    BY ZonesAssumption
  <2> QED
    BY <2>1 DEF Init, RestTyped
<1> QED
  BY <1>2, <1>3, <1>4 DEF Init, TypeInv, UnlistedIsNew, ListIsSeen

-----------------------------------------------------------------------------
(***************************************************************************)
(* What the steps have in common.                                          *)
(***************************************************************************)

\* A fault is counted and noted, if it is one that a property excuses.
LEMMA FaultEffect ==
  ASSUME RestTyped, NEW kind, Fault(kind)
  PROVE  /\ faults' \in 0 .. MaxFaults /\ hit' \subseteq Excused \cup EventKind
         /\ hit \subseteq hit' /\ (kind \in Excused => kind \in hit')
BY ZonesAssumption DEF RestTyped, Fault

LEMMA EventEffect ==
  ASSUME RestTyped, NEW kind \in EventKind, Event(kind)
  PROVE  /\ faults' \in 0 .. MaxFaults /\ hit' \subseteq Excused \cup EventKind
         /\ hit \subseteq hit' /\ kind \in hit'
BY DEF RestTyped, Event

\* A reconcile that returns has forgotten everything.
LEMMA ReturnEffect ==
  ASSUME Return
  PROVE  OpTyped' /\ UnlistedIsNew' /\ ListIsSeen' /\ conn' = {}
<1>1. None \in Seen
  BY DEF Seen
<1> QED
  BY <1>1 DEF Return, OpTyped, UnlistedIsNew, ListIsSeen, PC, Unseen

\* Pods that are gone leave the rest as it was.
LEMMA StopEffect ==
  ASSUME ClusterTyped, OpTyped, NEW P \in SUBSET Pod, Stop(P)
  PROVE  /\ ClusterTyped'
         /\ \A p \in Pod : node'[p] = IF p \in P THEN "down" ELSE node[p]
         /\ \A p \in Pod : zone'[p] = IF p \in P THEN None ELSE zone[p]
         /\ synced' = synced \ P /\ conn' = conn \ P /\ scheduled' = scheduled \ P
<1> USE DEF ClusterTyped, Stop
<1>1. node' \in [Pod -> NodeKind] /\ zone' \in [Pod -> Zone \cup {None}]
  BY DEF NodeKind
<1>2. \A p \in Pod : node'[p] = IF p \in P THEN "down" ELSE node[p]
  BY DEF NodeKind
<1>3. \A p \in Pod : zone'[p] = IF p \in P THEN None ELSE zone[p]
  BY DEF NodeKind
<1>4. synced' \subseteq {p \in Pod : node'[p] = "slave"}
  BY <1>2
<1>5. ghosts' \in [Ghost -> SUBSET Pod]
  BY DEF Up
<1>6. strays' \subseteq Pod /\ conn' \subseteq Up'
  BY <1>2 DEF Up
<1>7. OneMaster'
  BY <1>2 DEF OneMaster
<1> QED
  BY <1>1, <1>2, <1>3, <1>4, <1>5, <1>6, <1>7

\* So what a reconcile has in memory is still of the right types.
LEMMA StopKeepsOp ==
  ASSUME TypeInv, NEW P \in SUBSET Pod, Stop(P), UNCHANGED opVars
  PROVE  ClusterTyped' /\ OpTyped' /\ UnlistedIsNew' /\ ListIsSeen'
<1>1. ClusterTyped' /\ conn' = conn \ P /\ \A p \in Pod : node'[p] = IF p \in P THEN "down" ELSE node[p]
  BY StopEffect DEF TypeInv
<1> QED
  BY <1>1 DEF TypeInv, OpTyped, UnlistedIsNew, ListIsSeen, opVars

\* One master follows another.
LEMMA TakeOverEffect ==
  ASSUME ClusterTyped, NEW p \in synced, TakeOver(p), conn' = conn
  PROVE  /\ ClusterTyped'
         /\ \A q \in Pod : node'[q] = IF q = p THEN "master"
                                      ELSE IF q \in MasterOf(p[1]) THEN "slave" ELSE node[q]
         /\ synced' = synced \ PodsOf(p[1]) /\ zone' = zone
         /\ p \in Pod /\ node[p] = "slave"
<1> USE DEF ClusterTyped, TakeOver
<1>1. p \in Pod /\ node[p] = "slave"
  OBVIOUS
<1>2. node' \in [Pod -> NodeKind]
  BY DEF NodeKind
<1>3. \A q \in Pod : node'[q] = IF q = p THEN "master"
                                ELSE IF q \in MasterOf(p[1]) THEN "slave" ELSE node[q]
  OBVIOUS
<1>4. \A q \in Pod : node'[q] = "down" <=> node[q] = "down"
  BY <1>1, <1>3 DEF MasterOf
<1>5. \A q \in Pod : node'[q] = "master" <=> q = p \/ (node[q] = "master" /\ q[1] # p[1])
  BY <1>1, <1>3, PodFacts DEF MasterOf, PodsOf
<1>6. OneMaster'
  BY <1>5 DEF OneMaster
<1>7. synced' \subseteq {q \in Pod : node'[q] = "slave"}
  BY <1>1, <1>3, PodFacts DEF MasterOf, PodsOf
<1>8. conn' \subseteq Up'
  BY <1>4 DEF Up
<1> QED
  BY <1>1, <1>2, <1>3, <1>4, <1>6, <1>7, <1>8

-----------------------------------------------------------------------------
(***************************************************************************)
(* Type correctness: pods, zones and replication.                          *)
(***************************************************************************)

LEMMA TypeZoneFails == TypeInv /\ ZoneFails => TypeInv'
<1> SUFFICES ASSUME TypeInv, ZoneFails PROVE TypeInv'
  OBVIOUS
<1>1. PICK z \in zones : Fault("zone") /\ zones' = zones \ {z} /\ Stop({p \in Pod : zone[p] = z})
  BY DEF ZoneFails
<1>2. ClusterTyped' /\ OpTyped' /\ UnlistedIsNew' /\ ListIsSeen'
  BY <1>1, StopKeepsOp DEF ZoneFails
<1>3. RestTyped'
  BY <1>1, FaultEffect DEF ZoneFails, TypeInv, RestTyped, userVars
<1> QED
  BY <1>2, <1>3 DEF TypeInv

LEMMA TypePodRestart == TypeInv /\ PodRestart => TypeInv'
<1> SUFFICES ASSUME TypeInv, PodRestart PROVE TypeInv'
  OBVIOUS
<1>1. PICK p \in Pod : Stop({p})
  BY DEF PodRestart, Up
<1>2. ClusterTyped' /\ OpTyped' /\ UnlistedIsNew' /\ ListIsSeen'
  BY <1>1, StopKeepsOp DEF PodRestart
<1>3. RestTyped'
  BY FaultEffect DEF PodRestart, TypeInv, RestTyped, userVars
<1> QED
  BY <1>2, <1>3 DEF TypeInv

\* A pod that starts is not one of those the reconcile talks to.
LEMMA PodStartsEffect ==
  ASSUME ClusterTyped, zones \subseteq Zone, PodStarts
  PROVE  \E p \in Pod \ Up :
           /\ node' = [node EXCEPT ![p] = "alone"] /\ node[p] = "down" /\ p \notin conn
           /\ Formed(p[1]) /\ MasterOf(p[1]) = {} => Fault("early")
           /\ ClusterTyped'
<1>1. PICK p \in Pod \ Up, z \in zones :
        /\ zone' = [zone EXCEPT ![p] = z] /\ node' = [node EXCEPT ![p] = "alone"]
        /\ Formed(p[1]) /\ MasterOf(p[1]) = {} => Fault("early")
  BY DEF PodStarts
<1>2. node[p] = "down" /\ p \notin conn /\ z \in Zone /\ z # None
  BY ZonesAssumption DEF Up, ClusterTyped
<1>3. ClusterTyped'
  BY <1>1, <1>2 DEF ClusterTyped, PodStarts, OneMaster, Up, NodeKind
<1> QED
  BY <1>1, <1>2, <1>3

LEMMA TypePodStarts == TypeInv /\ PodStarts => TypeInv'
<1> SUFFICES ASSUME TypeInv, PodStarts PROVE TypeInv'
  OBVIOUS
<1>1. PICK p \in Pod \ Up : node' = [node EXCEPT ![p] = "alone"] /\ ClusterTyped'
  BY PodStartsEffect DEF TypeInv, RestTyped
<1>2. RestTyped'
  BY FaultEffect DEF PodStarts, TypeInv, RestTyped, userVars, faultVars
<1>3. OpTyped' /\ ListIsSeen'
  BY DEF PodStarts, TypeInv, OpTyped, ListIsSeen, opVars
<1>4. UnlistedIsNew'
  BY <1>1 DEF PodStarts, TypeInv, UnlistedIsNew, opVars, ClusterTyped
<1> QED
  BY <1>1, <1>2, <1>3, <1>4 DEF TypeInv

LEMMA TypeSettle ==
  TypeInv /\ (ZoneBack \/ Resync \/ Join \/ HandshakeTimeout \/ ManualFailoverTimeout \/ Ask) => TypeInv'
<1> SUFFICES ASSUME TypeInv,
                    ZoneBack \/ Resync \/ Join \/ HandshakeTimeout \/ ManualFailoverTimeout \/ Ask
             PROVE  TypeInv'
  OBVIOUS
<1> USE DEF TypeInv
<1>1. CASE ZoneBack
  <2>1. ClusterTyped' /\ OpTyped' /\ UnlistedIsNew' /\ ListIsSeen'
    BY <1>1 DEF ZoneBack, ClusterTyped, OneMaster, Up, OpTyped, UnlistedIsNew, ListIsSeen,
                clusterVars, opVars
  <2>2. RestTyped'
    BY <1>1 DEF ZoneBack, RestTyped, userVars, faultVars
  <2> QED
    BY <2>1, <2>2
<1>2. CASE Resync
  <2>1. ClusterTyped'
    BY <1>2 DEF Resync, ClusterTyped, OneMaster, Up
  <2>2. OpTyped' /\ UnlistedIsNew' /\ ListIsSeen' /\ RestTyped'
    BY <1>2 DEF Resync, OpTyped, UnlistedIsNew, ListIsSeen, RestTyped, userVars, opVars, faultVars
  <2> QED
    BY <2>1, <2>2
<1>3. CASE Join
  <2>1. PICK p \in Pod : node[p] = "meeting" /\ node' = [node EXCEPT ![p] = "empty"]
    BY <1>3 DEF Join
  <2>2. ClusterTyped'
    BY <1>3, <2>1 DEF Join, ClusterTyped, OneMaster, Up, NodeKind
  <2>3. UnlistedIsNew'
    BY <1>3, <2>1 DEF Join, UnlistedIsNew, ClusterTyped, opVars
  <2>4. OpTyped' /\ ListIsSeen' /\ RestTyped'
    BY <1>3 DEF Join, OpTyped, ListIsSeen, RestTyped, userVars, opVars, faultVars
  <2> QED
    BY <2>2, <2>3, <2>4
<1>4. CASE HandshakeTimeout
  <2>1. ClusterTyped'
    BY <1>4 DEF HandshakeTimeout, ClusterTyped, OneMaster, Up
  <2>2. OpTyped' /\ UnlistedIsNew' /\ ListIsSeen' /\ RestTyped'
    BY <1>4 DEF HandshakeTimeout, OpTyped, UnlistedIsNew, ListIsSeen, RestTyped, userVars, opVars,
                faultVars
  <2> QED
    BY <2>1, <2>2
<1>5. CASE Ask
  <2>1. ClusterTyped' /\ OpTyped' /\ UnlistedIsNew' /\ ListIsSeen'
    BY <1>5 DEF Ask, ClusterTyped, OneMaster, Up, OpTyped, UnlistedIsNew, ListIsSeen,
                clusterVars, opVars
  <2>2. RestTyped'
    BY <1>5, ZonesAssumption DEF Ask, RestTyped, faultVars
  <2> QED
    BY <2>1, <2>2
<1>6. CASE ManualFailoverTimeout
  <2>1. ClusterTyped'
    BY <1>6 DEF ManualFailoverTimeout, ClusterTyped, OneMaster, Up
  <2>2. OpTyped' /\ UnlistedIsNew' /\ ListIsSeen'
    BY <1>6 DEF ManualFailoverTimeout, OpTyped, UnlistedIsNew, ListIsSeen, opVars
  <2>3. RestTyped'
    BY <1>6, FaultEffect DEF ManualFailoverTimeout, RestTyped, userVars, faultVars
  <2> QED
    BY <2>1, <2>2, <2>3
<1> QED
  BY <1>1, <1>2, <1>3, <1>4, <1>5, <1>6

\* Only a listed pod takes over.
LEMMA TakeOverKeepsOp ==
  ASSUME TypeInv, NEW p \in synced, TakeOver(p), conn' = conn, listed' = listed, pc # "idle"
  PROVE  \A q \in Pod \ listed' : node'[q] \in {"down", "alone"}
BY TakeOverEffect DEF TypeInv, UnlistedIsNew, MasterOf

LEMMA TypeFailover == TypeInv /\ (Failover \/ FailoverOfLive \/ ManualFailover) => TypeInv'
<1> SUFFICES ASSUME TypeInv, Failover \/ FailoverOfLive \/ ManualFailover PROVE TypeInv'
  OBVIOUS
<1>1. PICK p \in synced : TakeOver(p)
  BY DEF Failover, FailoverOfLive, ManualFailover, TypeInv, ClusterTyped
<1>2. conn' = conn /\ UNCHANGED opVars
  BY DEF Failover, FailoverOfLive, ManualFailover
<1>3. ClusterTyped'
  BY <1>1, <1>2, TakeOverEffect DEF TypeInv
<1>4. OpTyped' /\ ListIsSeen'
  BY <1>2 DEF TypeInv, OpTyped, ListIsSeen, opVars
<1>5. UnlistedIsNew'
  BY <1>1, <1>2, TakeOverKeepsOp DEF UnlistedIsNew, opVars
<1>6. RestTyped'
  <2>1. Fault("failover") \/ Event("late") \/ UNCHANGED faultVars
    BY DEF Failover, FailoverOfLive, ManualFailover
  <2>2. UNCHANGED << zones, creating, userVars >> /\ "late" \in EventKind
    BY DEF Failover, FailoverOfLive, ManualFailover, EventKind
  <2> QED
    BY <2>1, <2>2, FaultEffect, EventEffect DEF TypeInv, RestTyped, userVars, faultVars
<1> QED
  BY <1>3, <1>4, <1>5, <1>6 DEF TypeInv

-----------------------------------------------------------------------------
(***************************************************************************)
(* Type correctness: the reconcile.                                        *)
(***************************************************************************)

\* The cluster is as typed as before when only the connections have gone.
LEMMA ClusterStays ==
  ASSUME ClusterTyped, UNCHANGED clusterVars, conn' \subseteq Up
  PROVE  ClusterTyped'
BY DEF ClusterTyped, OneMaster, Up, clusterVars

LEMMA TypeGetStatefulSetPods == TypeInv /\ GetStatefulSetPods => TypeInv'
<1> SUFFICES ASSUME TypeInv, GetStatefulSetPods PROVE TypeInv'
  OBVIOUS
<1> USE DEF TypeInv, GetStatefulSetPods
<1>1. ClusterTyped'
  BY ClusterStays DEF clusterPods
<1>2. OpTyped' /\ RestTyped' /\ ListIsSeen'
  BY DEF OpTyped, RestTyped, ListIsSeen, PC, clusterPods, Up, userVars, faultVars
<1>3. UnlistedIsNew'
  BY DEF UnlistedIsNew, clusterPods, Up, clusterVars
<1> QED
  BY <1>1, <1>2, <1>3

\* Steps that change nothing but what the reconcile has in memory, or end it.
LEMMA TypeReturn ==
  ASSUME TypeInv, Return, UNCHANGED clusterVars, RestTyped'
  PROVE  TypeInv'
BY ReturnEffect, ClusterStays DEF TypeInv

LEMMA TypeWaitPodReady == TypeInv /\ waitPodReady => TypeInv'
<1> SUFFICES ASSUME TypeInv, waitPodReady PROVE TypeInv'
  OBVIOUS
<1>1. RestTyped'
  BY DEF waitPodReady, TypeInv, RestTyped, userVars, faultVars
<1>2. CASE Return
  BY <1>1, <1>2, TypeReturn DEF waitPodReady
<1>3. CASE pc' = "heal" /\ UNCHANGED << asked, listed, view, todo, conn >>
  <2>1. ClusterTyped'
    BY <1>3, ClusterStays DEF waitPodReady, TypeInv, ClusterTyped
  <2> QED
    BY <1>1, <1>3, <2>1
       DEF waitPodReady, TypeInv, OpTyped, UnlistedIsNew, ListIsSeen, PC, clusterVars
<1> QED
  BY <1>2, <1>3 DEF waitPodReady

LEMMA TypeFixFailedNodes == TypeInv /\ FixFailedNodes => TypeInv'
<1> SUFFICES ASSUME TypeInv, FixFailedNodes PROVE TypeInv'
  OBVIOUS
<1> USE DEF TypeInv, FixFailedNodes
<1>1. RestTyped'
  BY FaultEffect DEF RestTyped, userVars, faultVars
<1>2. ghosts' \in [Ghost -> SUBSET Pod]
  BY DEF ClusterTyped
<1>3. OpTyped' /\ UnlistedIsNew' /\ ListIsSeen' /\ conn' = {}
  BY ReturnEffect
<1>4. node' \in [Pod -> NodeKind]
  BY DEF ClusterTyped, NodeKind
<1>5. \A p \in Pod : node'[p] = IF p \in Detached THEN "meeting" ELSE node[p]
  OBVIOUS
<1>6. \A p \in Detached : node[p] = "slave"
  BY DEF Detached
<1>7. ClusterTyped'
  BY <1>2, <1>3, <1>4, <1>5, <1>6 DEF ClusterTyped, OneMaster, Up
<1> QED
  BY <1>1, <1>3, <1>7

LEMMA TypeFixUntrustedNodes == TypeInv /\ FixUntrustedNodes => TypeInv'
<1> SUFFICES ASSUME TypeInv, FixUntrustedNodes PROVE TypeInv'
  OBVIOUS
<1> USE DEF TypeInv, FixUntrustedNodes
<1>1. RestTyped'
  BY DEF RestTyped, userVars, faultVars
<1>2. OpTyped' /\ UnlistedIsNew' /\ ListIsSeen' /\ conn' = {}
  BY ReturnEffect
<1>3. ClusterTyped'
  BY <1>2 DEF ClusterTyped, OneMaster, Up
<1> QED
  BY <1>1, <1>2, <1>3

LEMMA RoleTyped == TypeInv => \A p \in Pod : Role(p) \in Seen /\ (p \in conn => Role(p) # None)
BY ZonesAssumption DEF TypeInv, ClusterTyped, Role, Seen, Up

LEMMA TypeHealed == TypeInv /\ Healed => TypeInv'
<1> SUFFICES ASSUME TypeInv, Healed PROVE TypeInv'
  OBVIOUS
<1> USE DEF TypeInv, Healed
<1>1. ClusterTyped'
  BY ClusterStays DEF ClusterTyped
<1>2. RestTyped' /\ UnlistedIsNew'
  BY DEF RestTyped, UnlistedIsNew, clusterVars, userVars, faultVars
<1>3. OpTyped' /\ ListIsSeen'
  BY RoleTyped DEF OpTyped, ListIsSeen, PC
<1> QED
  BY <1>1, <1>2, <1>3

LEMMA TypeGetClusterInfosError == TypeInv /\ GetClusterInfosError => TypeInv'
<1> SUFFICES ASSUME TypeInv, GetClusterInfosError PROVE TypeInv'
  OBVIOUS
<1>1. RestTyped'
  BY DEF GetClusterInfosError, TypeInv, RestTyped, userVars, faultVars
<1> QED
  BY <1>1, TypeReturn DEF GetClusterInfosError

LEMMA TypeWaitForClusterJoin == TypeInv /\ waitForClusterJoin => TypeInv'
<1> SUFFICES ASSUME TypeInv, waitForClusterJoin PROVE TypeInv'
  OBVIOUS
<1> USE DEF TypeInv, waitForClusterJoin
<1>1. RestTyped'
  BY DEF RestTyped, userVars, faultVars
<1>2. PICK k \in {"empty", "meeting"} :
        /\ node' = [p \in Pod |-> IF p \in Alone THEN k ELSE node[p]]
        /\ \/ pc' = "sync" /\ UNCHANGED << asked, listed, conn, view, todo >>
           \/ Return
  OBVIOUS
<1>3. Alone \subseteq conn /\ \A p \in Alone : node[p] \in Outside
  BY DEF Alone
<1>4. conn' \subseteq conn
  BY <1>2 DEF Return
<1>5. node' \in [Pod -> NodeKind]
  BY <1>2 DEF NodeKind, ClusterTyped
<1>6. ClusterTyped'
  BY <1>2, <1>3, <1>4, <1>5 DEF ClusterTyped, OneMaster, Up, Outside
<1>7. CASE Return
  BY <1>1, <1>6, <1>7, ReturnEffect
<1>8. CASE pc' = "sync" /\ UNCHANGED << asked, listed, conn, view, todo >>
  BY <1>1, <1>2, <1>3, <1>6, <1>8 DEF OpTyped, UnlistedIsNew, ListIsSeen, PC
<1> QED
  BY <1>2, <1>7, <1>8

\* Attaching replicas, and giving slots to new masters of shards without one.
LEMMA AttachEffect ==
  ASSUME ClusterTyped, NEW A, NEW new,
         \A p \in A : p \in Pod /\ node[p] \in {"empty", "slave"},
         \A p \in new : p \in Pod /\ node[p] = "empty" /\ MasterOf(p[1]) = {},
         \A p, q \in new : p[1] = q[1] => p = q,
         Attach(A, new), conn' \subseteq conn
  PROVE  /\ ClusterTyped'
         /\ \A p \in Pod : node'[p] = IF p \in A THEN "slave" ELSE IF p \in new THEN "master" ELSE node[p]
<1> USE DEF Attach
<1>1. node' \in [Pod -> NodeKind]
  BY DEF ClusterTyped, NodeKind
<1>2. \A p \in Pod : node'[p] = IF p \in A THEN "slave" ELSE IF p \in new THEN "master" ELSE node[p]
  OBVIOUS
<1>3. \A p \in Pod : node'[p] = "down" <=> node[p] = "down"
  BY <1>2
<1>4. OneMaster'
  <2> SUFFICES ASSUME NEW p \in Pod, NEW q \in Pod, p[1] = q[1],
                      node'[p] = "master", node'[q] = "master"
               PROVE  p = q
    BY DEF OneMaster
  <2>1. p \in new \/ node[p] = "master"
    BY <1>2
  <2>2. q \in new \/ node[q] = "master"
    BY <1>2
  <2>3. \A r \in Pod : node[r] = "master" => r \in MasterOf(r[1])
    BY PodFacts DEF MasterOf
  <2> QED
    BY <2>1, <2>2, <2>3, PodFacts DEF ClusterTyped, OneMaster
<1>5. synced' \subseteq {p \in Pod : node'[p] = "slave"}
  BY <1>2 DEF ClusterTyped
<1> QED
  BY <1>1, <1>2, <1>3, <1>4, <1>5 DEF ClusterTyped, Up

\* What syncCluster does with the masters t it has chosen.
NewMasters(v, t) == {t[s] : s \in {r \in Shard : MastersIn(v, r) = {}}}
AbleSlaves(v, t) == {p \in PlaceSlaves(v, t) : Replicable(p, t)}
AllAble(v, t) ==
  /\ AbleSlaves(v, t) = PlaceSlaves(v, t)
  /\ \A p \in NewMasters(v, t) : p \in conn /\ node[p] = "empty"

LEMMA SyncClusterCases ==
  ASSUME syncCluster
  PROVE  \E t \in [Shard -> Pod] :
           /\ \A s \in Shard : t[s] \in Candidates(view, s)
           /\ \/ /\ AllAble(view, t) /\ Attach(AbleSlaves(view, t), NewMasters(view, t))
                 /\ pc' = "infos" /\ view' = Unseen
                 /\ UNCHANGED << asked, listed, conn, todo >>
                 /\ UNCHANGED faultVars \/ Event("free")
              \/ /\ \E A \in SUBSET AbleSlaves(view, t) : Attach(A, {})
                 /\ Return
                 /\ UNCHANGED faultVars \/ Fault("redis")
BY DEF syncCluster, AllAble, NewMasters, AbleSlaves

\* The replicas are empty nodes or replicas.  The new masters have no slots, each is of
\* another shard, and their shards have no master: it would be among the listed pods,
\* and no node that has slots becomes a replica.
LEMMA PlacementFacts ==
  ASSUME TypeInv, pc = "sync", NEW t \in [Shard -> Pod], \A s \in Shard : t[s] \in Candidates(view, s)
  PROVE  /\ \A p \in AbleSlaves(view, t) : p \in Pod /\ p \in conn /\ node[p] \in {"empty", "slave"}
         /\ \A p \in NewMasters(view, t) : p \in Pod /\ MastersIn(view, p[1]) = {} /\ p = t[p[1]]
         /\ AllAble(view, t) => \A p \in NewMasters(view, t) : MasterOf(p[1]) = {}
<1>1. \A p \in AbleSlaves(view, t) : p \in Pod /\ p \in conn /\ node[p] \in {"empty", "slave"}
  BY DEF AbleSlaves, PlaceSlaves, Replicable
<1>2. \A s \in Shard : t[s] \in PodsOf(s)
  BY DEF Candidates, MastersIn, PlaceMasters, PlaceMastersHA
<1>3. \A p \in NewMasters(view, t) : p \in Pod /\ MastersIn(view, p[1]) = {} /\ p = t[p[1]]
  BY <1>2, PodFacts DEF NewMasters
<1>4. ASSUME AllAble(view, t), NEW p \in NewMasters(view, t), NEW q \in MasterOf(p[1])
      PROVE  FALSE
  <2>1. q \in Pod /\ q[1] = p[1] /\ node[q] = "master"
    BY PodFacts, <1>3 DEF MasterOf
  <2>2. q \in listed /\ view[q] # None
    BY <2>1 DEF TypeInv, UnlistedIsNew, ListIsSeen
  <2>3. q # p
    BY <1>4, <2>1 DEF AllAble
  <2>4. q \in PlaceSlaves(view, t)
    BY <1>3, <2>1, <2>2, <2>3 DEF PlaceSlaves
  <2>5. q \in AbleSlaves(view, t)
    BY <1>4, <2>4 DEF AllAble
  <2> QED
    BY <1>1, <2>1, <2>5
<1> QED
  BY <1>1, <1>3, <1>4

LEMMA TypeSyncCluster == TypeInv /\ syncCluster => TypeInv'
<1> SUFFICES ASSUME TypeInv, syncCluster PROVE TypeInv'
  OBVIOUS
<1> USE DEF TypeInv
<1>1. PICK t \in [Shard -> Pod] :
           /\ \A s \in Shard : t[s] \in Candidates(view, s)
           /\ \/ /\ AllAble(view, t) /\ Attach(AbleSlaves(view, t), NewMasters(view, t))
                 /\ pc' = "infos" /\ view' = Unseen
                 /\ UNCHANGED << asked, listed, conn, todo >>
                 /\ UNCHANGED faultVars \/ Event("free")
              \/ /\ \E A \in SUBSET AbleSlaves(view, t) : Attach(A, {})
                 /\ Return
                 /\ UNCHANGED faultVars \/ Fault("redis")
  BY SyncClusterCases
<1>2. pc = "sync"
  BY DEF syncCluster
<1>3. RestTyped'
  <2>1. Fault("redis") \/ Event("free") \/ UNCHANGED faultVars
    BY <1>1
  <2>2. UNCHANGED << zones, creating, userVars >> /\ "free" \in EventKind
    BY DEF syncCluster, EventKind
  <2> QED
    BY <2>1, <2>2, FaultEffect, EventEffect DEF RestTyped, userVars, faultVars
<1>4. CASE Return
  <2>1. PICK A \in SUBSET AbleSlaves(view, t) : Attach(A, {})
    BY <1>1, <1>2, <1>4 DEF Return
  <2>2. conn' = {}
    BY <1>4 DEF Return
  <2>3. ClusterTyped'
    BY <1>1, <1>2, <2>1, <2>2, PlacementFacts, AttachEffect
  <2> QED
    BY <1>3, <1>4, <2>3, ReturnEffect
<1>5. CASE /\ AllAble(view, t) /\ Attach(AbleSlaves(view, t), NewMasters(view, t))
           /\ pc' = "infos" /\ view' = Unseen
           /\ UNCHANGED << asked, listed, conn, todo >>
  <2>1. \A p \in NewMasters(view, t) : p \in Pod /\ node[p] = "empty" /\ MasterOf(p[1]) = {}
    BY <1>1, <1>2, <1>5, PlacementFacts DEF AllAble
  <2>2. \A p, q \in NewMasters(view, t) : p[1] = q[1] => p = q
    BY <1>1, <1>2, PlacementFacts
  <2>3. /\ ClusterTyped'
        /\ \A p \in Pod : node'[p] = IF p \in AbleSlaves(view, t) THEN "slave"
                                     ELSE IF p \in NewMasters(view, t) THEN "master" ELSE node[p]
    BY <1>1, <1>2, <1>5, <2>1, <2>2, PlacementFacts, AttachEffect
  <2>4. OpTyped' /\ ListIsSeen'
    BY <1>5 DEF OpTyped, ListIsSeen, PC, Unseen, Seen
  <2>5. AbleSlaves(view, t) \subseteq conn /\ NewMasters(view, t) \subseteq conn
    BY <1>1, <1>2, <1>5, PlacementFacts DEF AllAble
  <2>6. UnlistedIsNew'
    BY <1>2, <1>5, <2>3, <2>5 DEF UnlistedIsNew, OpTyped
  <2> QED
    BY <1>3, <2>3, <2>4, <2>6
<1> QED
  BY <1>1, <1>4, <1>5

LEMMA TypeDispatchMastersError == TypeInv /\ DispatchMastersError => TypeInv'
<1> SUFFICES ASSUME TypeInv, DispatchMastersError PROVE TypeInv'
  OBVIOUS
<1>1. "homeless" \in EventKind
  BY DEF EventKind
<1>2. RestTyped'
  BY <1>1, EventEffect DEF DispatchMastersError, TypeInv, RestTyped, userVars, faultVars
<1> QED
  BY <1>2, TypeReturn DEF DispatchMastersError

LEMMA TypeNoClusterOperation == TypeInv /\ noClusterOperation => TypeInv'
<1> SUFFICES ASSUME TypeInv, noClusterOperation PROVE TypeInv'
  OBVIOUS
<1> USE DEF TypeInv, noClusterOperation
<1>1. ClusterTyped'
  BY ClusterStays DEF ClusterTyped
<1>2. RestTyped' /\ UnlistedIsNew' /\ OpTyped' /\ ListIsSeen'
  BY DEF RestTyped, UnlistedIsNew, OpTyped, ListIsSeen, PC, Unseen, Seen, clusterVars, userVars, faultVars
<1> QED
  BY <1>1, <1>2

\* Of every shard with crowded replicas one of these is deleted.
LEMMA LastOnlyFacts ==
  ASSUME NEW v, NEW E \in LastOnly(v)
  PROVE  \E T \in SUBSET Shard : \E f \in [T -> Pod] :
           /\ E = {f[s] : s \in T} /\ \A s \in T : f[s] \in CrowdedSlaves(v, s)
           /\ \A s \in Shard \ T : CrowdedSlaves(v, s) = {}
<1> DEFINE T == {s \in Shard : CrowdedSlaves(v, s) # {}}
<1>1. PICK f \in [T -> Pod] : E = {f[s] : s \in DOMAIN f} /\ \A s \in DOMAIN f : f[s] \in CrowdedSlaves(v, s)
  BY Zenon DEF LastOnly
<1>2. DOMAIN f = T
  OBVIOUS
<1>3. T \in SUBSET Shard /\ \A s \in Shard \ T : CrowdedSlaves(v, s) = {}
  OBVIOUS
<1> HIDE DEF T
<1> QED
  BY <1>1, <1>2, <1>3, Zenon

\* Only replicas that were seen are deleted.
LEMMA ListTyped ==
  ASSUME NEW v, NEW D \in getListofNodestoDelete(v)
  PROVE  D \subseteq Pod
<1>1. \A s \in Shard : CrowdedSlaves(v, s) \subseteq Pod
  BY PodFacts DEF CrowdedSlaves, SlavesIn
<1>2. \A E \in LastOnly(v) : E \subseteq Pod
  BY LastOnlyFacts
<1> QED
  BY <1>2 DEF getListofNodestoDelete

LEMMA TypeGetNewClusterInfos == TypeInv /\ GetNewClusterInfos => TypeInv'
<1> SUFFICES ASSUME TypeInv, GetNewClusterInfos PROVE TypeInv'
  OBVIOUS
<1> USE DEF TypeInv
<1>1. PICK A \in SUBSET conn :
       /\ \/ Event("crowded")
          \/ UNCHANGED faultVars
          \/ Fault("silent")
       /\ \/ /\ \E D \in getListofNodestoDelete(NewInfos(A)) :
                  \/ D # {} /\ pc' = "delete" /\ todo' = D
                  \/ D = {} /\ pc' = "failover" /\ todo' = Promoted(NewInfos(A))
             /\ UNCHANGED << asked, listed, conn, view >>
          \/ Return
  <2>1. PICK A \in SUBSET conn :
       /\ \/ A = conn /\ (IF RedistributeNow(NewInfos(A)) /\ getListofNodestoDelete(NewInfos(A)) = {}
                          THEN Event("crowded") ELSE UNCHANGED faultVars)
          \/ Cardinality(conn \ A) = 1 /\ Fault("silent")
       /\ \/ /\ RedistributeNow(NewInfos(A))
             /\ \E D \in getListofNodestoDelete(NewInfos(A)) :
                  \/ D # {} /\ pc' = "delete" /\ todo' = D
                  \/ D = {} /\ pc' = "failover" /\ todo' = Promoted(NewInfos(A))
             /\ UNCHANGED << asked, listed, conn, view >>
          \/ Return
    BY Zenon DEF GetNewClusterInfos
  <2> QED
    BY <2>1, Zenon
<1>2. "crowded" \in EventKind
  BY DEF EventKind
<1>3. RestTyped'
  BY <1>1, <1>2, EventEffect, FaultEffect DEF GetNewClusterInfos, RestTyped, userVars, faultVars
<1>4. CASE Return
  <2>1. ClusterTyped'
    BY <1>4, ClusterStays DEF GetNewClusterInfos, Return
  <2> QED
    BY <1>3, <1>4, <2>1, ReturnEffect
<1>5. CASE /\ \E D \in getListofNodestoDelete(NewInfos(A)) :
                  \/ D # {} /\ pc' = "delete" /\ todo' = D
                  \/ D = {} /\ pc' = "failover" /\ todo' = Promoted(NewInfos(A))
           /\ UNCHANGED << asked, listed, conn, view >>
  <2>1. ClusterTyped'
    BY <1>5, ClusterStays DEF GetNewClusterInfos, ClusterTyped
  <2>2. todo' \subseteq Pod /\ pc' \in {"delete", "failover"}
    BY <1>5, ListTyped DEF Promoted
  <2>3. OpTyped' /\ ListIsSeen'
    BY <1>5, <2>2 DEF OpTyped, ListIsSeen, PC
  <2>4. UnlistedIsNew'
    BY <1>5 DEF GetNewClusterInfos, UnlistedIsNew, clusterVars
  <2> QED
    BY <1>3, <2>1, <2>3, <2>4
<1> QED
  BY <1>1, <1>4, <1>5

\* One pod is deleted, or is not there any more, or the reconcile ends.
LEMMA DeletePodCases ==
  ASSUME DeletePodByName
  PROVE  \E p \in todo :
           \/ /\ IF p \in Up THEN Stop({p}) ELSE UNCHANGED << clusterVars, conn >>
              /\ IF node[p] = "master" \/ (node[p] = "slave" /\ MasterOf(p[1]) = {})
                 THEN Event("stale") ELSE UNCHANGED faultVars
              /\ todo' = todo \ {p} /\ listed' = listed \ {p}
              /\ UNCHANGED << pc, asked, view >>
           \/ Return /\ UNCHANGED clusterVars /\ (Fault("k8s") \/ UNCHANGED faultVars)
BY DEF DeletePodByName

\* Either way the pod is down afterwards.
LEMMA DeleteEffect ==
  ASSUME ClusterTyped, OpTyped, NEW p \in Pod, IF p \in Up THEN Stop({p}) ELSE UNCHANGED << clusterVars, conn >>
  PROVE  /\ ClusterTyped'
         /\ \A q \in Pod : node'[q] = IF q = p THEN "down" ELSE node[q]
         /\ \A q \in Pod : zone'[q] = IF q = p THEN None ELSE zone[q]
         /\ synced' = synced \ {p} /\ conn' = conn \ {p} /\ scheduled' = scheduled \ {p}
<1>1. CASE p \in Up
  BY <1>1, StopEffect
<1>2. CASE p \notin Up
  <2>1. node[p] = "down" /\ zone[p] = None /\ p \notin conn /\ p \notin synced /\ p \notin scheduled
    BY <1>2 DEF Up, ClusterTyped
  <2>2. ClusterTyped'
    BY <1>2, ClusterStays DEF ClusterTyped
  <2> QED
    BY <1>2, <2>1, <2>2 DEF clusterVars
<1> QED
  BY <1>1, <1>2

LEMMA TypeDeletePodByName == TypeInv /\ DeletePodByName => TypeInv'
<1> SUFFICES ASSUME TypeInv, DeletePodByName PROVE TypeInv'
  OBVIOUS
<1> USE DEF TypeInv
<1>1. PICK p \in todo :
           \/ /\ IF p \in Up THEN Stop({p}) ELSE UNCHANGED << clusterVars, conn >>
              /\ IF node[p] = "master" \/ (node[p] = "slave" /\ MasterOf(p[1]) = {})
                 THEN Event("stale") ELSE UNCHANGED faultVars
              /\ todo' = todo \ {p} /\ listed' = listed \ {p}
              /\ UNCHANGED << pc, asked, view >>
           \/ Return /\ UNCHANGED clusterVars /\ (Fault("k8s") \/ UNCHANGED faultVars)
  BY DeletePodCases
<1>2. "stale" \in EventKind /\ pc = "delete" /\ p \in Pod
  BY DEF EventKind, OpTyped, DeletePodByName
<1>3. RestTyped'
  <2>1. (Event("stale") \/ Fault("k8s") \/ UNCHANGED faultVars)
    BY <1>1
  <2> QED
    BY <1>2, <2>1, EventEffect, FaultEffect DEF DeletePodByName, RestTyped, userVars, faultVars
<1>4. CASE Return /\ UNCHANGED clusterVars
  BY <1>3, <1>4, TypeReturn
<1>5. CASE /\ IF p \in Up THEN Stop({p}) ELSE UNCHANGED << clusterVars, conn >>
           /\ todo' = todo \ {p} /\ listed' = listed \ {p}
           /\ UNCHANGED << pc, asked, view >>
  <2>1. /\ ClusterTyped' /\ conn' = conn \ {p}
        /\ \A q \in Pod : node'[q] = IF q = p THEN "down" ELSE node[q]
    BY <1>2, <1>5, DeleteEffect
  <2> QED
    BY <1>2, <1>3, <1>5, <2>1 DEF OpTyped, UnlistedIsNew, ListIsSeen
<1> QED
  BY <1>1, <1>4, <1>5

LEMMA TypeDeleteDone == TypeInv /\ DeleteDone => TypeInv'
<1> SUFFICES ASSUME TypeInv, DeleteDone PROVE TypeInv'
  OBVIOUS
<1>1. RestTyped'
  BY DEF DeleteDone, TypeInv, RestTyped, userVars, faultVars
<1> QED
  BY <1>1, TypeReturn DEF DeleteDone

LEMMA TypeFailoverSlaveToMaster == TypeInv /\ FailoverSlaveToMaster => TypeInv'
<1> SUFFICES ASSUME TypeInv, FailoverSlaveToMaster PROVE TypeInv'
  OBVIOUS
<1> USE DEF TypeInv
<1>1. PICK p \in todo :
       \/ /\ p \in synced /\ scheduled' = scheduled \cup {p}
          /\ todo' = todo \ {p}
          /\ UNCHANGED << zone, node, synced, ghosts, strays, pc, faultVars >>
       \/ /\ Fault("redis") \/ UNCHANGED faultVars
          /\ todo' = {}
          /\ pc' = "annotate"
          /\ UNCHANGED clusterVars
  BY DEF FailoverSlaveToMaster
<1>2. pc = "failover" /\ UNCHANGED << zones, creating, userVars, asked, listed, conn, view >>
  BY DEF FailoverSlaveToMaster
<1>3. RestTyped'
  BY <1>1, <1>2, FaultEffect DEF RestTyped, userVars, faultVars
<1>4. OpTyped' /\ ListIsSeen'
  BY <1>1, <1>2 DEF OpTyped, ListIsSeen, PC
<1>5. CASE /\ p \in synced /\ scheduled' = scheduled \cup {p}
           /\ UNCHANGED << zone, node, synced, ghosts, strays, pc >>
  <2>1. ClusterTyped'
    BY <1>2, <1>5 DEF ClusterTyped, OneMaster, Up
  <2> QED
    BY <1>2, <1>3, <1>4, <1>5, <2>1 DEF UnlistedIsNew
<1>6. CASE UNCHANGED clusterVars
  <2>1. ClusterTyped'
    BY <1>2, <1>6, ClusterStays DEF ClusterTyped
  <2> QED
    BY <1>2, <1>3, <1>4, <1>6, <2>1 DEF UnlistedIsNew, clusterVars
<1> QED
  BY <1>1, <1>5, <1>6

LEMMA TypePlaceMastersbySTSDone == TypeInv /\ PlaceMastersbySTSDone => TypeInv'
<1> SUFFICES ASSUME TypeInv, PlaceMastersbySTSDone PROVE TypeInv'
  OBVIOUS
<1> USE DEF TypeInv, PlaceMastersbySTSDone
<1>1. ClusterTyped'
  BY ClusterStays DEF ClusterTyped
<1>2. RestTyped' /\ UnlistedIsNew' /\ OpTyped' /\ ListIsSeen'
  BY DEF RestTyped, UnlistedIsNew, OpTyped, ListIsSeen, PC, clusterVars, userVars, faultVars
<1> QED
  BY <1>1, <1>2

LEMMA TypeUpdateCrdAnnotations == TypeInv /\ UpdateCrdAnnotations => TypeInv'
<1> SUFFICES ASSUME TypeInv, UpdateCrdAnnotations PROVE TypeInv'
  OBVIOUS
<1>1. RestTyped'
  BY FaultEffect DEF UpdateCrdAnnotations, TypeInv, RestTyped, userVars, faultVars
<1> QED
  BY <1>1, TypeReturn DEF UpdateCrdAnnotations

LEMMA TypeCrash == TypeInv /\ Crash => TypeInv'
<1> SUFFICES ASSUME TypeInv, Crash PROVE TypeInv'
  OBVIOUS
<1>1. RestTyped'
  BY FaultEffect DEF Crash, TypeInv, RestTyped, userVars
<1> QED
  BY <1>1, TypeReturn DEF Crash

LEMMA TypeNext == TypeInv /\ [Next]_vars => TypeInv'
<1> SUFFICES ASSUME TypeInv, [Next]_vars PROVE TypeInv'
  OBVIOUS
<1>1. CASE Operator
  BY <1>1, TypeGetStatefulSetPods, TypeWaitPodReady, TypeFixFailedNodes, TypeFixUntrustedNodes,
     TypeHealed, TypeGetClusterInfosError, TypeWaitForClusterJoin, TypeSyncCluster,
     TypeDispatchMastersError, TypeNoClusterOperation, TypeGetNewClusterInfos, TypeDeletePodByName,
     TypeDeleteDone, TypeFailoverSlaveToMaster, TypePlaceMastersbySTSDone, TypeUpdateCrdAnnotations
     DEF Operator, Heal
<1>2. CASE Crash \/ Environment \/ Settle
  BY <1>2, TypeCrash, TypeZoneFails, TypePodRestart, TypeFailover, TypeSettle, TypePodStarts
     DEF Environment, Settle
<1>3. CASE UNCHANGED vars
  BY <1>3 DEF TypeInv, ClusterTyped, OneMaster, Up, OpTyped, RestTyped, UnlistedIsNew, ListIsSeen,
              vars, clusterVars, userVars, opVars, faultVars
<1> QED
  BY <1>1, <1>2, <1>3 DEF Next

LEMMA TypeAlways == Spec => []TypeInv
BY TypeInit, TypeNext, PTL DEF Spec

\* Type correctness, whatever the faults: in particular no shard ever has two masters,
\* although syncCluster chooses masters from infos that were read before the join and
\* that leave out pods which started since.
THEOREM ZonesTypeCorrect == Spec => []TypeOK
BY TypeAlways, TypeInvImpliesTypeOK, PTL

-----------------------------------------------------------------------------
(***************************************************************************)
(* What happens around a reconcile, in the terms of the invariants.        *)
(***************************************************************************)

StoppedStep ==
  \E P \in SUBSET Pod : Stop(P) /\ SparesCopies(P)

StartedStep ==
  /\ \E p \in Pod :
       /\ node[p] = "down" /\ p \notin conn
       /\ \A q \in Pod : node'[q] = IF q = p THEN "alone" ELSE node[q]
       /\ \A q \in Pod : q # p => zone'[q] = zone[q]
       /\ Formed(p[1]) /\ MasterOf(p[1]) = {} => "early" \in hit'
  /\ UNCHANGED << synced, scheduled, conn >>

SyncedStep ==
  /\ \E p \in Pod : node[p] = "slave" /\ MasterOf(p[1]) # {} /\ synced' = synced \cup {p}
  /\ UNCHANGED << node, zone, scheduled, conn >>

JoinedStep ==
  /\ \E p \in Pod : node[p] = "meeting" /\ \A q \in Pod : node'[q] = IF q = p THEN "empty" ELSE node[q]
  /\ UNCHANGED << zone, synced, scheduled, conn >>

\* p takes over: its master is gone, or is up, or has agreed.
TakesOver(p) ==
  \/ MasterOf(p[1]) = {}
  \/ "failover" \in hit'
  \/ p \in scheduled /\ ((\E q \in todo : q[1] = p[1]) => "late" \in hit')

TookOverStep ==
  /\ \E p \in synced : TakeOver(p) /\ TakesOver(p)
  /\ UNCHANGED conn

OtherStep ==
  /\ \/ UNCHANGED scheduled
     \/ \E p \in scheduled : scheduled' = scheduled \ {p} /\ (MasterOf(p[1]) = {} \/ "expired" \in hit')
  /\ UNCHANGED << node, zone, synced, conn >>

LEMMA OutsideCases ==
  ASSUME TypeInv, Environment \/ Settle
  PROVE  /\ UNCHANGED opVars /\ hit \subseteq hit'
         /\ StoppedStep \/ StartedStep \/ SyncedStep \/ JoinedStep \/ TookOverStep \/ OtherStep
<1> USE DEF TypeInv
<1>1. CASE ZoneFails
  <2>1. hit \subseteq hit'
    BY <1>1, FaultEffect DEF ZoneFails
  <2> QED
    BY <1>1, <2>1 DEF ZoneFails, StoppedStep
<1>2. CASE PodRestart
  <2>1. hit \subseteq hit'
    BY <1>2, FaultEffect DEF PodRestart
  <2>2. StoppedStep
    BY <1>2 DEF PodRestart, StoppedStep, Up
  <2> QED
    BY <1>2, <2>1, <2>2 DEF PodRestart
<1>3. CASE FailoverOfLive
  <2>1. hit \subseteq hit' /\ "failover" \in hit'
    BY <1>3, FaultEffect DEF FailoverOfLive, Excused
  <2>2. TookOverStep
    BY <1>3, <2>1 DEF FailoverOfLive, TookOverStep, TakesOver
  <2> QED
    BY <1>3, <2>1, <2>2 DEF FailoverOfLive
<1>4. CASE PodStarts
  <2>1. PICK p \in Pod, z \in zones :
          /\ p \notin Up
          /\ IF Formed(p[1]) /\ MasterOf(p[1]) = {} THEN Fault("early") ELSE UNCHANGED faultVars
          /\ zone' = [zone EXCEPT ![p] = z]
          /\ node' = [node EXCEPT ![p] = "alone"]
    BY <1>4 DEF PodStarts
  <2>2. hit \subseteq hit' /\ (Formed(p[1]) /\ MasterOf(p[1]) = {} => "early" \in hit')
    BY <2>1, FaultEffect DEF Excused, faultVars
  <2>3. node[p] = "down" /\ p \notin conn
    BY <2>1 DEF Up, ClusterTyped
  <2>4. StartedStep
    BY <1>4, <2>1, <2>2, <2>3 DEF PodStarts, StartedStep, ClusterTyped
  <2> QED
    BY <1>4, <2>2, <2>4 DEF PodStarts
<1>5. CASE Resync
  <2>1. SyncedStep
    BY <1>5 DEF Resync, SyncedStep
  <2> QED
    BY <1>5, <2>1 DEF Resync, faultVars
<1>6. CASE Join
  <2>1. JoinedStep
    BY <1>6 DEF Join, JoinedStep, ClusterTyped
  <2> QED
    BY <1>6, <2>1 DEF Join, faultVars
<1>7. CASE Failover
  <2>1. TookOverStep
    BY <1>7 DEF Failover, TookOverStep, TakesOver
  <2> QED
    BY <1>7, <2>1 DEF Failover, faultVars
<1>8. CASE ZoneBack \/ HandshakeTimeout \/ Ask
  BY <1>8 DEF ZoneBack, HandshakeTimeout, Ask, OtherStep, clusterVars, faultVars
<1>9. CASE ManualFailover
  <2>1. PICK p \in scheduled :
          /\ TakeOver(p)
          /\ IF \E q \in todo : q[1] = p[1] THEN Event("late") ELSE UNCHANGED faultVars
    BY <1>9 DEF ManualFailover
  <2>2. hit \subseteq hit' /\ ((\E q \in todo : q[1] = p[1]) => "late" \in hit') /\ p \in synced
    BY <2>1 DEF Event, faultVars, ClusterTyped
  <2>3. TookOverStep
    BY <1>9, <2>1, <2>2 DEF ManualFailover, TookOverStep, TakesOver
  <2> QED
    BY <1>9, <2>2, <2>3 DEF ManualFailover
<1>10. CASE ManualFailoverTimeout
  <2>1. PICK p \in scheduled :
          /\ scheduled' = scheduled \ {p}
          /\ IF MasterOf(p[1]) # {} THEN Fault("expired") ELSE UNCHANGED faultVars
    BY <1>10 DEF ManualFailoverTimeout
  <2>2. hit \subseteq hit' /\ (MasterOf(p[1]) = {} \/ "expired" \in hit')
    BY <2>1, FaultEffect DEF Excused, faultVars
  <2>3. OtherStep
    BY <1>10, <2>1, <2>2 DEF ManualFailoverTimeout, OtherStep
  <2> QED
    BY <1>10, <2>2, <2>3 DEF ManualFailoverTimeout
<1> QED
  BY <1>1, <1>2, <1>3, <1>4, <1>5, <1>6, <1>7, <1>8, <1>9, <1>10 DEF Environment, Settle

-----------------------------------------------------------------------------
(***************************************************************************)
(* A copy of every shard.                                                  *)
(***************************************************************************)

\* What a step may not do (CopiesKept).
CopyStep == \A s \in Shard : Formed(s) /\ {"early", "stale"} \cap hit' = {} => Copies(s)' # {}

LEMMA CopyInit == Init => CopyInv
BY DEF Init, CopyInv, DeadMasterIsDown, HealSeesMasters, ViewSeesMasters, NewStaysNew,
       Formed, Copies, MasterOf

\* Steps that leave the roles and the data alone, and those of a reconcile that does not
\* use its first infos any more.
LEMMA CopyQuiet ==
  ASSUME CopyInv, UNCHANGED << node, synced >>, hit \subseteq hit',
         pc' \notin {"heal", "join", "sync"}
  PROVE  CopyInv' /\ CopyStep
BY DEF CopyInv, CopyStep, NotEarly, DeadMasterIsDown, HealSeesMasters, ViewSeesMasters, NewStaysNew,
       Formed, Copies, MasterOf, Up

\* Pods that go down.  What the reconcile has read does not match any more if one of
\* them is listed; the others are new.
LEMMA CopyStop ==
  ASSUME TypeInv, CopyInv, NEW P \in SUBSET Pod, hit \subseteq hit',
         \A p \in Pod : node'[p] = IF p \in P THEN "down" ELSE node[p],
         synced' = synced \ P, conn' = conn \ P, UNCHANGED << pc, view >>,
         pc = "delete" \/ listed' = listed
  PROVE  CopyInv'
<1>1. \A s \in Shard : MasterOf(s)' = MasterOf(s) \ P /\ Copies(s)' = Copies(s) \ P
  BY PodFacts DEF MasterOf, Copies
<1>2. DeadMasterIsDown'
  <2> SUFFICES ASSUME NotEarly', NEW s \in Shard, Formed(s)', MasterOf(s)' = {}
               PROVE  (PodsOf(s) \ Up)' # {}
    BY DEF DeadMasterIsDown
  <2>1. CASE MasterOf(s) = {}
    <3>1. PodsOf(s) \ Up # {}
      BY <1>1, <2>1 DEF CopyInv, DeadMasterIsDown, NotEarly, Formed
    <3>2. PICK p \in PodsOf(s) : node[p] = "down"
      BY <3>1, PodFacts DEF Up
    <3> QED
      BY <3>2, PodFacts DEF Up
  <2>2. CASE MasterOf(s) # {}
    BY <1>1, <2>2, PodFacts DEF MasterOf, Up
  <2> QED
    BY <2>1, <2>2
<1>3. HealSeesMasters'
  <2> SUFFICES ASSUME NotEarly', pc = "heal", conn' = listed, NEW s \in Shard, Formed(s)'
               PROVE  MasterOf(s)' # {}
    BY DEF HealSeesMasters
  <2>1. conn = listed /\ P \cap listed = {}
    BY DEF TypeInv, OpTyped
  <2>2. MasterOf(s) # {}
    BY <1>1, <2>1 DEF CopyInv, HealSeesMasters, NotEarly, Formed
  <2>3. MasterOf(s) \subseteq listed
    BY PodFacts DEF MasterOf, TypeInv, UnlistedIsNew
  <2> QED
    BY <1>1, <2>1, <2>2, <2>3
<1>4. ViewSeesMasters'
  BY <1>1 DEF CopyInv, ViewSeesMasters, NotEarly, Formed, MastersIn
<1>5. NewStaysNew'
  BY DEF CopyInv, NewStaysNew, TypeInv, OpTyped
<1> QED
  BY <1>2, <1>3, <1>4, <1>5 DEF CopyInv

\* A replica takes over: its shard has a master afterwards, the others are as before.
LEMMA CopyTakeOver ==
  ASSUME TypeInv, CopyInv, NEW p \in synced, TakeOver(p), conn' = conn, hit \subseteq hit',
         UNCHANGED << pc, view, listed >>
  PROVE  CopyInv' /\ CopyStep
<1>1. /\ p \in Pod /\ node[p] = "slave"
      /\ \A q \in Pod : node'[q] = IF q = p THEN "master"
                                   ELSE IF q \in MasterOf(p[1]) THEN "slave" ELSE node[q]
      /\ synced' = synced \ PodsOf(p[1])
  BY TakeOverEffect DEF TypeInv
<1>2. p \in MasterOf(p[1])' /\ p \in Copies(p[1])'
  BY <1>1, PodFacts DEF MasterOf, Copies
<1>3. \A s \in Shard : s # p[1] => MasterOf(s)' = MasterOf(s) /\ Copies(s)' = Copies(s)
  BY <1>1, PodFacts DEF MasterOf, Copies
<1>4. \A q \in Pod : node'[q] = "down" <=> node[q] = "down"
  BY <1>1 DEF MasterOf
<1>5. DeadMasterIsDown'
  BY <1>2, <1>3, <1>4, PodFacts DEF CopyInv, DeadMasterIsDown, NotEarly, Formed, Up
<1>6. HealSeesMasters'
  BY <1>2, <1>3 DEF CopyInv, HealSeesMasters, NotEarly, Formed
<1>7. ViewSeesMasters'
  <2> SUFFICES ASSUME NotEarly', pc \in {"join", "sync"}, NEW s \in Shard, MastersIn(view, s) = {}
               PROVE  ~Formed(s)'
    BY DEF ViewSeesMasters, MastersIn
  <2>1. ~Formed(s)
    BY DEF CopyInv, ViewSeesMasters, NotEarly
  <2>2. s # p[1]
    BY <1>1, <2>1, PodFacts DEF Formed, Copies
  <2> QED
    BY <1>3, <2>1, <2>2 DEF Formed
<1>8. NewStaysNew'
  BY <1>1 DEF CopyInv, NewStaysNew, Outside, MasterOf, TypeInv, OpTyped
<1>9. CopyStep
  BY <1>2, <1>3 DEF CopyStep, Formed
<1> QED
  BY <1>5, <1>6, <1>7, <1>8, <1>9 DEF CopyInv

LEMMA CopyOutside ==
  ASSUME TypeInv, CopyInv, Environment \/ Settle
  PROVE  CopyInv' /\ CopyStep
<1>1. UNCHANGED << pc, view, listed, todo >> /\ hit \subseteq hit'
  BY OutsideCases DEF opVars
<1>2. CASE StoppedStep
  <2>1. PICK P \in SUBSET Pod : Stop(P) /\ SparesCopies(P)
    BY <1>2 DEF StoppedStep
  <2>2. /\ \A p \in Pod : node'[p] = IF p \in P THEN "down" ELSE node[p]
        /\ synced' = synced \ P /\ conn' = conn \ P
    BY <2>1, StopEffect DEF TypeInv
  <2>3. \A s \in Shard : Copies(s)' = Copies(s) \ P
    BY <2>2, PodFacts DEF MasterOf, Copies
  <2>4. CopyStep
    BY <2>1, <2>3 DEF CopyStep, SparesCopies
  <2> QED
    BY <1>1, <2>2, <2>4, CopyStop
<1>3. CASE StartedStep
  <2>1. PICK p \in Pod :
          /\ node[p] = "down" /\ p \notin conn
          /\ \A q \in Pod : node'[q] = IF q = p THEN "alone" ELSE node[q]
          /\ Formed(p[1]) /\ MasterOf(p[1]) = {} => "early" \in hit'
    BY <1>3 DEF StartedStep
  <2>2. synced' = synced /\ conn' = conn
    BY <1>3 DEF StartedStep
  <2>3. \A s \in Shard : MasterOf(s)' = MasterOf(s) /\ Copies(s)' = Copies(s)
    BY <2>1, <2>2, PodFacts DEF MasterOf, Copies
  <2>4. DeadMasterIsDown'
    <3> SUFFICES ASSUME NotEarly', NEW s \in Shard, Formed(s)', MasterOf(s)' = {}
                 PROVE  (PodsOf(s) \ Up)' # {}
      BY DEF DeadMasterIsDown
    <3>1. Formed(s) /\ MasterOf(s) = {} /\ s # p[1]
      BY <2>1, <2>3 DEF Formed, NotEarly
    <3>2. PodsOf(s) \ Up # {}
      BY <1>1, <3>1 DEF CopyInv, DeadMasterIsDown, NotEarly
    <3>3. PICK q \in PodsOf(s) : node[q] = "down"
      BY <3>2, PodFacts DEF Up
    <3>4. q # p /\ node'[q] = "down"
      BY <2>1, <3>1, <3>3, PodFacts
    <3> QED
      BY <3>3, <3>4 DEF Up, PodsOf
  <2>5. HealSeesMasters' /\ ViewSeesMasters'
    BY <1>1, <2>2, <2>3 DEF CopyInv, HealSeesMasters, ViewSeesMasters, NotEarly, Formed, MastersIn
  <2>6. NewStaysNew'
    BY <1>1, <2>1, <2>2 DEF CopyInv, NewStaysNew, TypeInv, OpTyped
  <2>7. CopyStep
    BY <2>3 DEF CopyStep, Formed
  <2> QED
    BY <2>4, <2>5, <2>6, <2>7 DEF CopyInv
<1>4. CASE SyncedStep
  <2>1. PICK p \in Pod : MasterOf(p[1]) # {} /\ synced' = synced \cup {p}
    BY <1>4 DEF SyncedStep
  <2>2. node' = node /\ conn' = conn
    BY <1>4 DEF SyncedStep
  <2>3. \A s \in Shard : MasterOf(s)' = MasterOf(s) /\ Copies(s) \subseteq Copies(s)'
    BY <2>1, <2>2 DEF MasterOf, Copies
  <2>4. \A s \in Shard : Formed(s)' => Formed(s)
    BY <2>1, <2>2, PodFacts DEF Formed, Copies, MasterOf
  <2>5. DeadMasterIsDown' /\ HealSeesMasters' /\ ViewSeesMasters' /\ NewStaysNew'
    BY <1>1, <2>2, <2>3, <2>4
       DEF CopyInv, DeadMasterIsDown, HealSeesMasters, ViewSeesMasters, NewStaysNew, NotEarly, Up, MastersIn
  <2>6. CopyStep
    BY <2>3 DEF CopyStep, Formed
  <2> QED
    BY <2>5, <2>6 DEF CopyInv
<1>5. CASE JoinedStep
  <2>1. PICK p \in Pod : node[p] = "meeting" /\ \A q \in Pod : node'[q] = IF q = p THEN "empty" ELSE node[q]
    BY <1>5 DEF JoinedStep
  <2>2. synced' = synced /\ conn' = conn
    BY <1>5 DEF JoinedStep
  <2>3. \A s \in Shard : MasterOf(s)' = MasterOf(s) /\ Copies(s)' = Copies(s)
    BY <2>1, <2>2, PodFacts DEF MasterOf, Copies
  <2>4. \A q \in Pod : node'[q] = "down" <=> node[q] = "down"
    BY <2>1
  <2>5. DeadMasterIsDown'
    BY <1>1, <2>3, <2>4, PodFacts DEF CopyInv, DeadMasterIsDown, NotEarly, Formed, Up
  <2>6. HealSeesMasters' /\ ViewSeesMasters'
    BY <1>1, <2>2, <2>3 DEF CopyInv, HealSeesMasters, ViewSeesMasters, NotEarly, Formed, MastersIn
  <2>7. NewStaysNew'
    BY <1>1, <2>1, <2>2 DEF CopyInv, NewStaysNew, TypeInv, OpTyped, Outside
  <2>8. CopyStep
    BY <2>3 DEF CopyStep, Formed
  <2> QED
    BY <2>5, <2>6, <2>7, <2>8 DEF CopyInv
<1>6. CASE TookOverStep
  BY <1>1, <1>6, CopyTakeOver DEF TookOverStep
<1>7. CASE OtherStep
  <2>1. \A s \in Shard : MasterOf(s)' = MasterOf(s) /\ Copies(s)' = Copies(s)
    BY <1>7 DEF OtherStep, MasterOf, Copies
  <2>2. CopyInv'
    BY <1>1, <1>7, <2>1
       DEF OtherStep, CopyInv, DeadMasterIsDown, HealSeesMasters, ViewSeesMasters, NewStaysNew,
           NotEarly, Up, MastersIn, Formed
  <2> QED
    BY <2>1, <2>2 DEF CopyStep, Formed
<1> QED
  BY <1>2, <1>3, <1>4, <1>5, <1>6, <1>7, OutsideCases

LEMMA CopyWaitPodReady == TypeInv /\ CopyInv /\ waitPodReady => CopyInv' /\ CopyStep
<1> SUFFICES ASSUME TypeInv, CopyInv, waitPodReady PROVE CopyInv' /\ CopyStep
  OBVIOUS
<1>1. UNCHANGED << node, synced >> /\ hit' = hit
  BY DEF waitPodReady, clusterVars, faultVars
<1>2. CASE Return
  BY <1>1, <1>2, CopyQuiet DEF Return
<1>3. CASE pc' = "heal" /\ Up = Pod
  <2>1. \A s \in Shard : PodsOf(s) \ Up = {}
    BY <1>3, PodFacts
  <2>2. HealSeesMasters' /\ DeadMasterIsDown'
    BY <1>1, <2>1 DEF CopyInv, DeadMasterIsDown, HealSeesMasters, NotEarly, Formed, Copies, MasterOf, Up
  <2>3. ViewSeesMasters' /\ NewStaysNew'
    BY <1>3 DEF ViewSeesMasters, NewStaysNew
  <2> QED
    BY <1>1, <2>2, <2>3 DEF CopyInv, CopyStep, Formed, Copies, MasterOf
<1> QED
  BY <1>2, <1>3 DEF waitPodReady

\* FixFailedNodes resets no replica of a shard that has its master.
LEMMA CopyFixFailedNodes == TypeInv /\ CopyInv /\ FixFailedNodes => CopyInv' /\ CopyStep
<1> SUFFICES ASSUME TypeInv, CopyInv, FixFailedNodes PROVE CopyInv' /\ CopyStep
  OBVIOUS
<1>1. hit \subseteq hit'
  BY FaultEffect DEF FixFailedNodes, TypeInv, faultVars
<1>2. /\ \A p \in Pod : node'[p] = IF p \in Detached THEN "meeting" ELSE node[p]
      /\ synced' = synced \ Detached /\ pc = "heal" /\ conn = listed /\ pc' = "idle"
  BY DEF FixFailedNodes, Return
<1>3. \A p \in Detached : node[p] = "slave"
  BY DEF Detached
<1>4. \A s \in Shard : MasterOf(s)' = MasterOf(s) /\ Copies(s)' \subseteq Copies(s)
  BY <1>2, <1>3, PodFacts DEF MasterOf, Copies
<1>5. \A p \in Pod : node'[p] = "down" <=> node[p] = "down"
  BY <1>2, <1>3
<1>6. DeadMasterIsDown'
  BY <1>1, <1>4, <1>5, PodFacts DEF CopyInv, DeadMasterIsDown, NotEarly, Formed, Up
<1>7. HealSeesMasters' /\ ViewSeesMasters' /\ NewStaysNew'
  BY <1>2 DEF HealSeesMasters, ViewSeesMasters, NewStaysNew
<1>8. CopyStep
  <2> SUFFICES ASSUME NEW s \in Shard, Formed(s), {"early", "stale"} \cap hit' = {}
               PROVE  Copies(s)' # {}
    BY DEF CopyStep
  <2>1. MasterOf(s) # {}
    BY <1>1, <1>2 DEF CopyInv, HealSeesMasters, NotEarly
  <2> QED
    BY <1>4, <2>1 DEF Copies
<1> QED
  BY <1>6, <1>7, <1>8 DEF CopyInv

LEMMA CopyHealed == TypeInv /\ CopyInv /\ Healed => CopyInv' /\ CopyStep
<1> SUFFICES ASSUME TypeInv, CopyInv, Healed PROVE CopyInv' /\ CopyStep
  OBVIOUS
<1>1. /\ UNCHANGED << node, synced, conn, listed >> /\ hit' = hit
      /\ pc = "heal" /\ pc' = "join" /\ conn = listed
  BY DEF Healed, clusterVars, faultVars
<1>2. \A p \in Pod : view'[p] = IF p \in listed THEN node[p] ELSE None
  BY <1>1 DEF Healed, Role
<1>3. \A p \in Pod : node[p] = "master" => view'[p] = "master"
  BY <1>1, <1>2 DEF TypeInv, UnlistedIsNew
<1>4. \A s \in Shard : MastersIn(view', s) = {} => MasterOf(s) = {}
  BY <1>3, PodFacts DEF MastersIn, MasterOf
<1>5. ViewSeesMasters'
  <2> SUFFICES ASSUME NotEarly', NEW s \in Shard, MastersIn(view', s) = {}
               PROVE  ~Formed(s)'
    BY DEF ViewSeesMasters, MastersIn
  <2>1. ~Formed(s)
    BY <1>1, <1>4 DEF CopyInv, HealSeesMasters, NotEarly
  <2> QED
    BY <1>1, <2>1 DEF Formed, Copies, MasterOf
<1>6. NewStaysNew'
  <2>1. \A p \in Pod : view'[p] = "master" => node[p] = "master"
    BY <1>2, ZonesAssumption DEF NodeKind
  <2>2. \A p \in conn : view'[p] = node'[p]
    BY <1>1, <1>2 DEF TypeInv, OpTyped
  <2> QED
    BY <1>1, <2>1, <2>2 DEF NewStaysNew, TypeInv, ClusterTyped, OneMaster
<1>7. DeadMasterIsDown' /\ HealSeesMasters' /\ CopyStep
  BY <1>1 DEF CopyInv, DeadMasterIsDown, HealSeesMasters, CopyStep, NotEarly, Formed, Copies, MasterOf, Up
<1> QED
  BY <1>5, <1>6, <1>7 DEF CopyInv

LEMMA CopyWaitForClusterJoin == TypeInv /\ CopyInv /\ waitForClusterJoin => CopyInv' /\ CopyStep
<1> SUFFICES ASSUME TypeInv, CopyInv, waitForClusterJoin PROVE CopyInv' /\ CopyStep
  OBVIOUS
<1>1. PICK k \in {"empty", "meeting"} :
        /\ node' = [p \in Pod |-> IF p \in Alone THEN k ELSE node[p]]
        /\ \/ pc' = "sync" /\ UNCHANGED << listed, conn, view >>
           \/ pc' = "idle"
  BY DEF waitForClusterJoin, Return
<1>2. synced' = synced /\ hit' = hit /\ pc = "join"
  BY DEF waitForClusterJoin, faultVars
<1>3. \A p \in Alone : node[p] \in Outside
  BY DEF Alone
<1>4. \A p \in Pod : node'[p] = IF p \in Alone THEN k ELSE node[p]
  BY <1>1
<1>5. \A s \in Shard : MasterOf(s)' = MasterOf(s) /\ Copies(s)' = Copies(s)
  BY <1>2, <1>3, <1>4, PodFacts DEF MasterOf, Copies, Outside
<1>6. \A p \in Pod : node'[p] = "down" <=> node[p] = "down"
  BY <1>3, <1>4 DEF Outside
<1>7. DeadMasterIsDown'
  BY <1>2, <1>5, <1>6, PodFacts DEF CopyInv, DeadMasterIsDown, NotEarly, Formed, Up
<1>8. HealSeesMasters'
  BY <1>1 DEF HealSeesMasters
<1>9. ViewSeesMasters'
  BY <1>1, <1>2, <1>5 DEF CopyInv, ViewSeesMasters, NotEarly, Formed, MastersIn
<1>10. NewStaysNew'
  BY <1>1, <1>2, <1>3, <1>4 DEF CopyInv, NewStaysNew, TypeInv, OpTyped, Outside
<1>11. CopyStep
  BY <1>5 DEF CopyStep, Formed
<1> QED
  BY <1>7, <1>8, <1>9, <1>10, <1>11 DEF CopyInv

\* syncCluster attaches no replica of a shard whose master it has seen, and a shard whose
\* master it has not seen has no data.
LEMMA CopySyncCluster == TypeInv /\ CopyInv /\ syncCluster => CopyInv' /\ CopyStep
<1> SUFFICES ASSUME TypeInv, CopyInv, syncCluster PROVE CopyInv' /\ CopyStep
  OBVIOUS
<1>1. pc = "sync"
  BY DEF syncCluster
<1>2. PICK t \in [Shard -> Pod] :
           /\ \A s \in Shard : t[s] \in Candidates(view, s)
           /\ \/ /\ AllAble(view, t) /\ Attach(AbleSlaves(view, t), NewMasters(view, t))
                 /\ pc' = "infos" /\ (UNCHANGED faultVars \/ Event("free"))
              \/ /\ \E A \in SUBSET AbleSlaves(view, t) : Attach(A, {})
                 /\ pc' = "idle"
                 /\ UNCHANGED faultVars \/ Fault("redis")
  BY SyncClusterCases DEF Return
<1>3. hit \subseteq hit' /\ pc' \in {"infos", "idle"}
  BY <1>2 DEF Fault, Event, faultVars
<1>4. PICK A \in SUBSET AbleSlaves(view, t), new \in SUBSET NewMasters(view, t) :
        Attach(A, new) /\ \A p \in new : node[p] = "empty"
  BY <1>2 DEF AllAble
<1>5. /\ \A p \in A : p \in Pod /\ p \in conn /\ node[p] \in {"empty", "slave"}
      /\ \A p \in new : p \in Pod
  BY <1>1, <1>2, PlacementFacts
<1>6. /\ \A p \in Pod : node'[p] = IF p \in A THEN "slave" ELSE IF p \in new THEN "master" ELSE node[p]
      /\ synced' = synced \ A
  BY <1>4 DEF Attach
<1>7. \A p \in Pod : (node[p] = "master" => node'[p] = "master") /\ (node'[p] = "down" <=> node[p] = "down")
  BY <1>4, <1>5, <1>6
<1>8. \A s \in Shard : MasterOf(s) \subseteq MasterOf(s)'
  BY <1>7, PodFacts DEF MasterOf
<1>9. \A s \in Shard : Formed(s)' /\ MasterOf(s)' = {} => Formed(s) /\ MasterOf(s) = {}
  BY <1>6, <1>8 DEF Formed, Copies
<1>10. DeadMasterIsDown'
  BY <1>3, <1>7, <1>9, PodFacts DEF CopyInv, DeadMasterIsDown, NotEarly, Up
<1>11. HealSeesMasters' /\ ViewSeesMasters' /\ NewStaysNew'
  BY <1>3 DEF HealSeesMasters, ViewSeesMasters, NewStaysNew
<1>12. CopyStep
  <2> SUFFICES ASSUME NEW s \in Shard, Formed(s), {"early", "stale"} \cap hit' = {}
               PROVE  Copies(s)' # {}
    BY DEF CopyStep
  <2>1. MastersIn(view, s) # {}
    BY <1>1, <1>3 DEF CopyInv, ViewSeesMasters, NotEarly
  <2>2. t[s] \in MastersIn(view, s)
    BY <1>2, <2>1 DEF Candidates
  <2>3. ASSUME NEW p \in PodsOf(s), p \in A
        PROVE  node[p] = "empty"
    <3>1. p # t[s] /\ view[p] # None /\ view[p] # "slave" /\ p \in conn /\ p \in Pod
      BY <1>5, <2>1, <2>3, PodFacts DEF AbleSlaves, PlaceSlaves
    <3>2. view[p] # "master"
      BY <1>1, <2>2, <3>1, PodFacts DEF CopyInv, NewStaysNew, MastersIn
    <3>3. view[p] \in Seen
      BY <3>1 DEF TypeInv, OpTyped
    <3>4. view[p] \in Outside \cup {"empty"}
      BY <3>1, <3>2, <3>3 DEF Seen, NodeKind, Outside
    <3>5. node[p] \in Outside \cup {"empty"}
      BY <1>1, <3>1, <3>4 DEF CopyInv, NewStaysNew
    <3> QED
      BY <1>5, <2>3, <3>5 DEF Outside
  <2>4. synced \cap PodsOf(s) \cap A = {}
    BY <2>3, PodFacts DEF TypeInv, ClusterTyped
  <2> QED
    BY <1>6, <1>8, <2>4 DEF Formed, Copies
<1> QED
  BY <1>10, <1>11, <1>12 DEF CopyInv

\* A pod that is deleted is no copy, or its shard has another pod that is the master.
LEMMA CopyDeletePodByName == TypeInv /\ CopyInv /\ DeletePodByName => CopyInv' /\ CopyStep
<1> SUFFICES ASSUME TypeInv, CopyInv, DeletePodByName PROVE CopyInv' /\ CopyStep
  OBVIOUS
<1>1. PICK p \in todo :
           \/ /\ IF p \in Up THEN Stop({p}) ELSE UNCHANGED << clusterVars, conn >>
              /\ IF node[p] = "master" \/ (node[p] = "slave" /\ MasterOf(p[1]) = {})
                 THEN Event("stale") ELSE UNCHANGED faultVars
              /\ todo' = todo \ {p} /\ listed' = listed \ {p}
              /\ UNCHANGED << pc, asked, view >>
           \/ Return /\ UNCHANGED clusterVars /\ (Fault("k8s") \/ UNCHANGED faultVars)
  BY DeletePodCases
<1>2. "stale" \in EventKind /\ pc = "delete" /\ p \in Pod
  BY DEF EventKind, DeletePodByName, TypeInv, OpTyped
<1>3. hit \subseteq hit'
  <2>1. (Event("stale") \/ Fault("k8s") \/ UNCHANGED faultVars)
    BY <1>1
  <2> QED
    BY <1>2, <2>1, EventEffect, FaultEffect DEF TypeInv, faultVars
<1>4. CASE Return /\ UNCHANGED clusterVars
  BY <1>3, <1>4, CopyQuiet DEF Return, clusterVars
<1>5. CASE /\ IF p \in Up THEN Stop({p}) ELSE UNCHANGED << clusterVars, conn >>
           /\ IF node[p] = "master" \/ (node[p] = "slave" /\ MasterOf(p[1]) = {})
              THEN Event("stale") ELSE UNCHANGED faultVars
           /\ UNCHANGED << pc, asked, view >>
  <2>1. /\ \A q \in Pod : node'[q] = IF q \in {p} THEN "down" ELSE node[q]
        /\ synced' = synced \ {p} /\ conn' = conn \ {p}
    BY <1>2, <1>5, DeleteEffect DEF TypeInv
  <2>2. CopyInv'
    BY <1>2, <1>3, <1>5, <2>1, CopyStop
  <2>3. ASSUME NEW s \in Shard, Formed(s), "stale" \notin hit' PROVE Copies(s)' # {}
    <3>1. node[p] # "master" /\ (node[p] = "slave" => MasterOf(p[1]) # {})
      BY <1>2, <1>5, <2>3, EventEffect DEF TypeInv
    <3>2. CASE p \notin Copies(s)
      BY <2>1, <2>3, <3>2, PodFacts DEF Formed, Copies, MasterOf
    <3>3. CASE p \in Copies(s)
      <4>1. node[p] = "slave" /\ p[1] = s
        BY <3>1, <3>3, PodFacts DEF Copies, MasterOf, TypeInv, ClusterTyped
      <4>2. PICK m \in MasterOf(s) : m # p
        BY <3>1, <4>1 DEF MasterOf
      <4>3. m \in Copies(s)'
        BY <2>1, <4>2, PodFacts DEF Copies, MasterOf
      <4> QED
        BY <4>3
    <3> QED
      BY <3>2, <3>3
  <2> QED
    BY <2>2, <2>3 DEF CopyStep
<1> QED
  BY <1>1, <1>4, <1>5

LEMMA CopyFailoverSlaveToMaster == TypeInv /\ CopyInv /\ FailoverSlaveToMaster => CopyInv' /\ CopyStep
<1> SUFFICES ASSUME TypeInv, CopyInv, FailoverSlaveToMaster PROVE CopyInv' /\ CopyStep
  OBVIOUS
<1>1. UNCHANGED << node, synced >> /\ pc' \in {"failover", "annotate"}
  BY DEF FailoverSlaveToMaster, clusterVars
<1>2. hit \subseteq hit'
  BY DEF FailoverSlaveToMaster, Fault, faultVars
<1> QED
  BY <1>1, <1>2, CopyQuiet

\* The other steps of the reconcile leave the cluster alone.
LEMMA CopyOther ==
  ASSUME TypeInv, CopyInv,
         \/ GetStatefulSetPods \/ GetClusterInfosError \/ FixUntrustedNodes \/ DispatchMastersError
         \/ noClusterOperation \/ GetNewClusterInfos \/ DeleteDone \/ PlaceMastersbySTSDone
         \/ UpdateCrdAnnotations \/ Crash
  PROVE  CopyInv' /\ CopyStep
<1>1. UNCHANGED << node, synced >>
  BY DEF GetStatefulSetPods, GetClusterInfosError, FixUntrustedNodes, DispatchMastersError,
         noClusterOperation, GetNewClusterInfos, DeleteDone, PlaceMastersbySTSDone,
         UpdateCrdAnnotations, Crash, clusterVars
<1>2. pc' \notin {"heal", "join", "sync"}
  BY DEF GetStatefulSetPods, GetClusterInfosError, FixUntrustedNodes, DispatchMastersError,
         noClusterOperation, GetNewClusterInfos, DeleteDone, PlaceMastersbySTSDone,
         UpdateCrdAnnotations, Crash, Return
<1>3. hit \subseteq hit'
  <2>1. UNCHANGED faultVars \/ Event("homeless") \/ Event("crowded") \/ Fault("silent") \/ Fault("k8s") \/ Fault("crash")
    BY DEF GetStatefulSetPods, GetClusterInfosError, FixUntrustedNodes, DispatchMastersError,
           noClusterOperation, GetNewClusterInfos, DeleteDone, PlaceMastersbySTSDone,
           UpdateCrdAnnotations, Crash
  <2> QED
    BY <2>1 DEF Event, Fault, faultVars
<1> QED
  BY <1>1, <1>2, <1>3, CopyQuiet

LEMMA CopyNext == TypeInv /\ CopyInv /\ Next => CopyInv' /\ CopyStep
BY CopyOutside, CopyWaitPodReady, CopyFixFailedNodes, CopyHealed, CopyWaitForClusterJoin, CopySyncCluster,
   CopyDeletePodByName, CopyFailoverSlaveToMaster, CopyOther
   DEF Next, Operator, Heal

LEMMA CopyAlways == Spec => [](TypeInv /\ CopyInv)
<1>1. Init => CopyInv
  BY CopyInit
<1>2. TypeInv /\ CopyInv /\ [Next]_vars => CopyInv'
  <2>1. TypeInv /\ CopyInv /\ Next => CopyInv'
    BY CopyNext
  <2>2. CopyInv /\ UNCHANGED vars => CopyInv'
    BY DEF CopyInv, DeadMasterIsDown, HealSeesMasters, ViewSeesMasters, NewStaysNew, NotEarly,
           Formed, Copies, MasterOf, MastersIn, Up, vars, clusterVars, opVars, faultVars
  <2> QED
    BY <2>1, <2>2
<1> QED
  BY <1>1, <1>2, TypeAlways, PTL DEF Spec

\* No step takes the last copy of a shard, whatever the reconcile does on infos that are
\* old by then, outside of the two windows of CopiesKept: a replica is attached to
\* another master only if its own was there to be seen, and a pod is deleted only beside
\* its master.
THEOREM NoLastCopyTaken == Spec => CopiesKept
<1>1. TypeInv /\ CopyInv /\ [Next]_vars
        => [\A s \in Shard : Formed(s) /\ {"early", "stale"} \cap hit' = {} => Copies(s)' # {}]_vars
  BY CopyNext DEF CopyStep
<1> QED
  BY <1>1, CopyAlways, PTL DEF Spec, CopiesKept

-----------------------------------------------------------------------------
(***************************************************************************)
(* When a redistribution starts.                                           *)
(***************************************************************************)

LEMMA PodsCount == \A s \in Shard : Cardinality(PodsOf(s)) = Replicas + 1
<1> TAKE s \in Shard
<1> DEFINE f == [i \in 0 .. Replicas |-> << s, i >>]
<1>1. f \in Bijection(0 .. Replicas, PodsOf(s))
  <2>1. f \in [0 .. Replicas -> PodsOf(s)]
    BY DEF PodsOf, Pod
  <2>2. \A i, j \in 0 .. Replicas : f[i] = f[j] => i = j
    OBVIOUS
  <2>3. \A p \in PodsOf(s) : \E i \in 0 .. Replicas : f[i] = p
    BY DEF PodsOf, Pod
  <2> HIDE DEF f
  <2> QED
    BY <2>1, <2>2, <2>3 DEF Bijection, Injection, Surjection, IsInjective
<1>2. IsFiniteSet(0 .. Replicas) /\ Cardinality(0 .. Replicas) = Replicas + 1
  BY FS_Interval, ZoneNumber
<1>3. ExistsBijection(0 .. Replicas, PodsOf(s))
  BY <1>1 DEF ExistsBijection
<1> QED
  BY <1>2, <1>3, FS_Bijection

\* There are as many masters as shards if every shard has one.
LEMMA MastersCount ==
  ASSUME TypeInv, clusterGetStatus
  PROVE  Cardinality({p \in Pod : node[p] = "master"}) = NumSts
<1> DEFINE M == {p \in Pod : node[p] = "master"}
<1>1. \A s \in Shard : \E p \in Pod : p[1] = s /\ node[p] = "master"
  BY PodFacts DEF clusterGetStatus, MasterOf
<1>2. PICK f \in [Shard -> Pod] : \A s \in Shard : f[s][1] = s /\ node[f[s]] = "master"
  <2> DEFINE g == [s \in Shard |-> CHOOSE p \in Pod : p[1] = s /\ node[p] = "master"]
  <2>1. \A s \in Shard : g[s] \in Pod /\ g[s][1] = s /\ node[g[s]] = "master"
    BY <1>1
  <2> QED
    BY <2>1
<1>3. f \in Bijection(Shard, M)
  <2>1. f \in [Shard -> M]
    BY <1>2
  <2>2. \A s, r \in Shard : f[s] = f[r] => s = r
    BY <1>2
  <2>3. \A p \in M : \E s \in Shard : f[s] = p
    BY <1>2, PodFacts DEF TypeInv, ClusterTyped, OneMaster
  <2> HIDE DEF M
  <2> QED
    BY <2>1, <2>2, <2>3 DEF Bijection, Injection, Surjection, IsInjective
<1>4. IsFiniteSet(Shard) /\ Cardinality(Shard) = NumSts
  BY FS_Interval, ZoneNumber DEF Shard
<1>5. ExistsBijection(Shard, M)
  BY <1>3 DEF ExistsBijection
<1> HIDE DEF M
<1>6. Cardinality(M) = NumSts
  BY <1>4, <1>5, FS_Bijection
<1> QED
  BY <1>6 DEF M

\* A redistribution that finds out what to delete has seen every pod, and every pod has
\* the data of its shard: the number of masters is right, and there is one in every shard,
\* so that the others are replicas.
LEMMA RedistributeFacts ==
  ASSUME TypeInv, NEW A \in SUBSET conn, RedistributeNow(NewInfos(A)),
         getListofNodestoDelete(NewInfos(A)) # {}
  PROVE  /\ conn = Pod /\ listed = Pod
         /\ \A p \in Pod : NewInfos(A)[p] = node[p] /\ node[p] \in {"slave", "master"}
         /\ \A s \in Shard : Complete(s)
<1> DEFINE v == NewInfos(A)
<1>1. \A p \in Pod : v[p] # None
  BY PodFacts DEF getListofNodestoDelete
<1>2. A = Pod
  BY <1>1 DEF NewInfos, TypeInv, OpTyped
<1>3. conn = Pod /\ listed = Pod
  BY <1>2 DEF TypeInv, OpTyped
<1>4. \A p \in Pod : v[p] = node[p] /\ node[p] # "down"
  BY <1>2, <1>3 DEF NewInfos, Role, TypeInv, ClusterTyped, Up
<1> HIDE DEF v
<1>5. /\ clusterGetStatus
      /\ \A p \in Pod : v[p] \notin Outside
      /\ \A p \in Pod : v[p] = "slave" => p \in synced
      /\ Cardinality(MasterNodes(v)) = NumSts
  <2>1. RedistributeNow(v)
    BY DEF v
  <2>2. CheackandUpdateClusterHealth(v) /\ buildHAStatus(v) = "Redistribute"
    BY <2>1 DEF RedistributeNow
  <2> QED
    BY <2>2 DEF CheackandUpdateClusterHealth, Consistent, ClusterStateOk, buildHAStatus
<1>6. {p \in Pod : node[p] = "master"} \subseteq MasterNodes(v)
  BY <1>4 DEF MasterNodes
<1>7. IsFiniteSet(MasterNodes(v))
  BY PodsFinite, FS_Subset DEF MasterNodes
<1>8. {p \in Pod : node[p] = "master"} = MasterNodes(v)
  BY <1>5, <1>6, <1>7, MastersCount, FS_Subset
<1>9. \A p \in Pod : node[p] \in {"slave", "master"}
  BY <1>4, <1>5, <1>8 DEF MasterNodes, Outside, NodeKind, TypeInv, ClusterTyped
<1>10. \A s \in Shard : Complete(s)
  BY <1>4, <1>5, <1>9, PodFacts DEF Complete, clusterGetStatus
<1> QED
  BY <1>3, <1>4, <1>9, <1>10 DEF v

\* If there is nothing to delete every shard has exactly one pod in every zone: there are as
\* many pods as zones, and no zone lacks one.
LEMMA BalancedZones ==
  ASSUME TypeInv, NEW v, {} \in getListofNodestoDelete(v), NEW s \in Shard
  PROVE  /\ \A z \in Zone : \E p \in PodsOf(s) : zone[p] = z
         /\ \A p, q \in PodsOf(s) : zone[p] = zone[q] /\ zone[p] \in Zone => p = q
<1>1. NumNodesToDelete(v) = 0
  <2> SUFFICES ASSUME NumNodesToDelete(v) # 0 PROVE FALSE
    OBVIOUS
  <2> DEFINE slaves == UNION {CrowdedSlaves(v, r) : r \in Shard}
  <2>1. NumNodesToDelete(v) = Cardinality(slaves) /\ {} \in LastOnly(v)
    BY DEF getListofNodestoDelete
  <2>2. \A r \in Shard : CrowdedSlaves(v, r) = {}
    <3>1. PICK T \in SUBSET Shard : \E f \in [T -> Pod] :
            {} = {f[r] : r \in T} /\ \A r \in Shard \ T : CrowdedSlaves(v, r) = {}
      BY <2>1, LastOnlyFacts
    <3>2. T = {}
      BY <3>1
    <3> QED
      BY <3>1, <3>2
  <2>3. slaves = {}
    BY <2>2
  <2> QED
    BY <2>1, <2>3, FS_EmptySet
<1>2. MinPerZone = 1
  <2>1. NumZones = Replicas + 1 /\ Replicas \in Nat
    BY ZonesAssumption
  <2>2. \A n \in Nat \ {0} : n \div n = 1
    BY SMTT(30)
  <2> QED
    BY <2>1, <2>2 DEF MinPerZone
<1>3. \A r \in Shard, z \in Zone : InZone(v, r, z) # {}
  <2> DEFINE L == {x \in (Shard \X Zone) \X (1 .. MinPerZone) :
                     Cardinality(InZone(v, x[1][1], x[1][2])) < x[2]}
  <2>1. IsFiniteSet((Shard \X Zone) \X (1 .. MinPerZone))
    <3>1. IsFiniteSet(Shard) /\ IsFiniteSet(Zone)
      BY FS_Interval, ZoneNumber DEF Shard, Zone
    <3>2. 1 .. MinPerZone = {1}
      BY <1>2
    <3>3. IsFiniteSet(1 .. MinPerZone)
      BY <3>2, FS_Singleton
    <3>4. IsFiniteSet(Shard \X Zone)
      BY <3>1, FS_Product
    <3> QED
      BY <3>3, <3>4, FS_Product
  <2>2. IsFiniteSet(L)
    BY <2>1, FS_Subset
  <2>3. L = {}
    BY <1>1, <2>2, FS_EmptySet DEF NumNodesToDelete
  <2> TAKE r \in Shard, z \in Zone
  <2>4. << << r, z >>, 1 >> \in (Shard \X Zone) \X (1 .. MinPerZone)
    BY <1>2
  <2>5. ~(Cardinality(InZone(v, r, z)) < 1)
    BY <2>3, <2>4
  <2> QED
    BY <2>5, FS_EmptySet
<1>4. \A z \in Zone : \E p \in PodsOf(s) : zone[p] = z
  BY <1>3 DEF InZone
<1>5. ASSUME NEW p \in PodsOf(s), NEW q \in PodsOf(s), zone[p] = zone[q], p # q
      PROVE  zone[p] \notin Zone
  <2> SUFFICES ASSUME zone[p] \in Zone PROVE FALSE
    OBVIOUS
  <2>1. PICK r \in Zone : TRUE
    OBVIOUS
  <2> DEFINE g == [x \in PodsOf(s) |-> IF zone[x] \in Zone THEN zone[x] ELSE r]
  <2>2. g \in [PodsOf(s) -> Zone]
    OBVIOUS
  <2>3. \A z \in Zone : \E x \in PodsOf(s) : g[x] = z
    BY <1>4
  <2>4. g[p] = g[q]
    BY <1>5
  <2> HIDE DEF g
  <2>5. g \in Surjection(PodsOf(s), Zone)
    BY <2>2, <2>3 DEF Surjection
  <2>6. Cardinality(Zone) = Cardinality(PodsOf(s)) /\ IsFiniteSet(PodsOf(s))
    BY PodsCount, PodsFinite, FS_Interval, ZonesAssumption DEF Zone
  <2>7. g \in Injection(PodsOf(s), Zone)
    BY <2>5, <2>6, FS_SurjSameCardinalityImpliesInj
  <2> QED
    BY <1>5, <2>2, <2>4, <2>7 DEF Injection, IsInjective
<1> QED
  BY <1>4, <1>5

-----------------------------------------------------------------------------
(***************************************************************************)
(* The deletions.                                                          *)
(***************************************************************************)

LEMMA CompleteCopies ==
  ASSUME TypeInv, NEW s \in Shard, Complete(s)
  PROVE  Copies(s) = PodsOf(s)
BY PodFacts DEF Complete, Copies, MasterOf

\* A pod of another shard, or none that is listed, does not matter to a shard that waits
\* for a deletion.
LEMMA DeleteOutside ==
  ASSUME TypeInv, DeleteInv, Environment \/ Settle
  PROVE  DeleteInv'
<1> SUFFICES ASSUME pc = "delete", NEW p \in todo, NotTakenOver', PodsOf(p[1]) \subseteq conn'
             PROVE  node'[p] = "slave" /\ Complete(p[1])'
  BY OutsideCases DEF DeleteInv, opVars, PodsOf
<1> DEFINE s == p[1]
<1>1. p \in Pod /\ s \in Shard /\ p \in PodsOf(s) /\ PodsOf(s) \subseteq Pod
  BY PodFacts DEF TypeInv, OpTyped
<1>2. hit \subseteq hit' /\ NotTakenOver /\ conn' \subseteq conn
  <2>1. hit \subseteq hit'
    BY OutsideCases
  <2>2. StoppedStep => conn' \subseteq conn
    <3> SUFFICES ASSUME NEW P \in SUBSET Pod, Stop(P) PROVE conn' \subseteq conn
      BY DEF StoppedStep
    <3> QED
      BY DEF Stop
  <2>3. conn' \subseteq conn
    BY <2>2, OutsideCases DEF StartedStep, SyncedStep, JoinedStep, TookOverStep, OtherStep
  <2> QED
    BY <2>1, <2>3 DEF NotTakenOver
<1>3. node[p] = "slave" /\ MasterOf(s) # {} /\ \A q \in PodsOf(s) : node[q] = "master" \/ q \in synced
  BY <1>2 DEF DeleteInv, Complete
<1>4. \A q \in PodsOf(s) : node[q] \in {"master", "slave"}
  BY <1>3 DEF TypeInv, ClusterTyped
<1>5. (\A q \in PodsOf(s) : node'[q] = node[q] /\ (q \in synced => q \in synced'))
        => node'[p] = "slave" /\ Complete(s)'
  BY <1>1, <1>3 DEF Complete, MasterOf, PodsOf
<1> HIDE DEF s
<1>6. \A q \in PodsOf(s) : node'[q] = node[q] /\ (q \in synced => q \in synced')
  <2>1. CASE StoppedStep
    <3>1. PICK P \in SUBSET Pod : Stop(P)
      BY <2>1 DEF StoppedStep
    <3>2. /\ \A q \in Pod : node'[q] = IF q \in P THEN "down" ELSE node[q]
          /\ synced' = synced \ P /\ conn' = conn \ P
      BY <3>1, StopEffect DEF TypeInv
    <3> QED
      BY <1>1, <3>2 DEF s
  <2>2. CASE StartedStep
    BY <1>1, <1>4, <2>2 DEF StartedStep
  <2>3. CASE SyncedStep
    BY <2>3 DEF SyncedStep
  <2>4. CASE JoinedStep
    BY <1>1, <1>4, <2>4 DEF JoinedStep
  <2>5. CASE TookOverStep
    <3>1. PICK r \in synced : TakeOver(r) /\ TakesOver(r)
      BY <2>5 DEF TookOverStep
    <3>2. r[1] # s
      BY <1>3, <3>1 DEF NotTakenOver, TakesOver, s
    <3>3. /\ r \in Pod /\ synced' = synced \ PodsOf(r[1])
          /\ \A q \in Pod : node'[q] = IF q = r THEN "master"
                                       ELSE IF q \in MasterOf(r[1]) THEN "slave" ELSE node[q]
      BY <2>5, <3>1, TakeOverEffect DEF TypeInv, TookOverStep
    <3>4. \A q \in PodsOf(s) : q \notin PodsOf(r[1]) /\ q # r
      BY <1>1, <3>2, PodFacts, <3>3
    <3> QED
      BY <1>1, <3>3, <3>4 DEF MasterOf
  <2>6. CASE OtherStep
    BY <2>6 DEF OtherStep
  <2> QED
    BY <2>1, <2>2, <2>3, <2>4, <2>5, <2>6, OutsideCases
<1> QED
  BY <1>5, <1>6 DEF s

LEMMA DeleteGetNewClusterInfos == TypeInv /\ GetNewClusterInfos => DeleteInv'
<1> SUFFICES ASSUME TypeInv, GetNewClusterInfos, pc' = "delete" PROVE DeleteInv'
  BY DEF DeleteInv
<1>1. PICK A \in SUBSET conn :
        RedistributeNow(NewInfos(A)) /\ todo' # {} /\ todo' \in getListofNodestoDelete(NewInfos(A))
  <2>1. PICK A \in SUBSET conn :
           \/ /\ RedistributeNow(NewInfos(A))
              /\ \E D \in getListofNodestoDelete(NewInfos(A)) :
                  \/ D # {} /\ pc' = "delete" /\ todo' = D
                  \/ D = {} /\ pc' = "failover" /\ todo' = Promoted(NewInfos(A))
           \/ Return
    BY Zenon DEF GetNewClusterInfos
  <2>2. ~Return
    BY DEF Return
  <2>3. pc' # "failover"
    OBVIOUS
  <2> QED
    BY <2>1, <2>2, <2>3, Zenon
<1>2. /\ conn = Pod /\ listed = Pod
      /\ \A p \in Pod : NewInfos(A)[p] = node[p]
      /\ \A s \in Shard : Complete(s)
  BY <1>1, RedistributeFacts
<1>3. UNCHANGED << node, synced, conn, listed >>
  BY <1>1 DEF GetNewClusterInfos, clusterVars, Return
<1>4. todo' \in LastOnly(NewInfos(A))
  BY <1>1 DEF getListofNodestoDelete
<1>5. PICK T \in SUBSET Shard : \E f \in [T -> Pod] :
        todo' = {f[s] : s \in T} /\ \A s \in T : f[s] \in CrowdedSlaves(NewInfos(A), s)
  BY <1>4, LastOnlyFacts
<1>6. PICK f \in [T -> Pod] :
        todo' = {f[s] : s \in T} /\ \A s \in T : f[s] \in CrowdedSlaves(NewInfos(A), s)
  BY <1>5
<1>7. \A s \in T : f[s][1] = s /\ node[f[s]] = "slave"
  BY <1>2, <1>6, PodFacts DEF CrowdedSlaves, SlavesIn
<1>8. \A p \in todo' : p \in Pod /\ node[p] = "slave"
  BY <1>6, <1>7
<1>9. \A p, q \in todo' : p[1] = q[1] => p = q
  BY <1>6, <1>7
<1>10. \A p \in todo' : Complete(p[1])'
  BY <1>2, <1>3, <1>8, PodFacts DEF Complete, MasterOf
<1>11. \A p \in todo' : PodsOf(p[1])' \subseteq listed'
  BY <1>2, <1>3, <1>8, PodFacts DEF PodsOf
<1> QED
  BY <1>3, <1>8, <1>9, <1>10, <1>11 DEF DeleteInv

\* What a step may not do (DeletionIsSafe).
DeleteStep ==
  pc = "delete" /\ conn = listed /\ {"failover", "late"} \cap hit = {} =>
    \A p \in todo \ todo' : node[p] = "slave" /\ Cardinality(Copies(p[1])') >= Replicas

LEMMA DeleteDeletePodByName == TypeInv /\ DeleteInv /\ DeletePodByName => DeleteInv' /\ DeleteStep
<1> SUFFICES ASSUME TypeInv, DeleteInv, DeletePodByName PROVE DeleteInv' /\ DeleteStep
  OBVIOUS
<1>1. PICK p \in todo :
           \/ /\ IF p \in Up THEN Stop({p}) ELSE UNCHANGED << clusterVars, conn >>
              /\ IF node[p] = "master" \/ (node[p] = "slave" /\ MasterOf(p[1]) = {})
                 THEN Event("stale") ELSE UNCHANGED faultVars
              /\ todo' = todo \ {p} /\ listed' = listed \ {p}
              /\ UNCHANGED << pc, asked, view >>
           \/ Return /\ UNCHANGED clusterVars /\ (Fault("k8s") \/ UNCHANGED faultVars)
  BY DeletePodCases
<1>2. pc = "delete" /\ p \in Pod /\ todo \subseteq Pod
  BY DEF DeletePodByName, TypeInv, OpTyped
<1>3. CASE Return /\ UNCHANGED clusterVars
  <2>1. DeleteInv'
    BY <1>3 DEF Return, DeleteInv
  <2>2. ASSUME conn = listed, NotTakenOver, NEW q \in todo
        PROVE  node[q] = "slave" /\ Cardinality(Copies(q[1])') >= Replicas
    <3>1. node[q] = "slave" /\ Complete(q[1]) /\ q[1] \in Shard
      BY <1>2, <2>2, PodFacts DEF DeleteInv
    <3>2. Copies(q[1])' = PodsOf(q[1])
      BY <1>3, <3>1, CompleteCopies DEF Copies, MasterOf, clusterVars
    <3> QED
      BY <3>1, <3>2, PodsCount, ZoneNumber
  <2> QED
    BY <2>1, <2>2 DEF DeleteStep, NotTakenOver
<1>4. CASE /\ IF p \in Up THEN Stop({p}) ELSE UNCHANGED << clusterVars, conn >>
           /\ IF node[p] = "master" \/ (node[p] = "slave" /\ MasterOf(p[1]) = {})
              THEN Event("stale") ELSE UNCHANGED faultVars
           /\ todo' = todo \ {p} /\ listed' = listed \ {p}
           /\ UNCHANGED << pc, asked, view >>
  <2>1. /\ \A q \in Pod : node'[q] = IF q = p THEN "down" ELSE node[q]
        /\ synced' = synced \ {p} /\ conn' = conn \ {p}
    BY <1>2, <1>4, DeleteEffect DEF TypeInv
  <2>2. NotTakenOver' => NotTakenOver
    BY <1>4 DEF NotTakenOver, Event, faultVars
  <2>3. \A q \in todo' : q[1] # p[1] /\ p \notin PodsOf(q[1])
    BY <1>2, <1>4, PodFacts DEF DeleteInv
  <2>4. \A q \in todo' : PodsOf(q[1]) \subseteq listed'
    BY <1>2, <1>4, <2>3 DEF DeleteInv
  <2>5. ASSUME NotTakenOver', NEW q \in todo', PodsOf(q[1]) \subseteq conn'
        PROVE  node'[q] = "slave" /\ Complete(q[1])'
    <3>1. node[q] = "slave" /\ Complete(q[1]) /\ q \in Pod /\ q # p
      BY <1>2, <1>4, <2>1, <2>2, <2>5 DEF DeleteInv
    <3>2. \A r \in PodsOf(q[1]) : r \in Pod /\ node'[r] = node[r] /\ (r \in synced => r \in synced')
      BY <2>1, <2>3, <2>5, <3>1, PodFacts
    <3> QED
      BY <2>1, <3>1, <3>2, PodFacts DEF Complete, MasterOf
  <2>6. DeleteInv'
    BY <1>4, <2>4, <2>5 DEF DeleteInv, PodsOf
  <2>7. ASSUME conn = listed, NotTakenOver
        PROVE  node[p] = "slave" /\ Cardinality(Copies(p[1])') >= Replicas
    <3>1. node[p] = "slave" /\ Complete(p[1]) /\ p[1] \in Shard
      BY <1>2, <2>7, PodFacts DEF DeleteInv
    <3>2. Copies(p[1]) = PodsOf(p[1])
      BY <3>1, CompleteCopies
    <3>3. Copies(p[1])' = PodsOf(p[1]) \ {p}
      BY <2>1, <3>1, <3>2, PodFacts DEF Copies, MasterOf
    <3>4. Cardinality(PodsOf(p[1]) \ {p}) = Replicas
      <4>1. IsFiniteSet(PodsOf(p[1])) /\ p \in PodsOf(p[1])
        BY <1>2, PodsFinite, PodFacts
      <4>2. Cardinality(PodsOf(p[1])) = Replicas + 1
        BY <3>1, PodsCount
      <4>3. Cardinality(PodsOf(p[1]) \ {p}) = Cardinality(PodsOf(p[1])) - 1
        BY <4>1, FS_RemoveElement
      <4> QED
        BY <4>2, <4>3, ZoneNumber
    <3> QED
      BY <3>1, <3>3, <3>4, ZoneNumber
  <2> QED
    BY <1>4, <2>6, <2>7 DEF DeleteStep, NotTakenOver
<1> QED
  BY <1>1, <1>3, <1>4

LEMMA DeleteNext == TypeInv /\ DeleteInv /\ Next => DeleteInv' /\ DeleteStep
<1> SUFFICES ASSUME TypeInv, DeleteInv, Next PROVE DeleteInv' /\ DeleteStep
  OBVIOUS
<1>1. CASE Environment \/ Settle
  <2>1. todo' = todo
    BY <1>1, OutsideCases DEF opVars
  <2> QED
    BY <1>1, <2>1, DeleteOutside DEF DeleteStep
<1>2. CASE DeletePodByName
  BY <1>2, DeleteDeletePodByName
<1>3. CASE GetNewClusterInfos
  <2>1. DeleteStep
    BY <1>3 DEF GetNewClusterInfos, DeleteStep
  <2> QED
    BY <1>3, <2>1, DeleteGetNewClusterInfos
<1>4. CASE DeleteDone
  BY <1>4 DEF DeleteDone, Return, DeleteInv, DeleteStep
<1>5. CASE Crash
  <2>1. DeleteInv'
    BY <1>5 DEF Crash, Return, DeleteInv
  <2>2. ASSUME pc = "delete", conn = listed, NotTakenOver, NEW q \in todo
        PROVE  node[q] = "slave" /\ Cardinality(Copies(q[1])') >= Replicas
    <3>1. node[q] = "slave" /\ Complete(q[1]) /\ q[1] \in Shard
      BY <2>2, PodFacts DEF DeleteInv, TypeInv, OpTyped
    <3>2. Copies(q[1])' = PodsOf(q[1])
      BY <1>5, <3>1, CompleteCopies DEF Crash, Copies, MasterOf, clusterVars
    <3> QED
      BY <3>1, <3>2, PodsCount, ZoneNumber
  <2> QED
    BY <2>1, <2>2 DEF DeleteStep, NotTakenOver
<1>6. CASE \/ GetStatefulSetPods \/ waitPodReady \/ Heal \/ GetClusterInfosError \/ waitForClusterJoin
           \/ syncCluster \/ DispatchMastersError \/ noClusterOperation
           \/ FailoverSlaveToMaster \/ PlaceMastersbySTSDone \/ UpdateCrdAnnotations
  <2>1. pc # "delete" /\ pc' # "delete"
    BY <1>6 DEF GetStatefulSetPods, waitPodReady, Heal, FixFailedNodes, FixUntrustedNodes, Healed,
                GetClusterInfosError, waitForClusterJoin, syncCluster, DispatchMastersError,
                noClusterOperation, FailoverSlaveToMaster, PlaceMastersbySTSDone, UpdateCrdAnnotations,
                Return
  <2> QED
    BY <2>1 DEF DeleteInv, DeleteStep
<1> QED
  BY <1>1, <1>2, <1>3, <1>4, <1>5, <1>6 DEF Next, Operator

LEMMA DeleteAlways == Spec => [](TypeInv /\ DeleteInv)
<1>1. Init => DeleteInv
  BY DEF Init, DeleteInv
<1>2. TypeInv /\ DeleteInv /\ [Next]_vars => DeleteInv'
  <2>1. TypeInv /\ DeleteInv /\ Next => DeleteInv'
    BY DeleteNext
  <2>2. DeleteInv /\ UNCHANGED vars => DeleteInv'
    BY DEF DeleteInv, NotTakenOver, Complete, MasterOf, PodsOf, vars, clusterVars, opVars, faultVars
  <2> QED
    BY <2>1, <2>2
<1> QED
  BY <1>1, <1>2, TypeAlways, PTL DEF Spec

\* getListofNodestoDelete decides by the second cluster infos, DeletePodByName deletes one
\* pod after the other: as long as the pods of the list are those that were read, a pod
\* that is deleted is a replica, and its shard keeps all of its other copies.
THEOREM DeletionKeepsCopies == Spec => DeletionIsSafe
<1>1. TypeInv /\ DeleteInv /\ [Next]_vars
        => [pc = "delete" /\ conn = listed /\ {"failover", "late"} \cap hit = {} =>
              \A p \in todo \ todo' :
                node[p] = "slave" /\ Cardinality(Copies(p[1])') >= Replicas]_vars
  BY DeleteNext DEF DeleteStep
<1> QED
  BY <1>1, DeleteAlways, PTL DEF Spec, DeletionIsSafe

-----------------------------------------------------------------------------
(***************************************************************************)
(* The failovers.                                                          *)
(***************************************************************************)

\* Pods that are to be promoted stay where they are.
LEMMA HomeKept ==
  ASSUME TypeInv, HomeInv, conn' \subseteq conn, scheduled' \subseteq scheduled,
         \A p \in conn' \cup scheduled' : zone'[p] = zone[p],
         pc' = "failover" => pc = "failover" /\ todo' \subseteq todo
  PROVE  HomeInv'
BY DEF HomeInv, HomeZone

LEMMA HomeOutside ==
  ASSUME TypeInv, HomeInv, Environment \/ Settle
  PROVE  HomeInv'
<1>1. UNCHANGED << pc, todo >>
  BY OutsideCases DEF opVars
<1>2. scheduled \subseteq Pod /\ conn \subseteq Pod /\ \A p \in scheduled : node[p] = "slave"
  BY DEF TypeInv, ClusterTyped, OpTyped
<1>3. /\ conn' \subseteq conn /\ scheduled' \subseteq scheduled
      /\ \A p \in conn' \cup scheduled' : zone'[p] = zone[p]
  <2>1. CASE StoppedStep
    <3>1. PICK P \in SUBSET Pod : Stop(P)
      BY <2>1 DEF StoppedStep
    <3>2. /\ \A p \in Pod : zone'[p] = IF p \in P THEN None ELSE zone[p]
          /\ conn' = conn \ P /\ scheduled' = scheduled \ P
      BY <3>1, StopEffect DEF TypeInv
    <3> QED
      BY <1>2, <3>2
  <2>2. CASE StartedStep
    BY <1>2, <2>2 DEF StartedStep
  <2>3. CASE SyncedStep \/ JoinedStep \/ OtherStep
    BY <2>3 DEF SyncedStep, JoinedStep, OtherStep
  <2>4. CASE TookOverStep
    BY <2>4 DEF TookOverStep, TakeOver
  <2> QED
    BY <2>1, <2>2, <2>3, <2>4, OutsideCases
<1> QED
  BY <1>1, <1>3, HomeKept

\* Promoted takes replicas in the zone of the master they follow.
LEMMA HomeGetNewClusterInfos == TypeInv /\ HomeInv /\ GetNewClusterInfos => HomeInv'
<1> SUFFICES ASSUME TypeInv, HomeInv, GetNewClusterInfos PROVE HomeInv'
  OBVIOUS
<1>1. UNCHANGED << zone, scheduled >>
  BY DEF GetNewClusterInfos, clusterVars
<1>2. pc' = "failover" => \A p \in todo' : zone[p] = HomeZone(p[1])
  BY DEF GetNewClusterInfos, Return, Promoted
<1> QED
  BY <1>1, <1>2 DEF HomeInv, HomeZone

LEMMA HomeFailoverSlaveToMaster == TypeInv /\ HomeInv /\ FailoverSlaveToMaster => HomeInv'
<1> SUFFICES ASSUME TypeInv, HomeInv, FailoverSlaveToMaster PROVE HomeInv'
  OBVIOUS
<1>1. UNCHANGED << zone, conn >> /\ pc = "failover"
  BY DEF FailoverSlaveToMaster, clusterVars
<1>2. \/ \E p \in todo \cap conn : scheduled' = scheduled \cup {p} /\ todo' \subseteq todo
      \/ UNCHANGED scheduled /\ todo' = {}
  BY DEF FailoverSlaveToMaster, clusterVars
<1> QED
  BY <1>1, <1>2 DEF HomeInv, HomeZone

\* Every other step of the reconcile leaves the failovers that are under way, or drops them.
LEMMA HomeOther ==
  ASSUME TypeInv, HomeInv,
         \/ GetStatefulSetPods \/ waitPodReady \/ Heal \/ GetClusterInfosError \/ waitForClusterJoin
         \/ syncCluster \/ DispatchMastersError \/ noClusterOperation
         \/ DeletePodByName \/ DeleteDone \/ PlaceMastersbySTSDone \/ UpdateCrdAnnotations \/ Crash
  PROVE  HomeInv'
<1>1. pc' # "failover"
  BY DEF GetStatefulSetPods, waitPodReady, Heal, FixFailedNodes, FixUntrustedNodes, Healed,
         GetClusterInfosError, waitForClusterJoin, syncCluster, DispatchMastersError,
         noClusterOperation, DeletePodByName, DeleteDone, PlaceMastersbySTSDone,
         UpdateCrdAnnotations, Crash, Return
<1>2. scheduled' \subseteq scheduled /\ \A p \in scheduled' : zone'[p] = zone[p]
  <2>1. CASE DeletePodByName
    <3>1. PICK p \in todo :
            \/ IF p \in Up THEN Stop({p}) ELSE UNCHANGED << clusterVars, conn >>
            \/ UNCHANGED clusterVars
      BY <2>1, DeletePodCases
    <3>2. CASE IF p \in Up THEN Stop({p}) ELSE UNCHANGED << clusterVars, conn >>
      <4>1. p \in Pod /\ scheduled \subseteq Pod
        BY DEF TypeInv, OpTyped, ClusterTyped
      <4>2. /\ scheduled' = scheduled \ {p}
            /\ \A q \in Pod : zone'[q] = IF q = p THEN None ELSE zone[q]
        BY <3>2, <4>1, DeleteEffect DEF TypeInv
      <4> QED
        BY <4>1, <4>2
    <3> QED
      BY <3>1, <3>2 DEF clusterVars
  <2>2. CASE FixFailedNodes \/ FixUntrustedNodes \/ Healed \/ waitForClusterJoin
    BY <2>2 DEF FixFailedNodes, FixUntrustedNodes, Healed, waitForClusterJoin, clusterVars
  <2>3. CASE syncCluster
    BY <2>3, SyncClusterCases DEF Attach
  <2>4. CASE \/ GetStatefulSetPods \/ waitPodReady \/ GetClusterInfosError \/ DispatchMastersError
             \/ noClusterOperation \/ DeleteDone \/ PlaceMastersbySTSDone \/ UpdateCrdAnnotations \/ Crash
    BY <2>4 DEF GetStatefulSetPods, waitPodReady, GetClusterInfosError, DispatchMastersError,
                noClusterOperation, DeleteDone, PlaceMastersbySTSDone, UpdateCrdAnnotations, Crash,
                clusterVars
  <2> QED
    BY <2>1, <2>2, <2>3, <2>4 DEF Heal
<1> QED
  BY <1>1, <1>2 DEF HomeInv, HomeZone

LEMMA HomeNext == TypeInv /\ HomeInv /\ Next => HomeInv'
BY HomeOutside, HomeGetNewClusterInfos, HomeFailoverSlaveToMaster, HomeOther DEF Next, Operator

\* As long as nothing was refused, dropped or came from elsewhere, pods and roles are those
\* that were read, except where a failover that is under way takes place.
LEMMA PlaceOutside ==
  ASSUME TypeInv, HomeInv, PlaceInv, Environment \/ Settle
  PROVE  PlaceInv'
<1>1. UNCHANGED << pc, todo, listed >> /\ hit \subseteq hit'
  BY OutsideCases DEF opVars
<1> SUFFICES ASSUME pc \in {"failover", "annotate"}, Undisturbed'
             PROVE  /\ \A s \in Shard : MasterOf(s)' # {}
                    /\ todo \subseteq synced'
                    /\ \A s \in Shard : Home(s)' \/ \E p \in todo \cup scheduled' : p[1] = s
  BY <1>1 DEF PlaceInv
<1>2. listed = Pod /\ conn' = Pod
  BY <1>1 DEF PlaceInv, Undisturbed
<1>3. StoppedStep => OtherStep /\ conn = Pod
  <2> SUFFICES ASSUME NEW P \in SUBSET Pod, Stop(P) PROVE OtherStep /\ conn = Pod
    BY DEF StoppedStep
  <2>1. P = {} /\ conn = Pod
    BY <1>2 DEF TypeInv, OpTyped, Stop
  <2>2. /\ node' = [p \in Pod |-> node[p]] /\ zone' = [p \in Pod |-> zone[p]]
        /\ synced' = synced /\ scheduled' = scheduled /\ conn' = conn
    BY <2>1 DEF Stop
  <2>3. node' = node /\ zone' = zone
    BY <2>2 DEF TypeInv, ClusterTyped
  <2> QED
    BY <2>1, <2>2, <2>3 DEF OtherStep
<1>4. conn = Pod
  BY <1>2, <1>3, OutsideCases DEF StartedStep, SyncedStep, JoinedStep, TookOverStep, OtherStep
<1>5. /\ \A s \in Shard : MasterOf(s) # {}
      /\ todo \subseteq synced
      /\ \A s \in Shard : Home(s) \/ \E p \in todo \cup scheduled : p[1] = s
  BY <1>1, <1>2, <1>4 DEF PlaceInv, Undisturbed
<1>6. ~StartedStep
  BY <1>4 DEF StartedStep
<1>7. CASE TookOverStep
  <2>1. PICK r \in synced : TakeOver(r) /\ TakesOver(r) /\ conn' = conn
    BY <1>7 DEF TookOverStep
  <2>2. /\ r \in Pod /\ r[1] \in Shard /\ zone' = zone
        /\ \A q \in Pod : node'[q] = IF q = r THEN "master"
                                     ELSE IF q \in MasterOf(r[1]) THEN "slave" ELSE node[q]
        /\ synced' = synced \ PodsOf(r[1]) /\ OneMaster'
    BY <2>1, TakeOverEffect, PodFacts DEF TypeInv, ClusterTyped
  <2>3. r \in scheduled /\ \A q \in todo : q[1] # r[1]
    BY <1>5, <2>1, <2>2 DEF TakesOver, Undisturbed
  <2>4. scheduled' = scheduled \ PodsOf(r[1]) /\ scheduled \subseteq Pod /\ todo \subseteq Pod
    BY <2>1 DEF TakeOver, TypeInv, ClusterTyped, OpTyped
  <2>5. MasterOf(r[1])' = {r}
    BY <2>2, PodFacts DEF MasterOf, OneMaster
  <2>6. Home(r[1])'
    BY <2>2, <2>3, <2>5 DEF Home, HomeInv, HomeZone
  <2>7. \A s \in Shard : s # r[1] => MasterOf(s)' = MasterOf(s)
    BY <2>2, PodFacts DEF MasterOf
  <2>8. \A s \in Shard : s # r[1] => (Home(s) => Home(s)')
    BY <2>2, <2>7 DEF Home, HomeZone
  <2>9. \A s \in Shard : Home(s)' \/ \E p \in todo \cup scheduled' : p[1] = s
    <3> TAKE s \in Shard
    <3>1. CASE s = r[1]
      BY <2>6, <3>1
    <3>2. CASE s # r[1]
      BY <1>5, <2>2, <2>4, <2>8, <3>2, PodFacts
    <3> QED
      BY <3>1, <3>2
  <2>10. todo \subseteq synced'
    BY <1>5, <2>2, <2>3, PodFacts
  <2> QED
    BY <1>5, <2>5, <2>7, <2>9, <2>10
<1>8. CASE ~TookOverStep
  <2>1. /\ \A p \in Pod : zone'[p] = zone[p] /\ (node'[p] = "master" <=> node[p] = "master")
        /\ synced \subseteq synced'
    BY <1>3, <1>6, <1>8, OutsideCases DEF SyncedStep, JoinedStep, OtherStep
  <2>2. scheduled' = scheduled
    <3>1. OtherStep => UNCHANGED scheduled
      <4>1. \A p \in scheduled : MasterOf(p[1]) # {}
        BY <1>5, PodFacts DEF TypeInv, ClusterTyped
      <4> QED
        BY <4>1 DEF OtherStep, Undisturbed
    <3> QED
      BY <1>3, <1>6, <1>8, <3>1, OutsideCases DEF SyncedStep, JoinedStep
  <2>3. \A s \in Shard : MasterOf(s)' = MasterOf(s)
    BY <2>1, PodFacts DEF MasterOf
  <2>4. \A s \in Shard : Home(s) => Home(s)'
    BY <2>1, <2>3, PodFacts DEF Home, MasterOf, HomeZone
  <2> QED
    BY <1>5, <2>1, <2>2, <2>3, <2>4
<1> QED
  BY <1>7, <1>8

\* Every zone has one pod of every shard: it is the master, or the replica to promote.
LEMMA PlaceGetNewClusterInfos == TypeInv /\ GetNewClusterInfos => PlaceInv'
<1> SUFFICES ASSUME TypeInv, GetNewClusterInfos, pc' \in {"failover", "annotate"} PROVE PlaceInv'
  BY DEF PlaceInv
<1>1. PICK A \in SUBSET conn :
        /\ RedistributeNow(NewInfos(A)) /\ {} \in getListofNodestoDelete(NewInfos(A))
        /\ pc' = "failover" /\ todo' = Promoted(NewInfos(A))
  <2>1. PICK A \in SUBSET conn :
           \/ /\ RedistributeNow(NewInfos(A))
              /\ \E D \in getListofNodestoDelete(NewInfos(A)) :
                  \/ D # {} /\ pc' = "delete" /\ todo' = D
                  \/ D = {} /\ pc' = "failover" /\ todo' = Promoted(NewInfos(A))
           \/ Return
    BY Zenon DEF GetNewClusterInfos
  <2>2. ~Return
    BY DEF Return
  <2>3. pc' # "delete"
    OBVIOUS
  <2> QED
    BY <2>1, <2>2, <2>3, Zenon
<1> DEFINE v == NewInfos(A)
<1>2. /\ listed = Pod
      /\ \A p \in Pod : v[p] = node[p] /\ node[p] \in {"slave", "master"}
      /\ \A s \in Shard : Complete(s)
  BY <1>1, RedistributeFacts
<1>3. UNCHANGED << node, zone, synced, listed >>
  BY <1>1 DEF GetNewClusterInfos, clusterVars, Return
<1>4. \A s \in Shard : /\ \A z \in Zone : \E p \in PodsOf(s) : zone[p] = z
                      /\ \A p, q \in PodsOf(s) : zone[p] = zone[q] /\ zone[p] \in Zone => p = q
  BY <1>1, BalancedZones
<1> HIDE DEF v
<1>5. todo' = Promoted(v)
  BY <1>1 DEF v
<1>6. \A p \in todo' : p \in Pod /\ node[p] = "slave" /\ zone[p] = HomeZone(p[1])
  BY <1>2, <1>5 DEF Promoted
<1>7. \A p, q \in todo' : p[1] = q[1] => p = q
  BY <1>4, <1>6, PodFacts, HomeZoneIsZone
<1>8. \A p \in todo' : p \in synced
  BY <1>2, <1>6, PodFacts DEF Complete
<1>9. ASSUME NEW s \in Shard, ~Home(s)
      PROVE  \E p \in todo' : p[1] = s
  <2>1. PICK m \in MasterOf(s) : zone[m] # HomeZone(s)
    BY <1>9 DEF Home
  <2>2. m \in Pod /\ m[1] = s /\ node[m] = "master"
    BY <2>1, PodFacts DEF MasterOf
  <2>3. m \in Misplaced(v)
    BY <1>2, <2>1, <2>2 DEF Misplaced, MasterNodes
  <2>4. PICK p \in PodsOf(s) : zone[p] = HomeZone(s)
    BY <1>4, HomeZoneIsZone
  <2>5. p \in Pod /\ p[1] = s /\ node[p] = "slave"
    BY <1>2, <2>1, <2>2, <2>4, PodFacts DEF TypeInv, ClusterTyped, OneMaster
  <2>6. p \in Promoted(v)
    BY <1>2, <2>2, <2>3, <2>4, <2>5 DEF Promoted
  <2> QED
    BY <1>5, <2>5, <2>6
<1>10. \A s \in Shard : MasterOf(s)' # {} /\ (Home(s) => Home(s)')
  BY <1>2, <1>3 DEF Complete, MasterOf, Home, HomeZone
<1>11. todo' \subseteq synced'
  BY <1>3, <1>8
<1>12. \A s \in Shard : Home(s)' \/ \E p \in todo' \cup scheduled' : p[1] = s
  BY <1>9, <1>10
<1> QED
  BY <1>1, <1>2, <1>3, <1>7, <1>10, <1>11, <1>12 DEF PlaceInv

LEMMA PlaceFailoverSlaveToMaster == TypeInv /\ PlaceInv /\ FailoverSlaveToMaster => PlaceInv'
<1> SUFFICES ASSUME TypeInv, PlaceInv, FailoverSlaveToMaster PROVE PlaceInv'
  OBVIOUS
<1>1. /\ pc = "failover" /\ UNCHANGED << listed, conn >> /\ todo \subseteq Pod /\ listed = Pod
      /\ UNCHANGED << node, zone, synced >>
  BY DEF FailoverSlaveToMaster, TypeInv, OpTyped, PlaceInv, clusterVars
<1>2. PICK p \in todo :
       \/ /\ scheduled' = scheduled \cup {p}
          /\ todo' = todo \ {p}
          /\ UNCHANGED << pc, faultVars >>
       \/ /\ IF p \in conn /\ p \in synced /\ MasterOf(p[1]) # {} THEN Fault("redis") ELSE UNCHANGED faultVars
          /\ todo' = {}
          /\ pc' = "annotate"
  BY DEF FailoverSlaveToMaster
<1>3. CASE /\ scheduled' = scheduled \cup {p}
           /\ todo' = todo \ {p}
           /\ UNCHANGED << pc, faultVars >>
  <2>1. Undisturbed' <=> Undisturbed
    BY <1>1, <1>3 DEF Undisturbed, faultVars
  <2>2. \A s \in Shard : MasterOf(s)' = MasterOf(s) /\ (Home(s)' <=> Home(s))
    BY <1>1 DEF MasterOf, Home, HomeZone
  <2>3. todo' \cup scheduled' = todo \cup scheduled
    BY <1>3
  <2> QED
    BY <1>1, <1>3, <2>1, <2>2, <2>3 DEF PlaceInv
<1>4. CASE /\ IF p \in conn /\ p \in synced /\ MasterOf(p[1]) # {} THEN Fault("redis") ELSE UNCHANGED faultVars
           /\ todo' = {}
           /\ pc' = "annotate"
  <2>1. ~Undisturbed'
    <3> SUFFICES ASSUME Undisturbed' PROVE FALSE
      OBVIOUS
    <3>1. hit \subseteq hit'
      BY <1>4, FaultEffect DEF TypeInv, faultVars
    <3>2. Undisturbed
      BY <1>1, <3>1 DEF Undisturbed
    <3>3. p \in conn /\ p \in synced /\ MasterOf(p[1]) # {}
      BY <1>1, <3>2, PodFacts DEF PlaceInv, Undisturbed
    <3>4. "redis" \in hit'
      BY <1>4, <3>3, FaultEffect DEF TypeInv, Excused
    <3> QED
      BY <3>4 DEF Undisturbed
  <2> QED
    BY <1>1, <1>4, <2>1 DEF PlaceInv
<1> QED
  BY <1>2, <1>3, <1>4

LEMMA PlaceMastersDone == PlaceInv /\ PlaceMastersbySTSDone => PlaceInv'
BY DEF PlaceMastersbySTSDone, PlaceInv, Undisturbed, Home, MasterOf, HomeZone, clusterVars, faultVars

\* What a step may not do (DoneMeansScheduled).
PlaceStep ==
  annot /\ ~annot' /\ conn = listed /\ {"redis", "failover", "expired", "late"} \cap hit = {} =>
    \A s \in Shard : Home(s) \/ \E p \in scheduled : p[1] = s /\ zone[p] = HomeZone(s)

LEMMA PlaceUpdateCrdAnnotations == HomeInv /\ PlaceInv /\ UpdateCrdAnnotations => PlaceInv' /\ PlaceStep
<1> SUFFICES ASSUME HomeInv, PlaceInv, UpdateCrdAnnotations PROVE PlaceInv' /\ PlaceStep
  OBVIOUS
<1>1. pc = "annotate" /\ pc' = "idle"
  BY DEF UpdateCrdAnnotations, Return
<1>2. PlaceInv'
  BY <1>1 DEF PlaceInv
<1>3. Undisturbed => \A s \in Shard : Home(s) \/ \E p \in scheduled : p[1] = s
  BY <1>1 DEF PlaceInv
<1>4. PlaceStep
  BY <1>3 DEF PlaceStep, Undisturbed, HomeInv
<1> QED
  BY <1>2, <1>4

\* Only UpdateCrdAnnotations takes the annotation back.
LEMMA AnnotationStays ==
  ASSUME TypeInv, Next, ~UpdateCrdAnnotations
  PROVE  annot => annot'
BY DEF Next, Operator, Heal, Environment, Settle, ZoneFails, PodRestart, FailoverOfLive, Ask, PodStarts,
       ZoneBack, Resync, Join, HandshakeTimeout, Failover, ManualFailover, ManualFailoverTimeout, Crash,
       GetStatefulSetPods, waitPodReady, FixFailedNodes, FixUntrustedNodes, Healed, GetClusterInfosError,
       waitForClusterJoin, syncCluster, DispatchMastersError, noClusterOperation, GetNewClusterInfos,
       DeletePodByName, DeleteDone, FailoverSlaveToMaster, PlaceMastersbySTSDone, userVars

LEMMA PlaceNext == TypeInv /\ HomeInv /\ PlaceInv /\ Next => PlaceInv' /\ PlaceStep
<1> SUFFICES ASSUME TypeInv, HomeInv, PlaceInv, Next PROVE PlaceInv' /\ PlaceStep
  OBVIOUS
<1>1. ~UpdateCrdAnnotations => PlaceStep
  BY AnnotationStays DEF PlaceStep
<1>2. UpdateCrdAnnotations => PlaceStep
  BY PlaceUpdateCrdAnnotations
<1>3. CASE Environment \/ Settle
  BY <1>1, <1>2, <1>3, PlaceOutside
<1>4. CASE GetNewClusterInfos \/ FailoverSlaveToMaster \/ PlaceMastersbySTSDone \/ UpdateCrdAnnotations
  BY <1>1, <1>4, PlaceGetNewClusterInfos, PlaceFailoverSlaveToMaster, PlaceMastersDone,
     PlaceUpdateCrdAnnotations
<1>5. CASE \/ GetStatefulSetPods \/ waitPodReady \/ Heal \/ GetClusterInfosError \/ waitForClusterJoin
           \/ syncCluster \/ DispatchMastersError \/ noClusterOperation
           \/ DeletePodByName \/ DeleteDone \/ Crash
  <2>1. pc' \notin {"failover", "annotate"}
    BY <1>5 DEF GetStatefulSetPods, waitPodReady, Heal, FixFailedNodes, FixUntrustedNodes, Healed,
                GetClusterInfosError, waitForClusterJoin, syncCluster, DispatchMastersError,
                noClusterOperation, DeletePodByName, DeleteDone, Crash, Return
  <2> QED
    BY <1>1, <1>2, <2>1 DEF PlaceInv
<1> QED
  BY <1>3, <1>4, <1>5 DEF Next, Operator

LEMMA PlaceAlways == Spec => [](TypeInv /\ HomeInv /\ PlaceInv)
<1>1. Init => HomeInv /\ PlaceInv
  BY DEF Init, HomeInv, PlaceInv
<1>2. TypeInv /\ HomeInv /\ PlaceInv /\ [Next]_vars => HomeInv' /\ PlaceInv'
  <2>1. TypeInv /\ HomeInv /\ PlaceInv /\ Next => HomeInv' /\ PlaceInv'
    BY HomeNext, PlaceNext
  <2>2. HomeInv /\ PlaceInv /\ UNCHANGED vars => HomeInv' /\ PlaceInv'
    BY DEF HomeInv, PlaceInv, Undisturbed, Home, MasterOf, HomeZone, vars, clusterVars, opVars, faultVars
  <2> QED
    BY <2>1, <2>2
<1> QED
  BY <1>1, <1>2, TypeAlways, PTL DEF Spec

\* A redistribution that reports its end, by setting the annotation to "false", has for
\* every displaced master a replica in the right zone that has begun to take over, in
\* whatever order PlaceMastersbySTS takes them, as long as no failover failed, was dropped
\* or came from elsewhere and no pod went meanwhile.
THEOREM RedistributionAsksHome == Spec => DoneMeansScheduled
<1>1. TypeInv /\ HomeInv /\ PlaceInv /\ [Next]_vars
        => [annot /\ ~annot' /\ conn = listed /\ {"redis", "failover", "expired", "late"} \cap hit = {} =>
              \A s \in Shard : Home(s) \/ \E p \in scheduled : p[1] = s /\ zone[p] = HomeZone(s)]_vars
  BY PlaceNext DEF PlaceStep
<1> QED
  BY <1>1, PlaceAlways, PTL DEF Spec, DoneMeansScheduled
=============================================================================
