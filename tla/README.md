# A TLA+ model of the Redis Cluster operator

The operator (`src/`) is a Kubernetes controller that creates, scales, updates,
heals, backs up and restores Redis Cluster instances described by a
`DistributedRedisCluster` resource. This directory holds TLA+ modules that model
its core, TLC configurations that check them on small instances, and TLAPS
proofs for instances of every size. `PROJECT.json` ties each definition to the
source lines it models.

Contents: 1 the system, 2 the modules, 3 what is checked, 4 what is proved,
5 disagreements found, 6 what is not modelled, 7 plan.

## 1. The system

One reconcile of a cluster (`Reconcile`,
`controllers/distributedrediscluster/distributedrediscluster_controller.go`)
runs these phases in order, and returns early from any of them:

1. read the resource; create or update StatefulSets, services, config maps;
2. wait until the pods run; open one connection per pod;
3. update passwords and ACLs; read `CLUSTER NODES` of every pod
   (`GetClusterInfos`);
4. heal (failed and untrusted nodes); wait until the views of
   the nodes agree (`waitForClusterJoin`);
5. compute the status; if the number of masters or replicas is not the wanted one,
   `syncCluster`: create, scale up, scale replicas or scale down;
6. if healthy, replace pods of an old revision (`checkandUpdatePods`) and move
   masters between zones (HA redistribution).

Nothing is persisted by the operator except the status of the resource. A
reconcile that fails, and one that was cut off by the death of the process, is
repeated from the start, from what Kubernetes and the Redis nodes then report.

| Component | State | Operations | Interacts with | Hard behaviour | What makes it correct |
|---|---|---|---|---|---|
| Slot planning, scale down (`clustering/migration.go`) | none | `feedMigInfo`, `BuildSlotsByNode`, `retrieve*` | called by the scale down | Go maps in random order; lost slots | every slot ends at exactly one kept master, moved once, evenly |
| Slot planning, creation and scale up (`clustering/rebalance.go`) | balances of the masters | `AllocSlots`, `RebalancedCluster`, `computeReshardTable` | called by the scale up | float rounding, remainder, unstable sort | the same; no old master is emptied |
| Scale down (`migration.go`, `sync_handler.go`) | in-memory slots of the nodes | `DispatchSlotToNewMasters`, `scalingDown` | Redis nodes, API server | requests one by one against gossip, clients, crashes, lost commands | a slot always has an owner, no key is lost, only empty nodes are deleted, it completes |
| Creation and scale up (`rebalance.go`) | the same | `AllocSlots`, `moveSlot` | Redis nodes | the same, and refused commands that count as success | the same, and the cluster is formed |
| Redis admin client (`utils/redisutil`) | connections, what the nodes answered | `GetClusterInfos`, `SetSlots`, `MigrateKeys`, `ForgetNode`, ... | Redis nodes | partial pipelines, partial views | no pod is left out unnoticed; what is called consistent is; joined nodes know each other |
| Reconciler | the status | the phases above | everything | stale reads, requeues | it converges, and repeats nothing that is harmful twice |
| Placement (`placement_v2.go`, `roles.go`) | roles per StatefulSet | `DispatchMasters`, `PlaceMasters*`, `PlaceSlaves`, `AttachingSlavesToMaster` | Redis nodes | zones; replicas that are masters elsewhere | one master per StatefulSet; replicas of it only |
| Rolling update (`checkandUpdatePods`) | revisions of the pods | `IsSlaveReady`, `updatePodIfNeeded` | API server, failover | replicas not in sync when a master is deleted | never master and last replica at once; all pods get updated |
| Password and ACL update (`sync_handler.go`, `statefulsets/helper.go`) | versions of the secrets in the status | `CheckPasswordChanged`, `GenerateAclcommands`, `checkandUpdatePassword` | Redis nodes, secrets | failure after some nodes, secrets rotating meanwhile | every node has the ACLs the status records; every change gets there |
| StatefulSets, services, config maps (`manager/ensurer.go`, `resources/`) | Kubernetes objects | `EnsureRedis...` | API server | one request of several fails; lost errors | no pod before its ACL file and budget; all objects come to exist |
| HA redistribution, status and health (`status.go`) | zones, roles, the annotation | `getListofNodestoDelete`, `PlaceMastersbySTS`, `buildHAStatus`, `CheackandUpdateClusterHealth` | failover, scheduler, pods | several reconciles on stale roles | no shard loses its last copy; it ends, with the masters in their zones |
| Healing (`controllers/heal`) | none | `FixFailedNodes`, `FixUntrustedNodes` | Redis nodes, pods | a node that comes back; FORGET that stops half way | dead nodes are forgotten by all; the cluster becomes whole |
| Backup controller (`controllers/redisclusterbackup`) | finalizer, deployment shared by the backups of a cluster | `Reconcile`, `reconcileUtilDeployment`, `finalizeBackup` | API server | deletion while creating, two reconciles at once | no deployment is left behind; it follows the spec; the finalizer is removed in the end |

The hazards of the code, with the line where each one bites and the properties
that watch it, are listed under `hazards` in `PROJECT.json`.

## 2. The modules

```
RedisCluster          Redis: slot tables, SETSLOT, ADDSLOTSRANGE, FORGET, gossip, clients
  |-- RedisClusterProofs     lemmas about the commands, for both proofs below
  |-- ScaleDown       syncCluster "Scaling down": DispatchSlotToNewMasters, scalingDown
  |     |-- MCScaleDown      instance for TLC, takes its plans from SlotPlan
  |     `-- ScaleDownProofs  theorems
  `-- ScaleUp         syncCluster "Creating cluster" and "Scaling up": AllocSlots, RebalancedCluster
        |-- MCScaleUp        instance for TLC, takes its plans from Rebalance
        `-- ScaleUpProofs    theorems
SlotPlan              feedMigInfo and its helpers, as operators
Rebalance             AllocSlots, RebalancedCluster, computeReshardTable, as operators
  `-- MCSlotPlans     both against their reference definitions, on all small inputs
RollingUpdate         checkandUpdatePods: pods, revisions, replication, failover
  `-- RollingUpdateProofs    theorems
Provision             Reconcile up to the cluster infos: validation, defaults, objects, ACL users
  `-- ProvisionProofs        theorems
ClusterView           connections, GetClusterInfos, healing, join and health against gossip
  `-- ClusterViewProofs      theorems
Zones                 healing, placement, HA status and redistribution over zones
  `-- ZonesProofs            theorems
BackupLifecycle       what the backup controller promises (abstract)
BackupController      Reconcile and finalizeBackup; implements BackupLifecycle
  |-- MCBackup        instance for TLC
  `-- BackupProofs    theorems
```

Together the modules follow one `Reconcile` through its phases: Provision,
ClusterView, then ScaleDown, ScaleUp or Zones for `syncCluster`, then
RollingUpdate, and Zones for the redistribution. Each models its own phases
request by request and reduces the others to the guards they impose (pods ready,
infos complete, views consistent). They are not composed into one state machine:
the product of slots, zones and secrets is out of TLC's reach, and a phase reads
anew what it uses of the earlier ones.

**RedisCluster** is the environment, marked external: Redis is not in the
repository and is modelled from the commands the code sends and the replies it
handles. A node has its own table of slot owners, its importing and migrating
marks and its keys. `claim[s]` stands for the config epochs: it names the claim
of slot `s` that wins by gossip. Each command states when it is refused; a
refusal is visible to the operator only where the code looks at it. A node that
loses a slot it still has keys of deletes these keys, as Redis does. Clients write
new keys, following MOVED and ASK. MIGRATE is no command of this module: none ever
reaches a node. `admin.go:603` and `662` hand its arguments to go-redis as one
`[]string`, a type the client cannot encode, so that the call fails before anything
is sent, for every slot that has keys. Deleting a StatefulSet removes its node and
what the node holds. Replicas are left out: they have no slots, and the
migration code does not talk to them.

**SlotPlan** and **Rebalance** are the pure algorithms. Where the Go code ranges
over a map or sorts unstably, the order is a parameter, and `migrationSlotInfo`
and `RebalancedCluster` collect the outcomes of all orders. `AllocSlots` rounds
as `utils.Round` does, by integer arithmetic on the doubled values.

**ScaleDown** has one action per request: the label `pc` names the
request that comes next. `bom` is the copy of the nodes' slots the operator
reads at the start of a reconcile and updates in memory ("Update bom" in the
code). The correspondence, in order:

| Code | Actions |
|---|---|
| `GetClusterInfos`, `waitForClusterJoin`, `needClusterOperation`, `syncCluster` | the actions of the same names, `noClusterOperation` |
| `feedMigInfo`; the loop over `migrationSlotInfo` | `syncCluster` (chooses a plan), `nextMigrationInfo`, `dispatchDone` |
| `AddSlots` for a nil `From` | `AddSlots` |
| SETSLOT IMPORTING, SETSLOT MIGRATING | `SetSlotsImporting`, `SetSlotsMigrating` |
| `MigrateKeys` | `MigrateKeys`, `MigrateKeysDone`, `MigrateKeysError` |
| SETSLOT NODE at destination, source, other masters | `SetSlotsNodeTo`, `SetSlotsNodeFrom`, `SetSlotsNodeOthers`, `nodeOthersDone` |
| `scalingDown` | `scalingDownDone`, `scalingDownRefused`, `scalingDownNode`, `ForgetNode`, `DeleteStatefulSet` |

`ForgetNode` sends its FORGETs in one action: they touch nothing the other actors
read, except tables that name the removed node. An early return drops `bom` and
the plan (`Return`); so does a crash. The faults are named by kind: `"crash"`
(the process dies), `"redis"` (the connection fails, before or after the node
executed the command, or in the middle of a pipeline), `"migrate"`
(GETKEYSINSLOT fails), `"k8s"` (a request to the API server fails). The MIGRATE that
fails is no fault but what the code does: at the first slot with keys `MigrateKeys`
ends, with a nil error (`admin.go:604-606`), and the reconcile goes on (`GiveUp`). The
history variable `left` collects the keys that stay at the source that way.
`faults` counts them and `hit` remembers the kinds, so that one run with all
faults can state for each property which kinds it withstands. The plan is a
constant operator `Plans`, constrained by `PlanOK` only (a job moves slots its source
reports; the ranges of lost slots do not overlap; two jobs share a slot only if two
masters report it, and then both take it from the same one,
`migration.go:132-330`): the proofs hold for any
planner that satisfies it, and TLC evaluates `PlanOK` for the planner of SlotPlan
over every assignment of slots of the instance (`ScaleDownAssumption`). The history
variable `twice` records that a plan was to move a slot twice from a master that is kept
(`MovedTwice`). `KeysKept` names both `twice` and `left`; no action reads them.

**ScaleUp** is built alike. It differs as the code does: one slot at a time,
both marks name the node they are sent to, no other master is told, a command
that Redis refuses counts as success (`ValidatePipeResp` reports network errors
only), a lost one too when the error is none of these (`io.EOF`), and the slots of the
target are not updated in memory. At a slot with keys, whose MIGRATE fails,
`MigrateKeysInSlot` returns the error and the reconcile ends; the next one plans anew.

**RollingUpdate** models the end of a healthy reconcile. A shard is a
StatefulSet with `Replicas + 1` pods, one of them the master. The pods, their
revisions, the replication links and the failover are external; the operator is
modelled pod by pod:

| Code | Actions |
|---|---|
| `GetStatefulSetPodsByLabels`, the connections | `GetStatefulSetPods` |
| `waitPodReady`, `CheackandUpdateClusterHealth` | the actions of the same names |
| `getRedisIPsByRole`, `getStatefulsetUpdatedRevision` | `getRedisIPsByRole`, `getRedisIPsByRoleError` |
| the loop over the replicas | `IsSlaveReady`, `IsSlaveReadyError`, `updateSlave`, `slavesDone` |
| the loop over the masters | `updateMaster`, `mastersDone` |
| `revision_hashes[stsIdentifier]` out of range | `revisionMissing` |
| `ensureRedisStatefulset` after another edit | `EditSpec` |

Both loops range over addresses from a Go map, hence in any order. `ok` and
`updated` keep the result of the last pod only, as in the code. `waiting` returns
when some StatefulSet misses a pod or at its timeout, and the reconcile returns
either way: in the model it may return at once. The storage is a PersistentClaim
(`statefulset.go:669-684`), so that a pod that is created again is the same Redis node,
with its role and its data; the case of an emptyDir, in which it is a new one, is in Zones.
`conn` is the set of pods that still
have the address the operator read; a pod that is created again has another one.
`seen` are the pods whose listed revision is not the one read of their
StatefulSet. The fault kinds are `"crash"`, `"k8s"`, `"restart"` (a pod goes down
by itself), `"slow"` (a deleted pod terminates slowly and counts as ready until then)
and `"edit"` (the template changes again, one StatefulSet after the other).
The evict annotation is left out: it follows the role label, and its errors are
ignored.

**BackupController** has a reconcile per backup, two at a time, one request per
action. `obj[b].version` stands for the resource version: an update with an object
read earlier is refused when it has changed. `inst[b]` is the object as the
reconcile read it. All backups of a cluster share one deployment.

| Code | Actions |
|---|---|
| `Reconcile`: get the object, get the cluster | `Reconcile`, `GetDistributedRedisCluster` |
| `reconcileUtilDeployment`: get, create or compare and update | `reconcileUtilDeployment`, `CreateDeployment`, `UpdateDeployment` |
| adding the finalizer (after the deployment) | `AddFinalizer` |
| `finalizeBackup`, removing the finalizer | `GetDeployment`, `DeleteDeployment`, `RemoveFinalizer` |
| a request that fails | `RequestFails` |
| users, the cluster, the watches and their predicates | external actions |

The faults are `"api"` (a request fails) and `"crash"`. `hit` also records events that
a property depends on: `"early"` (an object is deleted before it has its finalizer),
`"unready"`, `"shared"` (another backup used the deployment), `"conflict"` (an update was
refused). **BackupLifecycle** is the promise: phases of an object, and the
deployment. `PhaseOf` and `depl # None` are the refinement mapping.

**Provision** models `Reconcile` from the read of the object to the ACL commands:
`validate` and the defaults with their write back, every `Ensure...` of
`ensurer.go` in its order, `waitPodReady`, the connections, and
`checkandUpdatePassword` with one ACL command to one node per action. A secret is
its version, the config map of the ACL file the versions it was made of, a pod the
versions it accepts for each user; one pod stands for the pods of a shard. Watches
and predicates are modelled, as it matters which changes wake the operator. The
writes of the status go through `compareStatus`, and are lost when the object
changed in between. Events: `"admin"` (the admin's secret was rotated), `"burst"` (a
second change before a quiet reconcile), `"metadata"` (a change of labels met the
write of the defaults), `"race"` (a secret changed between the ACL file and the first
record), `"revert"` (a user left and came back before that was recorded), `"skip"`
(`CheckRedisNodeNum` failed inside `checkandUpdatePassword`), `"unrecorded"`
(`Getsecretversions` failed before the first record).

**ClusterView** models what the operator knows. Each Redis node has its own nodes
table: known nodes, roles, failed ones, handshakes, slot owners. `GetClusterInfos` asks
the nodes in any order, one per action, between which the nodes gossip, fail over
or restart; `DecodeNodeInfos` turns a table into lines with role, flags and slots.

| Code | Actions and operators |
|---|---|
| `GetStatefulSetPods`, `waitPodReady`, `newRedisAdmin`, `AddAll`, `NewClient` | `GetStatefulSetPods`, `newRedisAdmin`, `NewClient` |
| `GetClusterInfos` | `getInfos`, `handleError`, `CheckandUpdateClusterState`, `AllRead`, `ComputeStatus` |
| `Heal` | `Heal`, `listGhostNodes`, `listUntrustedNodes`, `ForgetNode` |
| `waitForClusterJoin` | `waitForClusterJoin`, `AttachNodeToCluster` |
| the health | `syncCluster`, `CheackandUpdateClusterHealth`, `healthDone` |

The infos of a reconcile are read up to four times; the reads of CLUSTER INFO and
INFO, which follow CLUSTER NODES at the same node, are an action of their own only
when the health depends on them. A pod that starts is a new node with a new id and
a new address: addresses are not reused. `ForgetNode` sends every node the ids that are
not its own, as `admin.go:693` does: running nodes that suspect each other forget each
other. `noaddr` (counted on its own at `failednodes.go:43-45`), pfail and the marks of migrating
slots are left out, and so is the replication factor in the health, which Zones has.
A node that hears that the owner of a slot has become a replica knows no owner until it
hears of the new one. `moves` is a history variable: how often each slot was taken over
while the infos for the health were read.

**Zones** models shards with a pod per copy, each pod in a zone or down. A pod
has an emptyDir, so a pod that starts is an empty node, and its old id stays behind
as a ghost in the views of the others (`ghosts`) or, when it went during a
handshake, as a stray (`strays`). There are as many zones as pods of a shard:
`validateAndSetDefault` refuses another number (`sync_handler.go:98-107`; it asks for
three, the model for any number). External: the scheduler, replication, failover,
handshakes and zones that go and come. CLUSTER FAILOVER answers OK when the failover has
begun: `scheduled` are the replicas that have begun one. Later such a replica takes over
(`ManualFailover`), or the failover times out, which nobody is told
(`ManualFailoverTimeout`; a fault, `"expired"`, unless the master is gone). The event
`"late"` is a failover that an earlier reconcile began and that takes place in a shard of
which the present one has a pod to delete or to promote; `"free"` is a creation
continued as a scale up (`sync_handler.go:245-257`), which leaves the slots of the new
master's shard unassigned. The operator:

| Code | Actions and operators |
|---|---|
| `GetStatefulSetPods`, `waitPodReady`, `GetClusterInfos` | the actions of the same names |
| `FixFailedNodes`, `FixUntrustedNodes`, `ForgetNode` with `DetachSlave` | the actions of the same names; a FORGET may stop half way |
| `waitForClusterJoin`, `AttachNodeToCluster` | `waitForClusterJoin`, `SignaturesAgree` |
| `buildClusterStatus`, `needClusterOperation` | `Counted`, `MinReplicationFactor`, ..., `needClusterOperation` |
| `syncCluster`: `DispatchMasters`, `PlaceMastersHA`, `PlaceMasters`, `PlaceSlaves`, `AttachingSlavesToMaster` | `syncCluster`, `DispatchMastersError`, `Candidates`, ... |
| `CheackandUpdateClusterHealth`, `buildHAStatus` | the operators of the same names |
| `getListofNodestoDelete`, the deletions | `getListofNodestoDelete`, `DeletePodByName`, `DeleteDone` |
| `PlaceMastersbySTS`, `UpdateCrdAnnotations` | `Promoted`, `FailoverSlaveToMaster`, `PlaceMastersbySTSDone`, `UpdateCrdAnnotations` |

## 3. What is checked

Bounds: `NumSts`, `NumSlots`, the keys, `MaxFaults`. Three masters are the
smallest number with a source, a destination and a third node that learns of the
move late. Four slots with two keys in one of them make plans with jobs of several
slots, slots without keys, and a slot in which one key is left behind and another is
written. Two
faults are enough for a fault while recovering from the first. No symmetry is
used: masters and slots are numbers that the code compares, and TLC does not
combine symmetry with the liveness properties. The other instances: two shards let one
succeed where the other fails; two users are the admin and one that comes and goes;
two backups contend for the deployment; two pods are enough for two views that
differ, and their restarts bring four more node ids; three zones with three
copies have one copy per zone, so that the loss of a zone crowds another one. In
`Zones` one shard stands for each: the shards meet only in the threshold of ghosts
and in the redistribution, where one shard blocks the others (see Variants).

| Run | Instance | Checks |
|---|---|---|
| `SlotPlans` | all assignments of up to 5 slots (some lost) to up to 4 masters, all orders | `PlanPartitionsSlots`, `PlanBalanced` |
| `ScaleDownFaults` | 3 masters to 2, with or without a lost slot, 2 faults of 4 kinds | `TypeOK`, `SlotStaysOwned`, `KeysKept`, `KeyReachable`, `RemovedNodeIsDrained`, `UndisturbedCompletes` |
| `ScaleUpFaults` | creation of 3 masters, and 1 master to 3; 2 faults of 3 kinds | `TypeOK`, `SlotStaysOwned`, `KeysKept`, `NoMasterEmptied`, `ClusterFormed` |
| `RollingUpdateFaults` | 2 shards of a master and a replica, 2 faults of 5 kinds | `TypeOK`, `ShardServedUndisturbed`, `OnlyOldPodsDeleted`, `UpdateCompletes`, `LabelsFollowRoles` |
| `BackupFaults` | 2 backups of one cluster, 2 images, 2 creations and 1 change by users, 1 fault of 2 kinds | `TypeOK`, `DeploymentHasBackup`, `LifecycleSpec`, `DeploymentFollows`, `DeletionCompletes` |
| `Provision` | 2 shards, 2 users, 2 images, secrets up to version 3, 2 changes by users, 1 fault of 4 kinds | `TypeOK`, `RecordedApplied`, `PodsStartProtected`, `ClusterProvisioned`, `SecretsReachPods`, `RecordSettles` |
| `ClusterView` | 2 pods and 1 slot; new nodes, a master with its replica, or two masters; 2 faults of 7 kinds | `TypeOK`, `ConsistentIsComplete`, `JoinedMeansMet`, `HealthyCoversSlots`, `JoinCompletes` |
| `Zones` | 1 shard with 2 replicas, 3 zones, 1 request to redistribute, 2 faults of 10 kinds | `TypeOK`, `CopiesKept`, `DeletionIsSafe`, `DoneMeansScheduled`, `ClusterHealed`, `RedistributionCompletes` |
| `ScaleDownMigrateFails` | 3 to 2, no fault | `NoKeyLost` is violated |
| `ScaleDownOrphan` | 3 to 1, one crash | `ScaleDownCompletes` is violated |
| `ScaleUpAskLoop` | 1 to 3, no fault | `KeysWritable` is violated |
| `RollingUpdateSlow` | 2 shards of a master and a replica, one slow pod | `ShardServed` is violated |

What the passing runs show:

* the planners are right on all small inputs: a plan partitions the slots among
  the kept masters, moves none twice, and is even up to one slot (scale down) or
  the remainder (scale up). That a scale down may exceed `nbSlotByNode` by one
  does happen, with 5 slots: the cursor of `buildSlotByNodeFromAvailableSlots`
  steps onto a full master;
* the order "destination first" of the two SETSLOT NODE does what the comment in
  `migration.go:93` says: wherever the operator dies, a slot has a claimant;
* in a scale down a lost SETSLOT loses no key but those that `MigrateKeys` left behind,
  unless a plan moves a slot twice, and no slot is left without a claimant. With three
  masters no plan moves a slot twice from a master that is kept; with four one does (see
  Variants). What happens to the keys that were left behind is disagreement 1 of section 5;
* the operator may decide on the slots it read at the start of the reconcile: a
  deleted StatefulSet has no slot and no other key, although clients and gossip went on
  meanwhile;
* in a scale down without faults every acknowledged key that was not left behind stays
  readable, one written while its slot moves included, every lost slot is given away and
  the surplus StatefulSets are deleted. These properties are part of the runs with
  faults, as `hit = {} => ...`. `KeyReachable` was also checked with four masters, three
  keys and other owners (327,820 states);
* in a scale up a slot with keys stays with its keys, however often the move is repeated;
  a creation, and a scale up of slots without keys, end with the slots evenly spread;
* undisturbed, a rolling update never takes the last serving pod of a shard, in
  whatever order replicas and masters are visited: one shard is enough for a
  master and its replica to go down together, two for the result of one shard's
  replica to hide the other's;
* a rolling update ends with all pods new and correctly labelled, whatever two
  faults happen, a panic by a missing revision included;
* the backup controller implements its promise; its deployment is left behind only when
  an object is deleted before it has its finalizer; a deletion that meets nothing
  unusual completes;
* a pod starts only with its ACL file, with the admin in it, and its budget in place;
  what the status records of a user is in force on every pod; all objects come to
  exist and secrets reach the pods, after any fault that is not final. The windows
  that the properties name are real (section 5);
* no pod that was listed is left out of consistent infos, and nodes that were read one
  after the other and compared by their masters and slots only know all masters. The
  pool of connections achieves the first by accident: `NewClient` ignores
  the result of its PING, so that a dead pod has a connection which fails later. Only a
  node that gives an address other than its own is left out unnoticed;
* a cluster that was healthy by complete infos had all slots covered, unless slots
  changed hands twice while it was asked, and after any two faults the nodes join
  again, also when running nodes were forgotten, unless a FORGET that stopped half way
  has left a master that is gone with fewer nodes than the threshold (`Haunted`). With two
  pods the threshold is 1 and `Haunted` cannot happen; see Variants for four;
* a shard keeps a copy of its data through the loss of pods, zones and commands and
  through the redistribution, outside two windows; the redistribution never deletes
  a master as long as the pods are the ones it listed, and ends. The annotation is
  cleared when the failovers have begun, before a role has changed; `DoneMeansScheduled`
  says that they are the right ones, `RedistributionCompletes` that in the end they have
  brought the masters home, if no second fault happened. Two faults do not
  reach all of the second window: see `CopiesKept` in section 4.

**Fairness.** `WF_vars(Operator)`: controller-runtime hands a request that was
requeued, or that failed, to a worker again, and a running reconcile continues; the
operator's actions of one reconcile are never disabled by another actor. Where the
code does not requeue (Provision, BackupController) the action is enabled only
while the object is in the queue, so fairness does not help a reconcile that
nobody asked for. `WF_vars(GossipStep)`, and `WF_vars(Redis)` in ClusterView: the nodes
exchange pings all the time and the kubelet starts a pod again. ScaleUp assumes
both only as long as no fault has happened (`WF_vars(hit = {} /\ ...)`): its one
liveness property speaks of these behaviours. In `RollingUpdate` and `Zones`,
`WF_vars(Settle)`: the kubelet terminates a deleted pod, the StatefulSet controller creates
a missing one, a replica gets in sync, and in Zones a failed master with a replica
in sync is replaced, a failover that was accepted takes place or times out, and a
handshake ends or times out. A failover from a master
that is up is never assumed, nor in `RollingUpdate` any failover: a master that comes
back first stays the master. `SF_vars(Placed)` in Zones: the placement ranges over a
Go map, in random order, and which pod becomes the master of a StatefulSet depends on
it; if a choice that Redis accepts is possible over and over, it is made in the end. In
BackupController, `WF` for the worker of each object. Nothing
is assumed about clients, users or faults. Deadlock is checked except in `SlotPlans`, whose
states hold a finished plan, and in `Provision` and `BackupFaults`, where a quiet
operator waits for an event: elsewhere a reconcile is always possible.

**Variants.** Changing one line of a configuration shows more of what the code
does. They follow from the same models, and are described here for whoever
wants to see the traces:

* `SlotOwned` as an invariant with `Faults = {"redis"}` fails: the SETSLOT NODE to
  the destination is lost, the error is logged (`migration.go:96`), the source gives
  the slot up;
* `KeyReachable` without its hypothesis fails under a crash in a scale down: the restarted
  reconcile plans anew in another order while the marks of the first plan are still
  set (`migration.go:59`), and importing marks can stay for ever;
* `Held(Key \ left)`, that is `KeysKept` without its hypothesis, fails
  with four masters, three kept, six slots owned as {0, 1},
  {2, 3}, {4}, {5}, a key in slot 5 and `Faults = {"crash", "redis"}` (33 states; there
  `Plans` is best evaluated for the readings that occur only, which needs an INSTANCE
  of ScaleDown without its assumption; with the same constants `KeysKept` holds). A
  crash between the two SETSLOT NODE leaves slot 5
  reported by its old and its new master. `feedMigInfo` then has it once as a slot of
  a master to be removed and once as a surplus slot of the new owner, gives it to two
  masters, and looks up its source as the first master that reports it
  (`migration.go:141`): two jobs `0 -> 1` and `0 -> 2`. If the SETSLOT
  NODE at the source of the first job is lost, which is only logged (`migration.go:103`),
  the second job finds the source still claiming the slot, marks it, finds it without
  keys, and gives it to its destination under a newer epoch. By gossip the first
  destination loses the slot and deletes the keys that were written to it since;
* two lost slots with an owned slot between them make `UndisturbedCompletes` fail: one
  ADDSLOTSRANGE from the first to the last is refused each time (`admin.go:351`);
* in a scale up, `KeysKept` and `NoMasterEmptied` without their hypothesis fail under
  a crash: the slots were read before `waitForClusterJoin`, and a refused SETSLOT
  counts as success (`connections.go:328`);
* `ClusterFormed` without its exception for faults fails under a crash: once every master has a slot, nothing
  continues an interrupted scale up (`sync_handler.go:245`); a creation interrupted
  after its first ADDSLOTSRANGE continues as a scale up, which assigns no slots
  (`sync_handler.go:232`);
* `UpdateCompletes` with `Replicas = 0` fails: without a replica `ok` stays FALSE and no
  master is ever updated (`sync_handler.go:431`); `minClusterReplicas` of
  `api/v1alpha1/default.go:16` is not enforced;
* `OnlyOldPodsDeleted` without its hypothesis fails when a pod restarts by itself
  after it was listed: its successor, already new, is deleted by name once more;
* `Redistributes` of Zones with `Faults = {"zone"}` fails: `getListofNodestoDelete` demands that
  the replicas in crowded zones are exactly as many as the pods lacking elsewhere
  (`distributedrediscluster_controller.go:612`). When the pod of a failed zone comes up
  beside another replica, both are candidates and one is lacking; the count goes below
  zero, and the redistribution fails on every reconcile. One such shard blocks all,
  although the comment at line 419 says "we need to heal the cluster";
* `OnlyGoneForgotten` of ClusterView with three pods and `Faults = {"suspect"}` fails: the comments in
  `failednodes.go:30,42` say that only nodes without a pod are forgotten, but
  `listGhostNodes` does not look at the pods. A node that enough others see as failed is
  forgotten although it runs, and its replicas are reset. They join again
  (`JoinCompletes`);
* `JoinCompletes` without the exception `Haunted` fails with four pods of a formed cluster
  and `Faults = {"restart", "redis"}`: the threshold is 2, a pod restarts, and the FORGET
  of its old node arrives at all nodes but one. With the exception it holds (544,708 states,
  with the packets exchanged in a fixed order before the operator's next step; all
  interleavings of four pods are out of TLC's reach), and also with `{"suspect", "redis"}`
  and `{"restart", "suspect"}`;
* `Zones` with two shards of one replica in two zones and two faults: all properties hold
  (1,390,331 states);
* `HealthyCoversSlots` without its exception fails with three pods, one slot and six
  failovers during one `GetClusterInfos`: each node is asked just after it has heard that
  the owner it knew is a replica now, and learns the new owner before it is asked for
  its `cluster_state` (`admin.go:157`). All views then agree that no master has a slot.

## 4. What is proved

Seven modules prove 27 theorems, for all values of the constants that satisfy the
named assumptions of the modules. TLC evaluates these assumptions on every run. The
hypotheses a property has of its own (which faults have happened, which windows were
met) are those of the property the run checks: a theorem states the same definition.

**Scale down.** `ScaleDownProofs` proves, for any number of StatefulSets, slots and keys, any
planner that satisfies `PlanOK`, any bound on the faults:

| Theorem | Statement |
|---|---|
| `TypeCorrect` | `Spec => []TypeOK`, with all kinds of faults and with lost slots |
| `ClaimedSlotStaysOwned` | `Spec => []SlotStaysOwned`: while no cluster command is lost, a slot that has been claimed has a claimant that exists, whatever MIGRATEs fail and with lost slots |
| `UndisturbedKeysReachable` | `Spec => [](left = {} => KeyReachable)`: without faults, until `MigrateKeys` first meets a slot with keys, a client finds every acknowledged key at every moment of a move, also with lost slots. That the keys of the other slots are found after that is only model-checked |
| `SlotsStayOwned` | `Spec => [](SetSlotsArrive => SlotOwned)`: if no slot is lost at the start, none is lost later while no cluster command is lost |
| `NoAcknowledgedKeyLost` | `Spec => []KeysKept`: no acknowledged key is lost but those `MigrateKeys` left at the source, whatever fails, except where a plan was to move a slot twice and its source may have kept it |
| `RemovalIsSafe` | `Spec => RemovedNodeIsDrained`: while the commands arrive, a deleted StatefulSet is authoritative for no slot and holds no key but those left there, with the same exception |

Assumptions: `ConstantsAssumption` and `ScaleDownAssumption` (TLC evaluates both
on every run), and for `SlotsStayOwned` also `SlotsAssigned`: no slot is lost when
the scale down starts. The other theorems hold for every initial distribution.

`SlotStaysOwned` is not inductive: a step may take the last claim away in a state where
the source gives a slot up that the destination never took, or a StatefulSet may be
deleted that claims a slot the operator does not know of. `OwnInv` adds

* `ClaimsHeld`: the winning claim is held by a node that exists;
* `TargetTook`: once SETSLOT NODE was sent to the destination, it claims the slots;
* `OldKnown`: the operator knows every slot a node to be removed claims, however old its
  reading: these claims only shrink, because every job ends at a node that is kept.

`KeyReachable` needs, in `ReachInv` (each part holds while no fault has happened and no key
was left behind):

* `SingleClaimant`: one claimant per slot, except between the two SETSLOT NODE;
* `PlanCurrent`, `RangesKnown`: the slots still to be moved are claimed by the source the plan
  names, and a range of lost slots meets no other job's;
* `MarksOfJob`: migrating and importing marks exist for the job in hand only, are set on both
  sides while the source is searched for keys, and name the destination;
* `Drained`, `KeysPlaced`: a key is at the claimant, or at the destination of its job.

`KeysKept` and `RemovedNodeIsDrained` rest on `KeyInv`, which is `KeyCond` (the hypothesis of
`KeysKept`, which never becomes true again: `hit`, `twice` and `left` only grow) implying the
following, where a key is one that was not left behind (`Kept`):

* `OneOldOwner`: of the masters to be removed, at most one is ever named for a slot, by a
  table, a mark, the operator's memory or a job. Every job ends at a kept master, so no
  master to be removed gains a slot;
* `NewClaims`: a claim of a kept master is confirmed by the epochs of a kept master;
* `StaleSpent`: a claim that the epochs do not confirm is `Spent`: its node has no key of
  the slot and redirects writers. So what gossip deletes at a stale owner is nothing.
  After a crash between the two SETSLOT NODE the source is such an owner, and it stays
  one through any number of further reconciles with other plans;
* `SourceHolds`, `SourceKnown`: a job that has not changed an owner yet either takes a slot from
  the node with the confirmed claim, or from a node that has lost it and refuses
  MIGRATING; gossip cannot take the slot away in the middle of the job;
* `SharedSlots`: two jobs share a slot only where its source has given it up or `twice` holds.
  That is the case the proof could not close, and TLC then showed it to be real
  (see Variants);
* `RangesFree`: ADDSLOTSRANGE is refused where a slot has a claimant, also after the
  reading has become stale, and two ranges never meet;
* `ImportMarks`, `MoveMarks`, `JobOpen`: which marks there are, and what the job in hand has
  achieved at each of its steps;
* `OldKeys`, `OldDrained`: a master to be removed has keys of its own slots only, and the
  operator knows all of these but the spent ones when it decides to delete it. That is
  why a decision on stale data is safe;
* `KeysHeld`: `Held(Key \ left)` itself.

TLC checked every part on the instance of `ScaleDownFaults`, and by simulation on four
masters and six slots, before it was proved.

In `ScaleDownProofs`, one lemma per action (`Key...`) shows that it keeps `KeyInv`; `KeyNext`
combines them. The effect of each Redis command is stated once, in `RedisClusterProofs`
(`NodeEffect`, `GossipEffect`, ...), and cited here and in `ScaleUpProofs`.

**Creation and scale up.** `ScaleUpProofs` proves, for any number of masters, slots and
keys, any initial distribution of the slots and any planner that satisfies
`PlannerAssumption` (what `AllocSlots` gives out is disjoint and covers the slots;
`RebalancedCluster` moves slots of their owner, each once, and leaves every owner one):

| Theorem | Statement |
|---|---|
| `ScaleUpTypeCorrect` | `Spec => []TypeOK`, with all kinds of faults |
| `ClaimedSlotStaysOwned` | `Spec => []SlotStaysOwned`: while no command is lost, a slot that has been claimed has a claimant |
| `MigrateFailureKeepsKeys` | `Spec => []KeysKept`: while only GETKEYSINSLOT and MIGRATE fail, every acknowledged key is with the owner of its slot |
| `RebalanceEmptiesNobody` | `SlotsWhole` implies `Spec => NoMasterEmptied`: no step takes the last slot of a master |

The planners are recursive, so that `PlannerAssumption` cannot be proved of them; TLC
evaluates it for the planners of Rebalance on the instance, and `SlotPlans` checks their
plans on more inputs. `SlotsWhole` says that the cluster starts with all of its slots or with
none, as a creation and a scale up do. The invariants come in layers, each under the
hypothesis of its property:

* `OwnInv`: `ClaimHeld` as above, and `TargetTook` (when the source is told, the target
  has taken the slot);
* `MoveInv`: `SingleClaimant` and `MarksOfSelf` (the marks name the node they are on, which is the
  disagreement 3 of section 5, and harmless to the keys), `PlanCurrent` (what was read before
  `waitForClusterJoin` is still true of all slots that are yet to be moved), `SourceDrained` (a
  slot the source still owns has the migrating mark, so that no new key comes to it; when
  GETKEYSINSLOT has found it empty it has no key), `StoredKept`. A MIGRATE that fails ends `moveSlot`, unlike
  in the scale down: that is why the keys survive here, although the marks stay;
* `WholeInv`: `Whole` (all slots are claimed, or none, or a creation is giving them out) and
  `KeepsOne` (of the slots a master claims, one is not in the plan). The second needs the
  first: `RebalancedCluster` leaves a slot to every owner only if it has read all slots.

**Rolling update.** `RollingUpdateProofs` proves, for any number of shards and replicas and any bound on
the faults (`RollingUpdateAssumption`):

| Theorem | Statement |
|---|---|
| `RollingTypeCorrect` | `Spec => []TypeOK`, with all kinds of faults |
| `UpdateKeepsShardsServed` | `Spec => []ShardServedUndisturbed`: without faults every shard has a serving pod at every moment |
| `OnlyOldDeleted` | `Spec => OnlyOldPodsDeleted`: while pods go down only when deleted, and at once, only old ones are deleted |

The action property does not follow from the guards: the operator deletes by what it
read earlier. `IInv` says that what it read is still true of the pods not visited
yet (`ListIsFresh`: such a pod that was old is old and ready) and that no pod is
visited twice (`VisitedOnce`); so it is stale about visited pods only.

`ShardServedUndisturbed` does not follow from the guard of the masters either: `ok` and
`updated` are those of the last replica visited, of any shard. `UndisturbedInv` shows that
one replica speaks for all: a reconcile either finds every replica of the old revision,
and then deletes each one it visits and leaves the masters alone (`Replacing`), or finds
none, has no replica to delete, and saw all of them in sync when its health check passed
(`Checking`). Between reconciles the replicas are all untouched or all renewed (`Waiting`);
`AllReady` is what the health check adds. A slow pod makes the shards mixed, which is
disagreement 4 of section 5.

**Backup controller.** `BackupProofs` proves, for any number of backups, images, creations, changes and
faults (`BackupAssumption`, `NoneAssumption`):

| Theorem | Statement |
|---|---|
| `BackupTypeCorrect` | `Spec => []TypeOK` |
| `DeploymentNeverOrphaned` | `Spec => []DeploymentHasBackup`: unless an object is deleted before it has its finalizer, the deployment exists only while a backup does |
| `ImplementsLifecycle` | `Spec => LifecycleSpec`: the refinement |

`DeploymentHasBackup` is not inductive: a reconcile may create the deployment for an
object that is gone, or remove the finalizer of the last object while another
reconcile has created the deployment again. `IInv` adds `WorkIsOlder` (the copy a
reconcile works on is of an earlier or the same version, and equal if the same: this
makes the refusal of stale updates count), `FinalizerHolds` (an object being deleted
is there and has the finalizer, and only such objects are finalized) and `Vouched`
(the object of a running reconcile is there, and a deployment is vouched for by an
object that is not about to lose its finalizer). The last is what the interleaving
of two reconciles needs: who removes the finalizer has just deleted the
deployment, so one that exists then belongs to another backup.

**Objects, passwords and ACLs.** `ProvisionProofs` proves, for any sets of shards, users and
images and any bounds:

| Theorem | Statement |
|---|---|
| `ProvisionTypeCorrect` | `Spec => []TypeOK` |
| `PodsAlwaysStartProtected` | `Spec => []PodsStartProtected`: where a StatefulSet is, the config maps, the admin in the ACL file and the budget are |
| `RecordedIsApplied` | `Spec => []RecordedApplied`: every running pod accepts what the status records |

For the second, `ProtectInv` adds `EnsuredInOrder` (what exists at each point of
`EnsureRedis...`) and `AdminNamed` (the admin never leaves the spec or the reconcile's copy
of it). For the third, `RecordInv` must speak of the memory of the reconcile: `Applied(inst)`
besides `Applied(cr)`, since `compareStatus` may write the copy; `FileApplied` and
`FileRecorded` (before the first record every pod accepts what the ACL file says, and while a
pod is missing nothing else is recorded: what a pod that starts late relies on);
`RecordedOnce`, `MemoryCurrent` (where the copy may differ from the object), and
`SentApplied` (during the sending, what is not in the list of commands any more is in
force). It holds under `Clean`: the four exceptions of the property have not happened.

**Cluster view.** `ClusterViewProofs` proves, for any number of pods, slots and faults:

| Theorem | Statement |
|---|---|
| `ClusterViewTypeCorrect` | `Spec => []TypeOK` |
| `ConsistentInfosAreComplete` | `Spec => []ConsistentIsComplete`: consistent infos are those of all listed pods |
| `JoinedNodesHaveMet` | `Spec => []JoinedMeansMet`: after the join every node knows every master |
| `HealthyInfosCoverSlots` | `Spec => []HealthyCoversSlots`: complete, healthy infos give every slot to a node that answered, unless the slot changed hands twice while they were read |

That node ids stay in their type needs `Incarnations` (a pod starts again only after a fault),
without which the bound on the ids would cut behaviour off. `ReadInv` follows one
`GetClusterInfos`: every connection is to a listed pod and the other way round, and a node that
was asked has answered or is in `errs`, also when `handleError` put it back. `KnownInv` says
that a node which still runs knows what it reported, except nodes in handshake: nobody
forgets a node while the infos are in use.

`HealthyCoversSlots` compares answers of different moments. Consistent infos agree on the
masters and their slots, so it is enough that one view gives the slot to somebody. Two
invariants show that one does:

* `ClaimInv`, about the nodes alone: a table knows the owners of slots, and as masters
  (`TablesSound`); the node with the winning claim, if it runs, claims the slot itself
  (`Claimants`); a node that started after the pods were listed has no slot
  (`NewNodes`), so that whoever claims a slot is among the nodes to be asked.
* `CoverInv`, about the reads: `Covered(s)` says that a slot no view has shown yet is still to
  come. While it has not been taken over, no node that has answered claims it, and as soon
  as one of them knows an owner, a node still to be asked claims it or does not run any more
  (`Ahead`). After one takeover a node still to be asked knows the old or the
  new owner (`Ahead1`). At the end nobody is left to ask, so the slot was seen.

After a second takeover the owner a node has in its table can be neither; the variant in
section 3 shows that the property then fails.

**Zones.** `ZonesProofs` proves, for any number of shards, any number of zones with one pod of
a shard for each, and any number of faults of all kinds:

| Theorem | Statement |
|---|---|
| `ZonesTypeCorrect` | `Spec => []TypeOK`, in particular no shard has two masters |
| `NoLastCopyTaken` | `Spec => CopiesKept`: outside the windows `"early"` and `"stale"` no step takes a shard's last copy |
| `DeletionKeepsCopies` | `Spec => DeletionIsSafe`: the redistribution deletes replicas of complete shards |
| `RedistributionAsksHome` | `Spec => DoneMeansScheduled`: when the annotation is cleared, every master is at home or a failover to a replica at home is under way |

* `TypeInv` includes `OneMaster`, which no reconcile can see: `syncCluster` places masters by infos
  read before the join. It needs `UnlistedIsNew` (a pod the reconcile has not listed has not met
  the others) and `ListIsSeen`.
* `CopyInv`: a shard whose master has not been replaced yet lacks a pod (`DeadMasterIsDown`), hence
  as long as FORGETs are possible every shard with data has its master (`HealSeesMasters`), and what
  `syncCluster` takes for a shard without a master has no data (`ViewSeesMasters`, `NewStaysNew`).
* `DeleteInv`: of each shard one pod is to be deleted, and as long as the pods are the ones
  that were read, it is a replica of a shard all of whose pods have the data (`Complete`).
* `HomeInv`: a replica that is to be promoted, or whose failover is under way from this or an
  earlier reconcile, is in the home zone of its shard.
* `PlaceInv`: of each shard one replica at most is to be promoted, it is in sync, and every shard
  is at home, or has such a replica or a failover under way.

The proof of `CopiesKept` found a case that the run does not reach: with more faults than
`MaxFaults` (three with three zones, two with two zones) the master of a crowded shard may go
down between the second cluster infos and `DeletePodByName`, which then deletes the last copy.
It is now part of the window `"stale"`.

**Only model-checked:**

* the liveness properties (`...Completes`, `ClusterFormed`, `LabelsFollowRoles`,
  `DeploymentFollows`, ...), because the prover does not reason about fairness;
* the planners (`PlanPartitionsSlots`, `PlanBalanced`), which are recursive: what they compute
  can only be checked on bounded inputs.

## 5. Disagreements found

1. `ScaleDownMigrateFails`: `MigrateKeys` passes the arguments of MIGRATE as one `[]string`
   (`admin.go:603`), which go-redis refuses to encode; the error is not returned
   (`admin.go:604-606` returns an outer, nil `err`), and the caller would only log it
   (`migration.go:86-88`). So a scale down that meets no fault hands a slot over without its
   keys, which the source deletes when it learns of the new owner, or which go with its
   StatefulSet. `src/README.md:55` says "Safely Scaling the Redis Cluster". The models
   depend on this reading: no MIGRATE of theirs succeeds.
2. `ScaleDownOrphan`: after a crash between moving the slots and deleting the StatefulSets, the
   StatefulSets stay: `scalingDown` walks down from the number of masters that have
   slots. `src/doc/design/zh/cluster_scaling.md:43` lists their deletion as
   the last step of scaling down.
3. `ScaleUpAskLoop`: `moveSlot` passes each node its own id in SETSLOT IMPORTING and
   MIGRATING (`rebalance.go:128,131`), where `migration.go:73,79` passes the
   other node's. At a slot with keys MIGRATE fails (`admin.go:662`, as above) and ends the
   reconcile; the next ones come upon the same slot, so the marks stay. From then
   on the source answers a client that stores a new key of the slot with an ASK to its
   own address, for ever (`KeysWritable`).
4. `RollingUpdateSlow`: the loop over the replicas overwrites `updated`
   (`sync_handler.go:411`). When the last replica visited was new already, the masters
   follow although another replica was just deleted; that happens when one replica was
   slow to terminate in an earlier reconcile, since terminating pods count as ready. A
   shard then loses its master and its only replica at once. `checker.go:93` leaves
   out a check of the pods' revisions "since we are doing controlled failover".

Windows that properties of passing runs name, because TLC finds the property violated
there (drop the named kind from the property to see the trace):

* Zones, `"early"`: a pod is back before a replica has taken over from its old node. The
  pods are ready, so `FixFailedNodes` forgets the old master, and `DetachSlave` resets its
  replicas: the data of the shard is lost. `"stale"`: a replica that has been promoted,
  or whose master went down, since the infos were read is deleted as a replica.
* Zones and ClusterView, `Haunted`: CLUSTER FORGET ends at the first error; a ghost that fewer than half of
  the nodes still list is below the threshold of `listGhostNodes` for ever. It
  keeps the health NOK, and one of a master keeps the views inconsistent, so that
  `waitForClusterJoin` never succeeds. `"homeless"`: a creation places a master only in
  its own zone and no later operation makes up for it. The annotation becomes `"false"`
  as soon as the failovers have begun, and also when one failed; when one is dropped later
  (`"expired"`), the master stays where it is and nobody is told.
  With fewer copies than zones the least number per zone
  is 0, and nothing is moved.
* Provision, `"burst"`: `compareStatus` does not compare `SecretsVer`, so a second success in
  a row is not written, and the same ACL commands are sent in every reconcile.
  `"skip"`: `checkandUpdatePassword` returns the new versions with the error of
  `CheckRedisNodeNum`, and they are recorded although nothing was sent. `"unrecorded"`: a
  failing `Getsecretversions` is recorded as the final state. `"restart"`: the ACL config map
  is never updated, a pod that restarts loads the first users. `"admin"`: the admin's new
  password is used by the operator before any node knows it. `"metadata"`, `"refused"`: a
  conflict in the write of the defaults ends the reconcile without a requeue. A
  failing service request returns a wrapped nil error, which panics; the model
  treats that as a crash.
* BackupController: two backups of a cluster share a deployment, and the first one
  that is deleted takes it away; when the deployment is missing, `finalizeBackup`
  fails for ever and the object stays; an object deleted before it has its
  finalizer leaves the deployment behind.

## 6. What is not modelled

* During a migration of slots: replicas and failover; TTLs, expiry and key contents;
  the wait for terminating pods, which only delays; the services, budgets and
  volumes deleted with a StatefulSet.
* Several reconciles of one cluster at once (the work queue excludes them), and two
  operators without leader election.
* `FixTerminatingPods` (pods in the models are gone at once, or slow); `SetConfigIfNeed`;
  the restore (unreachable:
  `NewStatefulSetForCR` fails with "Restore Not supported yet").
* The values of defaults and the checks of single fields, which have no state; templates
  of Kubernetes objects beyond the image, the users, the volumes a pod waits for and
  the topology spread; the node lists of the status.
* A failing `GetNode`, which gives a pod the zone "unknown" (`status.go:231-234`): in
  `syncCluster` it ends the reconcile with an error (`helper.go:73`), as `Crash` does there;
  in the HA status `getListofNodestoDelete` then misses the pod.
* In ClusterView the connections that `scalingDown` removes before `syncCluster` ends
  (`sync_handler.go:289-294`): the pool is kept; ScaleDown has them (`Connected`).
* The splitting of CLUSTER NODES into fields, regular expressions, logging.
* Object storage, metrics (I/O), `main.go`, and unused code (`placement.go`,
  `clustersplit.go`, `helper.go` of the backups).

Assumptions of the models: `PdbEnabled` is true; every field that makes
`ensureRedisStatefulset` update behaves like the image; the admin's secret is in the
spec; a pod's storage is an emptyDir in ClusterView and Zones and a PersistentClaim in
RollingUpdate; in Zones the other shards' masters are there to
vote for a failover; addresses of pods are not reused within a reconcile.

## 7. Plan

Done: all modules of section 2, the type correctness of every state machine, and the
theorems of section 4.

Next: an abstract specification of a slot move (a slot passes from one owner to another, no
key lost) that ScaleDown and ScaleUp implement, as a theorem.
