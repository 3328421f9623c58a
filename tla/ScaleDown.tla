------------------------------ MODULE ScaleDown ------------------------------
(***************************************************************************)
(* Scaling a cluster down: the "Scaling down" branch of syncCluster, that  *)
(* is DispatchSlotToNewMasters (controllers/clustering/migration.go)       *)
(* followed by scalingDown (sync_handler.go), reached from Reconcile, one  *)
(* Redis or Kubernetes request per action.  Between two requests the nodes *)
(* gossip, clients write, and the operator may crash and start over from   *)
(* what the nodes then report.                                             *)
(*                                                                         *)
(* bom is the operator's in-memory copy of every node's slots              *)
(* (redisutil.Node.Slots), read once at the start of a reconcile.          *)
(***************************************************************************)
EXTENDS RedisCluster

CONSTANTS
  Plans(_),    \* the plans feedMigInfo may compute from bom (module SlotPlan)
  Faults,      \* the kinds of fault that happen: a subset of FaultKind
  MaxFaults    \* bound on the number of faults in a behaviour

FaultKind == {"crash", "redis", "migrate", "k8s"}

\* An entry of migrationSlotInfo: slots to move, from one master to another.
Job == [from : Master \cup {None}, to : New, slots : SUBSET Slot]

\* The slots from the first to the last slot of S.
SlotRange(S) == {s \in Slot : \E a, b \in S : a <= s /\ s <= b}

\* A job moves slots the source reports, to another master that is kept; the
\* slots of a job without a source are reported by nobody, and cut into ranges.
\* A slot is moved by two jobs only if two masters report it, and then both take
\* it from the same one.
PlanOK(plan, slots) ==
  /\ \A j \in plan :
       /\ j \in Job
       /\ j.slots # {}
       /\ j.from # j.to
       /\ j.from # None => j.slots \subseteq slots[j.from]
       /\ j.from = None => \A n \in Master : j.slots \cap slots[n] = {}
  /\ \A i, j \in plan : i # j =>
       /\ i.from = None /\ j.from = None => SlotRange(i.slots) \cap SlotRange(j.slots) = {}
       /\ i.slots \cap j.slots # {} => i.from = j.from
       /\ \A s \in i.slots \cap j.slots : \E m \in Master \ {i.from} : s \in slots[m]

\* A slot that two masters report may be given out for both of them; both moves
\* then start at the same master.
MovedTwice(plan) ==
  \E i, j \in plan : i # j /\ i.from = j.from /\ i.from \in New /\ i.slots \cap j.slots # {}

ASSUME ScaleDownAssumption ==
  /\ Faults \subseteq FaultKind
  /\ MaxFaults \in Nat
  /\ \A slots \in [Master -> SUBSET Slot] : \A plan \in Plans(slots) :
       PlanOK(plan, slots)

VARIABLES
  pc,      \* the request the reconcile sends next
  bom,     \* bom[n]: the slots of n the operator has in memory
  plan,    \* jobs of migrationSlotInfo not started yet
  job,     \* the job being executed
  scan,    \* slots of the job MigrateKeys has not yet seen empty
  rest,    \* masters that have not yet been told the new owner
  cnt,     \* number of current masters when the branch was chosen
  idx,     \* index of the StatefulSet scalingDown looks at
  faults,  \* number of faults so far
  hit,     \* the kinds of fault so far
  twice,   \* whether a plan so far was to move a slot twice from a master it keeps
  left     \* the keys MigrateKeys has left at the source of a job, so far

opVars == << pc, bom, plan, job, scan, rest, cnt, idx >>
faultVars == << faults, hit, twice, left >>
vars == << redisVars, opVars, faultVars >>

NoJob == [from |-> None, to |-> 0, slots |-> {}]

PC == {"idle", "join", "dispatch", "addslots", "importing", "migrating",
       "migrate", "nodeTo", "nodeFrom", "nodeOthers", "scalingDown",
       "forget", "delete"}

TypeOK ==
  /\ RedisTypeOK
  /\ pc \in PC
  /\ bom \in [Master -> SUBSET Slot]
  /\ plan \subseteq Job
  /\ job \in Job
  /\ scan \subseteq Slot
  /\ rest \subseteq Master
  /\ cnt \in 0 .. NumSts
  /\ idx \in -1 .. NumSts - 1
  /\ faults \in 0 .. MaxFaults
  /\ hit \subseteq Faults
  /\ twice \in BOOLEAN
  /\ left \subseteq Key

Forgotten ==
  /\ bom' = [n \in Master |-> {}]
  /\ plan' = {}
  /\ job' = NoJob
  /\ scan' = {}
  /\ rest' = {}
  /\ cnt' = 0
  /\ idx' = -1

Init ==
  /\ RedisInit
  /\ pc = "idle"
  /\ bom = [n \in Master |-> {}]
  /\ plan = {}
  /\ job = NoJob
  /\ scan = {}
  /\ rest = {}
  /\ cnt = 0
  /\ idx = -1
  /\ faults = 0
  /\ hit = {}
  /\ twice = FALSE
  /\ left = {}

CountFault(kind) ==
  /\ kind \in Faults
  /\ faults < MaxFaults
  /\ faults' = faults + 1
  /\ hit' = hit \cup {kind}

Fault(kind) == CountFault(kind) /\ UNCHANGED << twice, left >>

\* Reconcile returns, with or without an error; the request is queued again
\* and everything it had in memory is dropped.
Return ==
  /\ pc' = "idle"
  /\ Forgotten

-----------------------------------------------------------------------------
(* Reconcile up to the choice of the branch.                               *)

CurMasters == {n \in Master : bom[n] # {}}

\* GetClusterInfos at the start of the reconcile.  A view that is only
\* inconsistent is kept and used.
GetClusterInfos ==
  /\ pc = "idle"
  /\ bom' = [n \in Master |-> IF n \in alive THEN Claimed(n) ELSE {}]
  /\ pc' = "join"
  /\ UNCHANGED << redisVars, plan, job, scan, rest, cnt, idx, faultVars >>

\* waitForClusterJoin: requeue unless the views are consistent by now.
waitForClusterJoin ==
  /\ pc = "join"
  /\ ~ComputeStatus
  /\ Return
  /\ UNCHANGED << redisVars, faultVars >>

\* Mutant: the walk over the StatefulSets starts one past the last index.
syncClusterIdxPastEnd ==
  /\ pc = "join"
  /\ ComputeStatus
  /\ Cardinality(CurMasters) > MasterSize
  /\ \E p \in Plans(bom) : plan' = p /\ twice' = (twice \/ MovedTwice(p))
  /\ cnt' = Cardinality(CurMasters)
  /\ idx' = Cardinality(CurMasters)
  /\ pc' = "dispatch"
  /\ UNCHANGED << redisVars, bom, job, scan, rest, faults, hit, left >>

\* syncCluster, scaling down branch, with the slots read before the join.
\* migrationSlotInfo is computed from them, and scalingDown will walk down from
\* the number of masters they show.
syncCluster ==
  /\ pc = "join"
  /\ ComputeStatus
  /\ Cardinality(CurMasters) > MasterSize
  /\ \E p \in Plans(bom) : plan' = p /\ twice' = (twice \/ MovedTwice(p))
  /\ cnt' = Cardinality(CurMasters)
  /\ idx' = Cardinality(CurMasters) - 1
  /\ pc' = "dispatch"
  /\ UNCHANGED << redisVars, bom, job, scan, rest, faults, hit, left >>

\* Otherwise the number of masters is as wanted and there is nothing to do.
noClusterOperation ==
  /\ pc = "join"
  /\ ComputeStatus
  /\ Cardinality(CurMasters) <= MasterSize
  /\ Return
  /\ UNCHANGED << redisVars, faultVars >>

-----------------------------------------------------------------------------
(* DispatchSlotToNewMasters.                                               *)

\* The next entry of migrationSlotInfo, in any order.
nextMigrationInfo ==
  /\ pc = "dispatch"
  /\ \E j \in plan :
       /\ job' = j
       /\ plan' = plan \ {j}
       /\ pc' = IF j.from = None THEN "addslots" ELSE "importing"
  /\ UNCHANGED << redisVars, bom, scan, rest, cnt, idx, faultVars >>

dispatchDone ==
  /\ pc = "dispatch"
  /\ plan = {}
  /\ pc' = "scalingDown"
  /\ UNCHANGED << redisVars, bom, plan, job, scan, rest, cnt, idx, faultVars >>

\* A pipeline of commands for the slots of the job: they all reach the node,
\* or the connection fails after the ones in D.
Sent(D, lost) ==
  \/ ~lost /\ D = job.slots /\ UNCHANGED faultVars
  \/ lost /\ Fault("redis")

\* Mutant: the range excludes its last slot.
AddSlotsRangeHalfOpen == {s \in Slot : \E a, b \in job.slots : a <= s /\ s < b}

\* AddSlots sends one range, from the first to the last slot of the slice.
AddSlotsRange == SlotRange(job.slots)

\* The command is executed, or the connection fails before or after the node
\* has executed it; an error, or a refusal, ends the reconcile.
AddSlots ==
  /\ pc = "addslots"
  /\ \E executed, lost \in BOOLEAN :
       /\ executed => AcceptAddSlots(job.to, AddSlotsRange)
       /\ IF lost THEN Fault("redis")
          ELSE UNCHANGED faultVars /\ executed = AcceptAddSlots(job.to, AddSlotsRange)
       /\ IF executed THEN ClusterAddSlotsRange(job.to, AddSlotsRange)
          ELSE UNCHANGED redisVars
       /\ IF executed /\ ~lost
            THEN /\ bom' = [bom EXCEPT ![job.to] = @ \cup job.slots]
                 /\ pc' = "dispatch"
                 /\ UNCHANGED << plan, job, scan, rest, cnt, idx >>
            ELSE Return

\* 1) SETSLOT IMPORTING at the destination.  An error ends the reconcile.
SetSlotsImporting ==
  /\ pc = "importing"
  /\ \E D \in SUBSET job.slots, lost \in BOOLEAN :
       /\ Sent(D, lost)
       /\ SetSlotImporting(job.to, D, job.from)
       /\ IF lost \/ AcceptImporting(job.to, D) # D
            THEN Return
            ELSE pc' = "migrating" /\ UNCHANGED << bom, plan, job, scan, rest, cnt, idx >>

\* Mutant: the source is marked with its own id, as moveSlot does.
SetSlotsMigratingSelf ==
  /\ pc = "migrating"
  /\ \E D \in SUBSET job.slots, lost \in BOOLEAN :
       /\ Sent(D, lost)
       /\ SetSlotMigrating(job.from, D, job.from)
       /\ IF lost \/ AcceptMigrating(job.from, D) # D
            THEN Return
            ELSE /\ pc' = "migrate"
                 /\ scan' = job.slots
                 /\ UNCHANGED << bom, plan, job, rest, cnt, idx >>

\* 2) SETSLOT MIGRATING at the source.  An error ends the reconcile.
SetSlotsMigrating ==
  /\ pc = "migrating"
  /\ \E D \in SUBSET job.slots, lost \in BOOLEAN :
       /\ Sent(D, lost)
       /\ SetSlotMigrating(job.from, D, job.to)
       /\ IF lost \/ AcceptMigrating(job.from, D) # D
            THEN Return
            ELSE /\ pc' = "migrate"
                 /\ scan' = job.slots
                 /\ UNCHANGED << bom, plan, job, rest, cnt, idx >>

\* MigrateKeys gives up; the keys of the slots it has not finished stay at the
\* source.
GiveUp ==
  /\ left' = left \cup KeysIn(job.from, scan)
  /\ scan' = {}
  /\ pc' = "nodeTo"
  /\ UNCHANGED << redisVars, bom, plan, job, rest, cnt, idx, twice >>

\* 3) MigrateKeys: GETKEYSINSLOT, slot by slot, and MIGRATE of what it returned.
\* The MIGRATE never reaches the node: its arguments are passed as one []string,
\* which go-redis refuses to encode.  So the first slot that has keys ends
\* MigrateKeys, with a nil error; the caller goes on.
MigrateKeys ==
  /\ pc = "migrate"
  /\ \E s \in scan :
       \/ /\ KeysIn(job.from, {s}) = {}
          /\ scan' = scan \ {s}
          /\ UNCHANGED << redisVars, pc, bom, plan, job, rest, cnt, idx, twice, left >>
       \/ KeysIn(job.from, {s}) # {} /\ GiveUp
  /\ UNCHANGED << faults, hit >>

\* Mutant: the slots that were not looked at are taken for empty.
MigrateKeysDoneEarly ==
  /\ pc = "migrate"
  /\ pc' = "nodeTo"
  /\ scan' = {}
  /\ UNCHANGED << redisVars, bom, plan, job, rest, cnt, idx, faultVars >>

\* Mutant: SETSLOT NODE is not sent to the destination.
MigrateKeysDoneSkipTo ==
  /\ pc = "migrate"
  /\ scan = {}
  /\ pc' = "nodeFrom"
  /\ UNCHANGED << redisVars, bom, plan, job, scan, rest, cnt, idx, faultVars >>

MigrateKeysDone ==
  /\ pc = "migrate"
  /\ scan = {}
  /\ pc' = "nodeTo"
  /\ UNCHANGED << redisVars, bom, plan, job, scan, rest, cnt, idx, faultVars >>

\* A GETKEYSINSLOT that fails ends MigrateKeys; the caller logs the error and
\* goes on.
MigrateKeysError ==
  /\ pc = "migrate"
  /\ CountFault("migrate")
  /\ GiveUp

\* SETSLOT NODE at the destination first.  An error is logged.
SetSlotsNodeTo ==
  /\ pc = "nodeTo"
  /\ \E D \in SUBSET job.slots, lost \in BOOLEAN :
       Sent(D, lost) /\ SetSlotNode(job.to, D, job.to)
  /\ pc' = "nodeFrom"
  /\ UNCHANGED << bom, plan, job, scan, rest, cnt, idx >>

\* SETSLOT NODE at the source, then From.Slots = RemoveSlots(...), whatever
\* the answer was.  allMasterNodes is newMasters followed by curMasters, and
\* the ones without slots are skipped.
SetSlotsNodeFrom ==
  /\ pc = "nodeFrom"
  /\ \E D \in SUBSET job.slots, lost \in BOOLEAN :
       Sent(D, lost) /\ SetSlotNode(job.from, D, job.to)
  /\ bom' = [bom EXCEPT ![job.from] = @ \ job.slots]
  /\ rest' = {m \in Master : bom[m] # {}} \ {job.from, job.to}
  /\ pc' = "nodeOthers"
  /\ UNCHANGED << plan, job, scan, cnt, idx >>

\* 4) SETSLOT NODE at the other masters, one after the other.
SetSlotsNodeOthers ==
  /\ pc = "nodeOthers"
  /\ \E m \in rest :
       /\ \E D \in SUBSET job.slots, lost \in BOOLEAN :
            Sent(D, lost) /\ SetSlotNode(m, D, job.to)
       /\ rest' = rest \ {m}
  /\ UNCHANGED << pc, bom, plan, job, scan, cnt, idx >>

\* To.Slots = AddSlots(...), and on to the next entry.
nodeOthersDone ==
  /\ pc = "nodeOthers"
  /\ rest = {}
  /\ bom' = [bom EXCEPT ![job.to] = @ \cup job.slots]
  /\ job' = NoJob
  /\ pc' = "dispatch"
  /\ UNCHANGED << redisVars, plan, scan, rest, cnt, idx, faultVars >>

-----------------------------------------------------------------------------
(* scalingDown: the StatefulSets idx, idx - 1, .., MasterSize.             *)

scalingDownDone ==
  /\ pc = "scalingDown"
  /\ idx < MasterSize
  /\ Return
  /\ UNCHANGED << redisVars, faultVars >>

\* GetStatefulSet fails, or the node still has slots: give up.
scalingDownRefused ==
  /\ pc = "scalingDown"
  /\ idx >= MasterSize
  /\ \/ (idx \in alive => bom[idx] # {}) /\ UNCHANGED faultVars
     \/ Fault("k8s")
  /\ Return
  /\ UNCHANGED redisVars

scalingDownNode ==
  /\ pc = "scalingDown"
  /\ idx >= MasterSize
  /\ idx \in alive
  /\ bom[idx] = {}
  /\ pc' = "forget"
  /\ UNCHANGED << redisVars, bom, plan, job, scan, rest, cnt, idx, faultVars >>

\* ForgetNode, sent to the nodes still connected: the connections to all the
\* StatefulSets of the walk were removed before it started.  A node that cannot
\* be reached is skipped; a refused FORGET ends the reconcile.
Connected == alive \ (MasterSize .. cnt - 1)

ForgetNode ==
  /\ pc = "forget"
  /\ \/ /\ ClusterForget(Connected, idx)
        /\ pc' = "delete"
        /\ UNCHANGED << bom, plan, job, scan, rest, cnt, idx, faultVars >>
     \/ /\ Fault("redis")
        /\ \E N \in SUBSET Connected : ClusterForget(N, idx)
        /\ \/ Return
           \/ pc' = "delete" /\ UNCHANGED << bom, plan, job, scan, rest, cnt, idx >>

\* DeleteStatefulSetByName and its resources; an error is logged.
DeleteStatefulSet ==
  /\ pc = "delete"
  /\ \/ alive' = alive \ {idx} /\ UNCHANGED faultVars
     \/ UNCHANGED alive /\ Fault("k8s")
  /\ idx' = idx - 1
  /\ pc' = "scalingDown"
  /\ UNCHANGED << owner, importing, migrating, claim, keys, stored >>
  /\ UNCHANGED << bom, plan, job, scan, rest, cnt >>

-----------------------------------------------------------------------------
\* The operator process dies and its successor starts over.
Crash ==
  /\ pc # "idle"
  /\ Fault("crash")
  /\ Return
  /\ UNCHANGED redisVars

Operator ==
  \/ GetClusterInfos \/ waitForClusterJoin \/ syncCluster \/ noClusterOperation
  \/ nextMigrationInfo \/ dispatchDone \/ AddSlots
  \/ SetSlotsImporting \/ SetSlotsMigrating
  \/ MigrateKeys \/ MigrateKeysDone \/ MigrateKeysError
  \/ SetSlotsNodeTo \/ SetSlotsNodeFrom \/ SetSlotsNodeOthers \/ nodeOthersDone
  \/ scalingDownDone \/ scalingDownRefused \/ scalingDownNode
  \/ ForgetNode \/ DeleteStatefulSet

GossipStep ==
  /\ \E n \in Master, s \in Slot : Gossip(n, s)
  /\ UNCHANGED << opVars, faultVars >>

ClientStep ==
  /\ \E k \in Key : ClientSet(k)
  /\ UNCHANGED << opVars, faultVars >>

Next == Operator \/ Crash \/ GossipStep \/ ClientStep

\* The work queue hands a cluster that was requeued, or whose reconcile
\* returned an error, to a worker again, and a reconcile that is running goes
\* on; the nodes gossip all the time.
Spec == Init /\ [][Next]_vars /\ WF_vars(Operator) /\ WF_vars(GossipStep)

-----------------------------------------------------------------------------
(* Properties.                                                             *)

\* Every slot is claimed by a node that exists.
SlotOwned == \A s \in Slot : \E n \in alive : owner[n][s] = n

\* A slot that has been claimed is claimed by a node that exists at every moment
\* of a scale down, as long as no SETSLOT is lost: SETSLOT NODE reaches the
\* destination before the source gives the slot up, and a StatefulSet is deleted
\* only after it gave up all of its slots.
SlotStaysOwned ==
  "redis" \notin hit =>
    \A s \in Slot : claim[s] # None => \E n \in alive : owner[n][s] = n

\* Of the keys K, the acknowledged ones are held by some node that exists.
Held(K) == \A k \in stored \cap K : \E n \in alive : k \in keys[n]

\* No acknowledged key is lost by a scale down.
NoKeyLost == Held(Key)

\* A plan was to move a slot twice from the same master, and that master may have
\* kept its claim after the first move: SETSLOT NODE was lost, or refused because
\* of the keys left there.
MovedAgain == twice /\ ("redis" \in hit \/ left # {})

\* No acknowledged key is lost but those that MigrateKeys left at the source:
\* neither gossip nor the deletion of a StatefulSet removes the last copy of any
\* other, written before or while its slot moves, wherever the operator crashes
\* and whatever commands are lost, unless a slot is moved again.
KeysKept == ~MovedAgain => Held(Key \ left)

\* A StatefulSet that is deleted held no authoritative slot, and no key but those
\* that MigrateKeys left there, as long as the SETSLOTs arrive and no slot is moved
\* again: scalingDown decides by the slots read at the start of the reconcile and
\* updated in memory.
RemovedNodeIsDrained ==
  []["redis" \notin hit' /\ ~MovedAgain' =>
       \A n \in alive \ alive' :
         keys[n] \subseteq left /\ \A s \in Slot : claim[s] # n]_vars

\* Without faults, a client that reaches any claimant of the slot finds an
\* acknowledged key, there or by following one ASK redirection, unless MigrateKeys
\* left the key at the source: the keys written while their slot moves are found.
KeyReachable ==
  hit = {} =>
    \A k \in stored \ left : \A c \in alive :
      owner[c][SlotOf[k]] = c =>
        k \in keys[Target(c, k)] /\ Serves(Target(c, k), k)

\* Once the user has lowered masterSize, the surplus StatefulSets are
\* eventually deleted, and only these.
ScaleDownCompletes == <>[](alive = New)

\* A scale down that meets no fault gets there, and slots that were lost before it
\* are given to a master that is kept: from then on every slot is claimed.
UndisturbedCompletes == <>[](hit # {} \/ (alive = New /\ SlotOwned))
=============================================================================
