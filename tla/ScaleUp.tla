------------------------------- MODULE ScaleUp -------------------------------
(***************************************************************************)
(* Creating a cluster and scaling it up: the first two branches of         *)
(* syncCluster, that is AllocSlots and RebalancedCluster                   *)
(* (controllers/clustering/rebalance.go), reached from Reconcile, one      *)
(* Redis request per action.  MasterSize = NumSts: the StatefulSets of all *)
(* masters exist, the new ones have no slots yet.                          *)
(*                                                                         *)
(* Unlike DispatchSlotToNewMasters, moveSlot handles one slot at a time,   *)
(* names the wrong node in its IMPORTING and MIGRATING marks, tells no     *)
(* other master, and does not notice a command that Redis refuses          *)
(* (ValidatePipeResp reports network errors only).  A slot with keys ends  *)
(* it, and the reconcile: its MIGRATE never reaches the node.              *)
(***************************************************************************)
EXTENDS RedisCluster, Sequences

CONSTANTS
  Allocs,       \* the plans of AllocSlots (module Rebalance)
  Reshards(_),  \* the plans of RebalancedCluster from bom (module Rebalance)
  Faults,       \* the kinds of fault that happen: a subset of FaultKind
  MaxFaults     \* bound on the number of faults in a behaviour

FaultKind == {"crash", "redis", "migrate"}

\* One entry of a plan: ADDSLOTS when from is None, else one slot to move.
Job == [from : Master \cup {None}, to : Master, slots : SUBSET Slot]

ASSUME ScaleUpAssumption ==
  /\ MasterSize = NumSts
  /\ Faults \subseteq FaultKind
  /\ MaxFaults \in Nat

\* No slot is in two jobs of a plan.
MovedOnce(p) ==
  \A i, j \in 1 .. Len(p) : i # j => p[i].slots \cap p[j].slots = {}

MovedSlots(p) == UNION {p[i].slots : i \in 1 .. Len(p)}

\* Some masters have slots and some have none; no slot is reported twice; no
\* slot is missing.
ScalesUp(b) == (\E n \in Master : b[n] # {}) /\ (\E n \in Master : b[n] = {})
Disjoint(b) == \A n, m \in Master : n # m => b[n] \cap b[m] = {}
Covers(b) == \A s \in Slot : \E n \in Master : s \in b[n]

\* What is assumed of the planners.  AllocSlots gives every slot to one master.
\* RebalancedCluster moves slots a master reported to another master, each of
\* them once if no slot is reported twice, and takes from no master all it has
\* if no slot is missing either.
ASSUME PlannerAssumption ==
  /\ \A p \in Allocs :
       /\ p \in Seq(Job) /\ MovedOnce(p) /\ MovedSlots(p) = Slot
       /\ \A i \in 1 .. Len(p) : p[i].from = None
  /\ \A b \in [Master -> SUBSET Slot] : ScalesUp(b) =>
       \A p \in Reshards(b) :
         /\ p \in Seq(Job)
         /\ \A i \in 1 .. Len(p) : /\ p[i].from \in Master \ {p[i].to}
                                   /\ p[i].slots \subseteq b[p[i].from]
         /\ Disjoint(b) => MovedOnce(p)
         /\ Disjoint(b) /\ Covers(b) =>
              \A n \in Master : b[n] # {} => ~(b[n] \subseteq MovedSlots(p))

VARIABLES
  pc,      \* the request the reconcile sends next
  bom,     \* bom[n]: the slots of n the operator has in memory
  plan,    \* the jobs not started yet, in order
  job,     \* the job being executed
  faults,  \* number of faults so far
  hit      \* the kinds of fault so far

opVars == << pc, bom, plan, job >>
faultVars == << faults, hit >>
vars == << redisVars, opVars, faultVars >>

NoJob == [from |-> None, to |-> 0, slots |-> {}]

PC == {"idle", "join", "dispatch", "addslots", "importing", "migrating",
       "migrate", "nodeTo", "nodeFrom"}

TypeOK ==
  /\ RedisTypeOK
  /\ pc \in PC
  /\ bom \in [Master -> SUBSET Slot]
  /\ plan \in Seq(Job)
  /\ job \in Job
  /\ faults \in 0 .. MaxFaults
  /\ hit \subseteq Faults

Init ==
  /\ RedisInit
  /\ pc = "idle"
  /\ bom = [n \in Master |-> {}]
  /\ plan = << >>
  /\ job = NoJob
  /\ faults = 0
  /\ hit = {}

Fault(kind) ==
  /\ kind \in Faults
  /\ faults < MaxFaults
  /\ faults' = faults + 1
  /\ hit' = hit \cup {kind}

\* Reconcile returns; everything it had in memory is dropped.
Return ==
  /\ pc' = "idle"
  /\ bom' = [n \in Master |-> {}]
  /\ plan' = << >>
  /\ job' = NoJob

-----------------------------------------------------------------------------
(* Reconcile up to the choice of the branch.                               *)

CurMasters == {n \in Master : bom[n] # {}}

\* Mutant: masters without slots are left out.
GetClusterInfosOfOwners ==
  /\ pc = "idle"
  /\ bom' = [n \in {m \in Master : Claimed(m) # {}} |-> Claimed(n)]
  /\ pc' = "join"
  /\ UNCHANGED << redisVars, plan, job, faultVars >>

GetClusterInfos ==
  /\ pc = "idle"
  /\ bom' = [n \in Master |-> Claimed(n)]
  /\ pc' = "join"
  /\ UNCHANGED << redisVars, plan, job, faultVars >>

waitForClusterJoin ==
  /\ pc = "join"
  /\ ~ComputeStatus
  /\ Return
  /\ UNCHANGED << redisVars, faultVars >>

\* syncCluster with the slots read before the join.  A cluster no master of
\* which has slots is created; one with fewer masters than wanted is scaled up.
syncCluster ==
  /\ pc = "join"
  /\ ComputeStatus
  /\ \/ CurMasters = {} /\ plan' \in Allocs
     \/ CurMasters # {} /\ CurMasters # Master /\ plan' \in Reshards(bom)
  /\ pc' = "dispatch"
  /\ UNCHANGED << redisVars, bom, job, faultVars >>

\* Every master has slots: NumberOfMaster is as wanted.
noClusterOperation ==
  /\ pc = "join"
  /\ ComputeStatus
  /\ CurMasters = Master
  /\ Return
  /\ UNCHANGED << redisVars, faultVars >>

-----------------------------------------------------------------------------
(* The jobs in order.                                                      *)

nextJob ==
  /\ pc = "dispatch"
  /\ plan # << >>
  /\ job' = Head(plan)
  /\ plan' = Tail(plan)
  /\ pc' = IF Head(plan).from = None THEN "addslots" ELSE "importing"
  /\ UNCHANGED << redisVars, bom, faultVars >>

allJobsDone ==
  /\ pc = "dispatch"
  /\ plan = << >>
  /\ Return
  /\ UNCHANGED << redisVars, faultVars >>

\* AllocSlots: ADDSLOTSRANGE for one master.  It is executed, or the connection
\* fails before or after the node has executed it; an error ends the reconcile.
AddSlots ==
  /\ pc = "addslots"
  /\ \E executed, lost \in BOOLEAN :
       /\ executed => AcceptAddSlots(job.to, job.slots)
       /\ IF lost THEN Fault("redis")
          ELSE UNCHANGED faultVars /\ executed = AcceptAddSlots(job.to, job.slots)
       /\ IF executed THEN ClusterAddSlotsRange(job.to, job.slots)
          ELSE UNCHANGED redisVars
       /\ IF executed /\ ~lost THEN pc' = "dispatch" /\ UNCHANGED << bom, plan, job >>
          ELSE Return

\* moveSlot.  A command is executed, or the connection fails before or after
\* the node executed it.
Sent(D, lost) ==
  /\ D \in {{}, job.slots}
  /\ \/ ~lost /\ D = job.slots /\ UNCHANGED faultVars
     \/ lost /\ Fault("redis")

\* A lost command ends the reconcile if ValidatePipeResp takes the error for a
\* network error; any other one, such as io.EOF, counts as success.
Goto(next, lost) ==
  \/ lost /\ Return
  \/ pc' = next /\ UNCHANGED << bom, plan, job >>

\* SETSLOT IMPORTING at the target, naming the target.
SetSlotImportingTarget ==
  /\ pc = "importing"
  /\ \E D \in SUBSET job.slots, lost \in BOOLEAN :
       /\ Sent(D, lost)
       /\ SetSlotImporting(job.to, D, job.to)
       /\ Goto("migrating", lost)

\* SETSLOT MIGRATING at the source, naming the source.
SetSlotMigratingSource ==
  /\ pc = "migrating"
  /\ \E D \in SUBSET job.slots, lost \in BOOLEAN :
       /\ Sent(D, lost)
       /\ SetSlotMigrating(job.from, D, job.from)
       /\ Goto("migrate", lost)

\* MigrateKeysInSlot: GETKEYSINSLOT, and MIGRATE of what it returned.  The MIGRATE
\* is passed its arguments as one []string, which go-redis refuses to encode, so
\* a slot with keys ends the reconcile with an error.
MigrateKeysInSlot ==
  /\ pc = "migrate"
  /\ KeysIn(job.from, job.slots) # {}
  /\ Return
  /\ UNCHANGED << redisVars, faultVars >>

\* Mutant: the error of MIGRATE is dropped, as DispatchSlotToNewMasters does.
MigrateKeysInSlotDoneEarly ==
  /\ pc = "migrate"
  /\ pc' = "nodeTo"
  /\ UNCHANGED << redisVars, bom, plan, job, faultVars >>

MigrateKeysInSlotDone ==
  /\ pc = "migrate"
  /\ KeysIn(job.from, job.slots) = {}
  /\ pc' = "nodeTo"
  /\ UNCHANGED << redisVars, bom, plan, job, faultVars >>

\* An error of GETKEYSINSLOT ends the reconcile.
MigrateKeysInSlotError ==
  /\ pc = "migrate"
  /\ Fault("migrate")
  /\ Return
  /\ UNCHANGED redisVars

\* Mutant: the target is told that the source owns the slot.
SetSlotNodeTargetSource ==
  /\ pc = "nodeTo"
  /\ \E D \in SUBSET job.slots, lost \in BOOLEAN :
       Sent(D, lost) /\ SetSlotNode(job.to, D, job.from)
  /\ pc' = "nodeFrom"
  /\ UNCHANGED << bom, plan, job >>

\* Mutant: the target is given all slots of the source.
SetSlotNodeTargetAll ==
  /\ pc = "nodeTo"
  /\ \E lost \in BOOLEAN :
       Sent(job.slots, lost) /\ SetSlotNode(job.to, bom[job.from], job.to)
  /\ pc' = "nodeFrom"
  /\ UNCHANGED << bom, plan, job >>

\* SETSLOT NODE at the target; an error is logged.
SetSlotNodeTarget ==
  /\ pc = "nodeTo"
  /\ \E D \in SUBSET job.slots, lost \in BOOLEAN :
       Sent(D, lost) /\ SetSlotNode(job.to, D, job.to)
  /\ pc' = "nodeFrom"
  /\ UNCHANGED << bom, plan, job >>

\* SETSLOT NODE at the source; an error is logged.  Then RemoveSlot.
SetSlotNodeSource ==
  /\ pc = "nodeFrom"
  /\ \E D \in SUBSET job.slots, lost \in BOOLEAN :
       Sent(D, lost) /\ SetSlotNode(job.from, D, job.to)
  /\ bom' = [bom EXCEPT ![job.from] = @ \ job.slots]
  /\ pc' = "dispatch"
  /\ UNCHANGED << plan, job >>

-----------------------------------------------------------------------------
\* The operator process dies and its successor starts over.
Crash ==
  /\ pc # "idle"
  /\ Fault("crash")
  /\ Return
  /\ UNCHANGED redisVars

Operator ==
  \/ GetClusterInfos \/ waitForClusterJoin \/ syncCluster \/ noClusterOperation
  \/ nextJob \/ allJobsDone \/ AddSlots
  \/ SetSlotImportingTarget \/ SetSlotMigratingSource
  \/ MigrateKeysInSlot \/ MigrateKeysInSlotDone \/ MigrateKeysInSlotError
  \/ SetSlotNodeTarget \/ SetSlotNodeSource

GossipStep ==
  /\ \E n \in Master, s \in Slot : Gossip(n, s)
  /\ UNCHANGED << opVars, faultVars >>

ClientStep ==
  /\ \E k \in Key : ClientSet(k)
  /\ UNCHANGED << opVars, faultVars >>

Next == Operator \/ Crash \/ GossipStep \/ ClientStep

\* Fairness as in ScaleDown, but assumed only as long as no fault has happened:
\* the one property that rests on it speaks of these behaviours alone.
Spec ==
  /\ Init /\ [][Next]_vars
  /\ WF_vars(hit = {} /\ Operator) /\ WF_vars(hit = {} /\ GossipStep)

-----------------------------------------------------------------------------
(* Properties.                                                             *)

\* A slot that has been claimed is claimed by some master at every moment, as
\* long as no SETSLOT is lost: the target takes it before the source gives it up,
\* also when a restarted reconcile works on slots that have moved meanwhile.
SlotStaysOwned ==
  "redis" \notin hit =>
    \A s \in Slot : claim[s] # None => \E n \in Master : owner[n][s] = n

\* As long as only GETKEYSINSLOT and MIGRATE fail, an acknowledged key is held by
\* the master the nodes agree on as the owner of its slot: a reconcile that gives
\* up in the middle of a slot leaves slot and keys at the source, and the next one,
\* which works on slots read before it waited for the join, gives no slot away
\* from under its keys.
KeysKept ==
  hit \subseteq {"migrate"} =>
    \A k \in stored : claim[SlotOf[k]] # None /\ k \in keys[claim[SlotOf[k]]]

\* As long as only GETKEYSINSLOT and MIGRATE fail, a master that has slots is never
\* left without any: slots go to the new masters, and repeating RebalancedCluster
\* after a failure empties no master.
NoMasterEmptied ==
  [][hit' \subseteq {"migrate"} =>
       \A n \in Master : (\E s \in Slot : claim[s] = n) => (\E s \in Slot : claim'[s] = n)]_vars

\* A slot whose move has begun still holds keys at its source.
MoveBlocked ==
  \E n \in Master, s \in Slot : migrating[n][s] # None /\ KeysIn(n, {s}) # {}

\* Without faults, in the end every slot is claimed and every master has its
\* share of the slots: no less than the quotient, no more than the remainder
\* above it; unless RebalancedCluster has come upon a slot with keys.
ClusterFormed ==
  <>[](\/ hit # {}
       \/ MoveBlocked
       \/ /\ \A s \in Slot : \E n \in Master : owner[n][s] = n
          /\ \A n \in Master :
               Cardinality(Claimed(n))
                 \in NumSlots \div NumSts .. NumSlots \div NumSts + (NumSlots % NumSts))

\* A client can store any key again and again, whatever slots are moving: the
\* claimant of its slot takes it, or redirects the client to a node that does.
KeysWritable ==
  []<>(\A k \in Key : \E c \in Master :
         owner[c][SlotOf[k]] = c /\ Serves(Target(c, k), k))
=============================================================================
