---------------------------- MODULE ScaleUpProofs ----------------------------
(***************************************************************************)
(* Proofs about ScaleUp, for any number of masters, slots and keys, any    *)
(* initial distribution of the slots and any planners that satisfy         *)
(* PlannerAssumption.                                                      *)
(***************************************************************************)
EXTENDS ScaleUp, RedisClusterProofs

\* Where the reconcile has a slot to move in hand.
MovePC == {"importing", "migrating", "migrate", "nodeTo", "nodeFrom"}

TypeInv ==
  /\ TypeOK
  /\ pc \in MovePC => job.from \in Master /\ job.from # job.to
  /\ pc = "addslots" => job.from = None
  /\ \A i \in 1 .. Len(plan) : plan[i].from # plan[i].to

(***************************************************************************)
(* As long as no command is lost, also when the operator dies.             *)
(***************************************************************************)
CommandsArrive == "redis" \notin hit

\* The node with the claim of the highest epoch holds the slot.
ClaimHeld == \A s \in Slot : claim[s] # None => owner[claim[s]][s] = claim[s]

\* When the source is told, the target has taken the slot.
TargetTook == pc = "nodeFrom" => \A s \in job.slots : claim[s] = job.to

OwnInv == CommandsArrive => ClaimHeld /\ TargetTook

(***************************************************************************)
(* As long as only GETKEYSINSLOT and MIGRATE fail.                         *)
(***************************************************************************)
MovesOnly == hit \subseteq {"migrate"}

\* Two nodes claim a slot only between the two SETSLOT NODE, and a slot that
\* nobody claims is unknown to all.
SingleClaimant ==
  \A n \in Master, s \in Slot :
    /\ owner[n][s] = n =>
         \/ claim[s] = n
         \/ pc = "nodeFrom" /\ n = job.from /\ s \in job.slots
    /\ claim[s] = None => owner[n][s] = None /\ importing[n][s] = None

\* The marks name the node itself, and a claimant is not importing.
MarksOfSelf ==
  \A n \in Master, s \in Slot :
    /\ migrating[n][s] \in {None, n}
    /\ owner[n][s] = n => importing[n][s] = None

\* The slots of the job in hand that the target has not taken yet.
Pending == IF pc \in {"addslots", "importing", "migrating", "migrate", "nodeTo"}
           THEN job.slots ELSE {}

\* What the reconcile read is still true of the slots it has to move.
PlanCurrent ==
  /\ pc = "join" => bom = [n \in Master |-> {s \in Slot : claim[s] = n}]
  /\ MovedOnce(plan)
  /\ \A i \in 1 .. Len(plan) : /\ \A s \in plan[i].slots : claim[s] = plan[i].from
                               /\ plan[i].slots \cap Pending = {}
  /\ \A s \in Pending : claim[s] = job.from

\* The source of the job stores no new key of its slots, and once moveSlot goes
\* on it has none.
SourceDrained ==
  /\ pc \in {"migrate", "nodeTo", "nodeFrom"} =>
       \A s \in job.slots : owner[job.from][s] = job.from => migrating[job.from][s] = job.from
  /\ pc \in {"nodeTo", "nodeFrom"} => KeysIn(job.from, job.slots) = {}

\* An acknowledged key is at the node with the claim of the highest epoch.
StoredKept ==
  \A k \in stored : claim[SlotOf[k]] \in Master /\ k \in keys[claim[SlotOf[k]]]

MoveParts ==
  SingleClaimant /\ MarksOfSelf /\ PlanCurrent /\ SourceDrained /\ StoredKept

MoveInv == MovesOnly => MoveParts

(***************************************************************************)
(* The same, in a cluster that starts with all of its slots or with none.  *)
(***************************************************************************)
SlotsWhole ==
  \A o \in InitOwners : (\A s \in Slot : o[s] = None) \/ (\A s \in Slot : o[s] # None)

Remaining == Pending \cup MovedSlots(plan)

\* Every slot has an owner, or none has, or a creation is about to assign those
\* that have none.
Whole ==
  /\ pc \in {"idle", "join"} => plan = << >>
  /\ \/ \A s \in Slot : claim[s] # None
     \/ pc \in {"idle", "join"} /\ \A s \in Slot : claim[s] = None
     \/ /\ pc \in {"dispatch", "addslots"}
        /\ \A i \in 1 .. Len(plan) : plan[i].from = None
        /\ \A s \in Slot : claim[s] = None => s \in Remaining

\* Every master that has slots keeps one that is not to be moved.
KeepsOne ==
  \A n \in Master : (\E s \in Slot : claim[s] = n) =>
    \E s \in Slot \ Remaining : claim[s] = n

WholeInv == MovesOnly => Whole /\ KeepsOne

-----------------------------------------------------------------------------
(* Type correctness.                                                       *)

\* What is left of a plan once its first job is taken.
LEMMA TailFacts ==
  ASSUME NEW p \in Seq(Job), p # << >>
  PROVE  /\ Head(p) \in Job /\ Head(p) = p[1] /\ 1 \in 1 .. Len(p)
         /\ Tail(p) \in Seq(Job)
         /\ \A i \in 1 .. Len(Tail(p)) : i + 1 \in 1 .. Len(p) /\ Tail(p)[i] = p[i + 1]
OBVIOUS

LEMMA ReturnTypes ==
  ASSUME Return
  PROVE  /\ pc' = "idle" /\ plan' = << >> /\ plan' \in Seq(Job) /\ Len(plan') = 0
         /\ bom' \in [Master -> SUBSET Slot] /\ job' \in Job
<1>1. NoJob \in Job
  BY MasterFacts DEF NoJob, Job, New
<1>2. << >> \in Seq(Job) /\ Len(<< >>) = 0
  OBVIOUS
<1> QED BY <1>1, <1>2 DEF Return

FaultsTyped == faults \in 0 .. MaxFaults /\ hit \subseteq Faults

LEMMA FaultTypes == ASSUME FaultsTyped, NEW kind, Fault(kind) PROVE FaultsTyped'
BY ScaleUpAssumption DEF FaultsTyped, Fault

LEMMA SentTypes ==
  ASSUME FaultsTyped, NEW D, NEW lost \in BOOLEAN, Sent(D, lost) PROVE FaultsTyped'
BY FaultTypes DEF FaultsTyped, Sent, faultVars

LEMMA TypeInit == Init => TypeInv
<1> SUFFICES ASSUME Init PROVE TypeInv
  OBVIOUS
<1>1. RedisTypeOK
  BY ConstantsAssumption, MasterFacts DEF Init, RedisInit, RedisTypeOK
<1>2. NoJob \in Job
  BY MasterFacts DEF NoJob, Job, New
<1>3. << >> \in Seq(Job) /\ Len(<< >>) = 0 /\ 0 \in 0 .. MaxFaults
  BY ScaleUpAssumption
<1> QED BY <1>1, <1>2, <1>3 DEF Init, TypeInv, TypeOK, PC, MovePC

\* The plans of both branches.
LEMMA PlanTypes ==
  ASSUME TypeInv, syncCluster
  PROVE  /\ plan' \in Seq(Job)
         /\ \A i \in 1 .. Len(plan') : plan'[i].from # plan'[i].to
<1>1. CASE plan' \in Allocs
  <2>1. plan' \in Seq(Job) /\ \A i \in 1 .. Len(plan') : plan'[i].from = None /\ plan'[i] \in Job
    BY <1>1, PlannerAssumption
  <2> QED BY <2>1, MasterFacts DEF Job
<1>2. CASE CurMasters # {} /\ CurMasters # Master /\ plan' \in Reshards(bom)
  <2>1. bom \in [Master -> SUBSET Slot] /\ ScalesUp(bom)
    BY <1>2 DEF CurMasters, ScalesUp, TypeInv, TypeOK
  <2> QED BY <1>2, <2>1, PlannerAssumption
<1> QED BY <1>1, <1>2 DEF syncCluster

LEMMA TypeNext == TypeInv /\ [Next]_vars => TypeInv'
<1> SUFFICES ASSUME TypeInv, [Next]_vars PROVE TypeInv'
  OBVIOUS
<1>0. /\ RedisTypeOK /\ FaultsTyped /\ pc \in PC /\ plan \in Seq(Job) /\ job \in Job
      /\ bom \in [Master -> SUBSET Slot]
      /\ job.to \in Master /\ job.slots \subseteq Slot
      /\ pc \in MovePC => job.from \in Master
  BY DEF TypeInv, TypeOK, FaultsTyped, Job
<1>r. ASSUME RedisTypeOK', FaultsTyped', Return PROVE TypeInv'
  BY <1>r, ReturnTypes DEF TypeInv, TypeOK, FaultsTyped, PC, MovePC
<1>g. ASSUME RedisTypeOK', FaultsTyped', NEW next \in PC \ {"addslots"}, pc \in MovePC,
             NEW lost \in BOOLEAN, Goto(next, lost)
      PROVE  TypeInv'
  <2>1. CASE Return
    BY <1>g, <1>r, <2>1
  <2>2. CASE pc' = next /\ UNCHANGED << bom, plan, job >>
    BY <1>g, <2>2 DEF TypeInv, TypeOK, FaultsTyped, MovePC
  <2> QED BY <1>g, <2>1, <2>2 DEF Goto
<1>u. UNCHANGED redisVars => RedisTypeOK'
  BY <1>0 DEF redisVars, RedisTypeOK
<1>f. UNCHANGED faultVars => FaultsTyped'
  BY <1>0 DEF faultVars, FaultsTyped
<1>1. CASE GetClusterInfos
  <2>1. bom' \in [Master -> SUBSET Slot]
    BY <1>1 DEF GetClusterInfos, Claimed
  <2> QED BY <1>1, <1>u, <1>f, <2>1
          DEF GetClusterInfos, TypeInv, TypeOK, FaultsTyped, PC, MovePC
<1>2. CASE waitForClusterJoin \/ noClusterOperation \/ allJobsDone \/ MigrateKeysInSlot
  BY <1>2, <1>r, <1>u, <1>f
  DEF waitForClusterJoin, noClusterOperation, allJobsDone, MigrateKeysInSlot
<1>3. CASE syncCluster
  BY <1>3, <1>u, <1>f, PlanTypes DEF syncCluster, TypeInv, TypeOK, FaultsTyped, PC, MovePC
<1>4. CASE nextJob
  <2>1. /\ Head(plan) \in Job /\ Head(plan) = plan[1] /\ 1 \in 1 .. Len(plan)
        /\ Tail(plan) \in Seq(Job)
        /\ \A i \in 1 .. Len(Tail(plan)) : i + 1 \in 1 .. Len(plan) /\ Tail(plan)[i] = plan[i + 1]
    BY <1>0, <1>4, TailFacts DEF nextJob
  <2>2. \A i \in 1 .. Len(plan') : plan'[i].from # plan'[i].to
    BY <1>4, <2>1 DEF nextJob, TypeInv
  <2>3. job' \in Job /\ job'.from # job'.to /\ job'.from \in Master \cup {None}
    BY <1>4, <2>1 DEF nextJob, TypeInv, Job
  <2>4. pc' = IF job'.from = None THEN "addslots" ELSE "importing"
    BY <1>4 DEF nextJob
  <2> QED BY <1>4, <1>0, <1>u, <1>f, <2>1, <2>2, <2>3, <2>4
          DEF nextJob, TypeInv, TypeOK, FaultsTyped, PC, MovePC
<1>5. CASE AddSlots
  <2>1. PICK executed, lost \in BOOLEAN :
         /\ IF lost THEN Fault("redis")
            ELSE UNCHANGED faultVars /\ executed = AcceptAddSlots(job.to, job.slots)
         /\ IF executed THEN ClusterAddSlotsRange(job.to, job.slots) ELSE UNCHANGED redisVars
         /\ IF executed /\ ~lost THEN pc' = "dispatch" /\ UNCHANGED << bom, plan, job >>
            ELSE Return
    BY <1>5 DEF AddSlots
  <2>2. RedisTypeOK'
    BY <1>0, <1>u, <2>1, CommandTypes
  <2>3. FaultsTyped'
    BY <1>0, <1>f, <2>1, FaultTypes
  <2>4. CASE executed /\ ~lost
    BY <2>1, <2>2, <2>3, <2>4 DEF TypeInv, TypeOK, FaultsTyped, PC, MovePC
  <2>5. CASE ~(executed /\ ~lost)
    BY <1>r, <2>1, <2>2, <2>3, <2>5
  <2> QED BY <2>4, <2>5
<1>6. CASE SetSlotImportingTarget
  <2>1. PICK D \in SUBSET job.slots, lost \in BOOLEAN :
          Sent(D, lost) /\ SetSlotImporting(job.to, D, job.to) /\ Goto("migrating", lost)
    BY <1>6 DEF SetSlotImportingTarget
  <2>2. RedisTypeOK' /\ FaultsTyped' /\ pc = "importing"
    BY <1>0, <1>6, <2>1, CommandTypes, SentTypes DEF SetSlotImportingTarget
  <2> QED BY <1>g, <2>1, <2>2 DEF PC, MovePC
<1>7. CASE SetSlotMigratingSource
  <2>1. PICK D \in SUBSET job.slots, lost \in BOOLEAN :
          Sent(D, lost) /\ SetSlotMigrating(job.from, D, job.from) /\ Goto("migrate", lost)
    BY <1>7 DEF SetSlotMigratingSource
  <2>2. pc = "migrating" /\ job.from \in Master
    BY <1>0, <1>7 DEF SetSlotMigratingSource, MovePC
  <2>3. RedisTypeOK' /\ FaultsTyped'
    BY <1>0, <2>1, <2>2, CommandTypes, SentTypes
  <2> QED BY <1>g, <2>1, <2>2, <2>3 DEF PC, MovePC
<1>8. CASE MigrateKeysInSlotError
  BY <1>0, <1>8, <1>r, <1>u, FaultTypes DEF MigrateKeysInSlotError
<1>9. CASE MigrateKeysInSlotDone
  BY <1>9, <1>u, <1>f DEF MigrateKeysInSlotDone, TypeInv, TypeOK, FaultsTyped, PC, MovePC
<1>10. CASE SetSlotNodeTarget
  <2>1. PICK D \in SUBSET job.slots, lost \in BOOLEAN :
          Sent(D, lost) /\ SetSlotNode(job.to, D, job.to)
    BY <1>10 DEF SetSlotNodeTarget
  <2>2. RedisTypeOK' /\ FaultsTyped'
    BY <1>0, <2>1, CommandTypes, SentTypes
  <2> QED BY <1>10, <2>2 DEF SetSlotNodeTarget, TypeInv, TypeOK, FaultsTyped, PC, MovePC
<1>11. CASE SetSlotNodeSource
  <2>1. PICK D \in SUBSET job.slots, lost \in BOOLEAN :
          Sent(D, lost) /\ SetSlotNode(job.from, D, job.to)
    BY <1>11 DEF SetSlotNodeSource
  <2>2. job.from \in Master
    BY <1>0, <1>11 DEF SetSlotNodeSource, MovePC
  <2>3. RedisTypeOK' /\ FaultsTyped'
    BY <1>0, <2>1, <2>2, CommandTypes, SentTypes
  <2>4. bom' \in [Master -> SUBSET Slot]
    BY <1>0, <1>11, <2>2 DEF SetSlotNodeSource
  <2> QED BY <1>11, <2>3, <2>4 DEF SetSlotNodeSource, TypeInv, TypeOK, FaultsTyped, PC, MovePC
<1>12. CASE Crash
  BY <1>0, <1>12, <1>r, <1>u, FaultTypes DEF Crash
<1>13. CASE GossipStep
  <2>1. RedisTypeOK'
    BY <1>0, <1>13, GossipTypes DEF GossipStep
  <2> QED BY <1>13, <1>f, <2>1 DEF GossipStep, opVars, TypeInv, TypeOK, FaultsTyped
<1>14. CASE ClientStep
  <2>1. RedisTypeOK'
    BY <1>0, <1>14, ClientTypes DEF ClientStep
  <2> QED BY <1>14, <1>f, <2>1 DEF ClientStep, opVars, TypeInv, TypeOK, FaultsTyped
<1>15. CASE UNCHANGED vars
  BY <1>15, <1>u, <1>f DEF vars, opVars, TypeInv, TypeOK, FaultsTyped
<1> QED
  BY <1>1, <1>2, <1>3, <1>4, <1>5, <1>6, <1>7, <1>8, <1>9, <1>10, <1>11, <1>12,
     <1>13, <1>14, <1>15
  DEF Next, Operator

LEMMA TypeInvariance == Spec => []TypeInv
BY TypeInit, TypeNext, PTL DEF Spec

\* Type correctness: the slot tables of the masters, the plan and the job stay
\* within their types, also when the slots a reconcile read are reported twice.
THEOREM ScaleUpTypeCorrect == Spec => []TypeOK
<1>1. TypeInv => TypeOK
  BY DEF TypeInv
<1> QED BY <1>1, TypeInvariance, PTL

-----------------------------------------------------------------------------
(* A claimed slot keeps a claimant.                                        *)

LEMMA Typed ==
  ASSUME TypeInv
  PROVE  /\ RedisTypeOK /\ None \in View /\ Master \subseteq View /\ None \notin Master
         /\ claim \in [Slot -> View] /\ alive \subseteq Master
         /\ job.to \in Master /\ job.slots \subseteq Slot
         /\ pc \in MovePC => job.from \in Master /\ job.from # job.to
BY MasterFacts DEF TypeInv, TypeOK, RedisTypeOK, View, Job

\* A command that cannot be lost reaches the node.
LEMMA SentAll ==
  ASSUME CommandsArrive', NEW D, NEW lost \in BOOLEAN, Sent(D, lost)
  PROVE  D = job.slots /\ ~lost /\ hit' = hit
BY DEF CommandsArrive, Sent, Fault, faultVars

LEMMA HitGrows == ASSUME [Next]_vars PROVE hit \subseteq hit'
BY DEF Next, Operator, GetClusterInfos, waitForClusterJoin, syncCluster, noClusterOperation,
   nextJob, allJobsDone, AddSlots, SetSlotImportingTarget, SetSlotMigratingSource,
   MigrateKeysInSlot, MigrateKeysInSlotDone, MigrateKeysInSlotError, SetSlotNodeTarget,
   SetSlotNodeSource, Crash, GossipStep, ClientStep, Sent, Fault, faultVars, vars

LEMMA OwnInit == Init => OwnInv
<1> SUFFICES ASSUME Init PROVE OwnInv
  OBVIOUS
<1>1. claim \in [Slot -> Master \cup {None}] /\ owner = [n \in Master |-> claim]
  BY ConstantsAssumption DEF Init, RedisInit
<1>2. ClaimHeld
  BY <1>1 DEF ClaimHeld
<1> QED BY <1>2 DEF Init, OwnInv, TargetTook

LEMMA OwnNext == ASSUME TypeInv, OwnInv, [Next]_vars PROVE OwnInv'
<1> SUFFICES ASSUME CommandsArrive' PROVE ClaimHeld' /\ TargetTook'
  BY DEF OwnInv
<1>0. ClaimHeld /\ TargetTook
  BY HitGrows DEF OwnInv, CommandsArrive
<1>t. /\ RedisTypeOK /\ None \in View /\ Master \subseteq View /\ None \notin Master
      /\ claim \in [Slot -> View] /\ alive \subseteq Master
      /\ job.to \in Master /\ job.slots \subseteq Slot
      /\ pc \in MovePC => job.from \in Master
  BY Typed
<1>q. ASSUME UNCHANGED << owner, claim >>, pc' # "nodeFrom" \/ UNCHANGED << pc, job >>
      PROVE  ClaimHeld' /\ TargetTook'
  BY <1>0, <1>q DEF ClaimHeld, TargetTook
<1>1. CASE \/ GetClusterInfos \/ waitForClusterJoin \/ syncCluster \/ noClusterOperation
           \/ nextJob \/ allJobsDone \/ MigrateKeysInSlot \/ MigrateKeysInSlotDone
           \/ MigrateKeysInSlotError \/ Crash
  BY <1>1, <1>q DEF GetClusterInfos, waitForClusterJoin, syncCluster, noClusterOperation,
     nextJob, allJobsDone, MigrateKeysInSlot, MigrateKeysInSlotDone, MigrateKeysInSlotError,
     Crash, Return, redisVars
<1>2. CASE SetSlotImportingTarget \/ SetSlotMigratingSource
  BY <1>2, <1>q DEF SetSlotImportingTarget, SetSlotMigratingSource, SetSlotImporting,
     SetSlotMigrating, Goto, Return
<1>3. CASE ClientStep
  BY <1>3, <1>q DEF ClientStep, ClientSet, opVars
<1>4. CASE AddSlots
  <2>1. CASE UNCHANGED redisVars
    BY <1>4, <1>q, <2>1 DEF AddSlots, Return, redisVars
  <2>2. CASE ClusterAddSlotsRange(job.to, job.slots)
    <3>1. /\ \A m \in Master, s \in Slot :
               owner'[m][s] = IF m = job.to /\ s \in job.slots THEN job.to ELSE owner[m][s]
          /\ \A s \in Slot : claim'[s] = IF s \in job.slots THEN job.to ELSE claim[s]
      BY <1>t, <2>2, AddSlotsEffect
    <3>2. ClaimHeld'
      BY <1>0, <1>t, <3>1 DEF ClaimHeld, View
    <3> QED BY <1>4, <3>2 DEF AddSlots, Return, TargetTook
  <2> QED BY <1>4, <2>1, <2>2 DEF AddSlots
<1>5. CASE SetSlotNodeTarget
  <2>1. SetSlotNode(job.to, job.slots, job.to) /\ pc' = "nodeFrom" /\ job' = job
    BY <1>5, SentAll DEF SetSlotNodeTarget
  <2>2. AcceptNode(job.to, job.slots, job.to) = job.slots
    BY DEF AcceptNode
  <2>3. /\ \A m \in Master, s \in Slot :
             owner'[m][s] = IF m = job.to /\ s \in job.slots THEN job.to ELSE owner[m][s]
        /\ \A s \in Slot : claim'[s] = IF s \in job.slots THEN job.to ELSE claim[s]
    BY <1>t, <2>1, <2>2, SetSlotNodeEffect
  <2> QED BY <1>0, <1>t, <2>1, <2>3 DEF ClaimHeld, TargetTook, View
<1>6. CASE SetSlotNodeSource
  <2>1. /\ SetSlotNode(job.from, job.slots, job.to) /\ pc = "nodeFrom" /\ pc' = "dispatch"
        /\ job.from \in Master /\ job.from # job.to
    BY <1>6, SentAll, Typed DEF SetSlotNodeSource, MovePC
  <2>2. /\ \A m \in Master, s \in Slot :
             owner'[m][s] = IF m = job.from /\ s \in AcceptNode(job.from, job.slots, job.to)
                              THEN job.to ELSE owner[m][s]
        /\ \A s \in Slot : claim'[s] = claim[s]
    BY <1>t, <2>1, SetSlotNodeEffect
  <2>3. \A s \in AcceptNode(job.from, job.slots, job.to) : claim[s] = job.to
    BY <1>0, <2>1 DEF AcceptNode, TargetTook
  <2>4. ClaimHeld'
    BY <1>0, <1>t, <2>1, <2>2, <2>3 DEF ClaimHeld, View
  <2> QED BY <2>1, <2>4 DEF TargetTook
<1>7. CASE GossipStep
  <2>1. PICK n \in Master, s \in Slot : Gossip(n, s)
    BY <1>7 DEF GossipStep
  <2>2. \A m \in Master, r \in Slot :
          owner'[m][r] = IF m = n /\ r = s THEN claim[s] ELSE owner[m][r]
    BY <1>t, <2>1, GossipTables
  <2>3. claim' = claim /\ claim[s] # n
    BY <1>0, <1>t, <2>1 DEF Gossip, ClaimHeld
  <2>4. ClaimHeld'
    BY <1>0, <1>t, <2>2, <2>3 DEF ClaimHeld, View
  <2> QED BY <1>0, <1>7, <2>3, <2>4 DEF GossipStep, opVars, TargetTook
<1>8. CASE UNCHANGED vars
  BY <1>8, <1>q DEF vars, redisVars, opVars
<1> QED
  BY <1>1, <1>2, <1>3, <1>4, <1>5, <1>6, <1>7, <1>8 DEF Next, Operator

LEMMA OwnInvariance == Spec => []OwnInv
BY TypeInvariance, OwnInit, OwnNext, PTL DEF Spec

\* As long as no SETSLOT is lost, a slot that has been claimed has a claimant at
\* every moment of a creation or a scale up, also when the operator dies between
\* two requests of moveSlot and its successor works on slots read anew.
THEOREM ClaimedSlotStaysOwned == Spec => []SlotStaysOwned
<1>1. TypeInv /\ OwnInv => SlotStaysOwned
  <2> SUFFICES ASSUME TypeInv, OwnInv, CommandsArrive, NEW s \in Slot, claim[s] # None
               PROVE  \E n \in Master : owner[n][s] = n
    BY DEF SlotStaysOwned, CommandsArrive
  <2>1. claim[s] \in Master
    BY Typed DEF View
  <2> QED BY <2>1 DEF OwnInv, ClaimHeld
<1> QED BY <1>1, TypeInvariance, OwnInvariance, PTL

-----------------------------------------------------------------------------
(* No acknowledged key is lost.                                            *)

LEMMA SentMoves ==
  ASSUME MovesOnly', NEW D, NEW lost \in BOOLEAN, Sent(D, lost)
  PROVE  D = job.slots /\ ~lost
BY DEF MovesOnly, Sent, Fault

LEMMA NothingMoved == MovedOnce(<< >>) /\ MovedSlots(<< >>) = {}
BY DEF MovedOnce, MovedSlots

LEMMA PlanSlots ==
  ASSUME TypeInv, NEW i \in 1 .. Len(plan) PROVE plan[i].slots \subseteq Slot
<1>1. plan[i] \in Job
  BY DEF TypeInv, TypeOK
<1> QED BY <1>1 DEF Job

LEMMA StoredTyped == ASSUME TypeInv, NEW k \in stored PROVE k \in Key /\ SlotOf[k] \in Slot
BY ConstantsAssumption DEF TypeInv, TypeOK, RedisTypeOK

\* The reconcile returns, not between the two SETSLOT NODE.
LEMMA MoveReturn ==
  ASSUME MoveParts, pc # "nodeFrom", Return, StoredKept',
         UNCHANGED << owner, importing, migrating, claim >>
  PROVE  MoveParts'
<1>1. pc' = "idle" /\ plan' = << >> /\ Len(plan') = 0
  BY ReturnTypes
<1>2. SingleClaimant' /\ MarksOfSelf'
  BY DEF MoveParts, SingleClaimant, MarksOfSelf
<1>3. PlanCurrent' /\ SourceDrained'
  BY <1>1, NothingMoved DEF PlanCurrent, SourceDrained, Pending
<1> QED BY <1>2, <1>3 DEF MoveParts

LEMMA MoveInit == Init => MoveInv
<1> SUFFICES ASSUME Init PROVE MoveParts
  BY DEF MoveInv
<1>1. /\ claim \in [Slot -> Master \cup {None}] /\ owner = [n \in Master |-> claim]
      /\ importing = [n \in Master |-> [s \in Slot |-> None]]
      /\ migrating = [n \in Master |-> [s \in Slot |-> None]]
      /\ pc = "idle" /\ plan = << >> /\ Len(plan) = 0
  BY ConstantsAssumption DEF Init, RedisInit
<1>2. SingleClaimant /\ MarksOfSelf
  BY <1>1, MasterFacts DEF SingleClaimant, MarksOfSelf
<1>3. PlanCurrent /\ SourceDrained
  BY <1>1, NothingMoved DEF PlanCurrent, SourceDrained, Pending
<1>4. StoredKept
  <2> SUFFICES ASSUME NEW k \in stored
               PROVE  claim[SlotOf[k]] \in Master /\ k \in keys[claim[SlotOf[k]]]
    BY DEF StoredKept
  <2>1. /\ k \in Key /\ claim[SlotOf[k]] # None
        /\ keys = [n \in Master |-> {j \in stored : claim[SlotOf[j]] = n}]
    BY DEF Init, RedisInit
  <2>2. claim[SlotOf[k]] \in Master
    BY <1>1, <2>1, ConstantsAssumption
  <2> QED BY <2>1, <2>2
<1> QED BY <1>2, <1>3, <1>4 DEF MoveParts

LEMMA MoveRead ==
  ASSUME TypeInv, ClaimHeld, MoveParts, GetClusterInfos PROVE MoveParts'
<1>1. /\ pc = "idle" /\ pc' = "join" /\ bom' = [n \in Master |-> Claimed(n)]
      /\ UNCHANGED << owner, importing, migrating, claim, keys, stored, plan, job >>
  BY DEF GetClusterInfos, redisVars
<1>2. \A n \in Master : Claimed(n) = {s \in Slot : claim[s] = n}
  <2> SUFFICES ASSUME NEW n \in Master, NEW s \in Slot PROVE owner[n][s] = n <=> claim[s] = n
    BY DEF Claimed
  <2>1. n # None
    BY Typed
  <2> QED BY <1>1, <2>1 DEF MoveParts, SingleClaimant, ClaimHeld
<1>3. SingleClaimant' /\ MarksOfSelf'
  BY <1>1 DEF MoveParts, SingleClaimant, MarksOfSelf
<1>4. PlanCurrent'
  BY <1>1, <1>2 DEF MoveParts, PlanCurrent, Pending
<1>5. SourceDrained' /\ StoredKept'
  BY <1>1 DEF MoveParts, SourceDrained, StoredKept
<1> QED BY <1>3, <1>4, <1>5 DEF MoveParts

\* The facts about the plan of a scale up, or of a creation.
LEMMA PlanFromClaims ==
  ASSUME TypeInv, MoveParts, syncCluster
  PROVE  /\ MovedOnce(plan')
         /\ \A i \in 1 .. Len(plan') : \A s \in plan'[i].slots : claim[s] = plan'[i].from
<1>0. /\ bom = [n \in Master |-> {s \in Slot : claim[s] = n}]
      /\ bom \in [Master -> SUBSET Slot]
  BY DEF syncCluster, MoveParts, PlanCurrent, TypeInv, TypeOK
<1>1. CASE CurMasters = {} /\ plan' \in Allocs
  <2>1. /\ plan' \in Seq(Job) /\ MovedOnce(plan')
        /\ \A i \in 1 .. Len(plan') : plan'[i].from = None /\ plan'[i] \in Job
    BY <1>1, PlannerAssumption
  <2>2. \A s \in Slot : claim[s] = None
    BY <1>0, <1>1, Typed DEF CurMasters, View
  <2> QED BY <2>1, <2>2 DEF Job
<1>2. CASE CurMasters # {} /\ CurMasters # Master /\ plan' \in Reshards(bom)
  <2>1. ScalesUp(bom) /\ Disjoint(bom)
    BY <1>0, <1>2 DEF CurMasters, ScalesUp, Disjoint
  <2>2. /\ MovedOnce(plan')
        /\ \A i \in 1 .. Len(plan') : /\ plan'[i].from \in Master
                                      /\ plan'[i].slots \subseteq bom[plan'[i].from]
    BY <1>0, <1>2, <2>1, PlannerAssumption
  <2> QED BY <1>0, <2>2
<1> QED BY <1>1, <1>2 DEF syncCluster

LEMMA MoveSync ==
  ASSUME TypeInv, MoveParts, syncCluster PROVE MoveParts'
<1>1. /\ pc = "join" /\ pc' = "dispatch"
      /\ UNCHANGED << owner, importing, migrating, claim, keys, stored, job >>
  BY DEF syncCluster, redisVars
<1>2. SingleClaimant' /\ MarksOfSelf'
  BY <1>1 DEF MoveParts, SingleClaimant, MarksOfSelf
<1>3. PlanCurrent'
  BY <1>1, PlanFromClaims DEF PlanCurrent, Pending
<1>4. SourceDrained' /\ StoredKept'
  BY <1>1 DEF MoveParts, SourceDrained, StoredKept
<1> QED BY <1>2, <1>3, <1>4 DEF MoveParts

LEMMA MoveNextJob ==
  ASSUME TypeInv, MoveParts, nextJob PROVE MoveParts'
<1>1. /\ pc = "dispatch" /\ pc' \in {"addslots", "importing"} /\ plan # << >>
      /\ job' = Head(plan) /\ plan' = Tail(plan)
      /\ UNCHANGED << owner, importing, migrating, claim, keys, stored >>
  BY DEF nextJob, redisVars
<1>2. plan \in Seq(Job)
  BY DEF TypeInv, TypeOK
<1>3. /\ Head(plan) = plan[1] /\ 1 \in 1 .. Len(plan) /\ Len(plan) \in Nat
      /\ \A i \in 1 .. Len(plan') : i + 1 \in 1 .. Len(plan) /\ plan'[i] = plan[i + 1]
      /\ Len(plan') \in Nat
  BY <1>1, <1>2, TailFacts
<1>4. SingleClaimant' /\ MarksOfSelf'
  BY <1>1 DEF MoveParts, SingleClaimant, MarksOfSelf
<1>5. MovedOnce(plan)
  BY DEF MoveParts, PlanCurrent
<1>6. MovedOnce(plan')
  <2> SUFFICES ASSUME NEW i \in 1 .. Len(plan'), NEW j \in 1 .. Len(plan'), i # j
               PROVE  plan'[i].slots \cap plan'[j].slots = {}
    BY DEF MovedOnce
  <2>1. i + 1 # j + 1
    OBVIOUS
  <2> QED BY <1>3, <1>5, <2>1 DEF MovedOnce
<1>7. \A i \in 1 .. Len(plan') : plan'[i].slots \cap job'.slots = {}
  <2> TAKE i \in 1 .. Len(plan')
  <2>1. i + 1 # 1
    BY <1>3
  <2> QED BY <1>1, <1>3, <1>5, <2>1 DEF MovedOnce
<1>8. \A i \in 1 .. Len(plan') : \A s \in plan'[i].slots : claim[s] = plan'[i].from
  BY <1>3 DEF MoveParts, PlanCurrent
<1>9. \A s \in job'.slots : claim[s] = job'.from
  BY <1>1, <1>3 DEF MoveParts, PlanCurrent
<1>10. PlanCurrent'
  BY <1>1, <1>6, <1>7, <1>8, <1>9 DEF PlanCurrent, Pending
<1>11. SourceDrained' /\ StoredKept'
  BY <1>1 DEF MoveParts, SourceDrained, StoredKept
<1> QED BY <1>4, <1>10, <1>11 DEF MoveParts

\* ADDSLOTS of slots that no master claims: it is accepted.
LEMMA AddSlotsAccepted ==
  ASSUME TypeInv, MoveParts, pc = "addslots" PROVE AcceptAddSlots(job.to, job.slots)
<1>1. \A s \in job.slots : claim[s] = None
  BY DEF MoveParts, PlanCurrent, Pending, TypeInv
<1> QED BY <1>1, Typed DEF MoveParts, SingleClaimant, AcceptAddSlots

LEMMA MoveAddSlots ==
  ASSUME TypeInv, MoveParts, MovesOnly', AddSlots
  PROVE  /\ MoveParts' /\ pc' = "dispatch" /\ UNCHANGED << bom, plan, job >>
         /\ ClusterAddSlotsRange(job.to, job.slots)
<1>1. /\ pc = "addslots" /\ pc' = "dispatch" /\ UNCHANGED << bom, plan, job >>
      /\ ClusterAddSlotsRange(job.to, job.slots)
  BY AddSlotsAccepted DEF AddSlots, Fault, MovesOnly
<1>2. /\ RedisTypeOK /\ job.to \in Master /\ job.slots \subseteq Slot /\ None \notin Master
  BY Typed
<1>3. /\ \A m \in Master, s \in Slot :
           owner'[m][s] = IF m = job.to /\ s \in job.slots THEN job.to ELSE owner[m][s]
      /\ \A s \in Slot : claim'[s] = IF s \in job.slots THEN job.to ELSE claim[s]
  BY <1>1, <1>2, AddSlotsEffect
<1>4. UNCHANGED << importing, migrating, keys, stored >>
  BY <1>1 DEF ClusterAddSlotsRange
<1>5. \A s \in job.slots : claim[s] = None
  BY <1>1 DEF MoveParts, PlanCurrent, Pending, TypeInv
<1>6. SingleClaimant'
  BY <1>1, <1>2, <1>3, <1>4, <1>5 DEF MoveParts, SingleClaimant
<1>7. MarksOfSelf'
  BY <1>2, <1>3, <1>4, <1>5 DEF MoveParts, SingleClaimant, MarksOfSelf
<1>8. \A i \in 1 .. Len(plan) : plan[i].slots \subseteq Slot
  BY PlanSlots
<1>9. PlanCurrent'
  BY <1>1, <1>3, <1>8 DEF MoveParts, PlanCurrent, Pending
<1>10. SourceDrained'
  BY <1>1, <1>4 DEF MoveParts, SourceDrained
<1>11. StoredKept'
  BY <1>2, <1>3, <1>4, <1>5, StoredTyped DEF MoveParts, StoredKept
<1> QED BY <1>1, <1>6, <1>7, <1>9, <1>10, <1>11 DEF MoveParts

\* SETSLOT IMPORTING and SETSLOT MIGRATING.
LEMMA MoveImporting ==
  ASSUME TypeInv, MoveParts, MovesOnly', SetSlotImportingTarget PROVE MoveParts'
<1>1. /\ pc = "importing" /\ pc' = "migrating" /\ UNCHANGED << bom, plan, job >>
      /\ SetSlotImporting(job.to, job.slots, job.to)
  BY SentMoves DEF SetSlotImportingTarget, Goto
<1>2. UNCHANGED << owner, migrating, claim, keys, stored >>
  BY <1>1 DEF SetSlotImporting
<1>3. \A m \in Master, s \in Slot :
        importing'[m][s] = IF m = job.to /\ s \in AcceptImporting(job.to, job.slots)
                             THEN job.to ELSE importing[m][s]
  BY <1>1, Typed, SetSlotImportingEffect
<1>4. \A s \in job.slots : claim[s] = job.from /\ job.from # None
  BY <1>1, Typed DEF MoveParts, PlanCurrent, Pending, MovePC
<1>5. SingleClaimant'
  BY <1>1, <1>2, <1>3, <1>4 DEF MoveParts, SingleClaimant, AcceptImporting
<1>6. MarksOfSelf'
  BY <1>2, <1>3 DEF MoveParts, MarksOfSelf, AcceptImporting
<1>7. PlanCurrent'
  BY <1>1, <1>2 DEF MoveParts, PlanCurrent, Pending
<1>8. SourceDrained' /\ StoredKept'
  BY <1>1, <1>2 DEF MoveParts, SourceDrained, StoredKept
<1> QED BY <1>5, <1>6, <1>7, <1>8 DEF MoveParts

LEMMA MoveMigrating ==
  ASSUME TypeInv, MoveParts, MovesOnly', SetSlotMigratingSource PROVE MoveParts'
<1>1. /\ pc = "migrating" /\ pc' = "migrate" /\ UNCHANGED << bom, plan, job >>
      /\ SetSlotMigrating(job.from, job.slots, job.from)
  BY SentMoves DEF SetSlotMigratingSource, Goto
<1>2. UNCHANGED << owner, importing, claim, keys, stored >>
  BY <1>1 DEF SetSlotMigrating
<1>3. job.from \in Master
  BY <1>1, Typed DEF MovePC
<1>4. \A m \in Master, s \in Slot :
        migrating'[m][s] = IF m = job.from /\ s \in AcceptMigrating(job.from, job.slots)
                             THEN job.from ELSE migrating[m][s]
  BY <1>1, <1>3, Typed, SetSlotMigratingEffect
<1>5. SingleClaimant' /\ MarksOfSelf'
  BY <1>1, <1>2, <1>4 DEF MoveParts, SingleClaimant, MarksOfSelf
<1>6. PlanCurrent'
  BY <1>1, <1>2 DEF MoveParts, PlanCurrent, Pending
<1>7. SourceDrained' /\ StoredKept'
  BY <1>1, <1>2, <1>3, <1>4, Typed DEF MoveParts, SourceDrained, StoredKept, AcceptMigrating
<1> QED BY <1>5, <1>6, <1>7 DEF MoveParts

LEMMA MoveMigrateDone ==
  ASSUME TypeInv, MoveParts, MigrateKeysInSlotDone PROVE MoveParts'
<1>1. /\ pc = "migrate" /\ pc' = "nodeTo" /\ KeysIn(job.from, job.slots) = {}
      /\ UNCHANGED << owner, importing, migrating, claim, keys, stored, bom, plan, job >>
  BY DEF MigrateKeysInSlotDone, redisVars
<1>2. SingleClaimant' /\ MarksOfSelf' /\ StoredKept'
  BY <1>1 DEF MoveParts, SingleClaimant, MarksOfSelf, StoredKept
<1>3. PlanCurrent'
  BY <1>1 DEF MoveParts, PlanCurrent, Pending
<1>4. SourceDrained'
  BY <1>1 DEF MoveParts, SourceDrained, KeysIn
<1> QED BY <1>2, <1>3, <1>4 DEF MoveParts

\* The target takes the slot: source and target claim it for a while.
LEMMA MoveNodeTarget ==
  ASSUME TypeInv, MoveParts, MovesOnly', SetSlotNodeTarget
  PROVE  /\ MoveParts' /\ pc = "nodeTo" /\ pc' = "nodeFrom" /\ UNCHANGED << plan, job >>
         /\ \A s \in Slot : claim'[s] = IF s \in job.slots THEN job.to ELSE claim[s]
<1>1. /\ pc = "nodeTo" /\ pc' = "nodeFrom" /\ UNCHANGED << bom, plan, job >>
      /\ SetSlotNode(job.to, job.slots, job.to)
  BY SentMoves DEF SetSlotNodeTarget
<1>2. UNCHANGED << keys, stored >>
  BY <1>1 DEF SetSlotNode
<1>3. /\ RedisTypeOK /\ job.to \in Master /\ job.to \in View /\ job.from \in Master
      /\ job.from # job.to /\ job.slots \subseteq Slot /\ None \notin Master
  BY <1>1, Typed DEF MovePC
<1>4. AcceptNode(job.to, job.slots, job.to) = job.slots
  BY DEF AcceptNode
<1>5. /\ \A m \in Master, s \in Slot :
           owner'[m][s] = IF m = job.to /\ s \in job.slots THEN job.to ELSE owner[m][s]
      /\ \A m \in Master, s \in Slot :
           \/ migrating'[m][s] = migrating[m][s]
           \/ m = job.to /\ migrating'[m][s] = None
      /\ \A m \in Master, s \in Slot :
           importing'[m][s] = IF m = job.to /\ s \in job.slots THEN None ELSE importing[m][s]
      /\ \A s \in Slot : claim'[s] = IF s \in job.slots THEN job.to ELSE claim[s]
  BY <1>1, <1>3, <1>4, SetSlotNodeEffect
<1>6. \A s \in job.slots : claim[s] = job.from
  BY <1>1 DEF MoveParts, PlanCurrent, Pending
<1>7. SingleClaimant'
  BY <1>1, <1>3, <1>5, <1>6 DEF MoveParts, SingleClaimant
<1>8. MarksOfSelf'
  BY <1>5 DEF MoveParts, MarksOfSelf
<1>9. \A i \in 1 .. Len(plan) : plan[i].slots \subseteq Slot
  BY PlanSlots
<1>10. PlanCurrent'
  BY <1>1, <1>5, <1>9 DEF MoveParts, PlanCurrent, Pending
<1>11. SourceDrained'
  BY <1>1, <1>2, <1>3, <1>5 DEF MoveParts, SourceDrained, KeysIn
<1>12. StoredKept'
  <2> SUFFICES ASSUME NEW k \in stored
               PROVE  claim'[SlotOf[k]] \in Master /\ k \in keys[claim'[SlotOf[k]]]
    BY <1>2 DEF StoredKept
  <2>1. /\ k \in Key /\ SlotOf[k] \in Slot
        /\ claim[SlotOf[k]] \in Master /\ k \in keys[claim[SlotOf[k]]]
    BY StoredTyped DEF MoveParts, StoredKept
  <2>2. KeysIn(job.from, job.slots) = {}
    BY <1>1 DEF MoveParts, SourceDrained
  <2>3. SlotOf[k] \notin job.slots
    BY <1>6, <2>1, <2>2 DEF KeysIn, KeysOf
  <2> QED BY <1>5, <2>1, <2>3
<1> QED BY <1>1, <1>5, <1>7, <1>8, <1>10, <1>11, <1>12 DEF MoveParts

\* The source, which has no key of the slot, gives it up.
LEMMA MoveNodeSource ==
  ASSUME TypeInv, TargetTook, MoveParts, MovesOnly', SetSlotNodeSource
  PROVE  MoveParts' /\ pc = "nodeFrom" /\ pc' = "dispatch" /\ UNCHANGED << plan, claim >>
<1>1. /\ pc = "nodeFrom" /\ pc' = "dispatch" /\ UNCHANGED << plan, job >>
      /\ SetSlotNode(job.from, job.slots, job.to)
  BY SentMoves DEF SetSlotNodeSource
<1>2. UNCHANGED << keys, stored >>
  BY <1>1 DEF SetSlotNode
<1>3. /\ RedisTypeOK /\ job.to \in Master /\ job.to \in View /\ job.from \in Master
      /\ job.from # job.to /\ job.slots \subseteq Slot /\ None \notin Master
      /\ claim \in [Slot -> View]
  BY <1>1, Typed DEF MovePC
<1>4. AcceptNode(job.from, job.slots, job.to) = job.slots
  <2>1. \A s \in job.slots : KeysIn(job.from, {s}) = {}
    BY <1>1 DEF MoveParts, SourceDrained, KeysIn, KeysOf
  <2> QED BY <2>1 DEF AcceptNode
<1>5. /\ \A m \in Master, s \in Slot :
           owner'[m][s] = IF m = job.from /\ s \in job.slots THEN job.to ELSE owner[m][s]
      /\ \A m \in Master, s \in Slot :
           \/ migrating'[m][s] = migrating[m][s]
           \/ migrating'[m][s] = None
      /\ \A m \in Master, s \in Slot : importing'[m][s] = importing[m][s]
      /\ \A s \in Slot : claim'[s] = claim[s]
  BY <1>1, <1>3, <1>4, SetSlotNodeEffect
<1>6. claim' = claim
  BY <1>1, <1>3 DEF SetSlotNode
<1>7. \A s \in job.slots : claim[s] = job.to
  BY <1>1 DEF TargetTook
<1>8. SingleClaimant'
  BY <1>1, <1>3, <1>5, <1>7 DEF MoveParts, SingleClaimant
<1>9. MarksOfSelf'
  BY <1>3, <1>5 DEF MoveParts, MarksOfSelf
<1>10. PlanCurrent'
  BY <1>1, <1>6 DEF MoveParts, PlanCurrent, Pending
<1>11. SourceDrained' /\ StoredKept'
  BY <1>1, <1>2, <1>6 DEF MoveParts, SourceDrained, StoredKept
<1> QED BY <1>1, <1>6, <1>8, <1>9, <1>10, <1>11 DEF MoveParts

\* Gossip takes a slot only from a source that has no key of it any more.
LEMMA MoveGossip ==
  ASSUME TypeInv, ClaimHeld, MoveParts, GossipStep PROVE MoveParts'
<1>1. PICK n \in Master, s \in Slot : Gossip(n, s)
  BY DEF GossipStep
<1>2. UNCHANGED << importing, claim, stored, pc, bom, plan, job >>
  BY <1>1 DEF Gossip, GossipStep, opVars
<1>3. /\ \A m \in Master, r \in Slot :
           owner'[m][r] = IF m = n /\ r = s THEN claim[s] ELSE owner[m][r]
      /\ \A m \in Master, r \in Slot :
           \/ migrating'[m][r] = migrating[m][r]
           \/ m = n /\ r = s /\ migrating'[m][r] = None
  BY <1>1, Typed, GossipTables
<1>4. claim[s] # n /\ claim[s] # None
  BY <1>1, Typed DEF Gossip, ClaimHeld
<1>5. \A m \in Master : keys'[m] = keys[m]
  <2>1. CASE owner[n][s] # n
    BY <1>1, <2>1 DEF Gossip
  <2>2. CASE owner[n][s] = n
    <3>1. pc = "nodeFrom" /\ n = job.from /\ s \in job.slots
      BY <1>4, <2>2 DEF MoveParts, SingleClaimant
    <3>2. keys[n] \ KeysOf({s}) = keys[n]
      BY <3>1 DEF MoveParts, SourceDrained, KeysIn, KeysOf
    <3> QED BY <1>1, <2>2, <3>2, Typed DEF Gossip, RedisTypeOK
  <2> QED BY <2>1, <2>2
<1>6. SingleClaimant'
  BY <1>2, <1>3, <1>4 DEF MoveParts, SingleClaimant
<1>7. MarksOfSelf'
  BY <1>2, <1>3, <1>4 DEF MoveParts, MarksOfSelf
<1>8. PlanCurrent'
  BY <1>2 DEF MoveParts, PlanCurrent, Pending
<1>9. SourceDrained'
  <2>1. pc \in MovePC => job.from \in Master /\ job.slots \subseteq Slot
    BY Typed
  <2> QED BY <1>2, <1>3, <1>4, <1>5, <2>1 DEF MoveParts, SourceDrained, KeysIn, MovePC
<1>10. StoredKept'
  BY <1>2, <1>5 DEF MoveParts, StoredKept
<1> QED BY <1>6, <1>7, <1>8, <1>9, <1>10 DEF MoveParts

\* A client stores its key at the claimant it reached, never at a source that
\* has been drained.
LEMMA MoveClient ==
  ASSUME TypeInv, MoveParts, ClientStep PROVE MoveParts'
<1>1. PICK k \in Key : ClientSet(k)
  BY DEF ClientStep
<1>2. UNCHANGED << owner, importing, migrating, claim, pc, bom, plan, job >>
  BY <1>1 DEF ClientSet, ClientStep, opVars
<1>3. PICK c \in alive : /\ owner[c][SlotOf[k]] = c
                         /\ Serves(Target(c, k), k)
                         /\ keys' = [keys EXCEPT ![Target(c, k)] = @ \cup {k}]
  BY <1>1 DEF ClientSet
<1>4. c \in Master /\ SlotOf[k] \in Slot /\ c # None
  BY Typed, ConstantsAssumption
<1>5. Target(c, k) = c
  BY <1>4 DEF MoveParts, MarksOfSelf, Target
<1>6. /\ keys'[c] = keys[c] \cup {k}
      /\ \A m \in Master : m # c => keys'[m] = keys[m]
  BY <1>3, <1>4, <1>5, Typed DEF RedisTypeOK
<1>7. stored' = stored \cup {k}
  BY <1>1 DEF ClientSet
<1>8. SingleClaimant' /\ MarksOfSelf' /\ PlanCurrent'
  BY <1>2 DEF MoveParts, SingleClaimant, MarksOfSelf, PlanCurrent, Pending
<1>9. claim[SlotOf[k]] = c
  <2>1. ASSUME pc = "nodeFrom", c = job.from, SlotOf[k] \in job.slots PROVE FALSE
    <3>1. migrating[c][SlotOf[k]] = c /\ k \notin keys[c] /\ importing[c][SlotOf[k]] = None
      BY <1>3, <1>4, <2>1 DEF MoveParts, SourceDrained, MarksOfSelf, KeysIn, KeysOf
    <3> QED BY <1>3, <1>4, <1>5, <3>1 DEF Serves
  <2> QED BY <1>3, <1>4, <2>1 DEF MoveParts, SingleClaimant
<1>10. StoredKept'
  BY <1>2, <1>4, <1>6, <1>7, <1>9 DEF MoveParts, StoredKept
<1>11. ASSUME pc \in {"nodeTo", "nodeFrom"} PROVE KeysIn(job.from, job.slots)' = {}
  <2>1. KeysIn(job.from, job.slots) = {} /\ job.from \in Master
    BY <1>11, Typed DEF MoveParts, SourceDrained, MovePC
  <2>2. CASE c # job.from \/ SlotOf[k] \notin job.slots
    BY <1>2, <1>6, <2>1, <2>2 DEF KeysIn, KeysOf
  <2>3. CASE c = job.from /\ SlotOf[k] \in job.slots
    <3>1. migrating[c][SlotOf[k]] = c /\ k \notin keys[c] /\ importing[c][SlotOf[k]] = None
      BY <1>3, <1>4, <1>11, <2>1, <2>3
      DEF MoveParts, SourceDrained, MarksOfSelf, KeysIn, KeysOf
    <3> QED BY <1>3, <1>4, <1>5, <3>1 DEF Serves
  <2> QED BY <2>2, <2>3
<1>12. SourceDrained'
  BY <1>2, <1>11 DEF MoveParts, SourceDrained
<1> QED BY <1>8, <1>10, <1>12 DEF MoveParts

LEMMA MoveNext == ASSUME TypeInv, OwnInv, MoveInv, [Next]_vars PROVE MoveInv'
<1> SUFFICES ASSUME MovesOnly' PROVE MoveParts'
  BY DEF MoveInv
<1>0. MovesOnly /\ MoveParts /\ ClaimHeld /\ TargetTook
  BY HitGrows DEF MovesOnly, MoveInv, OwnInv, CommandsArrive
<1>1. CASE \/ waitForClusterJoin \/ noClusterOperation \/ allJobsDone
           \/ MigrateKeysInSlot \/ MigrateKeysInSlotError
  <2>1. Return /\ pc # "nodeFrom" /\ UNCHANGED << owner, importing, migrating, claim, keys, stored >>
    BY <1>1 DEF waitForClusterJoin, noClusterOperation, allJobsDone, MigrateKeysInSlot,
       MigrateKeysInSlotError, redisVars
  <2>2. StoredKept'
    BY <1>0, <2>1 DEF MoveParts, StoredKept
  <2> QED BY <1>0, <2>1, <2>2, MoveReturn
<1>2. CASE Crash
  BY <1>2 DEF Crash, Fault, MovesOnly
<1>3. CASE UNCHANGED vars
  <2>1. UNCHANGED << owner, importing, migrating, claim, keys, stored, pc, bom, plan, job >>
    BY <1>3 DEF vars, redisVars, opVars
  <2>2. SingleClaimant' /\ MarksOfSelf' /\ StoredKept'
    BY <1>0, <2>1 DEF MoveParts, SingleClaimant, MarksOfSelf, StoredKept
  <2>3. PlanCurrent' /\ SourceDrained'
    BY <1>0, <2>1 DEF MoveParts, PlanCurrent, SourceDrained, Pending, KeysIn
  <2> QED BY <2>2, <2>3 DEF MoveParts
<1> QED
  BY <1>0, <1>1, <1>2, <1>3, MoveRead, MoveSync, MoveNextJob, MoveAddSlots, MoveImporting,
     MoveMigrating, MoveMigrateDone, MoveNodeTarget, MoveNodeSource, MoveGossip, MoveClient
  DEF Next, Operator

LEMMA MoveInvariance == Spec => []MoveInv
BY TypeInvariance, OwnInvariance, MoveInit, MoveNext, PTL DEF Spec

\* As long as only GETKEYSINSLOT and MIGRATE fail, every acknowledged key is at
\* the master the nodes agree on as the owner of its slot while a cluster is scaled
\* up, however often a reconcile gives up at a slot with keys and whatever the next
\* RebalancedCluster plans after it.
THEOREM MigrateFailureKeepsKeys == Spec => []KeysKept
<1>1. MoveInv => KeysKept
  BY MasterFacts DEF MoveInv, MovesOnly, MoveParts, StoredKept, KeysKept
<1> QED BY <1>1, MoveInvariance, PTL

-----------------------------------------------------------------------------
(* No master is emptied.                                                   *)

LEMMA InMovedSlots ==
  ASSUME NEW p, NEW s
  PROVE  s \in MovedSlots(p) <=> \E i \in 1 .. Len(p) : s \in p[i].slots
BY DEF MovedSlots

\* The slots of the first job and of the ones after it.
LEMMA RemainingNextJob ==
  ASSUME TypeInv, nextJob PROVE Remaining' = Remaining
<1>1. /\ plan \in Seq(Job) /\ plan # << >> /\ pc = "dispatch" /\ job' = Head(plan)
      /\ plan' = Tail(plan) /\ pc' \in {"addslots", "importing"}
  BY DEF TypeInv, TypeOK, nextJob
<1>2. Pending = {} /\ Pending' = Head(plan).slots
  BY <1>1 DEF Pending
<1>3. Len(Tail(plan)) = Len(plan) - 1 /\ Len(plan) \in Nat /\ Head(plan) = plan[1]
  BY <1>1
<1>4. \A i \in 1 .. Len(Tail(plan)) : i + 1 \in 1 .. Len(plan) /\ Tail(plan)[i] = plan[i + 1]
  BY <1>1, TailFacts
<1>5. ASSUME NEW s, s \in MovedSlots(plan), s \notin Head(plan).slots
      PROVE  s \in MovedSlots(Tail(plan))
  <2>1. PICK i \in 1 .. Len(plan) : s \in plan[i].slots
    BY <1>5, InMovedSlots
  <2>2. i - 1 \in 1 .. Len(Tail(plan)) /\ (i - 1) + 1 = i
    BY <1>3, <1>5, <2>1
  <2>3. s \in Tail(plan)[i - 1].slots
    BY <1>4, <2>1, <2>2
  <2> QED BY <2>2, <2>3, InMovedSlots
<1>6. ASSUME NEW s, s \in MovedSlots(Tail(plan)) PROVE s \in MovedSlots(plan)
  BY <1>4, <1>6, InMovedSlots
<1>7. Head(plan).slots \subseteq MovedSlots(plan)
  BY <1>1, <1>3, TailFacts, InMovedSlots
<1> QED BY <1>1, <1>2, <1>5, <1>6, <1>7 DEF Remaining

\* The slots in hand are in no later job.
LEMMA PendingApart ==
  ASSUME MoveParts PROVE Pending \cap MovedSlots(plan) = {}
BY InMovedSlots DEF MoveParts, PlanCurrent

LEMMA WholeInit == ASSUME SlotsWhole PROVE Init => WholeInv
<1> SUFFICES ASSUME Init PROVE Whole /\ KeepsOne
  BY DEF WholeInv
<1>1. claim \in InitOwners /\ pc = "idle" /\ plan = << >>
  BY DEF Init, RedisInit
<1>2. Whole
  BY <1>1 DEF SlotsWhole, Whole
<1>3. Remaining = {}
  BY <1>1, NothingMoved DEF Remaining, Pending
<1> QED BY <1>2, <1>3 DEF KeepsOne

\* The reconcile returns, not from between two jobs.
LEMMA WholeReturn ==
  ASSUME Whole, KeepsOne, Return, claim' = claim,
         pc \in {"join", "migrate"} \/ (pc = "dispatch" /\ plan = << >>)
  PROVE  Whole' /\ KeepsOne'
<1>1. pc' = "idle" /\ plan' = << >>
  BY DEF Return
<1>2. Remaining' = {}
  BY <1>1, NothingMoved DEF Remaining, Pending
<1>3. pc = "dispatch" /\ plan = << >> => Remaining = {}
  BY NothingMoved DEF Remaining, Pending
<1>4. Whole'
  BY <1>1, <1>3 DEF Whole
<1>5. KeepsOne'
  BY <1>2 DEF KeepsOne
<1> QED BY <1>4, <1>5

LEMMA WholeSync ==
  ASSUME TypeInv, MoveParts, Whole, KeepsOne, syncCluster PROVE Whole' /\ KeepsOne'
<1>1. /\ pc = "join" /\ pc' = "dispatch" /\ claim' = claim
      /\ bom = [n \in Master |-> {s \in Slot : claim[s] = n}]
      /\ bom \in [Master -> SUBSET Slot]
  BY DEF syncCluster, redisVars, MoveParts, PlanCurrent, TypeInv, TypeOK
<1>2. Remaining' = MovedSlots(plan')
  BY <1>1 DEF Remaining, Pending
<1>3. CASE CurMasters = {} /\ plan' \in Allocs
  <2>1. MovedSlots(plan') = Slot /\ \A i \in 1 .. Len(plan') : plan'[i].from = None
    BY <1>3, PlannerAssumption
  <2>2. \A s \in Slot : claim[s] \notin Master
    BY <1>1, <1>3 DEF CurMasters
  <2> QED BY <1>1, <1>2, <2>1, <2>2 DEF Whole, KeepsOne
<1>4. CASE CurMasters # {} /\ CurMasters # Master /\ plan' \in Reshards(bom)
  <2>1. PICK n \in Master : bom[n] # {}
    BY <1>4 DEF CurMasters
  <2>2. \A s \in Slot : claim[s] # None
    BY <1>1, <2>1, Typed DEF Whole
  <2>a. \A s \in Slot : claim[s] \in Master
    BY <2>2, Typed DEF View
  <2>b. ScalesUp(bom) /\ Disjoint(bom)
    BY <1>1, <1>4 DEF CurMasters, ScalesUp, Disjoint
  <2>c. Covers(bom)
    BY <1>1, <2>a DEF Covers
  <2>3. ScalesUp(bom) /\ Disjoint(bom) /\ Covers(bom)
    BY <2>b, <2>c
  <2>4. \A m \in Master : bom[m] # {} => ~(bom[m] \subseteq MovedSlots(plan'))
    BY <1>1, <1>4, <2>3, PlannerAssumption
  <2>5. KeepsOne'
    BY <1>1, <1>2, <2>4 DEF KeepsOne
  <2> QED BY <1>1, <2>2, <2>5 DEF Whole
<1> QED BY <1>3, <1>4 DEF syncCluster

LEMMA WholeNextJob ==
  ASSUME TypeInv, Whole, KeepsOne, nextJob PROVE Whole' /\ KeepsOne'
<1>1. /\ plan \in Seq(Job) /\ plan # << >> /\ pc = "dispatch" /\ claim' = claim
      /\ plan' = Tail(plan) /\ pc' = IF Head(plan).from = None THEN "addslots" ELSE "importing"
  BY DEF TypeInv, TypeOK, nextJob, redisVars
<1>2. /\ Head(plan) = plan[1] /\ 1 \in 1 .. Len(plan)
      /\ \A i \in 1 .. Len(plan') : i + 1 \in 1 .. Len(plan) /\ plan'[i] = plan[i + 1]
  BY <1>1, TailFacts
<1>3. Remaining' = Remaining
  BY RemainingNextJob
<1>4. Whole'
  BY <1>1, <1>2, <1>3 DEF Whole
<1> QED BY <1>1, <1>3, <1>4 DEF KeepsOne

\* The slots in hand get their new owner.
LEMMA WholeTaken ==
  ASSUME TypeInv, MoveParts, Whole, KeepsOne, UNCHANGED << plan, job >>,
         \/ pc = "addslots" /\ pc' = "dispatch"
         \/ pc = "nodeTo" /\ pc' = "nodeFrom",
         \A s \in Slot : claim'[s] = IF s \in job.slots THEN job.to ELSE claim[s]
  PROVE  Whole' /\ KeepsOne'
<1>1. Pending = job.slots /\ Pending' = {} /\ job.to \in Master /\ None \notin Master
  BY Typed DEF Pending
<1>2. Remaining = job.slots \cup MovedSlots(plan) /\ Remaining' = MovedSlots(plan)
  BY <1>1 DEF Remaining
<1>3. job.slots \cap MovedSlots(plan) = {}
  BY <1>1, PendingApart
<1>4. Whole'
  BY <1>1, <1>2 DEF Whole
<1>5. KeepsOne'
  <2> SUFFICES ASSUME NEW n \in Master, NEW r \in Slot, claim'[r] = n
               PROVE  \E s \in Slot \ Remaining' : claim'[s] = n
    BY DEF KeepsOne
  <2>1. CASE r \in job.slots
    BY <1>2, <1>3, <2>1
  <2>2. CASE r \notin job.slots
    <3>1. PICK s \in Slot \ Remaining : claim[s] = n
      BY <2>2 DEF KeepsOne
    <3> QED BY <1>2, <3>1
  <2> QED BY <2>1, <2>2
<1> QED BY <1>4, <1>5

\* A step that assigns nothing and keeps what is to be moved.
LEMMA WholeKept ==
  ASSUME Whole, KeepsOne, UNCHANGED << plan, claim >>, Remaining' = Remaining,
         \/ pc' = pc
         \/ pc = "idle" /\ pc' = "join"
         \/ pc \in MovePC /\ pc' \notin {"idle", "join"}
  PROVE  Whole' /\ KeepsOne'
<1>1. Whole'
  BY DEF Whole, MovePC
<1> QED BY <1>1 DEF KeepsOne

LEMMA WholeNext ==
  ASSUME TypeInv, OwnInv, MoveInv, WholeInv, [Next]_vars
  PROVE  /\ WholeInv'
         /\ MovesOnly' => \A s \in Slot \ Remaining : claim'[s] = claim[s]
<1> SUFFICES ASSUME MovesOnly'
             PROVE  /\ Whole' /\ KeepsOne'
                    /\ \A s \in Slot \ Remaining : claim'[s] = claim[s]
  BY DEF WholeInv
<1>0. MovesOnly /\ MoveParts /\ TargetTook /\ Whole /\ KeepsOne
  BY HitGrows DEF MovesOnly, MoveInv, OwnInv, CommandsArrive, WholeInv
<1>t. ASSUME UNCHANGED << plan, job >>,
             \/ pc = "addslots" /\ pc' = "dispatch"
             \/ pc = "nodeTo" /\ pc' = "nodeFrom",
             \A s \in Slot : claim'[s] = IF s \in job.slots THEN job.to ELSE claim[s]
      PROVE  /\ Whole' /\ KeepsOne'
             /\ \A s \in Slot \ Remaining : claim'[s] = claim[s]
  <2>1. job.slots \subseteq Remaining
    BY <1>t DEF Remaining, Pending
  <2> QED BY <1>0, <1>t, <2>1, WholeTaken
<1>1. CASE \/ waitForClusterJoin \/ noClusterOperation \/ allJobsDone
           \/ MigrateKeysInSlot \/ MigrateKeysInSlotError
  <2>1. Return /\ claim' = claim
    BY <1>1 DEF waitForClusterJoin, noClusterOperation, allJobsDone, MigrateKeysInSlot,
       MigrateKeysInSlotError, redisVars
  <2>2. pc \in {"join", "migrate"} \/ (pc = "dispatch" /\ plan = << >>)
    BY <1>1 DEF waitForClusterJoin, noClusterOperation, allJobsDone, MigrateKeysInSlot,
       MigrateKeysInSlotError
  <2> QED BY <1>0, <2>1, <2>2, WholeReturn
<1>2. CASE syncCluster
  <2>1. claim' = claim
    BY <1>2 DEF syncCluster, redisVars
  <2> QED BY <1>0, <1>2, <2>1, WholeSync
<1>3. CASE nextJob
  <2>1. claim' = claim
    BY <1>3 DEF nextJob, redisVars
  <2> QED BY <1>0, <1>3, <2>1, WholeNextJob
<1>4. CASE AddSlots
  <2>1. /\ ClusterAddSlotsRange(job.to, job.slots) /\ pc' = "dispatch"
        /\ UNCHANGED << plan, job >> /\ pc = "addslots"
    BY <1>0, <1>4, MoveAddSlots DEF AddSlots
  <2>2. \A s \in Slot : claim'[s] = IF s \in job.slots THEN job.to ELSE claim[s]
    BY <2>1, Typed, AddSlotsEffect
  <2> QED BY <1>t, <2>1, <2>2
<1>5. CASE SetSlotNodeTarget
  BY <1>0, <1>5, <1>t, MoveNodeTarget
<1>6. CASE SetSlotNodeSource
  <2>1. pc = "nodeFrom" /\ pc' = "dispatch" /\ UNCHANGED << plan, claim >>
    BY <1>0, <1>6, MoveNodeSource
  <2>2. Remaining' = Remaining
    BY <2>1 DEF Remaining, Pending
  <2> QED BY <1>0, <2>1, <2>2, WholeKept DEF MovePC
<1>7. CASE SetSlotImportingTarget \/ SetSlotMigratingSource \/ MigrateKeysInSlotDone
  <2>1. /\ UNCHANGED << plan, job, claim >>
        /\ \/ pc = "importing" /\ pc' = "migrating"
           \/ pc = "migrating" /\ pc' = "migrate"
           \/ pc = "migrate" /\ pc' = "nodeTo"
    BY <1>7, SentMoves DEF SetSlotImportingTarget, SetSlotMigratingSource,
       MigrateKeysInSlotDone, SetSlotImporting, SetSlotMigrating, Goto, redisVars
  <2>2. Remaining' = Remaining
    BY <2>1 DEF Remaining, Pending
  <2> QED BY <1>0, <2>1, <2>2, WholeKept DEF MovePC
<1>8. CASE GetClusterInfos
  <2>1. UNCHANGED << plan, job, claim >> /\ pc = "idle" /\ pc' = "join"
    BY <1>8 DEF GetClusterInfos, redisVars
  <2>2. Remaining' = Remaining
    BY <2>1 DEF Remaining, Pending
  <2> QED BY <1>0, <2>1, <2>2, WholeKept
<1>9. CASE GossipStep \/ ClientStep \/ UNCHANGED vars
  <2>1. UNCHANGED << plan, job, claim, pc >>
    BY <1>9 DEF GossipStep, ClientStep, Gossip, ClientSet, vars, redisVars, opVars
  <2>2. Remaining' = Remaining
    BY <2>1 DEF Remaining, Pending
  <2> QED BY <1>0, <2>1, <2>2, WholeKept
<1>10. CASE Crash
  BY <1>10 DEF Crash, Fault, MovesOnly
<1> QED
  BY <1>1, <1>2, <1>3, <1>4, <1>5, <1>6, <1>7, <1>8, <1>9, <1>10 DEF Next, Operator

\* In a cluster that starts with all of its slots assigned, or with none, and as
\* long as only GETKEYSINSLOT and MIGRATE fail, no step takes the last slot of a master: what a
\* repeated RebalancedCluster plans after a failure, too, leaves every master a
\* slot.
THEOREM RebalanceEmptiesNobody == ASSUME SlotsWhole PROVE Spec => NoMasterEmptied
<1> DEFINE NotEmptied ==
      hit' \subseteq {"migrate"} =>
        \A n \in Master : (\E s \in Slot : claim[s] = n) => (\E s \in Slot : claim'[s] = n)
<1>1. Init => WholeInv
  BY WholeInit
<1>2. TypeInv /\ OwnInv /\ MoveInv /\ WholeInv /\ [Next]_vars => WholeInv'
  BY WholeNext
<1>3. TypeInv /\ OwnInv /\ MoveInv /\ WholeInv /\ [Next]_vars => NotEmptied
  <2> SUFFICES ASSUME TypeInv, OwnInv, MoveInv, WholeInv, [Next]_vars, MovesOnly',
                      NEW n \in Master, NEW r \in Slot, claim[r] = n
               PROVE  \E s \in Slot : claim'[s] = n
    BY DEF MovesOnly
  <2>1. KeepsOne
    BY HitGrows DEF WholeInv, MovesOnly
  <2> QED BY <2>1, WholeNext DEF KeepsOne
<1>4. TypeInv /\ OwnInv /\ MoveInv /\ WholeInv /\ [Next]_vars => [NotEmptied]_vars
  BY <1>3
<1>5. Spec => [][NotEmptied]_vars
  BY <1>1, <1>2, <1>4, TypeInvariance, OwnInvariance, MoveInvariance, PTL DEF Spec
<1> QED BY <1>5 DEF NoMasterEmptied
=============================================================================
