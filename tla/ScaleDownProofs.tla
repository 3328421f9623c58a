--------------------------- MODULE ScaleDownProofs ---------------------------
(***************************************************************************)
(* Proofs about ScaleDown, for any number of StatefulSets, slots and keys, *)
(* any initial distribution of the slots and any planner that satisfies    *)
(* PlanOK.                                                                 *)
(***************************************************************************)
EXTENDS ScaleDown, RedisClusterProofs, FiniteSetTheorems

\* No slot is lost when the scale down starts.
SlotsAssigned == InitOwners \subseteq [Slot -> Master]

FaultsTyped ==
  /\ faults \in 0 .. MaxFaults /\ hit \subseteq Faults
  /\ twice \in BOOLEAN /\ left \subseteq Key

\* Where the reconcile has its job in hand.
JobPC == {"importing", "migrating", "migrate", "nodeTo", "nodeFrom", "nodeOthers"}

(***************************************************************************)
(* Type correctness, whatever the faults.                                  *)
(***************************************************************************)
TypeInv ==
  /\ TypeOK
  /\ pc \in JobPC => job.from \in Master
  /\ pc \in {"forget", "delete"} => idx >= MasterSize

-----------------------------------------------------------------------------
(***************************************************************************)
(* Lemmas about the helpers.                                               *)
(***************************************************************************)

\* The number of current masters is a number of StatefulSets.
LEMMA CurMastersCount ==
  Cardinality(CurMasters) \in 0 .. NumSts
<1>1. IsFiniteSet(Master) /\ Cardinality(Master) = NumSts
  BY FS_Interval, ConstantsAssumption DEF Master
<1>2. CurMasters \subseteq Master
  BY DEF CurMasters
<1>3. IsFiniteSet(CurMasters) /\ Cardinality(CurMasters) <= NumSts
  BY <1>1, <1>2, FS_Subset
<1>4. QED
  BY <1>3, FS_CardinalityType, ConstantsAssumption

\* Every plan is a set of jobs whose source, if any, is another master.
LEMMA PlanFacts ==
  ASSUME NEW slots \in [Master -> SUBSET Slot], NEW p \in Plans(slots)
  PROVE  PlanOK(p, slots)
BY ScaleDownAssumption

-----------------------------------------------------------------------------
(***************************************************************************)
(* Type correctness.                                                       *)
(***************************************************************************)

LEMMA TypeInit == Init => TypeInv
<1> SUFFICES ASSUME Init PROVE TypeInv
  OBVIOUS
<1>1. RedisTypeOK
  BY ConstantsAssumption, MasterFacts DEF Init, RedisInit, RedisTypeOK
<1>2. NoJob \in Job
  BY MasterFacts DEF NoJob, Job
<1>3. twice \in BOOLEAN /\ left \subseteq Key
  BY DEF Init
<1>4. /\ faults \in 0 .. MaxFaults /\ hit \subseteq Faults
      /\ cnt \in 0 .. NumSts /\ idx \in -1 .. NumSts - 1
  BY ConstantsAssumption, ScaleDownAssumption DEF Init
<1> QED
  BY <1>1, <1>2, <1>3, <1>4 DEF Init, TypeInv, TypeOK, PC, JobPC

\* Dropping everything in memory is well typed.
LEMMA ReturnTypes ==
  ASSUME Return
  PROVE  /\ pc' = "idle"
         /\ bom' \in [Master -> SUBSET Slot]
         /\ plan' \subseteq Job
         /\ job' \in Job
         /\ scan' \subseteq Slot
         /\ rest' \subseteq Master
         /\ cnt' \in 0 .. NumSts
         /\ idx' \in -1 .. NumSts - 1
<1>1. NoJob \in Job
  BY MasterFacts DEF NoJob, Job
<1> QED
  BY <1>1, ConstantsAssumption DEF Return, Forgotten

\* A fault is counted within its bound.
LEMMA FaultTypes ==
  ASSUME FaultsTyped, NEW kind, Fault(kind)
  PROVE  FaultsTyped'
BY ScaleDownAssumption DEF Fault, CountFault, FaultsTyped

\* Every step keeps the types.  The steps that only return, or only move from
\* one request to the next, follow from ReturnTypes and the definitions.
LEMMA TypeNext == TypeInv /\ [Next]_vars => TypeInv'
<1> SUFFICES ASSUME TypeInv, [Next]_vars PROVE TypeInv'
  OBVIOUS
<1> USE DEF PC, JobPC, FaultsTyped, faultVars
<1>0. /\ job.to \in Master /\ job.to \in New /\ job.slots \subseteq Slot
      /\ FaultsTyped
      /\ RedisTypeOK
  BY MasterFacts DEF TypeInv, TypeOK, Job
<1>1. CASE UNCHANGED vars
  BY <1>1 DEF vars, redisVars, opVars, TypeInv, TypeOK, RedisTypeOK
<1>2. CASE GetClusterInfos
  BY <1>2 DEF GetClusterInfos, Claimed, redisVars, TypeInv, TypeOK, RedisTypeOK
<1>3. CASE Return /\ UNCHANGED << redisVars, faultVars >>
  BY <1>3, ReturnTypes DEF redisVars, TypeInv, TypeOK, RedisTypeOK
<1>4. CASE syncCluster
  <2>1. PICK p \in Plans(bom) : plan' = p
    BY <1>4 DEF syncCluster
  <2>2. plan' \subseteq Job
    <3>1. PlanOK(p, bom)
      BY PlanFacts DEF TypeInv, TypeOK
    <3>2. \A j \in p : j \in Job
      BY <3>1 DEF PlanOK
    <3> QED BY <2>1, <3>2
  <2>3. cnt' \in 0 .. NumSts /\ idx' \in -1 .. NumSts - 1
    BY <1>4, CurMastersCount, ConstantsAssumption DEF syncCluster
  <2> QED
    BY <1>4, <2>2, <2>3 DEF syncCluster, redisVars, TypeInv, TypeOK, RedisTypeOK
<1>5. CASE nextMigrationInfo
  BY <1>5, MasterFacts DEF nextMigrationInfo, redisVars, TypeInv, TypeOK, RedisTypeOK, Job
<1>6. CASE dispatchDone
  BY <1>6 DEF dispatchDone, redisVars, TypeInv, TypeOK, RedisTypeOK
<1>7. CASE AddSlots
  <2>1. PICK executed \in BOOLEAN, lost \in BOOLEAN :
          /\ IF lost THEN Fault("redis")
             ELSE UNCHANGED faultVars /\ executed = AcceptAddSlots(job.to, AddSlotsRange)
          /\ IF executed THEN ClusterAddSlotsRange(job.to, AddSlotsRange)
             ELSE UNCHANGED redisVars
          /\ IF executed /\ ~lost
               THEN /\ bom' = [bom EXCEPT ![job.to] = @ \cup job.slots]
                    /\ pc' = "dispatch"
                    /\ UNCHANGED << plan, job, scan, rest, cnt, idx >>
               ELSE Return
    BY <1>7 DEF AddSlots
  <2>2. FaultsTyped'
    BY <1>0, <2>1, FaultTypes
  <2>3. RedisTypeOK'
    BY <1>0, <2>1, CommandTypes DEF redisVars, RedisTypeOK
  <2> QED
    BY <1>0, <2>1, <2>2, <2>3, ReturnTypes DEF TypeInv, TypeOK
<1>8. CASE SetSlotsImporting
  <2>1. PICK D \in SUBSET job.slots, lost \in BOOLEAN :
          /\ Sent(D, lost)
          /\ SetSlotImporting(job.to, D, job.from)
          /\ IF lost \/ AcceptImporting(job.to, D) # D
               THEN Return
               ELSE pc' = "migrating" /\ UNCHANGED << bom, plan, job, scan, rest, cnt, idx >>
    BY <1>8 DEF SetSlotsImporting
  <2>2. job.from \in Master
    BY <1>8 DEF SetSlotsImporting, TypeInv
  <2>3. RedisTypeOK'
    BY <1>0, <2>1, <2>2, CommandTypes
  <2>4. FaultsTyped'
    BY <1>0, <2>1, FaultTypes DEF Sent
  <2> QED
    BY <2>1, <2>2, <2>3, <2>4, ReturnTypes DEF TypeInv, TypeOK
<1>9. CASE SetSlotsMigrating
  <2>1. PICK D \in SUBSET job.slots, lost \in BOOLEAN :
          /\ Sent(D, lost)
          /\ SetSlotMigrating(job.from, D, job.to)
          /\ IF lost \/ AcceptMigrating(job.from, D) # D
               THEN Return
               ELSE /\ pc' = "migrate"
                    /\ scan' = job.slots
                    /\ UNCHANGED << bom, plan, job, rest, cnt, idx >>
    BY <1>9 DEF SetSlotsMigrating
  <2>2. job.from \in Master
    BY <1>9 DEF SetSlotsMigrating, TypeInv
  <2>3. RedisTypeOK'
    BY <1>0, <2>1, <2>2, CommandTypes
  <2>4. FaultsTyped'
    BY <1>0, <2>1, FaultTypes DEF Sent
  <2> QED
    BY <1>0, <2>1, <2>2, <2>3, <2>4, ReturnTypes DEF TypeInv, TypeOK
<1>10. CASE MigrateKeys
  <2>1. KeysIn(job.from, scan) \subseteq Key
    BY DEF KeysIn, KeysOf
  <2>2. /\ RedisTypeOK' /\ scan' \subseteq Slot /\ pc' \in {"migrate", "nodeTo"} /\ job' = job
        /\ UNCHANGED << faults, hit, twice, bom, plan, rest, cnt, idx >>
        /\ left' \subseteq Key
    BY <1>10, <2>1 DEF MigrateKeys, GiveUp, redisVars, TypeInv, TypeOK, RedisTypeOK
  <2> QED
    BY <1>10, <2>2 DEF MigrateKeys, TypeInv, TypeOK
<1>11. CASE MigrateKeysDone
  BY <1>11 DEF MigrateKeysDone, redisVars, TypeInv, TypeOK, RedisTypeOK
<1>12. CASE MigrateKeysError
  <2>1. KeysIn(job.from, scan) \subseteq Key
    BY DEF KeysIn, KeysOf
  <2>2. faults' \in 0 .. MaxFaults /\ hit' \subseteq Faults
    BY <1>0, <1>12, ScaleDownAssumption DEF MigrateKeysError, CountFault
  <2> QED
    BY <1>12, <2>1, <2>2 DEF MigrateKeysError, GiveUp, redisVars, TypeInv, TypeOK, RedisTypeOK
<1>13. CASE SetSlotsNodeTo
  <2>1. PICK D \in SUBSET job.slots, lost \in BOOLEAN :
          Sent(D, lost) /\ SetSlotNode(job.to, D, job.to)
    BY <1>13 DEF SetSlotsNodeTo
  <2>2. RedisTypeOK' /\ FaultsTyped'
    BY <1>0, <2>1, CommandTypes, FaultTypes DEF Sent
  <2> QED
    BY <1>13, <2>2 DEF SetSlotsNodeTo, TypeInv, TypeOK
<1>14. CASE SetSlotsNodeFrom
  <2>1. PICK D \in SUBSET job.slots, lost \in BOOLEAN :
          Sent(D, lost) /\ SetSlotNode(job.from, D, job.to)
    BY <1>14 DEF SetSlotsNodeFrom
  <2>2. job.from \in Master
    BY <1>14 DEF SetSlotsNodeFrom, TypeInv
  <2>3. RedisTypeOK' /\ FaultsTyped'
    BY <1>0, <2>1, <2>2, CommandTypes, FaultTypes DEF Sent
  <2>4. bom' \in [Master -> SUBSET Slot] /\ rest' \subseteq Master
    BY <1>14, <2>2 DEF SetSlotsNodeFrom, TypeInv, TypeOK
  <2> QED
    BY <1>14, <2>2, <2>3, <2>4 DEF SetSlotsNodeFrom, TypeInv, TypeOK
<1>15. CASE SetSlotsNodeOthers
  <2>1. PICK m \in rest, D \in SUBSET job.slots, lost \in BOOLEAN :
          Sent(D, lost) /\ SetSlotNode(m, D, job.to) /\ rest' = rest \ {m}
    BY <1>15 DEF SetSlotsNodeOthers
  <2>2. m \in Master
    BY DEF TypeInv, TypeOK
  <2>3. RedisTypeOK' /\ FaultsTyped'
    BY <1>0, <2>1, <2>2, CommandTypes, FaultTypes DEF Sent
  <2> QED
    BY <1>15, <2>1, <2>3 DEF SetSlotsNodeOthers, TypeInv, TypeOK
<1>16. CASE nodeOthersDone
  <2>1. NoJob \in Job
    BY MasterFacts DEF NoJob, Job
  <2>2. bom' \in [Master -> SUBSET Slot]
    BY <1>0, <1>16 DEF nodeOthersDone, TypeInv, TypeOK
  <2> QED
    BY <1>16, <2>1, <2>2 DEF nodeOthersDone, redisVars, TypeInv, TypeOK, RedisTypeOK
<1>17. CASE scalingDownRefused
  BY <1>0, <1>17, ReturnTypes, FaultTypes
     DEF scalingDownRefused, redisVars, TypeInv, TypeOK, RedisTypeOK
<1>18. CASE scalingDownNode
  BY <1>18 DEF scalingDownNode, redisVars, TypeInv, TypeOK, RedisTypeOK
<1>19. CASE ForgetNode
  <2>1. PICK N \in SUBSET Connected : ClusterForget(N, idx)
    BY <1>19 DEF ForgetNode
  <2>2. RedisTypeOK'
    BY <1>0, <2>1, ForgetTypes
  <2> QED
    BY <1>0, <1>19, <2>2, ReturnTypes, FaultTypes DEF ForgetNode, TypeInv, TypeOK
<1>20. CASE DeleteStatefulSet
  <2>1. RedisTypeOK'
    BY <1>0, <1>20 DEF DeleteStatefulSet, RedisTypeOK
  <2>2. FaultsTyped'
    BY <1>0, <1>20, FaultTypes DEF DeleteStatefulSet
  <2>3. idx' \in -1 .. NumSts - 1
    BY <1>20, ConstantsAssumption DEF DeleteStatefulSet, TypeInv, TypeOK
  <2> QED
    BY <1>20, <2>1, <2>2, <2>3 DEF DeleteStatefulSet, TypeInv, TypeOK
<1>21. CASE Crash
  BY <1>0, <1>21, ReturnTypes, FaultTypes
     DEF Crash, redisVars, TypeInv, TypeOK, RedisTypeOK
<1>22. CASE GossipStep
  BY <1>0, <1>22, GossipTypes DEF GossipStep, opVars, TypeInv, TypeOK
<1>23. CASE ClientStep
  BY <1>0, <1>23, ClientTypes DEF ClientStep, opVars, TypeInv, TypeOK
<1> QED
  BY <1>1, <1>2, <1>3, <1>4, <1>5, <1>6, <1>7, <1>8, <1>9, <1>10, <1>11, <1>12,
     <1>13, <1>14, <1>15, <1>16, <1>17, <1>18, <1>19, <1>20, <1>21, <1>22, <1>23
     DEF Next, Operator, waitForClusterJoin, noClusterOperation, scalingDownDone

\* The slot tables, the keys and the operator's copy of them stay well formed,
\* whatever fails: masters are numbered by StatefulSet, jobs go to masters that
\* are kept, and the walk of scalingDown never leaves the existing numbers.
THEOREM TypeCorrect == Spec => []TypeOK
<1>1. TypeInv => TypeOK
  BY DEF TypeInv
<1> QED
  BY <1>1, TypeInit, TypeNext, PTL DEF Spec

-----------------------------------------------------------------------------
(***************************************************************************)
(* What the commands do, slot by slot.                                     *)
(***************************************************************************)

\* The slot tables are functions into View.
LEMMA Tables ==
  ASSUME TypeInv
  PROVE  /\ owner \in [Master -> [Slot -> View]]
         /\ importing \in [Master -> [Slot -> View]]
         /\ migrating \in [Master -> [Slot -> View]]
         /\ claim \in [Slot -> View]
         /\ keys \in [Master -> SUBSET Key]
         /\ alive \subseteq Master
         /\ None \in View
         /\ job.to \in Master /\ job.to \in View /\ job.to \in New
         /\ job.slots \subseteq Slot
         /\ pc \in JobPC => job.from \in Master /\ job.from \in View
BY MasterFacts DEF TypeInv, TypeOK, RedisTypeOK, View, Job

LEMMA ImportingEffect ==
  ASSUME TypeInv, NEW n \in Master, NEW D, NEW id \in View,
         SetSlotImporting(n, D, id)
  PROVE  \A m \in Master, s \in Slot :
           importing'[m][s] = IF m = n /\ s \in AcceptImporting(n, D)
                                THEN id ELSE importing[m][s]
BY SetSlotImportingEffect DEF TypeInv, TypeOK

LEMMA MigratingEffect ==
  ASSUME TypeInv, NEW n \in Master, NEW D, NEW id \in View,
         SetSlotMigrating(n, D, id)
  PROVE  \A m \in Master, s \in Slot :
           migrating'[m][s] = IF m = n /\ s \in AcceptMigrating(n, D)
                                THEN id ELSE migrating[m][s]
BY SetSlotMigratingEffect DEF TypeInv, TypeOK

\* SETSLOT NODE: only an accepted slot changes, and its migrating mark is kept
\* or dropped.
LEMMA NodeEffect ==
  ASSUME TypeInv, NEW n \in Master, NEW D, NEW id \in View, SetSlotNode(n, D, id)
  PROVE  /\ \A m \in Master, s \in Slot :
              owner'[m][s] = IF m = n /\ s \in AcceptNode(n, D, id)
                               THEN id ELSE owner[m][s]
         /\ \A m \in Master, s \in Slot :
              \/ migrating'[m][s] = migrating[m][s]
              \/ m = n /\ s \in AcceptNode(n, D, id) /\ migrating'[m][s] = None
         /\ \A m \in Master, s \in Slot :
              importing'[m][s] = IF id = n /\ m = n /\ s \in AcceptNode(n, D, id)
                                   THEN None ELSE importing[m][s]
         /\ \A s \in Slot :
              claim'[s] = IF s \in AcceptNode(n, D, id) /\ id = n THEN n ELSE claim[s]
BY SetSlotNodeEffect DEF TypeInv, TypeOK

LEMMA GossipEffect ==
  ASSUME TypeInv, NEW n \in Master, NEW s \in Slot, Gossip(n, s)
  PROVE  /\ \A m \in Master, r \in Slot :
              owner'[m][r] = IF m = n /\ r = s THEN claim[s] ELSE owner[m][r]
         /\ \A m \in Master, r \in Slot :
              \/ migrating'[m][r] = migrating[m][r]
              \/ m = n /\ r = s /\ migrating'[m][r] = None
BY GossipTables DEF TypeInv, TypeOK

-----------------------------------------------------------------------------
(***************************************************************************)
(* Slots stay owned as long as no Redis command is lost, also when slots   *)
(* are lost at the start, MIGRATEs fail and nodes keep keys of slots they  *)
(* have given away.                                                        *)
(***************************************************************************)
SetSlotsArrive == "redis" \notin hit

\* The claim with the highest epoch, if any, is held by a node that exists.
ClaimsHeld ==
  \A s \in Slot : claim[s] # None => claim[s] \in alive /\ owner[claim[s]][s] = claim[s]

\* When the source is told, the destination has taken the slot.
TargetTook == pc \in {"nodeFrom", "nodeOthers"} => \A s \in job.slots : claim[s] = job.to

\* The operator knows the slots of the nodes it may delete, whose claims only
\* ever shrink.
OldKnown ==
  /\ New \subseteq alive
  /\ pc # "idle" => \A s \in Slot : claim[s] \in Old => s \in bom[claim[s]]
  /\ pc \in {"forget", "delete"} => bom[idx] = {}

OwnParts == ClaimsHeld /\ TargetTook /\ OldKnown

OwnInv == SetSlotsArrive => OwnParts

LEMMA HitGrows == ASSUME [Next]_vars PROVE hit \subseteq hit'
BY DEF Next, Operator, GetClusterInfos, waitForClusterJoin, syncCluster,
       noClusterOperation, nextMigrationInfo, dispatchDone, AddSlots,
       SetSlotsImporting, SetSlotsMigrating, MigrateKeys, MigrateKeysDone,
       MigrateKeysError, SetSlotsNodeTo, SetSlotsNodeFrom, SetSlotsNodeOthers,
       nodeOthersDone, scalingDownDone, scalingDownRefused, scalingDownNode,
       ForgetNode, DeleteStatefulSet, Crash, GossipStep, ClientStep, Sent,
       Fault, CountFault, GiveUp, vars, faultVars

\* A pipeline that cannot be lost reaches the node entirely.
LEMMA SentEntirely ==
  ASSUME SetSlotsArrive', NEW D, NEW lost \in BOOLEAN, Sent(D, lost)
  PROVE  D = job.slots /\ ~lost
BY DEF SetSlotsArrive, Sent, Fault, CountFault

LEMMA OwnInit == Init => OwnInv
<1> SUFFICES ASSUME Init PROVE OwnParts
  BY DEF OwnInv
<1>1. claim \in [Slot -> Master \cup {None}] /\ owner = [n \in Master |-> claim]
      /\ alive = Master
  BY ConstantsAssumption DEF Init, RedisInit
<1> QED
  BY <1>1, MasterFacts DEF Init, OwnParts, ClaimsHeld, TargetTook, OldKnown

LEMMA OwnNext == ASSUME TypeInv, OwnInv, [Next]_vars PROVE OwnInv'
<1> SUFFICES ASSUME SetSlotsArrive' PROVE OwnParts'
  BY DEF OwnInv
<1>0. ClaimsHeld /\ TargetTook /\ OldKnown
  BY HitGrows DEF OwnInv, OwnParts, SetSlotsArrive
<1>t. /\ None \in View /\ Master \subseteq View /\ None \notin Master
      /\ claim \in [Slot -> View] /\ alive \subseteq Master
      /\ bom \in [Master -> SUBSET Slot]
      /\ job.to \in New /\ job.to \in Master /\ job.slots \subseteq Slot
      /\ pc \in JobPC => job.from \in Master
      /\ Old \cap New = {} /\ New \subseteq Master
      /\ RedisTypeOK
  BY Tables, MasterFacts DEF TypeInv, TypeOK, View, Old
<1>q. ASSUME UNCHANGED << owner, claim, alive >>,
             \A n \in Old : pc' # "idle" => bom[n] \subseteq bom'[n],
             pc' # "idle" => pc # "idle",
             pc' \in {"nodeFrom", "nodeOthers"} =>
               pc \in {"nodeFrom", "nodeOthers"} /\ job' = job,
             pc' \in {"forget", "delete"} => bom'[idx'] = {}
      PROVE  OwnParts'
  <2>1. ClaimsHeld' /\ TargetTook'
    BY <1>0, <1>q DEF ClaimsHeld, TargetTook
  <2>2. OldKnown'
    BY <1>0, <1>q DEF OldKnown
  <2> QED BY <2>1, <2>2 DEF OwnParts
<1>r. ASSUME Return, UNCHANGED redisVars PROVE OwnParts'
  BY <1>q, <1>r DEF Return, redisVars
<1>1. CASE waitForClusterJoin \/ noClusterOperation \/ scalingDownDone
           \/ scalingDownRefused \/ Crash
  BY <1>1, <1>r DEF waitForClusterJoin, noClusterOperation, scalingDownDone,
     scalingDownRefused, Crash
<1>2. CASE GetClusterInfos
  <2>1. \A s \in Slot : claim[s] \in Old => s \in bom'[claim[s]]
    BY <1>0, <1>2, <1>t, MasterFacts DEF GetClusterInfos, ClaimsHeld, Claimed
  <2> QED BY <1>0, <1>2, <2>1 DEF GetClusterInfos, redisVars, OwnParts, ClaimsHeld,
     TargetTook, OldKnown
<1>3. CASE \/ syncCluster \/ nextMigrationInfo \/ dispatchDone \/ MigrateKeysDone
           \/ scalingDownNode
  BY <1>3, <1>q DEF syncCluster, nextMigrationInfo, dispatchDone, MigrateKeysDone,
     scalingDownNode, redisVars
<1>4. CASE SetSlotsImporting \/ SetSlotsMigrating
  BY <1>4, <1>q DEF SetSlotsImporting, SetSlotsMigrating, SetSlotImporting,
     SetSlotMigrating, Return
<1>5. CASE MigrateKeys \/ MigrateKeysError
  BY <1>5, <1>q DEF MigrateKeys, MigrateKeysError, GiveUp, redisVars
<1>6. CASE ClientStep
  BY <1>0, <1>6, <1>q DEF ClientStep, ClientSet, opVars, OldKnown
<1>7. CASE UNCHANGED vars
  BY <1>0, <1>7, <1>q DEF vars, redisVars, opVars, OldKnown
<1>8. CASE AddSlots
  <2>1. PICK executed \in BOOLEAN :
          /\ executed => AcceptAddSlots(job.to, AddSlotsRange)
          /\ IF executed THEN ClusterAddSlotsRange(job.to, AddSlotsRange)
             ELSE UNCHANGED redisVars
          /\ IF executed
               THEN /\ bom' = [bom EXCEPT ![job.to] = @ \cup job.slots]
                    /\ pc' = "dispatch" /\ pc = "addslots"
               ELSE Return
    BY <1>8 DEF AddSlots, Fault, CountFault, SetSlotsArrive
  <2>2. CASE ~executed
    BY <1>r, <2>1, <2>2
  <2>3. CASE executed
    <3>1. /\ \A m \in Master, s \in Slot :
               owner'[m][s] = IF m = job.to /\ s \in AddSlotsRange THEN job.to ELSE owner[m][s]
          /\ \A s \in Slot : claim'[s] = IF s \in AddSlotsRange THEN job.to ELSE claim[s]
          /\ alive' = alive
      BY <1>t, <2>1, <2>3, AddSlotsEffect DEF ClusterAddSlotsRange
    <3>2. ClaimsHeld'
      BY <1>0, <1>t, <3>1 DEF ClaimsHeld, OldKnown, View
    <3>3. OldKnown'
      <4>1. \A n \in Master : bom[n] \subseteq bom'[n]
        BY <1>t, <2>1, <2>3
      <4>2. \A s \in Slot : claim'[s] \in Old => claim'[s] = claim[s] /\ claim[s] \in Master
        BY <1>t, <3>1 DEF Old
      <4> QED BY <1>0, <2>1, <2>3, <3>1, <4>1, <4>2 DEF OldKnown
    <3> QED BY <2>1, <2>3, <3>2, <3>3 DEF OwnParts, TargetTook
  <2> QED BY <2>2, <2>3
<1>9. CASE SetSlotsNodeTo
  <2>1. /\ SetSlotNode(job.to, job.slots, job.to)
        /\ pc = "nodeTo" /\ pc' = "nodeFrom" /\ UNCHANGED << job, bom, idx >>
    BY <1>9, SentEntirely DEF SetSlotsNodeTo
  <2>2. AcceptNode(job.to, job.slots, job.to) = job.slots
    BY DEF AcceptNode
  <2>3. /\ \A m \in Master, s \in Slot :
             owner'[m][s] = IF m = job.to /\ s \in job.slots THEN job.to ELSE owner[m][s]
        /\ \A s \in Slot : claim'[s] = IF s \in job.slots THEN job.to ELSE claim[s]
        /\ alive' = alive
    <3>1. alive' = alive
      BY <2>1 DEF SetSlotNode
    <3> QED BY <1>t, <2>1, <2>2, <3>1, SetSlotNodeEffect
  <2>4. ClaimsHeld'
    BY <1>0, <1>t, <2>3 DEF ClaimsHeld, OldKnown, View
  <2>5. TargetTook'
    BY <1>t, <2>1, <2>3 DEF TargetTook
  <2>6. OldKnown'
    BY <1>0, <1>t, <2>1, <2>3 DEF OldKnown
  <2> QED BY <2>4, <2>5, <2>6 DEF OwnParts
<1>10. ASSUME NEW n \in Master, SetSlotNode(n, job.slots, job.to),
              pc \in {"nodeFrom", "nodeOthers"}, pc' = "nodeOthers", job' = job,
              \A m \in Master : bom'[m] = bom[m] \/ bom'[m] = bom[m] \ job.slots
       PROVE  OwnParts'
  <2>1. /\ \A m \in Master, s \in Slot :
             owner'[m][s] = IF m = n /\ s \in AcceptNode(n, job.slots, job.to)
                              THEN job.to ELSE owner[m][s]
        /\ \A s \in Slot :
             claim'[s] = IF s \in AcceptNode(n, job.slots, job.to) /\ job.to = n
                           THEN n ELSE claim[s]
        /\ alive' = alive
    BY <1>10, <1>t, SetSlotNodeEffect DEF SetSlotNode
  <2>2. \A s \in job.slots : claim[s] = job.to
    BY <1>0, <1>10 DEF TargetTook
  <2>3. \A s \in AcceptNode(n, job.slots, job.to) : claim[s] = job.to
    BY <2>2 DEF AcceptNode
  <2>4. \A s \in Slot : claim'[s] = claim[s]
    BY <2>1, <2>3
  <2>5. ClaimsHeld'
    BY <1>0, <1>t, <2>1, <2>3, <2>4 DEF ClaimsHeld, View
  <2>6. TargetTook'
    BY <1>10, <1>t, <2>2, <2>4 DEF TargetTook
  <2>7. OldKnown'
    <3>1. ASSUME NEW s \in Slot, claim'[s] \in Old PROVE s \in bom'[claim'[s]]
      <4>1. claim[s] \in Old /\ claim[s] \in Master /\ s \in bom[claim[s]]
        BY <1>0, <1>10, <2>4, <3>1 DEF OldKnown, Old
      <4>2. s \notin job.slots
        BY <1>t, <2>2, <4>1
      <4> QED BY <1>10, <2>4, <4>1, <4>2
    <3> QED BY <1>0, <1>10, <2>1, <3>1 DEF OldKnown
  <2> QED BY <2>5, <2>6, <2>7 DEF OwnParts
<1>11. CASE SetSlotsNodeFrom
  <2>1. /\ SetSlotNode(job.from, job.slots, job.to) /\ pc = "nodeFrom" /\ pc' = "nodeOthers"
        /\ job' = job /\ bom' = [bom EXCEPT ![job.from] = @ \ job.slots]
    BY <1>11, SentEntirely DEF SetSlotsNodeFrom
  <2> QED BY <1>10, <1>t, <2>1 DEF JobPC
<1>12. CASE SetSlotsNodeOthers
  <2>1. PICK m \in rest : SetSlotNode(m, job.slots, job.to)
    BY <1>12, SentEntirely DEF SetSlotsNodeOthers
  <2>2. m \in Master /\ pc = "nodeOthers" /\ pc' = pc /\ job' = job /\ bom' = bom
    BY <1>12 DEF SetSlotsNodeOthers, TypeInv, TypeOK
  <2> QED BY <1>10, <2>1, <2>2
<1>13. CASE nodeOthersDone
  <2>1. /\ UNCHANGED redisVars /\ pc = "nodeOthers" /\ pc' = "dispatch"
        /\ \A n \in Old : bom[n] \subseteq bom'[n]
    BY <1>13, <1>t, MasterFacts DEF nodeOthersDone
  <2> QED BY <1>q, <2>1 DEF redisVars
<1>14. ASSUME pc \in {"forget", "delete"}
       PROVE  /\ idx \in Old /\ idx \in Master /\ bom[idx] = {}
              /\ \A s \in Slot : claim[s] # idx
  <2>1. idx \in Old /\ idx \in Master
    BY <1>14, ConstantsAssumption DEF TypeInv, TypeOK, Old, New, Master
  <2> QED BY <1>0, <1>14, <2>1 DEF OldKnown
<1>15. CASE ForgetNode
  <2>1. /\ ClusterForget(Connected, idx) /\ pc = "forget" /\ pc' = "delete"
        /\ UNCHANGED << bom, job, idx >>
    BY <1>15 DEF ForgetNode, Fault, CountFault, SetSlotsArrive
  <2>2. /\ \A n \in Master, s \in Slot :
             owner'[n][s] = owner[n][s] \/ owner[n][s] = idx
        /\ UNCHANGED << alive, claim >>
    BY <2>1 DEF ClusterForget
  <2>3. ClaimsHeld'
    BY <1>0, <1>14, <1>t, <2>1, <2>2 DEF ClaimsHeld
  <2> QED BY <1>0, <2>1, <2>2, <2>3 DEF OwnParts, TargetTook, OldKnown
<1>16. CASE DeleteStatefulSet
  <2>1. /\ alive' = alive \/ alive' = alive \ {idx}
        /\ UNCHANGED << owner, claim, bom, job >> /\ pc = "delete" /\ pc' = "scalingDown"
    BY <1>16 DEF DeleteStatefulSet
  <2>2. ClaimsHeld'
    BY <1>0, <1>14, <2>1 DEF ClaimsHeld
  <2>3. OldKnown'
    BY <1>0, <1>14, <1>t, <2>1 DEF OldKnown
  <2> QED BY <2>1, <2>2, <2>3 DEF OwnParts, TargetTook
<1>17. CASE GossipStep
  <2>1. PICK n \in Master, s \in Slot : Gossip(n, s)
    BY <1>17 DEF GossipStep
  <2>2. /\ \A m \in Master, r \in Slot :
             owner'[m][r] = IF m = n /\ r = s THEN claim[s] ELSE owner[m][r]
        /\ UNCHANGED << alive, claim >>
    <3>1. UNCHANGED << alive, claim >>
      BY <2>1 DEF Gossip
    <3> QED BY <1>t, <2>1, <3>1, GossipTables
  <2>3. claim[s] # n
    BY <1>0, <1>t, <2>1 DEF Gossip, ClaimsHeld
  <2>4. ClaimsHeld'
    BY <1>0, <1>t, <2>2, <2>3 DEF ClaimsHeld, View
  <2>5. TargetTook' /\ OldKnown'
    BY <1>0, <1>17, <2>2 DEF GossipStep, opVars, TargetTook, OldKnown
  <2> QED BY <2>4, <2>5 DEF OwnParts
<1> QED
  BY <1>1, <1>2, <1>3, <1>4, <1>5, <1>6, <1>7, <1>8, <1>9, <1>11, <1>12, <1>13, <1>15,
     <1>16, <1>17 DEF Next, Operator

\* As long as no SETSLOT is lost, a slot that has been claimed keeps a claimant that
\* exists, however often the operator crashes, Kubernetes refuses requests and
\* MIGRATEs fail, and also when slots are lost at the start: the order of the two
\* SETSLOT NODE in DispatchSlotToNewMasters, and the check of scalingDown that the
\* node has no slots, are enough.
THEOREM ClaimedSlotStaysOwned == Spec => []SlotStaysOwned
<1>1. TypeInv /\ OwnInv => SlotStaysOwned
  BY DEF OwnInv, OwnParts, ClaimsHeld, SetSlotsArrive, SlotStaysOwned
<1> QED
  BY <1>1, TypeInit, TypeNext, OwnInit, OwnNext, PTL DEF Spec

\* A slot that has been claimed never loses its last claim.
AllClaimed == \A s \in Slot : claim[s] # None

LEMMA AllClaimedNext == ASSUME TypeInv, AllClaimed, [Next]_vars PROVE AllClaimed'
<1>1. /\ None \notin Master /\ job.to \in Master /\ RedisTypeOK /\ claim \in [Slot -> View]
      /\ rest \subseteq Master
  BY Tables, MasterFacts DEF TypeInv, TypeOK, View
<1>2. \A n \in Master : \A D :
        SetSlotNode(n, D, job.to) \/ ClusterAddSlotsRange(n, D) => AllClaimed'
  BY <1>1 DEF SetSlotNode, ClusterAddSlotsRange, AllClaimed
<1>3. SetSlotsNodeTo \/ AddSlots => AllClaimed'
  BY <1>1, <1>2 DEF SetSlotsNodeTo, AddSlots, redisVars, AllClaimed
<1>4. SetSlotsNodeFrom => AllClaimed'
  <2> SUFFICES ASSUME SetSlotsNodeFrom PROVE AllClaimed'
    OBVIOUS
  <2>1. job.from \in Master
    BY Tables DEF SetSlotsNodeFrom, JobPC
  <2> QED BY <1>2, <2>1 DEF SetSlotsNodeFrom
<1>5. SetSlotsNodeOthers => AllClaimed'
  BY <1>1, <1>2 DEF SetSlotsNodeOthers
<1>6. claim' = claim => AllClaimed'
  BY DEF AllClaimed
<1>7. /\ nextMigrationInfo \/ MigrateKeys \/ SetSlotsImporting \/ SetSlotsMigrating => claim' = claim
      /\ GossipStep \/ ClientStep \/ MigrateKeysError \/ ForgetNode => claim' = claim
      /\ UNCHANGED vars => claim' = claim
  BY DEF nextMigrationInfo, MigrateKeys, SetSlotsImporting, SetSlotsMigrating, GossipStep, Gossip,
     ClientStep, ClientSet, MigrateKeysError, GiveUp, ForgetNode, ClusterForget,
     SetSlotImporting, SetSlotMigrating, vars, redisVars
<1>8. /\ GetClusterInfos \/ waitForClusterJoin \/ syncCluster \/ noClusterOperation => claim' = claim
      /\ dispatchDone \/ MigrateKeysDone \/ nodeOthersDone \/ scalingDownDone => claim' = claim
      /\ scalingDownRefused \/ scalingDownNode \/ DeleteStatefulSet \/ Crash => claim' = claim
  BY DEF GetClusterInfos, waitForClusterJoin, syncCluster, noClusterOperation, dispatchDone,
     MigrateKeysDone, nodeOthersDone, scalingDownDone, scalingDownRefused, scalingDownNode,
     DeleteStatefulSet, Crash, redisVars
<1> QED
  BY <1>3, <1>4, <1>5, <1>6, <1>7, <1>8 DEF Next, Operator

\* If no slot is lost when the scale down starts, every slot has a claimant that
\* exists at every moment, as long as no SETSLOT is lost.
THEOREM SlotsStayOwned ==
  ASSUME SlotsAssigned
  PROVE  Spec => [](SetSlotsArrive => SlotOwned)
<1>1. TypeInv /\ OwnInv /\ AllClaimed => (SetSlotsArrive => SlotOwned)
  BY DEF OwnInv, OwnParts, ClaimsHeld, AllClaimed, SlotOwned
<1>2. Init => AllClaimed
  BY MasterFacts, ConstantsAssumption DEF Init, RedisInit, SlotsAssigned, AllClaimed
<1> QED
  BY <1>1, <1>2, AllClaimedNext, TypeInit, TypeNext, OwnInit, OwnNext, PTL DEF Spec

-----------------------------------------------------------------------------
(***************************************************************************)
(* No acknowledged key is lost but those MigrateKeys left at the source,   *)
(* whatever fails, unless a slot is moved again from a master that is      *)
(* kept.  The argument: a master to be removed never gets a slot, and one  *)
(* slot never has two of them; the claims that the highest epoch does not  *)
(* confirm are spent, so what gossip and a deletion take away holds no     *)
(* other key.                                                              *)
(***************************************************************************)
KeyCond == ~MovedAgain

\* The keys of n that have not been left behind by MigrateKeys.
Kept(n) == keys[n] \ left

\* n exists and claims s.
Claims(n, s) == n \in alive /\ owner[n][s] = n

\* A claim that writers are redirected from, with no key behind it.
Spent(n, s) == migrating[n][s] \in New \ {n} /\ \A k \in Kept(n) : SlotOf[k] # s

\* Where the job in hand has not changed an owner yet.
OpenPC == {"importing", "migrating", "migrate", "nodeTo"}

\* The jobs that have not changed an owner yet.
Pending == plan \cup {j \in {job} : pc \in OpenPC}

\* The jobs that have yet to add lost slots.
Adding == {j \in plan \cup {i \in {job} : pc = "addslots"} : j.from = None}

\* The master to be removed that a slot had at the start, if any, is the only one that
\* a table, a mark, the operator's memory or a job ever names for it.
OldOwner(s, x) ==
  /\ claim[s] \in Old => claim[s] = x
  /\ \A n \in Master :
       /\ owner[n][s] \in Old => owner[n][s] = x
       /\ importing[n][s] \in Old => importing[n][s] = x
       /\ n \in Old /\ s \in bom[n] => n = x
  /\ \A j \in Pending : j.from \in Old /\ s \in j.slots => j.from = x

OneOldOwner == \A s \in Slot : \E x \in Old \cup {None} : OldOwner(s, x)

\* A kept master's claim is confirmed by a kept master: SETSLOT NODE and ADDSLOTS take
\* a new epoch.
NewClaims ==
  /\ New \subseteq alive
  /\ \A n \in New, s \in Slot : owner[n][s] = n => claim[s] \in New

\* What the reading says is claimed is claimed, perhaps by another master by now.
ReadClaimed ==
  pc = "join" =>
    \A n \in Master : \A s \in bom[n] :
      /\ n \in alive
      /\ \E m \in Master : Claims(m, s) /\ (n \in New => m \in New)

\* The kept masters know an owner of every slot a job takes from a master, and a kept
\* one if the job takes it from a kept one.
SourceKnown ==
  /\ pc \in {"idle", "join", "scalingDown", "forget", "delete"} => plan = {}
  /\ pc \in OpenPC => job \notin plan
  /\ pc = "nodeOthers" => job.to \notin rest
  /\ \A j \in Pending : j.from # None =>
       /\ j.from \in alive /\ j.from # j.to
       /\ \A s \in j.slots, n \in New : owner[n][s] # None
       /\ j.from \in New =>
            \A s \in j.slots : claim[s] \in New /\ \A n \in New : owner[n][s] \in New

\* Two jobs share a slot only if they take it from the same master, which is kept or has
\* lost it by now.
SharedSlots ==
  \A i, j \in Pending : \A s \in i.slots \cap j.slots : i # j =>
    /\ i.from = j.from
    /\ IF i.from \in New THEN twice ELSE ~Claims(i.from, s)

\* Gossip cannot take a slot from a master whose job is pending.
SourceHolds ==
  \A j \in Pending : \A s \in j.slots : Claims(j.from, s) /\ Claims(claim[s], s) =>
    \/ claim[s] = j.from
    \/ pc = "nodeFrom" /\ s \in job.slots /\ j.from = job.from /\ twice

\* ADDSLOTS is refused where the slot has a claimant.
RangesFree ==
  /\ \A j \in Adding : \A s \in SlotRange(j.slots) :
       (\E n \in Master : Claims(n, s)) => \A n \in New : owner[n][s] # None
  /\ \A i, j \in Adding : i # j => SlotRange(i.slots) \cap SlotRange(j.slots) = {}
  /\ pc = "addslots" => job.from = None /\ job \notin plan

\* A node that imports a slot knows another owner of it; if that one is to be removed,
\* it is the one it imports from, so FORGET drops both.
ImportMarks ==
  \A n \in Master, s \in Slot : importing[n][s] # None =>
    /\ n \in New /\ owner[n][s] # None /\ owner[n][s] # n
    /\ owner[n][s] \in Old => importing[n][s] = owner[n][s]

MoveMarks ==
  \A n \in Master, s \in Slot : migrating[n][s] \in (New \ {n}) \cup {None}

\* What the job in hand has achieved so far.
JobOpen ==
  /\ pc \in {"migrating", "migrate", "nodeTo"} =>
       \A s \in job.slots : owner[job.to][s] # job.to
  /\ pc \in {"migrate", "nodeTo"} =>
       \A s \in job.slots : Claims(job.from, s) /\ migrating[job.from][s] = job.to
  /\ pc = "migrate" =>
       /\ scan \subseteq job.slots
       /\ \A k \in Kept(job.from) : SlotOf[k] \notin job.slots \ scan
  /\ pc \in {"nodeTo", "nodeFrom"} =>
       /\ job.from # job.to
       /\ \A s \in job.slots : Claims(job.from, s) => Spent(job.from, s)

StaleSpent == \A n \in Master, s \in Slot : Claims(n, s) /\ claim[s] # n => Spent(n, s)

\* A master to be removed has keys of its own slots only.
OldKeys == \A n \in Old : \A k \in Kept(n) : owner[n][SlotOf[k]] = n

\* The operator knows all of its slots but the spent ones, and deletes it only when it
\* knows of none.
OldDrained ==
  /\ pc # "idle" =>
       \A n \in Old, s \in Slot : Claims(n, s) => s \in bom[n] \/ Spent(n, s)
  /\ pc \in {"forget", "delete"} => bom[idx] = {}

KeysHeld == Held(Key \ left) /\ \A n \in Master : keys[n] \subseteq stored

\* The parts about the nodes, and the parts about the operator and the nodes.
NodeParts == NewClaims /\ ImportMarks /\ MoveMarks /\ StaleSpent /\ OldKeys /\ KeysHeld
JobParts ==
  /\ OneOldOwner /\ ReadClaimed /\ SourceKnown /\ SharedSlots /\ SourceHolds
  /\ RangesFree /\ JobOpen /\ OldDrained

KeyInv == KeyCond => NodeParts /\ JobParts

\* The types the proofs below use.
LEMMA KeyFacts ==
  ASSUME TypeInv
  PROVE  /\ owner \in [Master -> [Slot -> View]]
         /\ importing \in [Master -> [Slot -> View]]
         /\ migrating \in [Master -> [Slot -> View]]
         /\ claim \in [Slot -> View]
         /\ keys \in [Master -> SUBSET Key]
         /\ bom \in [Master -> SUBSET Slot]
         /\ SlotOf \in [Key -> Slot]
         /\ alive \subseteq Master /\ rest \subseteq Master /\ scan \subseteq Slot
         /\ New \subseteq Master /\ Old = Master \ New /\ None \notin Master
         /\ Master \subseteq View /\ None \in View
         /\ job.to \in New /\ job.slots \subseteq Slot
         /\ pc \in JobPC => job.from \in Master
         /\ \A j \in Pending : j.to \in New /\ j.slots \subseteq Slot /\ j.from \in View
         /\ pc \in {"forget", "delete"} => idx \in Old
<1>1. \A j \in Pending : j \in Job
  BY DEF TypeInv, TypeOK, Pending
<1>2. \A j \in Pending : j.to \in New /\ j.slots \subseteq Slot /\ j.from \in View
  BY <1>1 DEF Job, View
<1>3. pc \in {"forget", "delete"} => idx \in Old
  BY ConstantsAssumption DEF TypeInv, TypeOK, Old, New, Master
<1>4. bom \in [Master -> SUBSET Slot] /\ rest \subseteq Master /\ scan \subseteq Slot
  BY DEF TypeInv, TypeOK
<1> QED
  BY <1>2, <1>3, <1>4, Tables, MasterFacts, ConstantsAssumption DEF Old, View

\* What keeps OneOldOwner: a master to be removed comes to a table from the highest
\* claim only, to a mark from a job, to memory from a table and to a job from memory.
LEMMA OldOwnerStep ==
  ASSUME TypeInv, OneOldOwner,
         \A s \in Slot : claim'[s] = claim[s] \/ claim'[s] \notin Old,
         \A n \in Master, s \in Slot :
           owner'[n][s] \notin Old \/ owner'[n][s] = owner[n][s] \/ owner'[n][s] = claim[s],
         \A n \in Master, s \in Slot :
           \/ importing'[n][s] \notin Old
           \/ importing'[n][s] = importing[n][s]
           \/ \E j \in Pending : s \in j.slots /\ importing'[n][s] = j.from,
         \A n \in Old, s \in Slot : s \in bom'[n] => s \in bom[n] \/ owner[n][s] = n,
         \A j \in Pending' : \A s \in j.slots :
           j.from \in Old => j \in Pending \/ s \in bom[j.from]
  PROVE  OneOldOwner'
<1> SUFFICES ASSUME NEW s \in Slot PROVE \E x \in Old \cup {None} : OldOwner(s, x)'
  BY DEF OneOldOwner, Old, New, Master
<1>1. PICK x \in Old \cup {None} : OldOwner(s, x)
  BY DEF OneOldOwner
<1>2. claim'[s] \in Old => claim'[s] = x
  BY <1>1 DEF OldOwner
<1>3. ASSUME NEW n \in Master
      PROVE  /\ owner'[n][s] \in Old => owner'[n][s] = x
             /\ importing'[n][s] \in Old => importing'[n][s] = x
             /\ n \in Old /\ s \in bom'[n] => n = x
  BY <1>1 DEF OldOwner
<1>4. ASSUME NEW j \in Pending', j.from \in Old, s \in j.slots PROVE j.from = x
  BY <1>1, <1>4, MasterFacts DEF OldOwner
<1> QED BY <1>2, <1>3, <1>4 DEF OldOwner

\* Steps that leave the nodes alone.
LEMMA NodesUnchanged ==
  ASSUME NodeParts, UNCHANGED redisVars, left \subseteq left'
  PROVE  NodeParts'
<1>1. NewClaims' /\ ImportMarks' /\ MoveMarks' /\ OldKeys'
  BY DEF NodeParts, redisVars, NewClaims, ImportMarks, MoveMarks, OldKeys, Kept
<1>2. StaleSpent'
  BY DEF NodeParts, redisVars, StaleSpent, Claims, Spent, Kept
<1>3. KeysHeld'
  BY DEF NodeParts, redisVars, KeysHeld, Held
<1> QED BY <1>1, <1>2, <1>3 DEF NodeParts

\* Between reconciles the operator has nothing in mind.
LEMMA ForgetsAll ==
  ASSUME Return
  PROVE  pc' = "idle" /\ Pending' = {} /\ Adding' = {} /\ \A n \in Master : bom'[n] = {}
BY DEF Return, Forgotten, Pending, Adding, OpenPC

LEMMA KeyReturn ==
  ASSUME Return, OneOldOwner'
  PROVE  JobParts'
<1>1. /\ pc' = "idle" /\ plan' = {} /\ Pending' = {} /\ Adding' = {}
  BY ForgetsAll DEF Return, Forgotten
<1>2. ReadClaimed' /\ SourceKnown'
  BY <1>1 DEF ReadClaimed, SourceKnown, OpenPC
<1>3. SharedSlots' /\ SourceHolds' /\ RangesFree'
  BY <1>1 DEF SharedSlots, SourceHolds, RangesFree
<1>4. JobOpen' /\ OldDrained'
  BY <1>1 DEF JobOpen, OldDrained
<1> QED BY <1>2, <1>3, <1>4 DEF JobParts

LEMMA KeyQuit ==
  ASSUME TypeInv, NodeParts, JobParts, Return, UNCHANGED redisVars, left' = left
  PROVE  NodeParts' /\ JobParts'
<1>1. OneOldOwner'
  <2>1. Pending' = {} /\ \A n \in Master : bom'[n] = {}
    BY ForgetsAll
  <2> QED BY <2>1, OldOwnerStep, MasterFacts DEF JobParts, redisVars
<1> QED BY <1>1, KeyReturn, NodesUnchanged

\* What the nodes report is claimed at that moment, and kept masters' claims are
\* confirmed by kept ones.
LEMMA KeyGetClusterInfos ==
  ASSUME TypeInv, NodeParts, JobParts, GetClusterInfos
  PROVE  NodeParts' /\ JobParts'
<1>1. /\ pc = "idle" /\ pc' = "join" /\ plan' = plan /\ job' = job
      /\ \A n \in Master : bom'[n] = IF n \in alive THEN Claimed(n) ELSE {}
      /\ UNCHANGED redisVars /\ left' = left
  BY DEF GetClusterInfos, faultVars
<1>2. NodeParts'
  BY <1>1, NodesUnchanged
<1>3. plan' = {} /\ Pending' = {} /\ Adding' = {}
  BY <1>1 DEF JobParts, SourceKnown, Pending, Adding, OpenPC
<1>4. OneOldOwner'
  <2>1. \A n \in Old, s \in Slot : s \in bom'[n] => owner[n][s] = n
    BY <1>1, MasterFacts DEF Claimed
  <2> QED BY <1>1, <1>3, <2>1, OldOwnerStep DEF JobParts, redisVars
<1>5. ReadClaimed'
  <2>1. \A n \in Master, s \in Slot : s \in bom'[n] => Claims(n, s)'
    BY <1>1 DEF Claimed, Claims, redisVars
  <2>2. \A n \in Master : bom'[n] \subseteq Slot
    BY <1>1 DEF Claimed
  <2> QED BY <2>1, <2>2 DEF ReadClaimed, Claims
<1>6. SourceKnown' /\ SharedSlots' /\ SourceHolds' /\ RangesFree' /\ JobOpen'
  BY <1>1, <1>3 DEF SourceKnown, SharedSlots, SourceHolds, RangesFree, JobOpen, OpenPC
<1>7. OldDrained'
  BY <1>1, MasterFacts DEF OldDrained, Claims, Claimed, redisVars
<1> QED BY <1>2, <1>4, <1>5, <1>6, <1>7 DEF JobParts

\* With consistent views a slot has one claimant, whom every node knows.
LEMMA KeySyncCluster ==
  ASSUME TypeInv, NodeParts, JobParts, syncCluster
  PROVE  NodeParts' /\ JobParts'
<1>1. PICK p \in Plans(bom) : plan' = p /\ twice' = (twice \/ MovedTwice(p))
  BY DEF syncCluster
<1>2. /\ pc = "join" /\ pc' = "dispatch" /\ ComputeStatus /\ plan' = p
      /\ UNCHANGED << redisVars, bom, job, left >>
  BY <1>1 DEF syncCluster
<1>3. NodeParts'
  BY <1>2, NodesUnchanged
<1>4. Pending' = p
  BY <1>2 DEF Pending, OpenPC
<1>5. PlanOK(p, bom)
  BY PlanFacts DEF TypeInv, TypeOK
<1>6. \A j \in p : /\ j.to \in New /\ j.slots \subseteq Slot /\ j.from \in View /\ j.slots # {}
                   /\ j.from # j.to /\ (j.from # None => j.slots \subseteq bom[j.from])
  BY <1>5 DEF PlanOK, Job, View
<1>7. \A m, n \in Master, s \in Slot :
        Claims(m, s) /\ n \in alive => owner[n][s] = m /\ (Claims(n, s) => n = m)
  BY <1>2, KeyFacts DEF ComputeStatus, Claims
<1>8. \A n \in Master : \A s \in bom[n] :
        n \in alive /\ \E m \in Master : Claims(m, s) /\ (n \in New => m \in New)
  BY <1>2 DEF JobParts, ReadClaimed
<1>9. \A n \in Master, s \in Slot : Claims(n, s)' <=> Claims(n, s)
  BY <1>2 DEF Claims, redisVars
<1>10. OneOldOwner'
  <2>1. \A j \in Pending' : \A s \in j.slots : j.from \in Old => s \in bom[j.from]
    BY <1>4, <1>6, KeyFacts
  <2> QED BY <1>2, <2>1, OldOwnerStep DEF JobParts, redisVars
<1>11. SourceKnown'
  <2>1. ASSUME NEW j \in p, j.from # None
        PROVE  /\ j.from \in alive /\ j.from # j.to
               /\ \A s \in j.slots, n \in New : owner[n][s] # None
               /\ j.from \in New =>
                    \A s \in j.slots : claim[s] \in New /\ \A n \in New : owner[n][s] \in New
    <3>1. j.from \in Master /\ j.slots \subseteq bom[j.from] /\ j.slots # {} /\ j.slots \subseteq Slot
      BY <1>6, <2>1 DEF View
    <3>2. ASSUME NEW s \in j.slots
          PROVE  /\ \A n \in New : owner[n][s] # None
                 /\ j.from \in New => claim[s] \in New /\ \A n \in New : owner[n][s] \in New
      <4>1. PICK m \in Master : Claims(m, s) /\ (j.from \in New => m \in New)
        BY <1>8, <3>1
      <4>2. \A n \in New : owner[n][s] = m
        BY <1>7, <3>1, <4>1, KeyFacts DEF NodeParts, NewClaims
      <4>3. m \in New => claim[s] \in New
        BY <3>1, <4>1 DEF NodeParts, NewClaims, Claims
      <4> QED BY <4>1, <4>2, <4>3, MasterFacts
    <3> QED BY <1>6, <1>8, <3>1, <3>2
  <2> QED BY <1>2, <1>4, <2>1 DEF SourceKnown, OpenPC, redisVars
<1>12. SharedSlots'
  <2>1. ASSUME NEW i \in p, NEW j \in p, i # j, NEW s \in i.slots \cap j.slots
        PROVE  i.from = j.from /\ IF i.from \in New THEN twice' ELSE ~Claims(i.from, s)
    <3>1. i.from = j.from
      BY <1>5, <2>1 DEF PlanOK
    <3>2. PICK m \in Master \ {i.from} : s \in bom[m]
      BY <1>5, <2>1 DEF PlanOK
    <3>3. i.from \in Master /\ s \in bom[i.from] /\ s \in Slot
      BY <1>5, <1>6, <2>1, <3>2 DEF PlanOK, View
    <3>4. CASE i.from \in New
      BY <1>1, <2>1, <3>1, <3>4 DEF MovedTwice
    <3>5. CASE i.from \notin New
      <4>1. m \in New
        <5>1. PICK x \in Old \cup {None} : OldOwner(s, x)
          BY <3>3 DEF JobParts, OneOldOwner
        <5> QED BY <3>2, <3>3, <3>5, <5>1, KeyFacts DEF OldOwner
      <4>2. PICK l \in New : Claims(l, s)
        BY <1>8, <3>2, <4>1
      <4> QED BY <1>7, <3>1, <3>3, <3>5, <4>2, KeyFacts DEF Claims
    <3> QED BY <3>1, <3>4, <3>5
  <2>2. \A i \in p : i.from \in View
    BY <1>6
  <2>3. \A i \in p : \A s \in i.slots : Claims(i.from, s)' <=> Claims(i.from, s)
    BY <1>2 DEF Claims, redisVars
  <2> QED BY <1>4, <2>1, <2>3 DEF SharedSlots
<1>13. SourceHolds'
  <2>1. ASSUME NEW j \in p, NEW s \in j.slots, Claims(j.from, s), Claims(claim[s], s)
        PROVE  claim[s] = j.from
    BY <1>6, <1>7, <2>1, KeyFacts DEF Claims
  <2>2. \A j \in p : \A s \in j.slots :
          (Claims(j.from, s)' <=> Claims(j.from, s)) /\ (Claims(claim[s], s)' <=> Claims(claim[s], s))
    BY <1>2 DEF Claims, redisVars
  <2> QED BY <1>2, <1>4, <2>1, <2>2 DEF SourceHolds, redisVars
<1>14. RangesFree'
  <2>1. Adding' = {j \in p : j.from = None}
    BY <1>2 DEF Adding
  <2>2. \A S : SlotRange(S) \subseteq Slot
    BY DEF SlotRange
  <2>3. ASSUME NEW s \in Slot, NEW n \in Master, Claims(n, s), NEW m \in New
        PROVE  owner[m][s] # None
    BY <1>7, <2>3, KeyFacts DEF NodeParts, NewClaims
  <2>4. \A i, j \in Adding' : i # j => SlotRange(i.slots) \cap SlotRange(j.slots) = {}
    BY <1>5, <2>1 DEF PlanOK
  <2> QED BY <1>2, <1>9, <2>1, <2>2, <2>3, <2>4 DEF RangesFree, redisVars
<1>15. ReadClaimed' /\ JobOpen'
  BY <1>2 DEF ReadClaimed, JobOpen
<1>16. OldDrained'
  BY <1>2 DEF JobParts, OldDrained, Claims, Spent, Kept, redisVars
<1> QED BY <1>3, <1>10, <1>11, <1>12, <1>13, <1>14, <1>15, <1>16 DEF JobParts

\* A step that starts no job and gives nobody a slot keeps what is said about the jobs.
LEMMA JobsKept ==
  ASSUME TypeInv, JobParts, alive' = alive, twice' = twice,
         Pending' \subseteq Pending, Adding' \subseteq Adding,
         \A n \in Master, s \in Slot : Claims(n, s)' => Claims(n, s),
         \A s \in Slot : claim'[s] = claim[s],
         \A n \in New, s \in Slot :
           \/ owner'[n][s] = owner[n][s]
           \/ owner'[n][s] \in New
           \/ owner'[n][s] = claim[s] /\ claim[s] # None,
         pc = "nodeFrom" =>
           \/ pc' = "nodeFrom" /\ job' = job
           \/ \A s \in job.slots : twice => ~(job.from \in alive /\ owner'[job.from][s] = job.from),
         pc' \in {"idle", "join", "scalingDown", "forget", "delete"} => plan' = {},
         pc' \in OpenPC \cup {"addslots"} => job' \notin plan',
         pc' = "addslots" => job'.from = None,
         pc' = "nodeOthers" => job'.to \notin rest'
  PROVE  SourceKnown' /\ SharedSlots' /\ SourceHolds' /\ RangesFree'
<1>0. \A j \in Pending : j.slots \subseteq Slot /\ j.from \in View
  BY KeyFacts
<1>1. SourceKnown'
  <2>1. ASSUME NEW j \in Pending', j.from # None
        PROVE  /\ j.from \in alive /\ j.from # j.to
               /\ \A s \in j.slots, n \in New : owner'[n][s] # None
               /\ j.from \in New =>
                    \A s \in j.slots : claim'[s] \in New /\ \A n \in New : owner'[n][s] \in New
    <3>1. /\ j \in Pending /\ j.slots \subseteq Slot /\ None \notin New
          /\ j.from \in alive /\ j.from # j.to
          /\ \A s \in j.slots, n \in New : owner[n][s] # None
          /\ j.from \in New =>
               \A s \in j.slots : claim[s] \in New /\ \A n \in New : owner[n][s] \in New
      BY <1>0, <2>1, MasterFacts DEF JobParts, SourceKnown
    <3> QED BY <3>1
  <2> QED BY <2>1 DEF SourceKnown
<1>2. \A j \in Pending : \A s \in j.slots :
        /\ Claims(j.from, s)' => Claims(j.from, s)
        /\ Claims(claim[s], s)' => Claims(claim[s], s)
  BY <1>0, KeyFacts DEF Claims
<1>3. SharedSlots'
  BY <1>0, <1>2 DEF JobParts, SharedSlots
<1>4. SourceHolds'
  <2>1. ASSUME NEW j \in Pending', NEW s \in j.slots, Claims(j.from, s)', Claims(claim[s], s)'
        PROVE  \/ claim[s] = j.from
               \/ pc' = "nodeFrom" /\ s \in job'.slots /\ j.from = job'.from /\ twice
    <3>1. \/ claim[s] = j.from
          \/ pc = "nodeFrom" /\ s \in job.slots /\ j.from = job.from /\ twice
      BY <1>2, <2>1 DEF JobParts, SourceHolds
    <3> QED BY <2>1, <3>1 DEF Claims
  <2>2. \A j \in Pending' : \A s \in j.slots : claim'[s] = claim[s]
    BY <1>0
  <2> QED BY <2>1, <2>2 DEF SourceHolds, Claims
<1>5. RangesFree'
  <2>1. ASSUME NEW j \in Adding', NEW s \in SlotRange(j.slots), NEW m \in Master, Claims(m, s)',
               NEW n \in New
        PROVE  owner'[n][s] # None
    <3>1. s \in Slot /\ None \notin New
      BY MasterFacts DEF SlotRange
    <3>2. owner[n][s] # None
      BY <2>1, <3>1 DEF JobParts, RangesFree
    <3> QED BY <3>1, <3>2
  <2>2. \A i, j \in Adding' : i # j => SlotRange(i.slots) \cap SlotRange(j.slots) = {}
    BY DEF JobParts, RangesFree
  <2> QED BY <2>1, <2>2 DEF RangesFree
<1> QED BY <1>1, <1>3, <1>4, <1>5

LEMMA KeyNextMigrationInfo ==
  ASSUME TypeInv, NodeParts, JobParts, nextMigrationInfo
  PROVE  NodeParts' /\ JobParts'
<1>1. PICK j \in plan : /\ job' = j /\ plan' = plan \ {j}
                        /\ pc' = IF j.from = None THEN "addslots" ELSE "importing"
  BY DEF nextMigrationInfo
<1>2. pc = "dispatch" /\ UNCHANGED << redisVars, bom, twice, left >>
  BY DEF nextMigrationInfo, faultVars
<1>3. Pending' \subseteq Pending /\ Adding' \subseteq Adding
  BY <1>1, <1>2 DEF Pending, Adding, OpenPC
<1>4. \A n \in Master, s \in Slot : Claims(n, s)' => Claims(n, s)
  BY <1>2 DEF Claims, redisVars
<1>5. SourceKnown' /\ SharedSlots' /\ SourceHolds' /\ RangesFree'
  BY <1>1, <1>2, <1>3, <1>4, JobsKept DEF redisVars
<1>6. OneOldOwner'
  BY <1>2, <1>3, OldOwnerStep DEF JobParts, redisVars
<1>7. ReadClaimed' /\ JobOpen'
  BY <1>1 DEF ReadClaimed, JobOpen
<1>8. OldDrained'
  BY <1>1, <1>2 DEF JobParts, OldDrained, Claims, Spent, Kept, redisVars
<1> QED BY <1>2, <1>5, <1>6, <1>7, <1>8, NodesUnchanged DEF JobParts

\* The steps that only move on.
LEMMA KeyMoveOn ==
  ASSUME TypeInv, NodeParts, JobParts,
         dispatchDone \/ MigrateKeysDone \/ nodeOthersDone \/ scalingDownNode
  PROVE  NodeParts' /\ JobParts'
<1>1. /\ UNCHANGED << redisVars, plan, rest, idx, twice, left >>
      /\ \A n \in Old : bom'[n] = bom[n]
      /\ pc \notin {"idle", "join"} /\ pc' \in {"scalingDown", "nodeTo", "dispatch", "forget"}
      /\ pc # "nodeFrom"
      /\ pc' = "scalingDown" => pc = "dispatch" /\ plan = {}
      /\ pc' = "nodeTo" => pc = "migrate" /\ job' = job /\ scan = {}
      /\ pc' = "forget" => pc = "scalingDown" /\ bom[idx] = {} /\ bom' = bom
  BY KeyFacts DEF dispatchDone, MigrateKeysDone, nodeOthersDone, scalingDownNode, faultVars
<1>2. Pending' \subseteq Pending /\ Adding' \subseteq Adding
  BY <1>1 DEF Pending, Adding, OpenPC
<1>3. \A n \in Master, s \in Slot : Claims(n, s)' => Claims(n, s)
  BY <1>1 DEF Claims, redisVars
<1>4. /\ pc' \in {"idle", "join", "scalingDown", "forget", "delete"} => plan' = {}
      /\ pc' \in OpenPC \cup {"addslots"} => job' \notin plan'
  BY <1>1 DEF JobParts, SourceKnown, OpenPC
<1>5. SourceKnown' /\ SharedSlots' /\ SourceHolds' /\ RangesFree'
  BY <1>1, <1>2, <1>3, <1>4, JobsKept DEF redisVars
<1>6. OneOldOwner'
  BY <1>1, <1>2, OldOwnerStep DEF JobParts, redisVars
<1>7. JobOpen'
  <2>1. CASE pc' # "nodeTo"
    BY <1>1, <2>1 DEF JobOpen
  <2>2. CASE pc' = "nodeTo"
    <3>1. /\ \A s \in job.slots : owner[job.to][s] # job.to
          /\ \A s \in job.slots : Claims(job.from, s) /\ migrating[job.from][s] = job.to
          /\ \A k \in Kept(job.from) : SlotOf[k] \notin job.slots
          /\ job.to \in New /\ job.to # job.from
      BY <1>1, <2>2, KeyFacts DEF JobParts, JobOpen, SourceKnown, Pending, OpenPC, JobPC
    <3> QED BY <1>1, <2>2, <3>1 DEF JobOpen, Claims, Spent, Kept, redisVars
  <2> QED BY <2>1, <2>2
<1>8. ReadClaimed'
  BY <1>1 DEF ReadClaimed
<1>9. OldDrained'
  <2>1. \A n \in Old, s \in Slot : Claims(n, s) => s \in bom[n] \/ Spent(n, s)
    BY <1>1 DEF JobParts, OldDrained
  <2>2. \A n \in Old, s \in Slot : (Claims(n, s)' => s \in bom'[n] \/ Spent(n, s)')
    BY <1>1, <2>1 DEF Claims, Spent, Kept, redisVars
  <2> QED BY <1>1, <2>2 DEF OldDrained
<1> QED BY <1>1, <1>5, <1>6, <1>7, <1>8, <1>9, NodesUnchanged DEF JobParts

\* SETSLOT IMPORTING: an owner refuses it, and the node knows an owner.
LEMMA KeySetSlotsImporting ==
  ASSUME TypeInv, NodeParts, JobParts, SetSlotsImporting
  PROVE  NodeParts' /\ JobParts'
<1>1. PICK D \in SUBSET job.slots, lost \in BOOLEAN :
        /\ Sent(D, lost)
        /\ SetSlotImporting(job.to, D, job.from)
        /\ IF lost \/ AcceptImporting(job.to, D) # D
             THEN Return
             ELSE pc' = "migrating" /\ UNCHANGED << bom, plan, job, scan, rest, cnt, idx >>
  BY DEF SetSlotsImporting
<1>2. /\ UNCHANGED << alive, owner, migrating, claim, keys, stored, twice, left >> /\ pc = "importing"
      /\ job \in Pending /\ job.from \in Master /\ job.from # None /\ job.slots \subseteq Slot
      /\ job.to \in New /\ job.to \in Master
  BY <1>1, KeyFacts DEF SetSlotsImporting, SetSlotImporting, Sent, Fault, faultVars, Pending,
     OpenPC, JobPC
<1>3. \A m \in Master, s \in Slot :
        importing'[m][s] = IF m = job.to /\ s \in AcceptImporting(job.to, D)
                             THEN job.from ELSE importing[m][s]
  BY <1>1, <1>2, ImportingEffect, KeyFacts
<1>4. /\ job.from \in alive /\ job.from # job.to
      /\ \A s \in job.slots : owner[job.to][s] # None
      /\ job.from \in New => \A s \in job.slots : owner[job.to][s] \in New
  BY <1>2 DEF JobParts, SourceKnown
<1>5. NodeParts'
  <2>1. ASSUME NEW s \in AcceptImporting(job.to, D)
        PROVE  /\ s \in job.slots /\ owner[job.to][s] # job.to
               /\ owner[job.to][s] \in Old => owner[job.to][s] = job.from
    <3>1. s \in job.slots /\ s \in Slot /\ owner[job.to][s] # job.to
      BY <1>1, <1>2 DEF AcceptImporting
    <3>2. PICK x \in Old \cup {None} : OldOwner(s, x)
      BY <3>1 DEF JobParts, OneOldOwner
    <3> QED BY <1>2, <1>4, <3>1, <3>2, KeyFacts DEF OldOwner
  <2>2. ImportMarks'
    BY <1>2, <1>3, <1>4, <2>1 DEF NodeParts, ImportMarks
  <2>3. NewClaims' /\ MoveMarks' /\ OldKeys'
    BY <1>2 DEF NodeParts, NewClaims, MoveMarks, OldKeys, Kept
  <2>4. StaleSpent' /\ KeysHeld'
    BY <1>2 DEF NodeParts, StaleSpent, Claims, Spent, Kept, KeysHeld, Held
  <2> QED BY <2>2, <2>3, <2>4 DEF NodeParts
<1>6. \A m \in Master, s \in Slot :
        \/ importing'[m][s] = importing[m][s]
        \/ \E j \in Pending : s \in j.slots /\ importing'[m][s] = j.from
  BY <1>1, <1>2, <1>3 DEF AcceptImporting
<1>7. CASE Return
  <2>1. OneOldOwner'
    BY <1>2, <1>6, <1>7, OldOwnerStep, ForgetsAll, MasterFacts DEF JobParts
  <2> QED BY <1>5, <1>7, <2>1, KeyReturn
<1>8. CASE /\ ~lost /\ AcceptImporting(job.to, D) = D /\ pc' = "migrating"
           /\ UNCHANGED << bom, plan, job, scan, rest, cnt, idx >>
  <2>1. Pending' \subseteq Pending /\ Adding' \subseteq Adding /\ job' \notin plan'
    BY <1>2, <1>8 DEF Pending, Adding, OpenPC, JobParts, SourceKnown
  <2>2. OneOldOwner'
    BY <1>2, <1>6, <1>8, <2>1, OldOwnerStep DEF JobParts
  <2>3. \A n \in Master, s \in Slot : Claims(n, s)' => Claims(n, s)
    BY <1>2 DEF Claims
  <2>4. SourceKnown' /\ SharedSlots' /\ SourceHolds' /\ RangesFree'
    BY <1>2, <1>8, <2>1, <2>3, JobsKept
  <2>5. JobOpen'
    BY <1>1, <1>2, <1>8 DEF JobOpen, AcceptImporting, Sent
  <2>6. ReadClaimed' /\ OldDrained'
    BY <1>2, <1>8 DEF ReadClaimed, JobParts, OldDrained, Claims, Spent, Kept
  <2> QED BY <1>5, <2>2, <2>4, <2>5, <2>6 DEF JobParts
<1> QED BY <1>1, <1>7, <1>8

\* SETSLOT MIGRATING: accepted by a claimant, which is then spent as soon as it has no key.
LEMMA KeySetSlotsMigrating ==
  ASSUME TypeInv, NodeParts, JobParts, SetSlotsMigrating
  PROVE  NodeParts' /\ JobParts'
<1>1. PICK D \in SUBSET job.slots, lost \in BOOLEAN :
        /\ Sent(D, lost)
        /\ SetSlotMigrating(job.from, D, job.to)
        /\ IF lost \/ AcceptMigrating(job.from, D) # D
             THEN Return
             ELSE /\ pc' = "migrate"
                  /\ scan' = job.slots
                  /\ UNCHANGED << bom, plan, job, rest, cnt, idx >>
  BY DEF SetSlotsMigrating
<1>2. /\ UNCHANGED << alive, owner, importing, claim, keys, stored, twice, left >> /\ pc = "migrating"
      /\ job \in Pending /\ job.from \in Master /\ job.from # None /\ job.slots \subseteq Slot
      /\ job.to \in New /\ job.to \in Master /\ job.to \in View
  BY <1>1, KeyFacts DEF SetSlotsMigrating, SetSlotMigrating, Sent, Fault, faultVars, Pending,
     OpenPC, JobPC
<1>3. \A m \in Master, s \in Slot :
        migrating'[m][s] = IF m = job.from /\ s \in AcceptMigrating(job.from, D)
                             THEN job.to ELSE migrating[m][s]
  BY <1>1, <1>2, MigratingEffect
<1>4. job.from \in alive /\ job.from # job.to
  BY <1>2 DEF JobParts, SourceKnown
<1>5. \A n \in Master, s \in Slot : Spent(n, s) => Spent(n, s)'
  BY <1>2, <1>3, <1>4 DEF Spent, Kept
<1>6. NodeParts'
  <2>1. MoveMarks'
    BY <1>2, <1>3, <1>4 DEF NodeParts, MoveMarks
  <2>2. NewClaims' /\ ImportMarks' /\ OldKeys' /\ KeysHeld'
    BY <1>2 DEF NodeParts, NewClaims, ImportMarks, OldKeys, Kept, KeysHeld, Held
  <2>3. StaleSpent'
    BY <1>2, <1>5 DEF NodeParts, StaleSpent, Claims
  <2> QED BY <2>1, <2>2, <2>3 DEF NodeParts
<1>7. CASE Return
  <2>1. OneOldOwner'
    BY <1>2, <1>7, OldOwnerStep, ForgetsAll, MasterFacts DEF JobParts
  <2> QED BY <1>6, <1>7, <2>1, KeyReturn
<1>8. CASE /\ ~lost /\ AcceptMigrating(job.from, D) = D /\ pc' = "migrate" /\ scan' = job.slots
           /\ UNCHANGED << bom, plan, job, rest, cnt, idx >>
  <2>1. Pending' \subseteq Pending /\ Adding' \subseteq Adding /\ job' \notin plan'
    BY <1>2, <1>8 DEF Pending, Adding, OpenPC, JobParts, SourceKnown
  <2>2. OneOldOwner'
    BY <1>2, <1>8, <2>1, OldOwnerStep DEF JobParts
  <2>3. \A n \in Master, s \in Slot : Claims(n, s)' <=> Claims(n, s)
    BY <1>2 DEF Claims
  <2>4. SourceKnown' /\ SharedSlots' /\ SourceHolds' /\ RangesFree'
    BY <1>2, <1>8, <2>1, <2>3, JobsKept
  <2>5. \A s \in job.slots : owner[job.from][s] = job.from /\ migrating'[job.from][s] = job.to
    BY <1>1, <1>2, <1>3, <1>8 DEF AcceptMigrating, Sent
  <2>6. JobOpen'
    BY <1>2, <1>4, <1>8, <2>5 DEF JobParts, JobOpen, Claims
  <2>7. ReadClaimed'
    BY <1>8 DEF ReadClaimed
  <2>8. OldDrained'
    BY <1>2, <1>5, <1>8, <2>3, KeyFacts DEF JobParts, OldDrained
  <2> QED BY <1>6, <2>2, <2>4, <2>6, <2>7, <2>8 DEF JobParts
<1> QED BY <1>1, <1>7, <1>8

\* ADDSLOTS is accepted only where nobody claims the slots.
LEMMA KeyAddSlots ==
  ASSUME TypeInv, NodeParts, JobParts, AddSlots
  PROVE  NodeParts' /\ JobParts'
<1>1. PICK executed \in BOOLEAN, lost \in BOOLEAN :
        /\ executed => AcceptAddSlots(job.to, AddSlotsRange)
        /\ IF lost THEN Fault("redis") ELSE UNCHANGED faultVars
        /\ IF executed THEN ClusterAddSlotsRange(job.to, AddSlotsRange) ELSE UNCHANGED redisVars
        /\ IF executed /\ ~lost
             THEN /\ bom' = [bom EXCEPT ![job.to] = @ \cup job.slots]
                  /\ pc' = "dispatch"
                  /\ UNCHANGED << plan, job, scan, rest, cnt, idx >>
             ELSE Return
  BY DEF AddSlots
<1> DEFINE R == AddSlotsRange
<1>2. /\ pc = "addslots" /\ job \in Adding /\ job.from = None /\ job \notin plan
      /\ R = SlotRange(job.slots) /\ R \subseteq Slot
      /\ job.to \in New /\ job.to \in Master /\ None \notin Master /\ New \subseteq Master
      /\ twice' = twice /\ left' = left /\ alive \subseteq Master
  BY <1>1, KeyFacts DEF AddSlots, AddSlotsRange, SlotRange, JobParts, RangesFree, Adding, Fault,
     faultVars
<1> HIDE DEF R
<1>3. CASE ~executed
  BY <1>1, <1>2, <1>3, KeyQuit
<1>4. CASE executed
  <2>1. /\ \A m \in Master, s \in Slot :
             owner'[m][s] = IF m = job.to /\ s \in R THEN job.to ELSE owner[m][s]
        /\ \A s \in Slot : claim'[s] = IF s \in R THEN job.to ELSE claim[s]
        /\ UNCHANGED << alive, importing, migrating, keys, stored, left >>
        /\ \A s \in R : owner[job.to][s] = None
    <3>1. RedisTypeOK
      BY DEF TypeInv, TypeOK
    <3> QED BY <1>1, <1>2, <1>4, <3>1, AddSlotsEffect DEF ClusterAddSlotsRange, AcceptAddSlots, R
  <2>2. \A s \in R, n \in Master : ~Claims(n, s)
    BY <1>2, <2>1 DEF JobParts, RangesFree
  <2>3. \A n \in Master, s \in Slot : Claims(n, s)' => Claims(n, s) \/ (n = job.to /\ s \in R)
    BY <2>1 DEF Claims
  <2>4. NodeParts'
    <3>1. NewClaims'
      BY <1>2, <2>1 DEF NodeParts, NewClaims
    <3>2. ImportMarks'
      BY <1>2, <2>1 DEF NodeParts, ImportMarks
    <3>3. MoveMarks' /\ KeysHeld'
      BY <2>1 DEF NodeParts, MoveMarks, KeysHeld, Held
    <3>4. StaleSpent'
      <4>1. ASSUME NEW n \in Master, NEW s \in Slot, Claims(n, s)', claim'[s] # n
            PROVE  Spent(n, s)
        BY <2>1, <2>2, <2>3, <4>1 DEF NodeParts, StaleSpent
      <4> QED BY <2>1, <4>1 DEF StaleSpent, Spent, Kept
    <3>5. OldKeys'
      BY <1>2, <2>1, KeyFacts DEF NodeParts, OldKeys, Kept
    <3> QED BY <3>1, <3>2, <3>3, <3>4, <3>5 DEF NodeParts
  <2>5. OneOldOwner'
    <3>1. /\ \A s \in Slot : claim'[s] = claim[s] \/ claim'[s] \notin Old
          /\ \A n \in Master, s \in Slot : owner'[n][s] \notin Old \/ owner'[n][s] = owner[n][s]
      BY <1>2, <2>1, KeyFacts
    <3>2. \A n \in Old, s \in Slot : s \in bom'[n] => s \in bom[n]
      BY <1>1, <1>2, ForgetsAll, KeyFacts
    <3>3. Pending' \subseteq Pending
      BY <1>1, <1>2, ForgetsAll DEF Pending, OpenPC
    <3> QED BY <2>1, <3>1, <3>2, <3>3, OldOwnerStep DEF JobParts
  <2>6. CASE lost
    BY <1>1, <2>4, <2>5, <2>6, KeyReturn
  <2>7. CASE ~lost
    <3>1. /\ pc' = "dispatch" /\ plan' = plan /\ Pending' = plan /\ plan \subseteq Pending
          /\ Adding' = {j \in plan : j.from = None} /\ Adding' \subseteq Adding
          /\ \A n \in Old : bom'[n] = bom[n]
      BY <1>1, <1>2, <1>4, <2>7, KeyFacts DEF Pending, Adding, OpenPC
    <3>2. \A j \in plan : j.slots \subseteq Slot /\ j.from \in View
      BY <3>1, KeyFacts
    <3>3. SourceKnown'
      BY <1>2, <2>1, <3>1, <3>2 DEF JobParts, SourceKnown, OpenPC
    <3>4. SharedSlots'
      <4>1. \A i \in plan : \A s \in i.slots :
              i.from \notin New /\ Claims(i.from, s)' => Claims(i.from, s)
        BY <1>2, <2>1, <3>2 DEF Claims
      <4> QED BY <1>2, <3>1, <4>1 DEF JobParts, SharedSlots
    <3>5. SourceHolds'
      <4>1. ASSUME NEW j \in plan, NEW s \in j.slots, Claims(j.from, s)' PROVE s \notin R
        <5>1. j.from # None
          BY <2>1, <4>1, KeyFacts DEF Claims
        <5>2. owner[job.to][s] # None
          BY <1>2, <3>1, <5>1 DEF JobParts, SourceKnown
        <5> QED BY <2>1, <5>2
      <4>2. ASSUME NEW j \in plan, NEW s \in j.slots, Claims(j.from, s)', Claims(claim[s], s)'
            PROVE  claim'[s] = j.from
        <5>1. s \in Slot /\ claim'[s] = claim[s] /\ j.from \in Master /\ claim[s] \in Master
          BY <2>1, <3>2, <4>1, <4>2, KeyFacts DEF Claims
        <5>2. Claims(j.from, s) /\ Claims(claim[s], s)
          BY <2>1, <4>1, <4>2, <5>1 DEF Claims
        <5> QED BY <1>2, <3>1, <5>1, <5>2 DEF JobParts, SourceHolds
      <4> QED BY <3>1, <4>2 DEF SourceHolds
    <3>6. RangesFree'
      <4>1. ASSUME NEW j \in Adding' PROVE SlotRange(j.slots) \cap R = {}
        BY <1>2, <3>1 DEF JobParts, RangesFree
      <4>2. ASSUME NEW j \in Adding', NEW s \in SlotRange(j.slots), NEW n \in Master,
                   Claims(n, s)', NEW m \in New
            PROVE  owner'[m][s] # None
        <5>1. s \in Slot /\ s \notin R
          BY <4>1 DEF SlotRange
        <5>2. owner[m][s] # None
          BY <2>3, <3>1, <4>2, <5>1 DEF JobParts, RangesFree
        <5> QED BY <1>2, <2>1, <5>1, <5>2
      <4> QED BY <3>1, <4>2 DEF JobParts, RangesFree
    <3>7. OldDrained'
      BY <1>2, <2>1, <3>1, KeyFacts DEF JobParts, OldDrained, Claims, Spent, Kept
    <3>8. ReadClaimed' /\ JobOpen'
      BY <3>1 DEF ReadClaimed, JobOpen
    <3> QED BY <2>4, <2>5, <3>3, <3>4, <3>5, <3>6, <3>7, <3>8 DEF JobParts
  <2> QED BY <2>6, <2>7
<1> QED BY <1>3, <1>4

\* Where MigrateKeys gives up it leaves behind whatever keys the source still has.
LEMMA KeyGiveUp ==
  ASSUME TypeInv, NodeParts, JobParts, pc = "migrate", GiveUp
  PROVE  NodeParts' /\ JobParts'
<1>1. /\ pc' = "nodeTo" /\ UNCHANGED << redisVars, bom, plan, job, rest, idx, twice >>
      /\ left' = left \cup KeysIn(job.from, scan)
      /\ job \in Pending /\ job.from \in Master /\ job.from # None /\ job.slots \subseteq Slot
      /\ job.to \in New /\ job.to \in Master
  BY KeyFacts DEF GiveUp, Pending, OpenPC, JobPC
<1>2. /\ job.from \in alive /\ job.from # job.to /\ scan \subseteq job.slots
      /\ \A r \in job.slots : owner[job.to][r] # job.to
      /\ \A r \in job.slots : Claims(job.from, r) /\ migrating[job.from][r] = job.to
      /\ \A k \in Kept(job.from) : SlotOf[k] \notin job.slots \ scan
  BY <1>1 DEF JobParts, SourceKnown, JobOpen
<1>3. NodeParts'
  BY <1>1, NodesUnchanged
<1>4. Pending' = Pending /\ Adding' = Adding /\ job' \notin plan'
  BY <1>1 DEF Pending, Adding, OpenPC, JobParts, SourceKnown
<1>5. OneOldOwner'
  BY <1>1, <1>4, OldOwnerStep DEF JobParts, redisVars
<1>6. \A n \in Master, r \in Slot : Claims(n, r)' <=> Claims(n, r)
  BY <1>1 DEF Claims, redisVars
<1>7. SourceKnown' /\ SharedSlots' /\ SourceHolds' /\ RangesFree'
  BY <1>1, <1>4, <1>6, JobsKept DEF redisVars
<1>8. \A n \in Master, r \in Slot : Spent(n, r) => Spent(n, r)'
  BY <1>1 DEF Spent, Kept, redisVars
<1>9. JobOpen'
  <2>1. ASSUME NEW k \in Kept(job.from)' PROVE SlotOf[k] \notin job.slots
    <3>1. k \in Kept(job.from) /\ k \notin KeysIn(job.from, scan) /\ k \in keys[job.from]
      BY <1>1, <2>1 DEF Kept, redisVars
    <3>2. SlotOf[k] \notin scan
      BY <1>1, <3>1, KeyFacts DEF KeysIn, KeysOf
    <3> QED BY <1>2, <3>1, <3>2
  <2>2. \A r \in job.slots : Spent(job.from, r)'
    BY <1>1, <1>2, <2>1 DEF Spent, redisVars
  <2> QED BY <1>1, <1>2, <2>2 DEF JobOpen, Claims, redisVars
<1>10. ReadClaimed'
  BY <1>1 DEF ReadClaimed
<1>11. OldDrained'
  BY <1>1, <1>6, <1>8, KeyFacts DEF JobParts, OldDrained
<1> QED BY <1>3, <1>5, <1>7, <1>9, <1>10, <1>11 DEF JobParts

LEMMA KeyMigrateKeys ==
  ASSUME TypeInv, NodeParts, JobParts, MigrateKeys \/ MigrateKeysError
  PROVE  NodeParts' /\ JobParts'
<1>1. pc = "migrate"
  BY DEF MigrateKeys, MigrateKeysError
<1>2. CASE GiveUp
  BY <1>1, <1>2, KeyGiveUp
<1>3. ASSUME NEW s \in scan, KeysIn(job.from, {s}) = {}, scan' = scan \ {s},
             UNCHANGED << redisVars, pc, bom, plan, job, rest, cnt, idx, twice, left >>
      PROVE  NodeParts' /\ JobParts'
  <2>1. NodeParts'
    BY <1>3, NodesUnchanged
  <2>2. Pending' = Pending /\ Adding' = Adding /\ job \notin plan
    BY <1>1, <1>3 DEF Pending, Adding, OpenPC, JobParts, SourceKnown
  <2>3. OneOldOwner'
    BY <1>3, <2>2, OldOwnerStep DEF JobParts, redisVars
  <2>4. \A n \in Master, r \in Slot : Claims(n, r)' => Claims(n, r)
    BY <1>3 DEF Claims, redisVars
  <2>5. SourceKnown' /\ SharedSlots' /\ SourceHolds' /\ RangesFree'
    BY <1>1, <1>3, <2>2, <2>4, JobsKept DEF redisVars
  <2>6. \A k \in Kept(job.from) : SlotOf[k] # s
    <3>1. keys[job.from] \subseteq Key
      BY <1>1, KeyFacts DEF JobPC
    <3> QED BY <1>3, <3>1 DEF KeysIn, KeysOf, Kept
  <2>7. JobOpen'
    BY <1>1, <1>3, <2>6 DEF JobParts, JobOpen, Claims, Kept, redisVars
  <2>8. ReadClaimed' /\ OldDrained'
    BY <1>1, <1>3 DEF ReadClaimed, JobParts, OldDrained, Claims, Spent, Kept, redisVars
  <2> QED BY <2>1, <2>3, <2>5, <2>7, <2>8 DEF JobParts
<1> QED BY <1>2, <1>3 DEF MigrateKeys, MigrateKeysError

\* SETSLOT NODE at the destination: the source held the highest claim, or nobody did, and
\* is spent; jobs that share the slot start at the same, kept, source.
LEMMA KeySetSlotsNodeTo ==
  ASSUME TypeInv, NodeParts, JobParts, SetSlotsNodeTo
  PROVE  NodeParts' /\ JobParts'
<1>1. PICK D \in SUBSET job.slots, lost \in BOOLEAN :
        Sent(D, lost) /\ SetSlotNode(job.to, D, job.to)
  BY DEF SetSlotsNodeTo
<1>2. /\ pc = "nodeTo" /\ pc' = "nodeFrom"
      /\ UNCHANGED << bom, plan, job, rest, idx, twice, left >>
      /\ job \in Pending /\ job \notin plan
      /\ job.from \in Master /\ job.from # None /\ job.slots \subseteq Slot
      /\ job.to \in New /\ job.to \in Master /\ job.to \in View
      /\ New \subseteq Master /\ None \notin Master /\ alive \subseteq Master
  BY <1>1, KeyFacts DEF SetSlotsNodeTo, Sent, Fault, faultVars, Pending, OpenPC, JobPC, JobParts,
     SourceKnown
<1> DEFINE A == AcceptNode(job.to, D, job.to)
<1>3. A \subseteq job.slots /\ A \subseteq Slot
  BY <1>1, <1>2 DEF AcceptNode
<1>4. /\ \A m \in Master, s \in Slot :
           owner'[m][s] = IF m = job.to /\ s \in A THEN job.to ELSE owner[m][s]
      /\ \A m \in Master, s \in Slot :
           \/ migrating'[m][s] = migrating[m][s]
           \/ m = job.to /\ s \in A /\ migrating'[m][s] = None
      /\ \A m \in Master, s \in Slot :
           importing'[m][s] = IF m = job.to /\ s \in A THEN None ELSE importing[m][s]
      /\ \A s \in Slot : claim'[s] = IF s \in A THEN job.to ELSE claim[s]
      /\ UNCHANGED << alive, keys, stored, left >>
  <2>1. UNCHANGED << alive, keys, stored, left >>
    BY <1>1, <1>2 DEF SetSlotNode
  <2> QED BY <1>1, <1>2, <2>1, NodeEffect
<1> HIDE DEF A
<1>5. /\ job.from \in alive /\ job.from # job.to
      /\ \A s \in job.slots, n \in New : owner[n][s] # None
      /\ \A s \in job.slots : owner[job.to][s] # job.to
      /\ \A s \in job.slots : Claims(job.from, s) /\ Spent(job.from, s)
  BY <1>2 DEF JobParts, SourceKnown, JobOpen
<1>6. \A n \in Master, s \in Slot : Claims(n, s)' => Claims(n, s) \/ (n = job.to /\ s \in A)
  BY <1>4 DEF Claims
<1>7. \A n \in Master, s \in Slot :
        Claims(n, s) /\ Spent(n, s) /\ ~(n = job.to /\ s \in A) => Spent(n, s)'
  BY <1>4 DEF Spent, Kept
<1>8. NodeParts'
  <2>1. NewClaims'
    BY <1>2, <1>4 DEF NodeParts, NewClaims
  <2>2. ImportMarks'
    BY <1>2, <1>4 DEF NodeParts, ImportMarks
  <2>3. MoveMarks'
    BY <1>2, <1>4 DEF NodeParts, MoveMarks
  <2>4. KeysHeld'
    BY <1>4 DEF NodeParts, KeysHeld, Held
  <2>5. StaleSpent'
    <3>1. ASSUME NEW n \in Master, NEW s \in Slot, Claims(n, s)', claim'[s] # n
          PROVE  Spent(n, s) /\ Claims(n, s) /\ ~(n = job.to /\ s \in A)
      <4>1. Claims(n, s) /\ ~(n = job.to /\ s \in A)
        BY <1>4, <1>6, <3>1
      <4>2. CASE claim[s] # n
        BY <3>1, <4>1, <4>2 DEF NodeParts, StaleSpent
      <4>3. CASE claim[s] = n
        <5>1. s \in job.slots
          BY <1>3, <1>4, <3>1, <4>3
        <5>2. n = job.from
          BY <1>2, <1>5, <4>1, <4>3, <5>1 DEF JobParts, SourceHolds
        <5> QED BY <1>5, <4>1, <5>1, <5>2
      <4> QED BY <4>1, <4>2, <4>3
    <3> QED BY <1>7, <3>1 DEF StaleSpent
  <2>6. OldKeys'
    <3>1. ASSUME NEW n \in Old, NEW k \in Kept(n) PROVE owner'[n][SlotOf[k]] = n
      <4>1. n \in Master /\ n # job.to /\ SlotOf[k] \in Slot
        BY <1>2, KeyFacts DEF Kept
      <4> QED BY <1>4, <4>1 DEF NodeParts, OldKeys
    <3>2. \A n \in Old : Kept(n)' = Kept(n)
      BY <1>4 DEF Kept
    <3> QED BY <3>1, <3>2 DEF OldKeys
  <2> QED BY <2>1, <2>2, <2>3, <2>4, <2>5, <2>6 DEF NodeParts
<1>9. /\ Pending' = plan /\ plan \subseteq Pending /\ Adding' = Adding
  BY <1>2 DEF Pending, Adding, OpenPC
<1>10. OneOldOwner'
  <2>1. /\ \A s \in Slot : claim'[s] = claim[s] \/ claim'[s] \notin Old
        /\ \A n \in Master, s \in Slot : owner'[n][s] \notin Old \/ owner'[n][s] = owner[n][s]
        /\ \A n \in Master, s \in Slot :
             importing'[n][s] \notin Old \/ importing'[n][s] = importing[n][s]
    BY <1>2, <1>4, KeyFacts
  <2> QED BY <1>2, <1>9, <2>1, OldOwnerStep DEF JobParts
<1>11. \A j \in plan : j.slots \subseteq Slot /\ j.from \in View
  BY <1>9, KeyFacts
<1>12. SourceKnown'
  BY <1>2, <1>4, <1>9, <1>11 DEF JobParts, SourceKnown, OpenPC
<1>13. SharedSlots'
  <2>1. \A i \in plan : \A s \in i.slots :
          i.from \notin New /\ Claims(i.from, s)' => Claims(i.from, s)
    BY <1>2, <1>4, <1>11 DEF Claims
  <2> QED BY <1>2, <1>9, <2>1 DEF JobParts, SharedSlots
<1>14. SourceHolds'
  <2>1. ASSUME NEW j \in plan, NEW s \in j.slots, Claims(j.from, s)', Claims(claim[s], s)',
               claim'[s] # j.from
        PROVE  s \in job.slots /\ j.from = job.from /\ twice
    <3>1. s \in Slot /\ j.from \in Master /\ claim'[s] \in Master
      BY <1>4, <1>11, <2>1, KeyFacts DEF Claims
    <3>2. CASE s \in A
      <4>1. s \in job.slots /\ job # j /\ j \in Pending
        BY <1>2, <1>3, <1>9, <3>2
      <4> QED BY <1>2, <1>5, <4>1 DEF JobParts, SharedSlots
    <3>3. CASE s \notin A
      <4>1. claim'[s] = claim[s] /\ Claims(j.from, s) /\ Claims(claim[s], s)
        BY <1>4, <2>1, <3>1, <3>3 DEF Claims
      <4> QED BY <1>2, <1>9, <2>1, <4>1 DEF JobParts, SourceHolds
    <3> QED BY <3>2, <3>3
  <2> QED BY <1>2, <1>9, <2>1 DEF SourceHolds
<1>15. RangesFree'
  <2>1. ASSUME NEW j \in Adding, NEW s \in SlotRange(j.slots), NEW n \in Master, Claims(n, s)',
               NEW m \in New
        PROVE  owner'[m][s] # None
    <3>1. s \in Slot
      BY DEF SlotRange
    <3>2. CASE s \in A
      BY <1>2, <1>3, <1>4, <1>5, <3>1, <3>2
    <3>3. CASE s \notin A
      <4>1. owner[m][s] # None
        BY <1>6, <2>1, <3>1, <3>3 DEF JobParts, RangesFree
      <4> QED BY <1>2, <1>4, <3>1, <3>3, <4>1
    <3> QED BY <3>2, <3>3
  <2> QED BY <1>2, <1>9, <2>1 DEF JobParts, RangesFree
<1>16. JobOpen'
  <2>1. \A s \in job.slots : Spent(job.from, s)'
    BY <1>2, <1>4, <1>5 DEF Spent, Kept
  <2> QED BY <1>2, <1>5, <2>1 DEF JobOpen
<1>17. OldDrained'
  <2>1. \A n \in Old, s \in Slot : Claims(n, s)' => s \in bom[n] \/ Spent(n, s)'
    <3>1. \A n \in Old : n \in Master /\ n # job.to
      BY <1>2, KeyFacts
    <3>2. \A n \in Old, s \in Slot : Claims(n, s) => s \in bom[n] \/ Spent(n, s)
      BY <1>2 DEF JobParts, OldDrained
    <3> QED BY <1>6, <1>7, <3>1, <3>2
  <2> QED BY <1>2, <2>1 DEF OldDrained
<1>18. ReadClaimed'
  BY <1>2 DEF ReadClaimed
<1> QED BY <1>8, <1>10, <1>12, <1>13, <1>14, <1>15, <1>16, <1>17, <1>18 DEF JobParts

\* SETSLOT NODE at another node: it gives the slot up, if it has no key of it, and gets none.
LEMMA GivesUp ==
  ASSUME TypeInv, NodeParts, JobParts, NEW n \in Master, n # job.to,
         NEW D \in SUBSET job.slots, SetSlotNode(n, D, job.to), left' = left
  PROVE  /\ NodeParts'
         /\ UNCHANGED << alive, importing, keys, stored, left >>
         /\ \A s \in Slot : claim'[s] = claim[s]
         /\ \A m \in Master, s \in Slot :
              owner'[m][s] = owner[m][s] \/ owner'[m][s] = job.to
         /\ \A m \in Master, s \in Slot : Claims(m, s)' => Claims(m, s)
         /\ \A m \in Master, s \in Slot : Claims(m, s)' /\ Spent(m, s) => Spent(m, s)'
         /\ \A s \in D : (\A k \in keys[n] : SlotOf[k] # s) => owner'[n][s] # n
<1>1. /\ job.to \in New /\ job.to \in Master /\ job.to \in View /\ job.to # None
      /\ D \subseteq Slot /\ New \subseteq Master
  BY KeyFacts
<1> DEFINE A == AcceptNode(n, D, job.to)
<1>2. /\ \A m \in Master, s \in Slot :
           owner'[m][s] = IF m = n /\ s \in A THEN job.to ELSE owner[m][s]
      /\ \A m \in Master, s \in Slot :
           \/ migrating'[m][s] = migrating[m][s]
           \/ m = n /\ s \in A /\ migrating'[m][s] = None
      /\ \A s \in Slot : claim'[s] = claim[s]
      /\ UNCHANGED << alive, importing, keys, stored, left >>
  <2>1. UNCHANGED << alive, importing, keys, stored, left >>
    BY DEF SetSlotNode
  <2> QED BY <1>1, <2>1, NodeEffect
<1>3. \A s \in Slot : s \in A /\ owner[n][s] = n => \A k \in keys[n] : SlotOf[k] # s
  BY KeyFacts DEF AcceptNode, KeysIn, KeysOf
<1>4. \A s \in D : (\A k \in keys[n] : SlotOf[k] # s) => s \in A
  BY DEF AcceptNode, KeysIn, KeysOf
<1> HIDE DEF A
<1>5. \A m \in Master, s \in Slot : Claims(m, s)' => Claims(m, s) /\ ~(m = n /\ s \in A)
  BY <1>2 DEF Claims
<1>6. \A m \in Master, s \in Slot : Claims(m, s)' /\ Spent(m, s) => Spent(m, s)'
  BY <1>2, <1>5 DEF Spent, Kept
<1>7. NewClaims'
  BY <1>1, <1>2 DEF NodeParts, NewClaims
<1>8. ImportMarks'
  <2>1. ASSUME NEW m \in Master, NEW s \in Slot, importing[m][s] # None
        PROVE  /\ m \in New /\ owner'[m][s] # None /\ owner'[m][s] # m
               /\ owner'[m][s] \in Old => importing[m][s] = owner'[m][s]
    <3>1. /\ m \in New /\ owner[m][s] # None /\ owner[m][s] # m
          /\ owner[m][s] \in Old => importing[m][s] = owner[m][s]
      BY <2>1 DEF NodeParts, ImportMarks
    <3>2. job.to \notin Old
      BY <1>1 DEF Old
    <3>3. CASE owner'[m][s] = owner[m][s]
      BY <3>1, <3>3
    <3>4. CASE m = n /\ owner'[m][s] = job.to
      BY <1>1, <3>1, <3>2, <3>4
    <3> QED BY <1>2, <3>3, <3>4
  <2> QED BY <1>2, <2>1 DEF ImportMarks
<1>9. MoveMarks' /\ KeysHeld'
  BY <1>2 DEF NodeParts, MoveMarks, KeysHeld, Held
<1>10. StaleSpent'
  BY <1>2, <1>5, <1>6 DEF NodeParts, StaleSpent
<1>11. OldKeys'
  <2>1. ASSUME NEW m \in Old, NEW k \in Kept(m) PROVE owner'[m][SlotOf[k]] = m
    <3>1. m \in Master /\ SlotOf[k] \in Slot /\ owner[m][SlotOf[k]] = m
      BY KeyFacts DEF NodeParts, OldKeys, Kept
    <3>2. k \in keys[m]
      BY DEF Kept
    <3> QED BY <1>2, <1>3, <3>1, <3>2
  <2>2. \A m \in Old : Kept(m)' = Kept(m)
    BY <1>2 DEF Kept
  <2> QED BY <2>1, <2>2 DEF OldKeys
<1>12. NodeParts'
  BY <1>7, <1>8, <1>9, <1>10, <1>11 DEF NodeParts
<1>13. \A s \in D : (\A k \in keys[n] : SlotOf[k] # s) => owner'[n][s] # n
  BY <1>1, <1>2, <1>4
<1> QED BY <1>1, <1>2, <1>5, <1>6, <1>12, <1>13

\* SETSLOT NODE at the source: what it still claims of the job's slots is spent, and where
\* another job takes the slot from it too, the command arrives.
LEMMA KeySetSlotsNodeFrom ==
  ASSUME TypeInv, NodeParts, JobParts, KeyCond', SetSlotsNodeFrom
  PROVE  NodeParts' /\ JobParts'
<1>1. PICK D \in SUBSET job.slots, lost \in BOOLEAN :
        Sent(D, lost) /\ SetSlotNode(job.from, D, job.to)
  BY DEF SetSlotsNodeFrom
<1>2. /\ pc = "nodeFrom" /\ pc' = "nodeOthers" /\ UNCHANGED << plan, job, idx, twice, left >>
      /\ bom' = [bom EXCEPT ![job.from] = @ \ job.slots]
      /\ job.to \notin rest'
      /\ job.from \in Master /\ job.slots \subseteq Slot
  BY <1>1, KeyFacts DEF SetSlotsNodeFrom, Sent, Fault, faultVars, JobPC
<1>3. job.from # job.to
  BY <1>2 DEF JobParts, JobOpen
<1>4. /\ NodeParts'
      /\ UNCHANGED << alive, importing, keys, stored, left >>
      /\ \A s \in Slot : claim'[s] = claim[s]
      /\ \A m \in Master, s \in Slot : owner'[m][s] = owner[m][s] \/ owner'[m][s] = job.to
      /\ \A m \in Master, s \in Slot : Claims(m, s)' => Claims(m, s)
      /\ \A m \in Master, s \in Slot : Claims(m, s)' /\ Spent(m, s) => Spent(m, s)'
      /\ \A s \in D : (\A k \in keys[job.from] : SlotOf[k] # s) => owner'[job.from][s] # job.from
  BY <1>1, <1>2, <1>3, GivesUp
<1>5. \A s \in job.slots : Claims(job.from, s) => Spent(job.from, s)
  BY <1>2 DEF JobParts, JobOpen
<1>6. ASSUME twice, NEW s \in job.slots PROVE ~(job.from \in alive /\ owner'[job.from][s] = job.from)
  <2>1. "redis" \notin hit' /\ left = {}
    BY <1>2, <1>6 DEF KeyCond, MovedAgain
  <2>2. D = job.slots
    BY <1>1, <2>1 DEF Sent, Fault, CountFault
  <2>3. Kept(job.from) = keys[job.from]
    BY <2>1 DEF Kept
  <2> QED BY <1>2, <1>4, <1>5, <2>2, <2>3 DEF Claims, Spent
<1>7. Pending' \subseteq Pending /\ Adding' \subseteq Adding
  BY <1>2 DEF Pending, Adding, OpenPC
<1>8. OneOldOwner'
  <2>1. \A n \in Old, s \in Slot : s \in bom'[n] => s \in bom[n]
    BY <1>2, KeyFacts
  <2>2. job.to \notin Old
    BY KeyFacts
  <2> QED BY <1>4, <1>7, <2>1, <2>2, OldOwnerStep DEF JobParts
<1>9. SourceKnown' /\ SharedSlots' /\ SourceHolds' /\ RangesFree'
  BY <1>2, <1>4, <1>6, <1>7, JobsKept, KeyFacts DEF OpenPC
<1>10. OldDrained'
  <2>1. ASSUME NEW n \in Old, NEW s \in Slot, Claims(n, s)' PROVE s \in bom'[n] \/ Spent(n, s)'
    <3>1. n \in Master /\ Claims(n, s) /\ (s \in bom[n] \/ Spent(n, s))
      BY <1>2, <1>4, <2>1, KeyFacts DEF JobParts, OldDrained
    <3>2. s \in bom[n] /\ s \notin bom'[n] => n = job.from /\ s \in job.slots
      BY <1>2, <3>1, KeyFacts
    <3> QED BY <1>4, <1>5, <2>1, <3>1, <3>2
  <2> QED BY <1>2, <2>1 DEF OldDrained
<1>11. ReadClaimed' /\ JobOpen'
  BY <1>2 DEF ReadClaimed, JobOpen
<1> QED BY <1>4, <1>8, <1>9, <1>10, <1>11 DEF JobParts

LEMMA KeySetSlotsNodeOthers ==
  ASSUME TypeInv, NodeParts, JobParts, SetSlotsNodeOthers
  PROVE  NodeParts' /\ JobParts'
<1>1. PICK n \in rest, D \in SUBSET job.slots, lost \in BOOLEAN :
        Sent(D, lost) /\ SetSlotNode(n, D, job.to) /\ rest' = rest \ {n}
  BY DEF SetSlotsNodeOthers
<1>2. /\ pc = "nodeOthers" /\ UNCHANGED << pc, bom, plan, job, idx, twice, left >>
      /\ job.to \notin rest /\ n \in Master
  BY <1>1, KeyFacts DEF SetSlotsNodeOthers, Sent, Fault, faultVars, JobParts, SourceKnown
<1>3. n # job.to
  BY <1>2
<1>4. /\ NodeParts'
      /\ UNCHANGED << alive, importing, keys, stored, left >>
      /\ \A s \in Slot : claim'[s] = claim[s]
      /\ \A m \in Master, s \in Slot : owner'[m][s] = owner[m][s] \/ owner'[m][s] = job.to
      /\ \A m \in Master, s \in Slot : Claims(m, s)' => Claims(m, s)
      /\ \A m \in Master, s \in Slot : Claims(m, s)' /\ Spent(m, s) => Spent(m, s)'
  BY <1>1, <1>2, <1>3, GivesUp
<1>5. Pending' \subseteq Pending /\ Adding' \subseteq Adding
  BY <1>2 DEF Pending, Adding, OpenPC
<1>6. OneOldOwner'
  <2>1. job.to \notin Old
    BY KeyFacts
  <2> QED BY <1>2, <1>4, <1>5, <2>1, OldOwnerStep DEF JobParts
<1>7. SourceKnown' /\ SharedSlots' /\ SourceHolds' /\ RangesFree'
  BY <1>1, <1>2, <1>4, <1>5, JobsKept, KeyFacts DEF OpenPC
<1>8. OldDrained'
  BY <1>2, <1>4, KeyFacts DEF JobParts, OldDrained
<1>9. ReadClaimed' /\ JobOpen'
  BY <1>2 DEF ReadClaimed, JobOpen
<1> QED BY <1>4, <1>6, <1>7, <1>8, <1>9 DEF JobParts

\* A master about to be removed, whose slots the operator knows to be gone, has no key but
\* those left there.
LEMMA RemovedIsEmpty ==
  ASSUME TypeInv, NodeParts, JobParts, pc \in {"forget", "delete"}, idx \in alive
  PROVE  Kept(idx) = {}
<1>1. idx \in Old /\ idx \in Master /\ bom[idx] = {}
  BY KeyFacts DEF JobParts, OldDrained
<1>2. ASSUME NEW k \in Kept(idx) PROVE FALSE
  <2>1. SlotOf[k] \in Slot /\ Claims(idx, SlotOf[k])
    BY <1>1, KeyFacts DEF NodeParts, OldKeys, Kept, Claims
  <2>2. Spent(idx, SlotOf[k])
    BY <1>1, <2>1 DEF JobParts, OldDrained
  <2> QED BY <2>2 DEF Spent
<1> QED BY <1>2

LEMMA KeyForgetNode ==
  ASSUME TypeInv, NodeParts, JobParts, ForgetNode
  PROVE  NodeParts' /\ JobParts'
<1>1. PICK N \in SUBSET Connected : ClusterForget(N, idx)
  BY DEF ForgetNode
<1>2. /\ pc = "forget" /\ twice' = twice /\ left' = left
      /\ \/ Return
         \/ pc' = "delete" /\ UNCHANGED << bom, plan, job, scan, rest, cnt, idx >>
  BY DEF ForgetNode, Fault, faultVars
<1>3. /\ idx \in Old /\ idx \in Master /\ idx \notin New /\ idx # None /\ None \notin Master
      /\ N \subseteq alive /\ plan = {} /\ New \subseteq Master
  BY <1>2, KeyFacts DEF Connected, JobParts, SourceKnown
<1>4. /\ \A n \in Master, s \in Slot :
           owner'[n][s] = IF n \in N /\ owner[n][s] = idx THEN None ELSE owner[n][s]
      /\ \A n \in Master, s \in Slot :
           importing'[n][s] = IF n \in N /\ importing[n][s] = idx THEN None ELSE importing[n][s]
      /\ \A n \in Master, s \in Slot :
           migrating'[n][s] = IF n \in N /\ migrating[n][s] = idx THEN None ELSE migrating[n][s]
      /\ UNCHANGED << alive, claim, keys, stored, left >>
  BY <1>1, <1>2 DEF ClusterForget
<1>5. \A n \in Master, s \in Slot : migrating'[n][s] = migrating[n][s]
  BY <1>3, <1>4 DEF NodeParts, MoveMarks
<1>6. \A n \in Master, s \in Slot : Claims(n, s)' => Claims(n, s)
  BY <1>3, <1>4 DEF Claims
<1>7. \A n \in Master, s \in Slot : Spent(n, s)' <=> Spent(n, s)
  BY <1>4, <1>5 DEF Spent, Kept
<1>8. NodeParts'
  <2>1. NewClaims'
    BY <1>3, <1>4 DEF NodeParts, NewClaims
  <2>2. ImportMarks'
    <3>1. ASSUME NEW n \in Master, NEW s \in Slot, importing'[n][s] # None
          PROVE  importing'[n][s] = importing[n][s] /\ owner'[n][s] = owner[n][s]
      BY <1>3, <1>4, <3>1 DEF NodeParts, ImportMarks
    <3> QED BY <3>1 DEF NodeParts, ImportMarks
  <2>3. MoveMarks' /\ KeysHeld'
    BY <1>4, <1>5 DEF NodeParts, MoveMarks, KeysHeld, Held
  <2>4. StaleSpent'
    BY <1>4, <1>6, <1>7 DEF NodeParts, StaleSpent
  <2>5. OldKeys'
    <3>1. ASSUME NEW n \in Old, NEW k \in Kept(n) PROVE owner'[n][SlotOf[k]] = n
      <4>1. n \in Master /\ SlotOf[k] \in Slot /\ owner[n][SlotOf[k]] = n
        BY KeyFacts DEF NodeParts, OldKeys, Kept
      <4>2. ~(n \in N /\ n = idx)
        BY <1>2, <1>3, RemovedIsEmpty
      <4> QED BY <1>4, <4>1, <4>2
    <3>2. \A n \in Old : Kept(n)' = Kept(n)
      BY <1>4 DEF Kept
    <3> QED BY <3>1, <3>2 DEF OldKeys
  <2> QED BY <2>1, <2>2, <2>3, <2>4, <2>5 DEF NodeParts
<1>9. /\ Pending' = {} /\ Adding' = {}
      /\ \A n \in Old, s \in Slot : s \in bom'[n] => s \in bom[n]
  BY <1>2, <1>3, ForgetsAll, KeyFacts DEF Pending, Adding, OpenPC
<1>10. OneOldOwner'
  <2>1. /\ \A n \in Master, s \in Slot : owner'[n][s] \notin Old \/ owner'[n][s] = owner[n][s]
        /\ \A n \in Master, s \in Slot :
             importing'[n][s] \notin Old \/ importing'[n][s] = importing[n][s]
    BY <1>3, <1>4, MasterFacts
  <2> QED BY <1>4, <1>9, <2>1, OldOwnerStep DEF JobParts
<1>11. CASE Return
  BY <1>8, <1>10, <1>11, KeyReturn
<1>12. CASE pc' = "delete" /\ UNCHANGED << bom, plan, job, scan, rest, cnt, idx >>
  <2>1. ReadClaimed' /\ SourceKnown' /\ JobOpen'
    BY <1>3, <1>9, <1>12 DEF ReadClaimed, SourceKnown, JobOpen, OpenPC
  <2>2. SharedSlots' /\ SourceHolds' /\ RangesFree'
    BY <1>9, <1>12 DEF SharedSlots, SourceHolds, RangesFree
  <2>3. OldDrained'
    BY <1>2, <1>6, <1>7, <1>12, KeyFacts DEF JobParts, OldDrained
  <2> QED BY <1>8, <1>10, <2>1, <2>2, <2>3 DEF JobParts
<1> QED BY <1>2, <1>11, <1>12

LEMMA KeyDeleteStatefulSet ==
  ASSUME TypeInv, NodeParts, JobParts, DeleteStatefulSet
  PROVE  NodeParts' /\ JobParts'
<1>1. /\ pc = "delete" /\ pc' = "scalingDown"
      /\ UNCHANGED << owner, importing, migrating, claim, keys, stored, left >>
      /\ UNCHANGED << bom, plan, job, scan, rest, cnt >>
      /\ alive' = alive \/ alive' = alive \ {idx}
      /\ alive' \subseteq alive
  BY DEF DeleteStatefulSet, Fault, faultVars
<1>2. idx \in Old /\ idx \notin New /\ plan = {}
  BY <1>1, KeyFacts DEF JobParts, SourceKnown
<1>3. \A n \in Master, s \in Slot :
        (Claims(n, s)' => Claims(n, s)) /\ (Spent(n, s)' <=> Spent(n, s))
  BY <1>1 DEF Claims, Spent, Kept
<1>4. NodeParts'
  <2>1. NewClaims' /\ ImportMarks' /\ MoveMarks' /\ OldKeys'
    BY <1>1, <1>2 DEF NodeParts, NewClaims, ImportMarks, MoveMarks, OldKeys, Kept
  <2>2. StaleSpent'
    BY <1>1, <1>3 DEF NodeParts, StaleSpent
  <2>3. KeysHeld'
    <3>1. idx \in alive => keys[idx] \subseteq left
      BY <1>1, RemovedIsEmpty DEF Kept
    <3> QED BY <1>1, <3>1 DEF NodeParts, KeysHeld, Held
  <2> QED BY <2>1, <2>2, <2>3 DEF NodeParts
<1>5. Pending' = {} /\ Adding' = {}
  BY <1>1, <1>2 DEF Pending, Adding, OpenPC
<1>6. OneOldOwner'
  BY <1>1, <1>5, OldOwnerStep DEF JobParts
<1>7. ReadClaimed' /\ SourceKnown' /\ JobOpen'
  BY <1>1, <1>2, <1>5 DEF ReadClaimed, SourceKnown, JobOpen, OpenPC
<1>8. SharedSlots' /\ SourceHolds' /\ RangesFree'
  BY <1>1, <1>5 DEF SharedSlots, SourceHolds, RangesFree
<1>9. OldDrained'
  BY <1>1, <1>3, KeyFacts DEF JobParts, OldDrained
<1> QED BY <1>4, <1>6, <1>7, <1>8, <1>9 DEF JobParts

\* Gossip takes a slot only from a spent claimant.
LEMMA KeyGossip ==
  ASSUME TypeInv, NodeParts, JobParts, GossipStep
  PROVE  NodeParts' /\ JobParts'
<1>1. PICK n \in Master, s \in Slot : Gossip(n, s)
  BY DEF GossipStep
<1>2. /\ n \in alive /\ owner[n][s] # claim[s] /\ importing[n][s] = None
      /\ claim[s] \in alive /\ claim[s] \in Master /\ Claims(claim[s], s)
      /\ claim[s] # n /\ claim[s] # None
      /\ UNCHANGED << alive, importing, claim, stored >>
      /\ UNCHANGED << pc, bom, plan, job, scan, rest, idx, twice, left >>
  BY <1>1, KeyFacts DEF Gossip, Claims, GossipStep, opVars, faultVars
<1>3. /\ \A m \in Master, r \in Slot :
           owner'[m][r] = IF m = n /\ r = s THEN claim[s] ELSE owner[m][r]
      /\ \A m \in Master, r \in Slot :
           \/ migrating'[m][r] = migrating[m][r]
           \/ m = n /\ r = s /\ migrating'[m][r] = None
  BY <1>1, GossipEffect
<1>4. \A m \in Master : keys'[m] \subseteq keys[m] /\ Kept(m)' = Kept(m)
  <2>1. CASE owner[n][s] = n
    <3>1. \A k \in Kept(n) : SlotOf[k] # s
      BY <1>2, <2>1 DEF NodeParts, StaleSpent, Claims, Spent
    <3>2. Kept(n) \cap KeysOf({s}) = {}
      BY <3>1 DEF KeysOf
    <3>3. keys' = [keys EXCEPT ![n] = @ \ KeysOf({s})]
      BY <1>1, <2>1 DEF Gossip
    <3> QED BY <1>2, <3>2, <3>3, KeyFacts DEF Kept
  <2>2. CASE owner[n][s] # n
    BY <1>1, <1>2, <2>2 DEF Gossip, Kept
  <2> QED BY <2>1, <2>2
<1>5. \A m \in Master, r \in Slot : Claims(m, r)' => Claims(m, r) /\ ~(m = n /\ r = s)
  BY <1>2, <1>3 DEF Claims
<1>6. \A m \in Master, r \in Slot : Claims(m, r) /\ ~(m = n /\ r = s) => Claims(m, r)'
  BY <1>2, <1>3 DEF Claims
<1>7. \A m \in Master, r \in Slot : Spent(m, r) /\ ~(m = n /\ r = s) => Spent(m, r)'
  BY <1>3, <1>4 DEF Spent
<1>8. NodeParts'
  <2>1. NewClaims'
    BY <1>2, <1>3, KeyFacts DEF NodeParts, NewClaims
  <2>2. ImportMarks'
    BY <1>2, <1>3 DEF NodeParts, ImportMarks
  <2>3. MoveMarks'
    BY <1>2, <1>3 DEF NodeParts, MoveMarks
  <2>6. KeysHeld'
    <3>1. ASSUME NEW k \in stored \cap (Key \ left) PROVE \E m \in alive : k \in keys'[m]
      <4>1. PICK m \in alive : k \in keys[m]
        BY DEF NodeParts, KeysHeld, Held
      <4>2. m \in Master /\ k \in Kept(m)
        BY <4>1, KeyFacts DEF Kept
      <4> QED BY <1>4, <4>2 DEF Kept
    <3> QED BY <1>2, <1>4, <3>1 DEF NodeParts, KeysHeld, Held
  <2>4. StaleSpent'
    BY <1>2, <1>5, <1>7 DEF NodeParts, StaleSpent
  <2>5. OldKeys'
    <3>1. ASSUME NEW m \in Old, NEW k \in Kept(m) PROVE owner'[m][SlotOf[k]] = m
      <4>1. m \in Master /\ SlotOf[k] \in Slot /\ owner[m][SlotOf[k]] = m
        BY KeyFacts DEF NodeParts, OldKeys, Kept
      <4>2. ~(m = n /\ SlotOf[k] = s)
        BY <1>2, <4>1 DEF NodeParts, StaleSpent, Claims, Spent
      <4> QED BY <1>3, <4>1, <4>2
    <3>2. \A m \in Old : Kept(m)' = Kept(m)
      BY <1>4, KeyFacts
    <3> QED BY <3>1, <3>2 DEF OldKeys
  <2> QED BY <2>1, <2>2, <2>3, <2>4, <2>5, <2>6 DEF NodeParts
<1>9. Pending' = Pending /\ Adding' = Adding
  BY <1>2 DEF Pending, Adding
<1>10. OneOldOwner'
  BY <1>2, <1>3, <1>9, OldOwnerStep DEF JobParts
<1>11. SourceKnown' /\ SharedSlots' /\ SourceHolds' /\ RangesFree'
  <2>1. /\ pc \in {"idle", "join", "scalingDown", "forget", "delete"} => plan = {}
        /\ pc \in OpenPC \cup {"addslots"} => job \notin plan
        /\ pc = "addslots" => job.from = None
        /\ pc = "nodeOthers" => job.to \notin rest
    BY DEF JobParts, SourceKnown, RangesFree
  <2>2. \A m \in New, r \in Slot :
          owner'[m][r] = owner[m][r] \/ (owner'[m][r] = claim[r] /\ claim[r] # None)
    BY <1>2, <1>3, KeyFacts
  <2> QED BY <1>2, <1>5, <1>9, <2>1, <2>2, JobsKept
<1>12. ReadClaimed'
  <2>1. ASSUME pc = "join", NEW m \in Master, NEW r \in bom[m]
        PROVE  m \in alive /\ \E l \in Master : Claims(l, r)' /\ (m \in New => l \in New)
    <3>1. PICK l \in Master : Claims(l, r) /\ (m \in New => l \in New) /\ m \in alive
      BY <2>1 DEF JobParts, ReadClaimed
    <3>2. r \in Slot
      BY <2>1, KeyFacts
    <3>3. CASE ~(l = n /\ r = s)
      BY <1>6, <3>1, <3>2, <3>3
    <3>4. CASE l = n /\ r = s
      <4>1. owner'[claim[s]][s] = claim[s]
        BY <1>2, <1>3 DEF Claims
      <4>2. n \in New => claim[s] \in New
        BY <3>1, <3>4 DEF NodeParts, NewClaims, Claims
      <4>3. claim[s] \in alive'
        BY <1>2
      <4> QED BY <1>2, <3>1, <3>4, <4>1, <4>2, <4>3 DEF Claims
    <3> QED BY <3>3, <3>4
  <2> QED BY <1>2, <2>1 DEF ReadClaimed
<1>13. pc \in {"migrate", "nodeTo"} => ~(n = job.from /\ s \in job.slots)
  BY <1>2 DEF JobParts, JobOpen, SourceHolds, Pending, OpenPC, Claims
<1>14. JobOpen'
  <2>1. pc \in JobPC => job.from \in Master /\ job.to \in Master /\ job.slots \subseteq Slot
    BY KeyFacts
  <2>2. pc \in {"migrating", "migrate", "nodeTo"} =>
          \A r \in job.slots : owner'[job.to][r] # job.to
    BY <1>2, <1>3, <2>1 DEF JobParts, JobOpen, JobPC
  <2>3. pc \in {"migrate", "nodeTo"} =>
          \A r \in job.slots :
            /\ job.from \in alive' /\ owner'[job.from][r] = job.from
            /\ migrating'[job.from][r] = job.to
    BY <1>2, <1>3, <1>13, <2>1 DEF JobParts, JobOpen, Claims, JobPC
  <2>4. pc \in {"nodeTo", "nodeFrom"} =>
          \A r \in job.slots : Claims(job.from, r)' => Spent(job.from, r)'
    <3> SUFFICES ASSUME pc \in {"nodeTo", "nodeFrom"}, NEW r \in job.slots, Claims(job.from, r)'
                 PROVE  Spent(job.from, r)'
      OBVIOUS
    <3>1. job.from \in Master /\ r \in Slot /\ job' = job
      BY <1>2, <2>1 DEF JobPC
    <3>2. Claims(job.from, r) /\ ~(job.from = n /\ r = s)
      BY <1>2, <1>3, <3>1 DEF Claims
    <3>3. Spent(job.from, r)
      BY <3>2 DEF JobParts, JobOpen
    <3>4. \A m \in Master : m = job.from => Spent(m, r)'
      BY <1>7, <3>1, <3>2, <3>3
    <3> QED BY <3>1, <3>4
  <2>5. pc = "migrate" =>
          scan \subseteq job.slots /\ \A k \in Kept(job.from)' : SlotOf[k] \notin job.slots \ scan
    <3>1. ASSUME pc = "migrate" PROVE Kept(job.from)' = Kept(job.from)
      <4>1. \A m \in Master : m = job'.from => Kept(m)' = Kept(m)
        BY <1>4
      <4> QED BY <1>2, <2>1, <3>1, <4>1 DEF JobPC, Kept
    <3> QED BY <3>1 DEF JobParts, JobOpen
  <2> QED BY <1>2, <2>2, <2>3, <2>4, <2>5 DEF JobParts, JobOpen, Claims
<1>15. OldDrained'
  BY <1>2, <1>5, <1>7, KeyFacts DEF JobParts, OldDrained
<1> QED BY <1>8, <1>10, <1>11, <1>12, <1>14, <1>15 DEF JobParts

\* A new key is stored at a node that imports its slot or claims it without a migrating
\* mark: never at a spent claimant, nor at the source of a job that has its mark.
LEMMA KeyClient ==
  ASSUME TypeInv, NodeParts, JobParts, ClientStep
  PROVE  NodeParts' /\ JobParts'
<1>1. PICK k \in Key, c \in alive :
        /\ k \notin stored
        /\ owner[c][SlotOf[k]] = c
        /\ Serves(Target(c, k), k)
        /\ keys' = [keys EXCEPT ![Target(c, k)] = @ \cup {k}]
        /\ stored' = stored \cup {k}
        /\ UNCHANGED << alive, owner, importing, migrating, claim >>
  BY DEF ClientStep, ClientSet
<1>2. UNCHANGED << pc, bom, plan, job, scan, rest, idx, twice, left >>
  BY DEF ClientStep, opVars, faultVars
<1> DEFINE t == Target(c, k)
           s == SlotOf[k]
<1>3. s \in Slot /\ c \in Master /\ k \notin keys[c]
  BY <1>1, KeyFacts DEF NodeParts, KeysHeld
<1>4. t \in alive /\ t \in Master
  BY <1>1, KeyFacts DEF Serves
<1>5. k \notin keys[t]
  BY <1>1, <1>4 DEF NodeParts, KeysHeld
<1>6. importing[t][s] # None \/ (owner[t][s] = t /\ migrating[t][s] = None)
  BY <1>1, <1>5 DEF Serves
<1>7. t = c \/ t = migrating[c][s]
  BY DEF Target
<1> HIDE DEF t
<1>8. \A m \in Master : keys'[m] = IF m = t THEN keys[m] \cup {k} ELSE keys[m]
  BY <1>1, KeyFacts DEF t
<1>9. Claims(t, s) => migrating[t][s] = None
  BY <1>3, <1>4, <1>6 DEF NodeParts, ImportMarks, Claims
<1>10. t \in Old => owner[t][s] = t
  BY <1>1, <1>3, <1>4, <1>7, KeyFacts DEF NodeParts, MoveMarks
<1>11. \A n \in Master, r \in Slot : Claims(n, r)' <=> Claims(n, r)
  BY <1>1 DEF Claims
<1>12. ASSUME NEW n \in Master, NEW r \in Slot, Claims(n, r), migrating[n][r] # None
       PROVE  \A l \in Kept(n)' : SlotOf[l] = r => l \in Kept(n)
  <2>1. ~(n = t /\ r = s)
    BY <1>9, <1>12
  <2> QED BY <1>2, <1>8, <2>1 DEF Kept
<1>13. \A n \in Master, r \in Slot : Claims(n, r) /\ Spent(n, r) => Spent(n, r)'
  <2>1. ASSUME NEW n \in Master, NEW r \in Slot, Claims(n, r), Spent(n, r) PROVE Spent(n, r)'
    <3>1. migrating[n][r] # None
      BY <2>1, KeyFacts DEF Spent
    <3>2. \A l \in Kept(n)' : SlotOf[l] = r => l \in Kept(n)
      BY <1>12, <2>1, <3>1
    <3> QED BY <1>1, <2>1, <3>2 DEF Spent
  <2> QED BY <2>1
<1>14. NodeParts'
  <2>1. NewClaims' /\ ImportMarks' /\ MoveMarks'
    BY <1>1 DEF NodeParts, NewClaims, ImportMarks, MoveMarks
  <2>2. StaleSpent'
    BY <1>1, <1>11, <1>13 DEF NodeParts, StaleSpent
  <2>3. OldKeys'
    <3>1. ASSUME NEW n \in Old, NEW l \in keys'[n] \ left PROVE owner[n][SlotOf[l]] = n
      <4>1. n \in Master
        BY KeyFacts
      <4>2. l \in Kept(n) \/ (n = t /\ l = k)
        <5>1. CASE n = t
          <6>1. keys'[n] = keys[n] \cup {k}
            BY <1>8, <4>1, <5>1
          <6> QED BY <5>1, <6>1 DEF Kept
        <5>2. CASE n # t
          <6>1. keys'[n] = keys[n]
            BY <1>8, <4>1, <5>2
          <6> QED BY <6>1 DEF Kept
        <5> QED BY <5>1, <5>2
      <4> QED BY <1>10, <4>2 DEF NodeParts, OldKeys
    <3> QED BY <1>1, <1>2, <3>1 DEF OldKeys, Kept
  <2>4. KeysHeld'
    <3>1. \A l \in stored' \cap (Key \ left) : \E n \in alive' : l \in keys'[n]
      BY <1>1, <1>4, <1>8, KeyFacts DEF NodeParts, KeysHeld, Held
    <3>2. \A n \in Master : keys'[n] \subseteq stored'
      BY <1>1, <1>8 DEF NodeParts, KeysHeld
    <3> QED BY <1>2, <3>1, <3>2 DEF KeysHeld, Held
  <2> QED BY <2>1, <2>2, <2>3, <2>4 DEF NodeParts
<1>15. Pending' = Pending /\ Adding' = Adding
  BY <1>2 DEF Pending, Adding
<1>16. OneOldOwner'
  BY <1>1, <1>2, <1>15, OldOwnerStep DEF JobParts
<1>17. SourceKnown' /\ SharedSlots' /\ SourceHolds' /\ RangesFree'
  <2>1. /\ pc \in {"idle", "join", "scalingDown", "forget", "delete"} => plan = {}
        /\ pc \in OpenPC \cup {"addslots"} => job \notin plan
        /\ pc = "addslots" => job.from = None
        /\ pc = "nodeOthers" => job.to \notin rest
    BY DEF JobParts, SourceKnown, RangesFree
  <2> QED BY <1>1, <1>2, <1>11, <1>15, <2>1, JobsKept
<1>18. ReadClaimed'
  BY <1>1, <1>2 DEF JobParts, ReadClaimed, Claims
<1>19. JobOpen'
  <2>1. pc \in JobPC => job.from \in Master /\ job.slots \subseteq Slot /\ job.to # None
    BY KeyFacts
  <2>2. pc = "migrate" => \A l \in Kept(job.from)' : SlotOf[l] \notin job.slots \ scan
    <3> SUFFICES ASSUME pc = "migrate", NEW l \in Kept(job.from)', SlotOf[l] \in job.slots \ scan
                 PROVE  FALSE
      OBVIOUS
    <3>1. /\ job.from \in Master /\ SlotOf[l] \in Slot
          /\ Claims(job.from, SlotOf[l]) /\ migrating[job.from][SlotOf[l]] # None
      BY <2>1 DEF JobParts, JobOpen, JobPC
    <3>2. \A n \in Master : n = job.from => l \in Kept(n)
      <4>1. ASSUME NEW n \in Master, n = job.from PROVE l \in Kept(n)'
        BY <1>2, <4>1 DEF Kept
      <4> QED BY <1>12, <3>1, <4>1
    <3> QED BY <3>1, <3>2 DEF JobParts, JobOpen
  <2>3. pc \in {"nodeTo", "nodeFrom"} =>
          \A r \in job.slots : Claims(job.from, r)' => Spent(job.from, r)'
    <3> SUFFICES ASSUME pc \in {"nodeTo", "nodeFrom"}, NEW r \in job.slots, Claims(job.from, r)'
                 PROVE  Spent(job.from, r)'
      OBVIOUS
    <3>1. job.from \in Master /\ r \in Slot /\ job' = job
      BY <1>2, <2>1 DEF JobPC
    <3>2. Claims(job.from, r)
      BY <1>1, <3>1 DEF Claims
    <3>3. Spent(job.from, r)
      BY <3>2 DEF JobParts, JobOpen
    <3>4. \A n \in Master : n = job.from => Spent(n, r)'
      BY <1>13, <3>1, <3>2, <3>3
    <3> QED BY <3>1, <3>4
  <2> QED BY <1>1, <1>2, <2>2, <2>3 DEF JobParts, JobOpen, Claims
<1>20. OldDrained'
  BY <1>2, <1>11, <1>13, KeyFacts DEF JobParts, OldDrained
<1> QED BY <1>14, <1>16, <1>17, <1>18, <1>19, <1>20 DEF JobParts

LEMMA KeyInit == Init => KeyInv
<1> SUFFICES ASSUME Init PROVE NodeParts /\ JobParts
  BY DEF KeyInv
<1>1. /\ alive = Master /\ claim \in [Slot -> Master \cup {None}]
      /\ owner = [n \in Master |-> claim]
      /\ importing = [n \in Master |-> [s \in Slot |-> None]]
      /\ migrating = [n \in Master |-> [s \in Slot |-> None]]
      /\ stored \subseteq {k \in Key : claim[SlotOf[k]] # None}
      /\ keys = [n \in Master |-> {k \in stored : claim[SlotOf[k]] = n}]
      /\ bom = [n \in Master |-> {}] /\ pc = "idle" /\ plan = {}
  BY ConstantsAssumption DEF Init, RedisInit
<1>2. Pending = {} /\ Adding = {}
  BY <1>1 DEF Pending, Adding, OpenPC
<1>3. New \subseteq Master /\ Old = Master \ New /\ None \notin Master /\ SlotOf \in [Key -> Slot]
  BY MasterFacts, ConstantsAssumption DEF Old
<1>4. NewClaims /\ ImportMarks /\ MoveMarks
  BY <1>1, <1>3 DEF NewClaims, ImportMarks, MoveMarks
<1>5. StaleSpent
  BY <1>1 DEF StaleSpent, Claims
<1>6. OldKeys
  BY <1>1, <1>3 DEF OldKeys, Kept
<1>7. KeysHeld
  <2>1. \A k \in stored : claim[SlotOf[k]] \in Master
    BY <1>1, <1>3
  <2> QED BY <1>1, <2>1 DEF KeysHeld, Held
<1>8. OneOldOwner
  <2>1. ASSUME NEW s \in Slot PROVE \E x \in Old \cup {None} : OldOwner(s, x)
    <3>1. CASE claim[s] \in Old
      BY <1>1, <1>2, <1>3, <3>1 DEF OldOwner
    <3>2. CASE claim[s] \notin Old
      BY <1>1, <1>2, <1>3, <3>2 DEF OldOwner
    <3> QED BY <3>1, <3>2
  <2> QED BY <2>1 DEF OneOldOwner
<1>9. ReadClaimed /\ SourceKnown /\ JobOpen /\ OldDrained
  BY <1>1, <1>2 DEF ReadClaimed, SourceKnown, JobOpen, OldDrained, OpenPC
<1>10. SharedSlots /\ SourceHolds /\ RangesFree
  BY <1>1, <1>2 DEF SharedSlots, SourceHolds, RangesFree
<1> QED BY <1>4, <1>5, <1>6, <1>7, <1>8, <1>9, <1>10 DEF NodeParts, JobParts

\* A slot once planned to be moved twice stays so.
LEMMA TwiceStays == ASSUME TypeInv, [Next]_vars PROVE twice => twice'
BY DEF Next, Operator, GetClusterInfos, waitForClusterJoin, syncCluster,
       noClusterOperation, nextMigrationInfo, dispatchDone, AddSlots,
       SetSlotsImporting, SetSlotsMigrating, MigrateKeys, MigrateKeysDone,
       MigrateKeysError, SetSlotsNodeTo, SetSlotsNodeFrom, SetSlotsNodeOthers,
       nodeOthersDone, scalingDownDone, scalingDownRefused, scalingDownNode,
       ForgetNode, DeleteStatefulSet, Crash, GossipStep, ClientStep, Sent,
       Fault, CountFault, GiveUp, vars, faultVars

\* What was left behind stays so.
LEMMA LeftGrows == ASSUME [Next]_vars PROVE left \subseteq left'
BY DEF Next, Operator, GetClusterInfos, waitForClusterJoin, syncCluster,
       noClusterOperation, nextMigrationInfo, dispatchDone, AddSlots,
       SetSlotsImporting, SetSlotsMigrating, MigrateKeys, MigrateKeysDone,
       MigrateKeysError, SetSlotsNodeTo, SetSlotsNodeFrom, SetSlotsNodeOthers,
       nodeOthersDone, scalingDownDone, scalingDownRefused, scalingDownNode,
       ForgetNode, DeleteStatefulSet, Crash, GossipStep, ClientStep, Sent,
       Fault, GiveUp, vars, faultVars

LEMMA KeyNext == ASSUME TypeInv, KeyInv, [Next]_vars PROVE KeyInv'
<1> SUFFICES ASSUME KeyCond' PROVE NodeParts' /\ JobParts'
  BY DEF KeyInv
<1>1. KeyCond
  BY HitGrows, TwiceStays, LeftGrows DEF KeyCond, MovedAgain
<1>2. NodeParts /\ JobParts
  BY <1>1 DEF KeyInv
<1>3. CASE waitForClusterJoin \/ noClusterOperation \/ scalingDownDone \/ scalingDownRefused
           \/ Crash
  BY <1>2, <1>3, KeyQuit DEF waitForClusterJoin, noClusterOperation, scalingDownDone,
     scalingDownRefused, Crash, Fault, faultVars
<1>4. CASE UNCHANGED vars
  <2>1. UNCHANGED << redisVars, pc, bom, plan, job, scan, rest, idx, twice, left >>
    BY <1>4 DEF vars, opVars, faultVars
  <2>2. NodeParts'
    BY <1>2, <2>1, NodesUnchanged
  <2>3. OneOldOwner' /\ ReadClaimed' /\ SourceKnown'
    BY <1>2, <2>1 DEF JobParts, OneOldOwner, OldOwner, ReadClaimed, SourceKnown, Pending, Claims,
       redisVars
  <2>4. SharedSlots' /\ SourceHolds' /\ RangesFree'
    BY <1>2, <2>1 DEF JobParts, SharedSlots, SourceHolds, RangesFree, Pending, Adding, Claims,
       redisVars
  <2>5. JobOpen' /\ OldDrained'
    BY <1>2, <2>1 DEF JobParts, JobOpen, OldDrained, Claims, Spent, Kept, redisVars
  <2> QED BY <2>2, <2>3, <2>4, <2>5 DEF JobParts
<1> QED
  BY <1>2, <1>3, <1>4, KeyGetClusterInfos, KeySyncCluster, KeyNextMigrationInfo, KeyMoveOn,
     KeyAddSlots, KeySetSlotsImporting, KeySetSlotsMigrating, KeyMigrateKeys, KeySetSlotsNodeTo,
     KeySetSlotsNodeFrom, KeySetSlotsNodeOthers, KeyForgetNode, KeyDeleteStatefulSet, KeyGossip,
     KeyClient
     DEF Next, Operator

\* No acknowledged key is lost but those that MigrateKeys left at the source, wherever the
\* operator crashes and whatever Redis and Kubernetes requests fail, from any distribution of
\* the slots, lost ones included, unless a slot is moved again from a master that kept its
\* claim: a node loses a slot, by SETSLOT, by gossip or by its deletion, only once it holds no
\* other key of it.
THEOREM NoAcknowledgedKeyLost == Spec => []KeysKept
<1>1. KeyInv => KeysKept
  BY DEF KeyInv, KeyCond, NodeParts, KeysHeld, KeysKept
<1> QED
  BY <1>1, TypeInit, TypeNext, KeyInit, KeyNext, PTL DEF Spec

\* DeleteStatefulSet removes only nodes without an authoritative claim, and without keys but
\* those that MigrateKeys left there, as long as the commands arrive: the slots scalingDown
\* decides by, read at the start of the reconcile and updated in memory, are never less than
\* what the node has.
THEOREM RemovalIsSafe == Spec => RemovedNodeIsDrained
<1>1. TypeInv /\ OwnInv /\ KeyInv /\ [Next]_vars =>
        ["redis" \notin hit' /\ ~MovedAgain' =>
           \A n \in alive \ alive' :
             keys[n] \subseteq left /\ \A s \in Slot : claim[s] # n]_vars
  <2> SUFFICES ASSUME TypeInv, OwnInv, KeyInv, [Next]_vars,
                      "redis" \notin hit', ~MovedAgain', NEW n \in alive \ alive'
               PROVE  keys[n] \subseteq left /\ \A s \in Slot : claim[s] # n
    OBVIOUS
  <2>1. ~MovedAgain /\ "redis" \notin hit
    BY HitGrows, TwiceStays, LeftGrows DEF MovedAgain
  <2>2. NodeParts /\ JobParts /\ OldKnown
    BY <2>1 DEF KeyInv, KeyCond, OwnInv, OwnParts, SetSlotsArrive
  <2>3. DeleteStatefulSet
    BY DEF Next, Operator, GetClusterInfos, waitForClusterJoin, syncCluster,
           noClusterOperation, nextMigrationInfo, dispatchDone, AddSlots,
           ClusterAddSlotsRange, SetSlotsImporting, SetSlotImporting,
           SetSlotsMigrating, SetSlotMigrating, MigrateKeys, GiveUp,
           MigrateKeysDone, MigrateKeysError,
           SetSlotsNodeTo, SetSlotsNodeFrom, SetSlotsNodeOthers, SetSlotNode,
           nodeOthersDone, scalingDownDone, scalingDownRefused,
           scalingDownNode, ForgetNode, ClusterForget, Crash, GossipStep,
           Gossip, ClientStep, ClientSet, vars, redisVars
  <2>4. n = idx /\ pc = "delete"
    BY <2>3 DEF DeleteStatefulSet
  <2>5. keys[n] \subseteq left
    BY <2>2, <2>4, RemovedIsEmpty DEF Kept
  <2>6. \A s \in Slot : claim[s] # n
    BY <2>2, <2>4, KeyFacts DEF OldKnown
  <2> QED BY <2>5, <2>6
<1> QED
  BY <1>1, TypeInit, TypeNext, OwnInit, OwnNext, KeyInit, KeyNext, PTL
     DEF Spec, RemovedNodeIsDrained

-----------------------------------------------------------------------------
(***************************************************************************)
(* Without faults, and as long as MigrateKeys has met no key, every        *)
(* acknowledged key can be reached at every moment, also in a cluster that *)
(* starts with lost slots: the keys of slots that do not move, and those   *)
(* clients write while a slot moves or after it has.                       *)
(***************************************************************************)

\* Where the slots of the job still belong to the source.
PendingPC == {"addslots", "importing", "migrating", "migrate", "nodeTo"}

\* No two nodes claim a slot, except source and destination between the two SETSLOT
\* NODE.
SingleClaimant ==
  \A n \in Master, s \in Slot :
    owner[n][s] = n => claim[s] = n \/ (pc = "nodeFrom" /\ n = job.from /\ s \in job.slots)

\* What the operator read is still true of every slot it has yet to move, and no slot
\* is to be moved twice.
PlanCurrent ==
  /\ pc = "join" => bom = [n \in Master |-> {s \in Slot : claim[s] = n}]
  /\ pc \in {"idle", "join", "scalingDown", "forget", "delete"} => plan = {}
  /\ \A j \in plan : j.from # j.to /\ \A s \in j.slots : claim[s] = j.from
  /\ \A i, j \in plan : i # j => i.slots \cap j.slots = {}
  /\ pc \in JobPC \cup {"addslots"} => \A j \in plan : j.slots \cap job.slots = {}
  /\ pc \in JobPC => job.from # job.to
  /\ pc = "addslots" => job.from = None
  /\ pc \in PendingPC => \A s \in job.slots : claim[s] = job.from

\* A slot in a range of lost slots is unclaimed, or every master that is kept knows
\* that it is not.
RangeKnown(j) ==
  j.from = None =>
    \A s \in SlotRange(j.slots) : claim[s] = None \/ \A n \in New : owner[n][s] # None

RangesKnown ==
  /\ \A j \in plan : RangeKnown(j)
  /\ pc = "addslots" => RangeKnown(job)
  /\ \A i, j \in plan : i # j /\ i.from = None /\ j.from = None =>
       SlotRange(i.slots) \cap SlotRange(j.slots) = {}
  /\ pc = "addslots" => \A j \in plan : j.from = None =>
       SlotRange(j.slots) \cap SlotRange(job.slots) = {}

\* The marks are those of the job in hand, and as long as source and destination need
\* them they are set.
MarksOfJob ==
  /\ \A n \in Master, s \in Slot : migrating[n][s] # None =>
       /\ pc \in {"migrate", "nodeTo", "nodeFrom"}
       /\ n = job.from /\ s \in job.slots /\ migrating[n][s] = job.to
  /\ \A n \in Master, s \in Slot : importing[n][s] # None =>
       pc \in {"migrating", "migrate", "nodeTo"} /\ n = job.to /\ s \in job.slots
  /\ pc \in {"migrating", "migrate", "nodeTo"} =>
       \A s \in job.slots : importing[job.to][s] # None
  /\ pc \in {"migrate", "nodeTo", "nodeFrom"} =>
       \A s \in job.slots : owner[job.from][s] = job.from => migrating[job.from][s] = job.to

\* What is left at the source.
Drained ==
  /\ pc = "migrate" => /\ scan \subseteq job.slots
                       /\ \A k \in keys[job.from] : SlotOf[k] \notin job.slots \ scan
  /\ pc \in {"nodeTo", "nodeFrom"} => \A k \in keys[job.from] : SlotOf[k] \notin job.slots

\* A key is where its slot is claimed, or was written ahead of its slot.
KeysPlaced ==
  /\ \A n \in Master : keys[n] \subseteq stored
  /\ \A k \in stored :
       /\ claim[SlotOf[k]] # None
       /\ \/ k \in keys[claim[SlotOf[k]]]
          \/ pc \in {"migrate", "nodeTo"} /\ SlotOf[k] \in job.slots /\ k \in keys[job.to]

ReachParts ==
  SingleClaimant /\ PlanCurrent /\ RangesKnown /\ MarksOfJob /\ Drained /\ KeysPlaced

ReachInv == hit = {} /\ left = {} => ReachParts

\* Where marks may be set.
MarkPC == {"migrating", "migrate", "nodeTo", "nodeFrom"}

\* The types of what follows, and what holds while no command is lost.
LEMMA ReachFacts ==
  ASSUME TypeInv, OwnParts
  PROVE  /\ None \in View /\ Master \subseteq View /\ None \notin Master
         /\ owner \in [Master -> [Slot -> View]]
         /\ importing \in [Master -> [Slot -> View]]
         /\ migrating \in [Master -> [Slot -> View]]
         /\ claim \in [Slot -> View] /\ alive \subseteq Master
         /\ keys \in [Master -> SUBSET Key] /\ stored \subseteq Key
         /\ SlotOf \in [Key -> Slot]
         /\ bom \in [Master -> SUBSET Slot] /\ rest \subseteq Master
         /\ job.to \in New /\ job.to \in Master /\ job.slots \subseteq Slot
         /\ pc \in JobPC => job.from \in Master
         /\ New \subseteq Master /\ New \subseteq alive
         /\ RedisTypeOK
BY Tables, MasterFacts, ConstantsAssumption
   DEF TypeInv, TypeOK, RedisTypeOK, View, OwnParts, OldKnown

LEMMA QuietKeeps ==
  ASSUME ReachParts, UNCHANGED redisVars, pc \notin MarkPC, pc' \notin MarkPC
  PROVE  SingleClaimant' /\ MarksOfJob' /\ Drained' /\ KeysPlaced'
<1>1. SingleClaimant'
  BY DEF ReachParts, SingleClaimant, MarkPC, redisVars
<1>2. MarksOfJob'
  BY DEF ReachParts, MarksOfJob, MarkPC, redisVars
<1>3. Drained'
  BY DEF Drained, MarkPC
<1>4. KeysPlaced'
  BY DEF ReachParts, KeysPlaced, MarkPC, redisVars
<1> QED BY <1>1, <1>2, <1>3, <1>4

LEMMA ReachReturn ==
  ASSUME ReachParts, UNCHANGED redisVars, pc \notin MarkPC, Return
  PROVE  ReachParts'
<1>1. pc' = "idle" /\ plan' = {}
  BY DEF Return, Forgotten
<1>2. PlanCurrent' /\ RangesKnown'
  BY <1>1 DEF PlanCurrent, RangesKnown, JobPC, PendingPC
<1> QED BY <1>1, <1>2, QuietKeeps DEF ReachParts, MarkPC

\* Slots that are claimed once are read as they are.
LEMMA ReachGetClusterInfos ==
  ASSUME TypeInv, OwnParts, ReachParts, GetClusterInfos
  PROVE  ReachParts'
<1>1. /\ pc = "idle" /\ pc' = "join" /\ UNCHANGED << redisVars, plan >>
      /\ bom' = [n \in Master |-> IF n \in alive THEN Claimed(n) ELSE {}]
  BY DEF GetClusterInfos
<1>2. ASSUME NEW n \in Master, NEW s \in Slot
      PROVE  n \in alive /\ owner[n][s] = n <=> claim[s] = n
  BY <1>1, ReachFacts DEF ReachParts, SingleClaimant, OwnParts, ClaimsHeld
<1>3. ASSUME NEW n \in Master
      PROVE  (IF n \in alive THEN Claimed(n) ELSE {}) = {s \in Slot : claim[s] = n}
  BY <1>2 DEF Claimed
<1>4. bom' = [n \in Master |-> {s \in Slot : claim[s] = n}]
  BY <1>1, <1>3
<1>5. PlanCurrent' /\ RangesKnown'
  BY <1>1, <1>4 DEF ReachParts, PlanCurrent, RangesKnown, JobPC, PendingPC, redisVars
<1> QED BY <1>1, <1>5, QuietKeeps DEF ReachParts, MarkPC

\* The plan is made of slots that are what they were when they were read.
LEMMA ReachSyncCluster ==
  ASSUME TypeInv, OwnParts, ReachParts, syncCluster
  PROVE  ReachParts'
<1>1. /\ pc = "join" /\ pc' = "dispatch" /\ UNCHANGED redisVars /\ ComputeStatus
      /\ \E p \in Plans(bom) : plan' = p
  BY DEF syncCluster
<1>2. PlanOK(plan', bom)
  BY <1>1, ReachFacts, PlanFacts
<1>3. bom = [n \in Master |-> {s \in Slot : claim[s] = n}]
  BY <1>1 DEF ReachParts, PlanCurrent
<1>5. ASSUME NEW j \in plan', NEW s \in j.slots PROVE claim[s] = j.from
  <2>1. j \in Job /\ s \in Slot
    BY <1>2 DEF PlanOK, Job
  <2>2. CASE j.from = None
    <3>1. \A n \in Master : claim[s] # n
      BY <1>2, <1>3, <2>1, <2>2 DEF PlanOK
    <3> QED BY <2>1, <2>2, <3>1, ReachFacts DEF View
  <2>3. CASE j.from # None
    <3>1. j.from \in Master /\ s \in bom[j.from]
      BY <1>2, <2>1, <2>3 DEF PlanOK, Job
    <3> QED BY <1>3, <3>1
  <2> QED BY <2>2, <2>3
<1>4. ASSUME NEW i \in plan', NEW j \in plan', i # j PROVE i.slots \cap j.slots = {}
  <2> SUFFICES ASSUME NEW s \in i.slots \cap j.slots PROVE FALSE
    OBVIOUS
  <2>1. PICK m \in Master \ {i.from} : s \in bom[m]
    BY <1>2, <1>4 DEF PlanOK
  <2> QED BY <1>3, <1>5, <2>1
<1>6. PlanCurrent'
  BY <1>1, <1>2, <1>4, <1>5 DEF PlanCurrent, PlanOK, JobPC, PendingPC, redisVars
<1>7. ASSUME NEW s \in Slot, claim[s] # None, NEW n \in New PROVE owner[n][s] # None
  <2>1. claim[s] \in alive /\ owner[claim[s]][s] = claim[s]
    BY <1>7 DEF OwnParts, ClaimsHeld
  <2>2. owner[n][s] = claim[s]
    BY <1>1, <2>1, ReachFacts DEF ComputeStatus
  <2> QED BY <1>7, <2>2
<1>8. \A j : RangeKnown(j)'
  BY <1>1, <1>7 DEF RangeKnown, SlotRange, redisVars
<1>9. RangesKnown'
  BY <1>1, <1>2, <1>8 DEF RangesKnown, PlanOK
<1> QED BY <1>1, <1>6, <1>9, QuietKeeps DEF ReachParts, MarkPC

LEMMA ReachNextMigrationInfo ==
  ASSUME TypeInv, OwnParts, ReachParts, nextMigrationInfo
  PROVE  ReachParts'
<1>1. PICK j \in plan : job' = j /\ plan' = plan \ {j}
                        /\ pc' = IF j.from = None THEN "addslots" ELSE "importing"
  BY DEF nextMigrationInfo
<1>2. pc = "dispatch" /\ UNCHANGED redisVars
  BY DEF nextMigrationInfo
<1>3. PlanCurrent'
  BY <1>1, <1>2 DEF ReachParts, PlanCurrent, JobPC, PendingPC, redisVars
<1>4. \A i : RangeKnown(i) => RangeKnown(i)'
  BY <1>2 DEF RangeKnown, SlotRange, redisVars
<1>5. RangesKnown'
  BY <1>1, <1>4 DEF ReachParts, RangesKnown, RangeKnown
<1> QED BY <1>1, <1>2, <1>3, <1>5, QuietKeeps DEF ReachParts, MarkPC

\* The steps that only go on, with the same plan.
LEMMA ReachMoveOn ==
  ASSUME TypeInv, OwnParts, ReachParts, dispatchDone \/ nodeOthersDone \/ scalingDownNode
  PROVE  ReachParts'
<1>1. /\ UNCHANGED << redisVars, plan >>
      /\ \/ pc = "dispatch" /\ plan = {} /\ pc' = "scalingDown"
         \/ pc = "nodeOthers" /\ pc' = "dispatch"
         \/ pc = "scalingDown" /\ pc' = "forget"
  BY DEF dispatchDone, nodeOthersDone, scalingDownNode
<1>2. PlanCurrent'
  BY <1>1 DEF ReachParts, PlanCurrent, JobPC, PendingPC, redisVars
<1>3. \A i : RangeKnown(i) => RangeKnown(i)'
  BY <1>1 DEF RangeKnown, SlotRange, redisVars
<1>4. RangesKnown'
  BY <1>1, <1>3 DEF ReachParts, RangesKnown
<1> QED BY <1>1, <1>2, <1>4, QuietKeeps DEF ReachParts, MarkPC

\* Steps within a job that leave claims and plan alone keep what the plan says.
LEMMA JobKeepsPlan ==
  ASSUME TypeInv, OwnParts, ReachParts, UNCHANGED << claim, plan, job >>,
         pc \in JobPC, pc' \in JobPC, pc' \in PendingPC => pc \in PendingPC,
         \A n \in New, s \in Slot : owner[n][s] # None => owner'[n][s] # None
  PROVE  PlanCurrent' /\ RangesKnown'
<1>1. PlanCurrent'
  BY DEF ReachParts, PlanCurrent, JobPC, PendingPC
<1>2. \A i : RangeKnown(i) => RangeKnown(i)'
  BY DEF RangeKnown, SlotRange
<1>3. RangesKnown'
  BY <1>2 DEF ReachParts, RangesKnown, JobPC
<1> QED BY <1>1, <1>3

\* No destination owns a slot it is to import.
LEMMA ReachSetSlotsImporting ==
  ASSUME TypeInv, OwnParts, ReachParts, SetSlotsImporting, hit' = {}
  PROVE  ReachParts'
<1>0. /\ pc = "importing" /\ pc \in JobPC /\ job.from \in Master /\ job.from # job.to
      /\ \A s \in job.slots : claim[s] = job.from
  BY ReachFacts DEF SetSlotsImporting, JobPC, PendingPC, ReachParts, PlanCurrent
<1>1. AcceptImporting(job.to, job.slots) = job.slots
  BY <1>0, ReachFacts DEF AcceptImporting, ReachParts, SingleClaimant
<1>2. /\ SetSlotImporting(job.to, job.slots, job.from)
      /\ pc' = "migrating" /\ UNCHANGED << bom, plan, job >>
  BY <1>1, SentEntirely DEF SetSlotsImporting, SetSlotsArrive
<1>3. /\ \A m \in Master, s \in Slot :
           importing'[m][s] = IF m = job.to /\ s \in job.slots THEN job.from ELSE importing[m][s]
      /\ UNCHANGED << alive, owner, migrating, claim, keys, stored >>
  BY <1>0, <1>1, <1>2, ReachFacts, SetSlotImportingEffect DEF SetSlotImporting
<1>4. PlanCurrent' /\ RangesKnown'
  BY <1>0, <1>2, <1>3, JobKeepsPlan DEF JobPC, PendingPC
<1>5. MarksOfJob'
  BY <1>0, <1>2, <1>3, ReachFacts DEF ReachParts, MarksOfJob
<1>6. SingleClaimant' /\ Drained'
  BY <1>0, <1>2, <1>3 DEF ReachParts, SingleClaimant, Drained
<1>7. KeysPlaced'
  BY <1>0, <1>2, <1>3 DEF ReachParts, KeysPlaced
<1> QED BY <1>4, <1>5, <1>6, <1>7 DEF ReachParts

\* The source owns all slots it is to give away.
LEMMA ReachSetSlotsMigrating ==
  ASSUME TypeInv, OwnParts, ReachParts, SetSlotsMigrating, hit' = {}
  PROVE  ReachParts'
<1>0. /\ pc = "migrating" /\ pc \in JobPC /\ job.from \in Master /\ job.from # job.to
      /\ \A s \in job.slots : claim[s] = job.from
  BY ReachFacts DEF SetSlotsMigrating, JobPC, PendingPC, ReachParts, PlanCurrent
<1>1. AcceptMigrating(job.from, job.slots) = job.slots
  BY <1>0, ReachFacts DEF AcceptMigrating, OwnParts, ClaimsHeld
<1>2. /\ SetSlotMigrating(job.from, job.slots, job.to)
      /\ pc' = "migrate" /\ scan' = job.slots /\ UNCHANGED << bom, plan, job >>
  BY <1>1, SentEntirely DEF SetSlotsMigrating, SetSlotsArrive
<1>3. /\ \A m \in Master, s \in Slot :
           migrating'[m][s] = IF m = job.from /\ s \in job.slots THEN job.to ELSE migrating[m][s]
      /\ UNCHANGED << alive, owner, importing, claim, keys, stored >>
  BY <1>0, <1>1, <1>2, ReachFacts, SetSlotMigratingEffect DEF SetSlotMigrating
<1>4. PlanCurrent' /\ RangesKnown'
  BY <1>0, <1>2, <1>3, JobKeepsPlan DEF JobPC, PendingPC
<1>5. MarksOfJob'
  BY <1>0, <1>2, <1>3, ReachFacts DEF ReachParts, MarksOfJob
<1>6. SingleClaimant' /\ Drained'
  BY <1>0, <1>2, <1>3 DEF ReachParts, SingleClaimant, Drained
<1>7. KeysPlaced'
  BY <1>0, <1>2, <1>3 DEF ReachParts, KeysPlaced
<1> QED BY <1>4, <1>5, <1>6, <1>7 DEF ReachParts

\* A slot that MigrateKeys finds empty.
LEMMA ReachMigrateKeys ==
  ASSUME TypeInv, OwnParts, ReachParts, MigrateKeys, left' = {}
  PROVE  ReachParts'
<1>0. /\ pc = "migrate" /\ pc \in JobPC /\ job.from \in Master /\ job.from # job.to
  BY ReachFacts DEF MigrateKeys, JobPC, ReachParts, PlanCurrent
<1>1. scan \subseteq job.slots /\ \A k \in keys[job.from] : SlotOf[k] \notin job.slots \ scan
  BY <1>0 DEF ReachParts, Drained
<1>2. PICK s \in scan :
        \/ /\ KeysIn(job.from, {s}) = {} /\ scan' = scan \ {s}
           /\ UNCHANGED << redisVars, pc, bom, plan, job >>
        \/ KeysIn(job.from, {s}) # {} /\ left' = left \cup KeysIn(job.from, scan)
  BY DEF MigrateKeys, GiveUp
<1>3. KeysIn(job.from, {s}) \subseteq KeysIn(job.from, scan)
  BY DEF KeysIn, KeysOf
<1>4. /\ KeysIn(job.from, {s}) = {} /\ scan' = scan \ {s}
      /\ UNCHANGED << redisVars, pc, bom, plan, job >>
  BY <1>2, <1>3
<1>5. PlanCurrent' /\ RangesKnown'
  BY <1>0, <1>4, JobKeepsPlan DEF PendingPC, redisVars
<1>6. MarksOfJob' /\ SingleClaimant'
  BY <1>0, <1>4 DEF ReachParts, MarksOfJob, SingleClaimant, redisVars
<1>7. \A k \in keys[job.from] : SlotOf[k] # s
  BY <1>0, <1>4, ReachFacts DEF KeysIn, KeysOf
<1>8. Drained'
  BY <1>0, <1>1, <1>4, <1>7 DEF Drained, redisVars
<1>9. KeysPlaced'
  BY <1>0, <1>4 DEF ReachParts, KeysPlaced, redisVars
<1> QED BY <1>5, <1>6, <1>8, <1>9 DEF ReachParts

LEMMA ReachMigrateKeysDone ==
  ASSUME TypeInv, OwnParts, ReachParts, MigrateKeysDone
  PROVE  ReachParts'
<1>0. /\ pc = "migrate" /\ pc \in JobPC /\ pc' = "nodeTo" /\ scan = {}
      /\ UNCHANGED << redisVars, bom, plan, job >>
  BY DEF MigrateKeysDone, JobPC
<1>1. PlanCurrent' /\ RangesKnown'
  BY <1>0, JobKeepsPlan DEF PendingPC, JobPC, redisVars
<1>2. MarksOfJob' /\ SingleClaimant'
  BY <1>0 DEF ReachParts, MarksOfJob, SingleClaimant, redisVars
<1>3. Drained' /\ KeysPlaced'
  BY <1>0 DEF ReachParts, Drained, KeysPlaced, redisVars
<1> QED BY <1>1, <1>2, <1>3 DEF ReachParts

\* The destination takes the slots together with their keys.
LEMMA ReachSetSlotsNodeTo ==
  ASSUME TypeInv, OwnParts, ReachParts, SetSlotsNodeTo, hit' = {}
  PROVE  ReachParts'
<1>0. /\ pc = "nodeTo" /\ pc \in JobPC /\ job.from \in Master /\ job.from # job.to
      /\ \A s \in job.slots : claim[s] = job.from
  BY ReachFacts DEF SetSlotsNodeTo, JobPC, PendingPC, ReachParts, PlanCurrent
<1>1. /\ SetSlotNode(job.to, job.slots, job.to)
      /\ pc' = "nodeFrom" /\ UNCHANGED << bom, plan, job >>
  BY SentEntirely DEF SetSlotsNodeTo, SetSlotsArrive
<1>2. AcceptNode(job.to, job.slots, job.to) = job.slots
  BY DEF AcceptNode
<1>3. /\ \A m \in Master, s \in Slot :
           owner'[m][s] = IF m = job.to /\ s \in job.slots THEN job.to ELSE owner[m][s]
      /\ \A m \in Master, s \in Slot :
           migrating'[m][s] = migrating[m][s] \/ (m = job.to /\ migrating'[m][s] = None)
      /\ \A m \in Master, s \in Slot :
           importing'[m][s] = IF m = job.to /\ s \in job.slots THEN None ELSE importing[m][s]
      /\ \A s \in Slot : claim'[s] = IF s \in job.slots THEN job.to ELSE claim[s]
      /\ UNCHANGED << alive, keys, stored >>
  <2>1. UNCHANGED << alive, keys, stored >>
    BY <1>1 DEF SetSlotNode
  <2> QED BY <1>1, <1>2, <2>1, ReachFacts, SetSlotNodeEffect
<1>4. SingleClaimant'
  BY <1>0, <1>1, <1>3 DEF ReachParts, SingleClaimant
<1>5. PlanCurrent'
  <2>1. ASSUME NEW j \in plan, NEW s \in j.slots PROVE claim'[s] = j.from
    <3>1. claim[s] = j.from /\ s \notin job.slots
      BY <1>0 DEF ReachParts, PlanCurrent
    <3>2. s \in Slot
      BY DEF TypeInv, TypeOK, Job
    <3> QED BY <1>3, <3>1, <3>2
  <2> QED BY <1>0, <1>1, <2>1 DEF ReachParts, PlanCurrent, JobPC, PendingPC
<1>6. RangesKnown'
  <2>1. ASSUME NEW s \in Slot, claim[s] = None \/ \A n \in New : owner[n][s] # None
        PROVE  claim'[s] = None \/ \A n \in New : owner'[n][s] # None
    BY <1>0, <1>3, <2>1, ReachFacts
  <2>2. \A i : RangeKnown(i) => RangeKnown(i)'
    BY <2>1 DEF RangeKnown, SlotRange
  <2> QED BY <1>1, <2>2 DEF ReachParts, RangesKnown
<1>7. MarksOfJob'
  <2>1. \A n \in Master, s \in Slot : migrating'[n][s] # None =>
          n = job.from /\ s \in job.slots /\ migrating'[n][s] = job.to
    BY <1>3 DEF ReachParts, MarksOfJob
  <2>2. \A n \in Master, s \in Slot : importing'[n][s] = None
    BY <1>3 DEF ReachParts, MarksOfJob
  <2>3. \A s \in job.slots : owner'[job.from][s] = job.from => migrating'[job.from][s] = job.to
    BY <1>0, <1>3, ReachFacts DEF ReachParts, MarksOfJob
  <2> QED BY <1>1, <2>1, <2>2, <2>3 DEF MarksOfJob
<1>8. Drained'
  BY <1>0, <1>1, <1>3 DEF ReachParts, Drained
<1>9. KeysPlaced'
  <2>1. ASSUME NEW k \in stored
        PROVE  claim'[SlotOf[k]] # None /\ k \in keys[claim'[SlotOf[k]]]
    <3>1. /\ claim[SlotOf[k]] # None
          /\ k \in keys[claim[SlotOf[k]]] \/ (SlotOf[k] \in job.slots /\ k \in keys[job.to])
      BY DEF ReachParts, KeysPlaced
    <3>2. SlotOf[k] \in Slot
      BY ReachFacts
    <3>3. CASE SlotOf[k] \in job.slots
      <4>1. k \notin keys[job.from]
        BY <1>0, <3>3 DEF ReachParts, Drained
      <4> QED BY <1>0, <1>3, <3>1, <3>2, <3>3, <4>1, ReachFacts
    <3>4. CASE SlotOf[k] \notin job.slots
      BY <1>3, <3>1, <3>2, <3>4
    <3> QED BY <3>3, <3>4
  <2> QED BY <1>3, <2>1 DEF ReachParts, KeysPlaced
<1> QED BY <1>4, <1>5, <1>6, <1>7, <1>8, <1>9 DEF ReachParts

\* The source, which has no keys left, gives all slots up, and its marks.
LEMMA ReachSetSlotsNodeFrom ==
  ASSUME TypeInv, OwnParts, ReachParts, SetSlotsNodeFrom, hit' = {}
  PROVE  ReachParts'
<1>0. /\ pc = "nodeFrom" /\ pc \in JobPC /\ job.from \in Master /\ job.from # job.to
  BY ReachFacts DEF SetSlotsNodeFrom, JobPC, ReachParts, PlanCurrent
<1>1. /\ SetSlotNode(job.from, job.slots, job.to)
      /\ pc' = "nodeOthers" /\ UNCHANGED << plan, job >>
  BY SentEntirely DEF SetSlotsNodeFrom, SetSlotsArrive
<1>2. \A s \in job.slots : KeysIn(job.from, {s}) = {}
  BY <1>0 DEF ReachParts, Drained, KeysIn, KeysOf
<1>3. AcceptNode(job.from, job.slots, job.to) = job.slots
  BY <1>2 DEF AcceptNode
<1>4. /\ \A m \in Master, s \in Slot :
           owner'[m][s] = IF m = job.from /\ s \in job.slots THEN job.to ELSE owner[m][s]
      /\ \A m \in Master, s \in Slot : importing'[m][s] = importing[m][s]
      /\ \A s \in Slot : claim'[s] = claim[s]
      /\ UNCHANGED << alive, keys, stored >>
  <2>1. UNCHANGED << alive, keys, stored >>
    BY <1>1 DEF SetSlotNode
  <2> QED BY <1>0, <1>1, <1>3, <2>1, ReachFacts, SetSlotNodeEffect
<1>5. claim' = claim
  BY <1>0, <1>1, <1>4, ReachFacts DEF SetSlotNode
<1>6. \A m \in Master, s \in Slot : migrating'[m][s] = None
  <2>1. migrating' = Rewrite(migrating, job.from, {s \in job.slots : KeysIn(job.from, {s}) = {}}, None)
    BY <1>1, <1>3 DEF SetSlotNode
  <2>2. \A m \in Master, s \in Slot :
          migrating'[m][s] = IF m = job.from /\ s \in job.slots THEN None ELSE migrating[m][s]
    BY <1>0, <1>2, <2>1, ReachFacts DEF Rewrite
  <2> QED BY <2>2 DEF ReachParts, MarksOfJob
<1>7. PlanCurrent' /\ RangesKnown'
  <2>0. New \subseteq Master /\ job.to # None
    BY ReachFacts
  <2>1. \A n \in New, s \in Slot : owner[n][s] # None => owner'[n][s] # None
    BY <1>4, <2>0
  <2>2. pc' \in JobPC /\ pc' \notin PendingPC
    BY <1>1 DEF JobPC, PendingPC
  <2> QED BY <1>0, <1>1, <1>5, <2>1, <2>2, JobKeepsPlan
<1>8. MarksOfJob'
  BY <1>0, <1>1, <1>4, <1>6 DEF ReachParts, MarksOfJob
<1>9. SingleClaimant'
  BY <1>0, <1>1, <1>4 DEF ReachParts, SingleClaimant
<1>10. Drained' /\ KeysPlaced'
  BY <1>0, <1>1, <1>4, <1>5 DEF ReachParts, Drained, KeysPlaced
<1> QED BY <1>7, <1>8, <1>9, <1>10 DEF ReachParts

LEMMA ReachSetSlotsNodeOthers ==
  ASSUME TypeInv, OwnParts, ReachParts, SetSlotsNodeOthers, hit' = {}
  PROVE  ReachParts'
<1>0. /\ pc = "nodeOthers" /\ pc \in JobPC /\ pc' = pc /\ UNCHANGED << plan, job >>
      /\ \A s \in job.slots : claim[s] = job.to
  BY DEF SetSlotsNodeOthers, JobPC, OwnParts, TargetTook
<1>1. PICK m \in rest : SetSlotNode(m, job.slots, job.to)
  BY SentEntirely DEF SetSlotsNodeOthers, SetSlotsArrive
<1>2. AcceptNode(m, job.slots, job.to) \subseteq job.slots
  BY DEF AcceptNode
<1>3. /\ \A n \in Master, s \in Slot :
           owner'[n][s] = owner[n][s] \/ (s \in job.slots /\ owner'[n][s] = job.to)
      /\ \A n \in Master, s \in Slot :
           migrating'[n][s] = migrating[n][s] \/ migrating'[n][s] = None
      /\ \A n \in Master, s \in Slot :
           importing'[n][s] = importing[n][s] \/ importing'[n][s] = None
      /\ \A s \in Slot : claim'[s] = claim[s]
      /\ UNCHANGED << alive, keys, stored >>
  <2>1. m \in Master
    BY ReachFacts
  <2>2. UNCHANGED << alive, keys, stored >>
    BY <1>1 DEF SetSlotNode
  <2>3. /\ \A n \in Master, s \in Slot :
             owner'[n][s] = owner[n][s] \/ (s \in job.slots /\ owner'[n][s] = job.to)
        /\ \A n \in Master, s \in Slot :
             migrating'[n][s] = migrating[n][s] \/ migrating'[n][s] = None
        /\ \A n \in Master, s \in Slot :
             importing'[n][s] = importing[n][s] \/ importing'[n][s] = None
    BY <1>1, <1>2, <2>1, ReachFacts, SetSlotNodeEffect
  <2>4. \A s \in Slot : claim'[s] = claim[s]
    BY <1>0, <1>1, <1>2, <2>1, ReachFacts, SetSlotNodeEffect
  <2> QED BY <2>2, <2>3, <2>4
<1>4. claim' = claim
  BY <1>1, <1>3, ReachFacts DEF SetSlotNode
<1>5. PlanCurrent' /\ RangesKnown'
  <2>0. New \subseteq Master /\ job.to # None
    BY ReachFacts
  <2>1. \A n \in New, s \in Slot : owner[n][s] # None => owner'[n][s] # None
    BY <1>3, <2>0
  <2>2. pc' \in JobPC /\ (pc' \in PendingPC => pc \in PendingPC)
    BY <1>0
  <2> QED BY <1>0, <1>4, <2>1, <2>2, JobKeepsPlan
<1>6. MarksOfJob'
  BY <1>0, <1>3 DEF ReachParts, MarksOfJob
<1>7. SingleClaimant'
  BY <1>0, <1>3 DEF ReachParts, SingleClaimant
<1>8. Drained' /\ KeysPlaced'
  BY <1>0, <1>3, <1>4 DEF ReachParts, Drained, KeysPlaced
<1> QED BY <1>5, <1>6, <1>7, <1>8 DEF ReachParts

\* A range that is accepted was unclaimed, and no later range meets it.
LEMMA ReachAddSlots ==
  ASSUME TypeInv, OwnParts, ReachParts, AddSlots, hit' = {}
  PROVE  ReachParts'
<1>0. pc = "addslots"
  BY DEF AddSlots
<1>1. PICK executed \in BOOLEAN :
        /\ executed => AcceptAddSlots(job.to, AddSlotsRange)
        /\ IF executed THEN ClusterAddSlotsRange(job.to, AddSlotsRange)
           ELSE UNCHANGED redisVars
        /\ IF executed THEN pc' = "dispatch" /\ UNCHANGED << plan, job >> ELSE Return
  BY DEF AddSlots, Fault, CountFault
<1>2. CASE ~executed
  BY <1>0, <1>1, <1>2, ReachReturn DEF MarkPC
<1>3. CASE executed
  <2> DEFINE R == AddSlotsRange
  <2>1. /\ \A m \in Master, s \in Slot :
             owner'[m][s] = IF m = job.to /\ s \in R THEN job.to ELSE owner[m][s]
        /\ \A s \in Slot : claim'[s] = IF s \in R THEN job.to ELSE claim[s]
        /\ UNCHANGED << alive, importing, migrating, keys, stored >>
        /\ pc' = "dispatch" /\ UNCHANGED << plan, job >>
    <3>1. ClusterAddSlotsRange(job.to, R) /\ pc' = "dispatch" /\ UNCHANGED << plan, job >>
      BY <1>1, <1>3
    <3>2. UNCHANGED << alive, importing, migrating, keys, stored >>
      BY <3>1 DEF ClusterAddSlotsRange
    <3> HIDE DEF R
    <3> QED BY <3>1, <3>2, ReachFacts, AddSlotsEffect
  <2>2. R \subseteq Slot /\ \A s \in R : claim[s] = None
    <3>1. RangeKnown(job) /\ job.from = None
      BY <1>0 DEF ReachParts, RangesKnown, PlanCurrent
    <3>2. \A s \in R : owner[job.to][s] = None
      BY <1>1, <1>3 DEF AcceptAddSlots
    <3> QED BY <3>1, <3>2, ReachFacts DEF RangeKnown, AddSlotsRange, SlotRange
  <2>3. ASSUME NEW j \in plan, NEW s \in j.slots PROVE s \in Slot /\ s \notin R
    <3>1. s \in Slot /\ claim[s] = j.from
      BY DEF TypeInv, TypeOK, Job, ReachParts, PlanCurrent
    <3>2. CASE j.from = None
      <4>1. s \in SlotRange(j.slots)
        BY <3>1 DEF SlotRange, Slot
      <4>2. SlotRange(j.slots) \cap R = {}
        BY <1>0, <3>2 DEF ReachParts, RangesKnown, AddSlotsRange
      <4> QED BY <3>1, <4>1, <4>2
    <3>3. CASE j.from # None
      BY <2>2, <3>1, <3>3
    <3> QED BY <3>2, <3>3
  <2>4. PlanCurrent'
    <3>1. \A j \in plan : \A s \in j.slots : claim'[s] = j.from
      BY <2>1, <2>3 DEF ReachParts, PlanCurrent
    <3> QED BY <2>1, <3>1 DEF ReachParts, PlanCurrent, JobPC, PendingPC
  <2>5. RangesKnown'
    <3>1. ASSUME NEW j \in plan PROVE RangeKnown(j)'
      <4>1. RangeKnown(j) /\ (j.from = None => SlotRange(j.slots) \cap R = {})
        BY <1>0 DEF ReachParts, RangesKnown, AddSlotsRange
      <4>2. SlotRange(j.slots) \subseteq Slot
        BY DEF SlotRange
      <4>3. ASSUME j.from = None, NEW s \in SlotRange(j.slots)
            PROVE  claim'[s] = None \/ \A n \in New : owner'[n][s] # None
        <5>1. s \in Slot /\ s \notin R
          BY <4>1, <4>2, <4>3
        <5>2. claim[s] = None \/ \A n \in New : owner[n][s] # None
          BY <4>1, <4>3 DEF RangeKnown
        <5> QED BY <2>1, <5>1, <5>2, ReachFacts
      <4> QED BY <4>3 DEF RangeKnown, SlotRange
    <3> QED BY <2>1, <3>1 DEF ReachParts, RangesKnown
  <2>6. SingleClaimant'
    <3>1. ASSUME NEW n \in Master, NEW s \in Slot, owner'[n][s] = n PROVE claim'[s] = n
      <4>1. CASE n = job.to /\ s \in R
        BY <2>1, <4>1
      <4>2. CASE owner[n][s] = n
        <5>1. claim[s] = n
          BY <1>0, <4>2 DEF ReachParts, SingleClaimant
        <5>2. s \notin R
          BY <2>2, <5>1, ReachFacts
        <5> QED BY <2>1, <5>1, <5>2
      <4> QED BY <2>1, <3>1, <4>1, <4>2
    <3> QED BY <3>1 DEF SingleClaimant
  <2>7. MarksOfJob' /\ Drained'
    BY <1>0, <2>1 DEF ReachParts, MarksOfJob, Drained
  <2>8. KeysPlaced'
    <3>1. ASSUME NEW k \in stored
          PROVE  claim'[SlotOf[k]] # None /\ k \in keys[claim'[SlotOf[k]]]
      <4>1. claim[SlotOf[k]] # None /\ k \in keys[claim[SlotOf[k]]] /\ SlotOf[k] \in Slot
        BY <1>0, ReachFacts DEF ReachParts, KeysPlaced
      <4> QED BY <2>1, <2>2, <4>1
    <3> QED BY <2>1, <3>1 DEF ReachParts, KeysPlaced
  <2> QED BY <2>4, <2>5, <2>6, <2>7, <2>8 DEF ReachParts
<1> QED BY <1>2, <1>3

LEMMA ReachRemove ==
  ASSUME TypeInv, OwnParts, ReachParts, ForgetNode \/ DeleteStatefulSet, hit' = {}
  PROVE  ReachParts'
<1>1. /\ pc \in {"forget", "delete"} /\ pc' \in {"delete", "scalingDown"}
      /\ UNCHANGED << claim, keys, stored, plan >>
      /\ \A n \in Master, s \in Slot :
           /\ owner'[n][s] = owner[n][s] \/ owner'[n][s] = None
           /\ importing'[n][s] = importing[n][s] \/ importing'[n][s] = None
           /\ migrating'[n][s] = migrating[n][s] \/ migrating'[n][s] = None
  BY DEF ForgetNode, ClusterForget, DeleteStatefulSet, Fault, CountFault
<1>2. plan = {}
  BY <1>1 DEF ReachParts, PlanCurrent
<1>3. PlanCurrent' /\ RangesKnown'
  BY <1>1, <1>2 DEF PlanCurrent, RangesKnown, JobPC, PendingPC
<1>4. SingleClaimant'
  <2>1. ASSUME NEW n \in Master, NEW s \in Slot, owner'[n][s] = n PROVE owner[n][s] = n
    BY <1>1, <2>1, ReachFacts
  <2> QED BY <1>1, <2>1 DEF ReachParts, SingleClaimant
<1>5. MarksOfJob' /\ Drained'
  BY <1>1 DEF ReachParts, MarksOfJob, Drained
<1>6. KeysPlaced'
  BY <1>1 DEF ReachParts, KeysPlaced
<1> QED BY <1>3, <1>4, <1>5, <1>6 DEF ReachParts

\* Only the drained source has a claim to give up.
LEMMA ReachGossip ==
  ASSUME TypeInv, OwnParts, ReachParts, GossipStep
  PROVE  ReachParts'
<1>0. UNCHANGED << pc, bom, plan, job, scan >>
  BY DEF GossipStep, opVars
<1>1. PICK n \in Master, s \in Slot : Gossip(n, s)
  BY DEF GossipStep
<1>2. /\ \A m \in Master, r \in Slot :
           owner'[m][r] = IF m = n /\ r = s THEN claim[s] ELSE owner[m][r]
      /\ \A m \in Master, r \in Slot :
           migrating'[m][r] = migrating[m][r] \/ (m = n /\ r = s /\ migrating'[m][r] = None)
      /\ UNCHANGED << alive, importing, claim, stored >>
  <2>1. UNCHANGED << alive, importing, claim, stored >>
    BY <1>1 DEF Gossip
  <2> QED BY <1>1, <2>1, ReachFacts, GossipTables
<1>3. claim[s] # n /\ claim[s] # None
  BY <1>1, ReachFacts DEF Gossip, OwnParts, ClaimsHeld
<1>4. keys' = keys
  <2>1. CASE owner[n][s] = n
    <3>1. pc = "nodeFrom" /\ n = job.from /\ s \in job.slots
      BY <1>3, <2>1 DEF ReachParts, SingleClaimant
    <3>2. \A k \in keys[n] : SlotOf[k] # s
      BY <3>1 DEF ReachParts, Drained
    <3>3. keys[n] \ KeysOf({s}) = keys[n]
      BY <3>2 DEF KeysOf
    <3> QED BY <1>1, <2>1, <3>3, ReachFacts DEF Gossip
  <2>2. CASE owner[n][s] # n
    BY <1>1, <2>2 DEF Gossip
  <2> QED BY <2>1, <2>2
<1>5. SingleClaimant'
  BY <1>0, <1>2, <1>3 DEF ReachParts, SingleClaimant
<1>6. PlanCurrent'
  BY <1>0, <1>2 DEF ReachParts, PlanCurrent
<1>7. RangesKnown'
  <2>1. \A m \in New, r \in Slot : owner[m][r] # None => owner'[m][r] # None
    BY <1>2, <1>3, ReachFacts
  <2>2. \A i : RangeKnown(i) => RangeKnown(i)'
    BY <1>2, <2>1 DEF RangeKnown, SlotRange
  <2> QED BY <1>0, <2>2 DEF ReachParts, RangesKnown
<1>8. MarksOfJob'
  <2>1. pc \in {"migrate", "nodeTo", "nodeFrom"} =>
          \A r \in job.slots : owner'[job.from][r] = job.from => migrating'[job.from][r] = job.to
    <3>1. SUFFICES ASSUME pc \in {"migrate", "nodeTo", "nodeFrom"}, NEW r \in job.slots,
                          owner'[job.from][r] = job.from
                   PROVE  migrating'[job.from][r] = job.to
      OBVIOUS
    <3>2. job.from \in Master /\ r \in Slot
      BY <3>1, ReachFacts DEF JobPC
    <3>3. ~(job.from = n /\ r = s) /\ owner[job.from][r] = job.from
      BY <1>2, <1>3, <3>1, <3>2
    <3>4. migrating[job.from][r] = job.to
      BY <3>1, <3>3 DEF ReachParts, MarksOfJob
    <3> QED BY <1>2, <3>2, <3>3, <3>4
  <2>2. \A m \in Master, r \in Slot : migrating'[m][r] # None => migrating'[m][r] = migrating[m][r]
    BY <1>2
  <2> QED BY <1>0, <1>2, <2>1, <2>2 DEF ReachParts, MarksOfJob
<1>9. Drained' /\ KeysPlaced'
  BY <1>0, <1>2, <1>4 DEF ReachParts, Drained, KeysPlaced
<1> QED BY <1>5, <1>6, <1>7, <1>8, <1>9 DEF ReachParts

\* A new key goes to the claimant, or ahead of its slot to the destination.
LEMMA ReachClient ==
  ASSUME TypeInv, OwnParts, ReachParts, ClientStep
  PROVE  ReachParts'
<1>0. UNCHANGED << pc, bom, plan, job, scan >>
  BY DEF ClientStep, opVars
<1>1. PICK k \in Key, c \in alive :
        /\ k \notin stored /\ owner[c][SlotOf[k]] = c
        /\ keys' = [keys EXCEPT ![Target(c, k)] = @ \cup {k}]
        /\ stored' = stored \cup {k}
        /\ UNCHANGED << alive, owner, importing, migrating, claim >>
  BY DEF ClientStep, ClientSet
<1> DEFINE t == Target(c, k)
           s == SlotOf[k]
<1>2. s \in Slot /\ c \in Master /\ k \notin keys[c]
  BY <1>1, ReachFacts DEF ReachParts, KeysPlaced
<1>3. \/ t = c /\ claim[s] = c /\ migrating[c][s] = None
      \/ /\ t = job.to /\ c = job.from /\ s \in job.slots
         /\ pc \in {"migrate", "nodeTo", "nodeFrom"}
  <2>1. CASE migrating[c][s] = None
    <3>1. ~(pc = "nodeFrom" /\ c = job.from /\ s \in job.slots)
      BY <1>1, <1>2, <2>1, ReachFacts DEF ReachParts, MarksOfJob
    <3> QED BY <1>1, <1>2, <2>1, <3>1 DEF Target, ReachParts, SingleClaimant
  <2>2. CASE migrating[c][s] # None
    BY <1>2, <2>2 DEF Target, ReachParts, MarksOfJob
  <2> QED BY <2>1, <2>2
<1>4. t \in Master
  BY <1>2, <1>3, ReachFacts
<1>5. \A m \in Master : keys'[m] = IF m = t THEN keys[m] \cup {k} ELSE keys[m]
  BY <1>1, <1>4, ReachFacts
<1>6. pc \in {"migrate", "nodeTo", "nodeFrom"} =>
        /\ job.from \in Master /\ job.from # job.to
        /\ ~(t = job.from /\ s \in job.slots)
  <2> SUFFICES ASSUME pc \in {"migrate", "nodeTo", "nodeFrom"}
               PROVE  /\ job.from \in Master /\ job.from # job.to
                      /\ ~(t = job.from /\ s \in job.slots)
    OBVIOUS
  <2>1. job.from \in Master /\ job.from # job.to
    BY ReachFacts DEF ReachParts, PlanCurrent, JobPC
  <2>2. CASE t = c /\ migrating[c][s] = None
    <3>1. s \in job.slots /\ owner[job.from][s] = job.from => migrating[job.from][s] = job.to
      BY DEF ReachParts, MarksOfJob
    <3>2. job.to # None
      BY ReachFacts
    <3>3. ~(t = job.from /\ s \in job.slots)
      <4>1. owner[c][s] = c
        BY <1>1
      <4> HIDE DEF s, t
      <4> QED BY <2>2, <3>1, <3>2, <4>1
    <3> QED BY <2>1, <3>3
  <2>3. CASE t = job.to
    BY <2>1, <2>3
  <2> QED BY <1>3, <2>1, <2>2, <2>3
<1> HIDE DEF t
<1>7. SingleClaimant' /\ MarksOfJob'
  BY <1>0, <1>1 DEF ReachParts, SingleClaimant, MarksOfJob
<1>8. PlanCurrent'
  BY <1>0, <1>1 DEF ReachParts, PlanCurrent
<1>9. RangesKnown'
  BY <1>0, <1>1 DEF ReachParts, RangesKnown, RangeKnown, SlotRange
<1>10. Drained'
  <2>1. pc \in {"migrate", "nodeTo", "nodeFrom"} =>
          \A l \in keys'[job.from] : l \in keys[job.from] \/ SlotOf[l] \notin job.slots
    BY <1>5, <1>6
  <2> QED BY <1>0, <2>1 DEF ReachParts, Drained
<1>11. KeysPlaced'
  <2>1. \A n \in Master : keys'[n] \subseteq stored'
    BY <1>1, <1>5 DEF ReachParts, KeysPlaced
  <2>2. ASSUME NEW l \in stored
        PROVE  /\ claim[SlotOf[l]] # None
               /\ \/ l \in keys'[claim[SlotOf[l]]]
                  \/ pc \in {"migrate", "nodeTo"} /\ SlotOf[l] \in job.slots /\ l \in keys'[job.to]
    <3>1. /\ claim[SlotOf[l]] # None
          /\ \/ l \in keys[claim[SlotOf[l]]]
             \/ pc \in {"migrate", "nodeTo"} /\ SlotOf[l] \in job.slots /\ l \in keys[job.to]
      BY DEF ReachParts, KeysPlaced
    <3>2. claim[SlotOf[l]] \in Master
      BY <3>1, ReachFacts DEF View
    <3> QED BY <1>5, <3>1, <3>2, ReachFacts
  <2>3. /\ claim[s] # None
        /\ \/ k \in keys'[claim[s]]
           \/ pc \in {"migrate", "nodeTo"} /\ s \in job.slots /\ k \in keys'[job.to]
    <3>1. CASE t = c /\ claim[s] = c
      BY <1>2, <1>5, <3>1, ReachFacts
    <3>2. CASE t = job.to /\ s \in job.slots /\ pc \in {"migrate", "nodeTo"}
      <4>1. claim[s] = job.from
        BY <3>2 DEF ReachParts, PlanCurrent, PendingPC
      <4> QED BY <1>5, <1>6, <3>2, <4>1, ReachFacts
    <3>3. CASE t = job.to /\ s \in job.slots /\ pc = "nodeFrom"
      <4>1. claim[s] = job.to
        BY <3>3 DEF OwnParts, TargetTook
      <4> QED BY <1>5, <3>3, <4>1, ReachFacts
    <3> QED BY <1>3, <3>1, <3>2, <3>3
  <2> QED BY <1>0, <1>1, <2>1, <2>2, <2>3 DEF KeysPlaced
<1> QED BY <1>7, <1>8, <1>9, <1>10, <1>11 DEF ReachParts

LEMMA ReachInit == Init => ReachInv
<1> SUFFICES ASSUME Init PROVE ReachParts
  BY DEF ReachInv
<1>1. /\ claim \in [Slot -> View] /\ owner = [n \in Master |-> claim]
      /\ stored \subseteq {k \in Key : claim[SlotOf[k]] # None}
      /\ SlotOf \in [Key -> Slot] /\ None \notin Master
  BY ConstantsAssumption, MasterFacts DEF Init, RedisInit, View
<1>2. SingleClaimant
  BY <1>1 DEF SingleClaimant
<1>3. PlanCurrent /\ RangesKnown /\ Drained
  BY DEF Init, PlanCurrent, RangesKnown, Drained, JobPC, PendingPC
<1>4. MarksOfJob
  BY DEF Init, RedisInit, MarksOfJob
<1>5. KeysPlaced
  <2>1. \A k \in stored : claim[SlotOf[k]] \in Master /\ claim[SlotOf[k]] # None
    BY <1>1 DEF View
  <2> QED BY <2>1 DEF Init, RedisInit, KeysPlaced
<1> QED BY <1>2, <1>3, <1>4, <1>5 DEF ReachParts

LEMMA ReachNext == ASSUME TypeInv, OwnInv, ReachInv, [Next]_vars PROVE ReachInv'
<1> SUFFICES ASSUME hit' = {}, left' = {} PROVE ReachParts'
  BY DEF ReachInv
<1>0. OwnParts /\ ReachParts /\ hit = {}
  BY HitGrows, LeftGrows DEF OwnInv, ReachInv, SetSlotsArrive
<1>1. CASE waitForClusterJoin \/ noClusterOperation \/ scalingDownDone \/ scalingDownRefused
  BY <1>0, <1>1, ReachReturn DEF waitForClusterJoin, noClusterOperation, scalingDownDone,
     scalingDownRefused, MarkPC
<1>2. CASE MigrateKeysError \/ Crash
  BY <1>2 DEF MigrateKeysError, Crash, Fault, CountFault
<1>3. CASE UNCHANGED vars
  BY <1>0, <1>3 DEF vars, redisVars, opVars, ReachParts, SingleClaimant, PlanCurrent, RangesKnown,
     RangeKnown, SlotRange, MarksOfJob, Drained, KeysPlaced
<1> QED
  BY <1>0, <1>1, <1>2, <1>3, ReachGetClusterInfos, ReachSyncCluster, ReachNextMigrationInfo,
     ReachMoveOn, ReachSetSlotsImporting, ReachSetSlotsMigrating, ReachMigrateKeys,
     ReachMigrateKeysDone, ReachSetSlotsNodeTo, ReachSetSlotsNodeFrom, ReachSetSlotsNodeOthers,
     ReachAddSlots, ReachRemove, ReachGossip, ReachClient DEF Next, Operator

\* In a scale down without faults, until MigrateKeys first meets a slot with keys, a client
\* that asks any claimant of a slot finds every acknowledged key, there or by one ASK
\* redirection, whatever the plan, also a key that was written while its slot moves and when
\* lost slots are given away: DispatchSlotToNewMasters sets the marks of both nodes before
\* it changes an owner.
THEOREM UndisturbedKeysReachable == Spec => [](left = {} => KeyReachable)
<1>1. TypeInv /\ OwnInv /\ ReachInv => (left = {} => KeyReachable)
  <2> SUFFICES ASSUME TypeInv, OwnInv, ReachInv, left = {}, hit = {}, NEW k \in stored,
                      NEW c \in alive, owner[c][SlotOf[k]] = c
               PROVE  k \in keys[Target(c, k)] /\ Serves(Target(c, k), k)
    BY DEF KeyReachable
  <2>0. OwnParts /\ ReachParts
    BY DEF OwnInv, ReachInv, SetSlotsArrive
  <2> DEFINE s == SlotOf[k]
  <2>1. /\ s \in Slot /\ c \in Master /\ claim[s] # None
        /\ \/ k \in keys[claim[s]]
           \/ pc \in {"migrate", "nodeTo"} /\ s \in job.slots /\ k \in keys[job.to]
    BY <2>0, ReachFacts DEF ReachParts, KeysPlaced
  <2>2. CASE k \in keys[c]
    BY <2>1, <2>2 DEF Target, Serves
  <2>3. CASE k \notin keys[c] /\ claim[s] = c
    <3>1. pc \in {"migrate", "nodeTo"} /\ s \in job.slots /\ k \in keys[job.to]
      BY <2>1, <2>3
    <3>2. c = job.from
      BY <2>0, <2>3, <3>1 DEF ReachParts, PlanCurrent, PendingPC
    <3>3. migrating[c][s] = job.to /\ importing[job.to][s] # None
      BY <2>0, <3>1, <3>2 DEF ReachParts, MarksOfJob
    <3> QED BY <2>0, <2>3, <3>1, <3>3, ReachFacts DEF Target, Serves
  <2>4. CASE k \notin keys[c] /\ claim[s] # c
    <3>1. pc = "nodeFrom" /\ c = job.from /\ s \in job.slots
      BY <2>0, <2>1, <2>4 DEF ReachParts, SingleClaimant
    <3>2. claim[s] = job.to /\ k \in keys[job.to]
      BY <2>0, <2>1, <3>1 DEF OwnParts, TargetTook
    <3>3. migrating[c][s] = job.to
      BY <2>0, <3>1 DEF ReachParts, MarksOfJob
    <3>4. job.to \in alive /\ owner[job.to][s] = job.to /\ job.to # None
      BY <2>0, <2>1, <3>2, ReachFacts DEF OwnParts, ClaimsHeld
    <3> QED BY <2>4, <3>2, <3>3, <3>4 DEF Target, Serves
  <2> QED BY <2>2, <2>3, <2>4
<1> QED
  BY <1>1, TypeInit, TypeNext, OwnInit, OwnNext, ReachInit, ReachNext, PTL DEF Spec

=============================================================================
