------------------------- MODULE RedisClusterProofs -------------------------
(***************************************************************************)
(* Lemmas about the commands of RedisCluster: what they keep and what they *)
(* change, slot by slot.  The proofs about ScaleDown and ScaleUp rest on   *)
(* them.                                                                   *)
(***************************************************************************)
EXTENDS RedisCluster, TLAPS

\* What a node can know as the owner of a slot.
View == Master \cup {None}

-----------------------------------------------------------------------------
(* Types.                                                                  *)

\* Rewrite keeps the type of a slot table.
LEMMA RewriteType ==
  \A table \in [Master -> [Slot -> View]], n \in Master, v \in View : \A D :
    Rewrite(table, n, D, v) \in [Master -> [Slot -> View]]
BY DEF Rewrite

\* The kept masters are masters, and None is none of them.
LEMMA MasterFacts ==
  /\ New \subseteq Master
  /\ Old \subseteq Master
  /\ Master \subseteq Int
  /\ None \notin Master
  /\ 0 \in New
BY ConstantsAssumption DEF New, Old, Master

\* The commands keep the type of the Redis state.
LEMMA CommandTypes ==
  ASSUME RedisTypeOK, NEW n \in Master, NEW D, NEW v \in Master
  PROVE  /\ SetSlotImporting(n, D, v) => RedisTypeOK'
         /\ SetSlotMigrating(n, D, v) => RedisTypeOK'
         /\ SetSlotNode(n, D, v) => RedisTypeOK'
         /\ ClusterAddSlotsRange(n, D) => RedisTypeOK'
<1>1. v \in View /\ None \in View /\ n \in View
  BY DEF View
<1>2. /\ owner \in [Master -> [Slot -> View]]
      /\ importing \in [Master -> [Slot -> View]]
      /\ migrating \in [Master -> [Slot -> View]]
  BY DEF RedisTypeOK, View
<1>3. SetSlotImporting(n, D, v) => RedisTypeOK'
  <2> SUFFICES ASSUME SetSlotImporting(n, D, v) PROVE RedisTypeOK'
    OBVIOUS
  <2>1. importing' \in [Master -> [Slot -> View]]
    BY <1>1, <1>2, RewriteType DEF SetSlotImporting
  <2> QED BY <2>1 DEF SetSlotImporting, RedisTypeOK, View
<1>4. SetSlotMigrating(n, D, v) => RedisTypeOK'
  <2> SUFFICES ASSUME SetSlotMigrating(n, D, v) PROVE RedisTypeOK'
    OBVIOUS
  <2>1. migrating' \in [Master -> [Slot -> View]]
    BY <1>1, <1>2, RewriteType DEF SetSlotMigrating
  <2> QED BY <2>1 DEF SetSlotMigrating, RedisTypeOK, View
<1>5. SetSlotNode(n, D, v) => RedisTypeOK'
  <2> SUFFICES ASSUME SetSlotNode(n, D, v) PROVE RedisTypeOK'
    OBVIOUS
  <2>1. owner' \in [Master -> [Slot -> View]]
    BY <1>1, <1>2, RewriteType DEF SetSlotNode
  <2>2. migrating' \in [Master -> [Slot -> View]]
    BY <1>1, <1>2, RewriteType DEF SetSlotNode
  <2>3. importing' \in [Master -> [Slot -> View]]
    BY <1>1, <1>2, RewriteType DEF SetSlotNode
  <2>4. claim' \in [Slot -> View]
    BY DEF SetSlotNode, RedisTypeOK, View
  <2> QED BY <2>1, <2>2, <2>3, <2>4 DEF SetSlotNode, RedisTypeOK, View
<1>6. ClusterAddSlotsRange(n, D) => RedisTypeOK'
  <2> SUFFICES ASSUME ClusterAddSlotsRange(n, D) PROVE RedisTypeOK'
    OBVIOUS
  <2>1. owner' \in [Master -> [Slot -> View]]
    BY <1>1, <1>2, RewriteType DEF ClusterAddSlotsRange
  <2>2. claim' \in [Slot -> View]
    BY DEF ClusterAddSlotsRange, RedisTypeOK, View
  <2> QED BY <2>1, <2>2 DEF ClusterAddSlotsRange, RedisTypeOK, View
<1> QED BY <1>3, <1>4, <1>5, <1>6

LEMMA ForgetTypes ==
  ASSUME RedisTypeOK, NEW N, NEW id, ClusterForget(N, id)
  PROVE  RedisTypeOK'
BY DEF RedisTypeOK, ClusterForget

LEMMA GossipTypes ==
  ASSUME RedisTypeOK, NEW n \in Master, NEW s \in Slot, Gossip(n, s)
  PROVE  RedisTypeOK'
<1>1. /\ owner \in [Master -> [Slot -> View]]
      /\ migrating \in [Master -> [Slot -> View]]
      /\ claim[s] \in View /\ None \in View
  BY DEF RedisTypeOK, View
<1>2. owner' \in [Master -> [Slot -> View]]
  BY <1>1, RewriteType DEF Gossip
<1>3. migrating' \in [Master -> [Slot -> View]]
  BY <1>1, RewriteType DEF Gossip
<1>4. keys' \in [Master -> SUBSET Key]
  BY DEF Gossip, RedisTypeOK
<1> QED
  BY <1>2, <1>3, <1>4 DEF Gossip, RedisTypeOK, View

LEMMA ClientTypes ==
  ASSUME RedisTypeOK, NEW k \in Key, ClientSet(k)
  PROVE  RedisTypeOK'
<1>1. PICK c \in alive : /\ Serves(Target(c, k), k)
                         /\ keys' = [keys EXCEPT ![Target(c, k)] = @ \cup {k}]
  BY DEF ClientSet
<1>2. keys' \in [Master -> SUBSET Key]
  BY <1>1 DEF RedisTypeOK
<1> QED
  BY <1>2 DEF ClientSet, RedisTypeOK

-----------------------------------------------------------------------------
(* What the commands do, slot by slot.                                     *)

LEMMA SetSlotImportingEffect ==
  ASSUME RedisTypeOK, NEW n \in Master, NEW D, NEW id \in View,
         SetSlotImporting(n, D, id)
  PROVE  \A m \in Master, s \in Slot :
           importing'[m][s] = IF m = n /\ s \in AcceptImporting(n, D)
                                THEN id ELSE importing[m][s]
<1>1. importing \in [Master -> [Slot -> View]]
  BY DEF RedisTypeOK, View
<1> QED
  BY <1>1 DEF SetSlotImporting, Rewrite

LEMMA SetSlotMigratingEffect ==
  ASSUME RedisTypeOK, NEW n \in Master, NEW D, NEW id \in View,
         SetSlotMigrating(n, D, id)
  PROVE  \A m \in Master, s \in Slot :
           migrating'[m][s] = IF m = n /\ s \in AcceptMigrating(n, D)
                                THEN id ELSE migrating[m][s]
<1>1. migrating \in [Master -> [Slot -> View]]
  BY DEF RedisTypeOK, View
<1> QED
  BY <1>1 DEF SetSlotMigrating, Rewrite

\* SETSLOT NODE: only an accepted slot changes, and its migrating mark is kept
\* or dropped.
LEMMA SetSlotNodeEffect ==
  ASSUME RedisTypeOK, NEW n \in Master, NEW D, NEW id \in View, SetSlotNode(n, D, id)
  PROVE  /\ \A m \in Master, s \in Slot :
              owner'[m][s] = IF m = n /\ s \in AcceptNode(n, D, id)
                               THEN id ELSE owner[m][s]
         /\ \A m \in Master, s \in Slot :
              \/ migrating'[m][s] = migrating[m][s]
              \/ m = n /\ s \in AcceptNode(n, D, id) /\ migrating'[m][s] = None
         /\ \A m \in Master, s \in Slot :
              importing'[m][s] = IF id = n /\ m = n /\ s \in AcceptNode(n, D, id)
                                   THEN None ELSE importing[m][s]
         /\ \A s \in Slot :
              claim'[s] = IF s \in AcceptNode(n, D, id) /\ id = n THEN n ELSE claim[s]
<1>0. /\ owner \in [Master -> [Slot -> View]]
      /\ importing \in [Master -> [Slot -> View]]
      /\ migrating \in [Master -> [Slot -> View]]
  BY DEF RedisTypeOK, View
<1>1. \A m \in Master, s \in Slot :
         owner'[m][s] = IF m = n /\ s \in AcceptNode(n, D, id)
                          THEN id ELSE owner[m][s]
  BY <1>0 DEF SetSlotNode, Rewrite
<1>2. \A m \in Master, s \in Slot :
         \/ migrating'[m][s] = migrating[m][s]
         \/ m = n /\ s \in AcceptNode(n, D, id) /\ migrating'[m][s] = None
  BY <1>0 DEF SetSlotNode, Rewrite
<1>3. \A m \in Master, s \in Slot :
         importing'[m][s] = IF id = n /\ m = n /\ s \in AcceptNode(n, D, id)
                              THEN None ELSE importing[m][s]
  BY <1>0 DEF SetSlotNode, Rewrite
<1>4. \A s \in Slot :
         claim'[s] = IF s \in AcceptNode(n, D, id) /\ id = n THEN n ELSE claim[s]
  BY DEF SetSlotNode
<1> QED
  BY <1>1, <1>2, <1>3, <1>4

LEMMA GossipTables ==
  ASSUME RedisTypeOK, NEW n \in Master, NEW s \in Slot, Gossip(n, s)
  PROVE  /\ \A m \in Master, r \in Slot :
              owner'[m][r] = IF m = n /\ r = s THEN claim[s] ELSE owner[m][r]
         /\ \A m \in Master, r \in Slot :
              \/ migrating'[m][r] = migrating[m][r]
              \/ m = n /\ r = s /\ migrating'[m][r] = None
<1>0. /\ owner \in [Master -> [Slot -> View]]
      /\ migrating \in [Master -> [Slot -> View]]
  BY DEF RedisTypeOK, View
<1>1. \A m \in Master, r \in Slot :
        owner'[m][r] = IF m = n /\ r = s THEN claim[s] ELSE owner[m][r]
  BY <1>0 DEF Gossip, Rewrite
<1>2. \A m \in Master, r \in Slot :
        \/ migrating'[m][r] = migrating[m][r]
        \/ m = n /\ r = s /\ migrating'[m][r] = None
  BY <1>0 DEF Gossip, Rewrite
<1> QED
  BY <1>1, <1>2

LEMMA AddSlotsEffect ==
  ASSUME RedisTypeOK, NEW n \in Master, NEW R, ClusterAddSlotsRange(n, R)
  PROVE  /\ \A m \in Master, s \in Slot :
              owner'[m][s] = IF m = n /\ s \in R THEN n ELSE owner[m][s]
         /\ \A s \in Slot : claim'[s] = IF s \in R THEN n ELSE claim[s]
<1>1. owner \in [Master -> [Slot -> View]]
  BY DEF RedisTypeOK, View
<1>2. \A m \in Master, s \in Slot :
        owner'[m][s] = IF m = n /\ s \in R THEN n ELSE owner[m][s]
  BY <1>1 DEF ClusterAddSlotsRange, Rewrite
<1>3. \A s \in Slot : claim'[s] = IF s \in R THEN n ELSE claim[s]
  BY DEF ClusterAddSlotsRange
<1> QED BY <1>2, <1>3
=============================================================================
