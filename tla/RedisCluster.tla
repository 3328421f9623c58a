---------------------------- MODULE RedisCluster ----------------------------
(***************************************************************************)
(* The Redis Cluster masters as the operator drives them.  Redis itself is *)
(* not part of the repository: this module models the replies and effects  *)
(* that utils/redisutil/admin.go relies on when it sends CLUSTER SETSLOT,  *)
(* CLUSTER ADDSLOTSRANGE and CLUSTER FORGET, and what the nodes do on      *)
(* their own: gossip slot ownership and serve clients.  MIGRATE never      *)
(* reaches a node: admin.go hands its arguments to go-redis as one slice,  *)
(* which the client refuses to encode.                                     *)
(*                                                                         *)
(* A node has its own view of who owns every slot.  A node whose view says *)
(* "myself" claims the slot and serves it.  Claims are ordered by config   *)
(* epoch; claim[s] names the node whose claim of s has the highest epoch,  *)
(* which is the view gossip converges to.                                  *)
(***************************************************************************)
EXTENDS Integers, FiniteSets

CONSTANTS
  NumSts,      \* number of StatefulSets at the start, one master in each
  MasterSize,  \* Spec.MasterSize after the user lowered it
  NumSlots,    \* admin.GetHashMaxSlot() + 1
  Key,         \* the keys clients may store
  SlotOf,      \* the hash slot of every key
  InitOwners,  \* the owner of every slot at the start, None for an unassigned
               \* slot: the distributions to start from
  None         \* no node

Master == 0 .. NumSts - 1
New    == 0 .. MasterSize - 1     \* the StatefulSets kept by the scale down
Old    == Master \ New            \* the StatefulSets to be removed
Slot   == 0 .. NumSlots - 1

ASSUME ConstantsAssumption ==
  /\ NumSts \in Nat
  /\ MasterSize \in 1 .. NumSts
  /\ NumSlots \in Nat \ {0}
  /\ None \notin Int
  /\ SlotOf \in [Key -> Slot]
  /\ InitOwners \subseteq [Slot -> Master \cup {None}]

VARIABLES
  alive,      \* masters whose StatefulSet, hence pod, exists
  owner,      \* owner[n][s]: the owner of slot s in the view of node n
  importing,  \* importing[n][s]: the node named by SETSLOT IMPORTING at n
  migrating,  \* migrating[n][s]: the node named by SETSLOT MIGRATING at n
  claim,      \* claim[s]: the node whose claim of s has the highest epoch
  keys,       \* keys[n]: the keys held by node n
  stored      \* keys whose write a client saw acknowledged

redisVars == << alive, owner, importing, migrating, claim, keys, stored >>

RedisTypeOK ==
  /\ alive \subseteq Master
  /\ owner \in [Master -> [Slot -> Master \cup {None}]]
  /\ importing \in [Master -> [Slot -> Master \cup {None}]]
  /\ migrating \in [Master -> [Slot -> Master \cup {None}]]
  /\ claim \in [Slot -> Master \cup {None}]
  /\ keys \in [Master -> SUBSET Key]
  /\ stored \subseteq Key

KeysOf(S) == {k \in Key : SlotOf[k] \in S}
KeysIn(n, S) == keys[n] \cap KeysOf(S)

RedisInit ==
  /\ alive = Master
  /\ importing = [n \in Master |-> [s \in Slot |-> None]]
  /\ migrating = [n \in Master |-> [s \in Slot |-> None]]
  /\ claim \in InitOwners
  /\ owner = [n \in Master |-> claim]
  /\ stored \in SUBSET {k \in Key : claim[SlotOf[k]] # None}
  /\ keys = [n \in Master |-> {k \in stored : claim[SlotOf[k]] = n}]

(***************************************************************************)
(* Commands.  Rewrite sets the part D of one node's slot table to v.       *)
(* Every command of a pipeline is executed on its own, so a command sent   *)
(* for the slots D takes effect on the ones the node accepts.              *)
(***************************************************************************)
Rewrite(table, n, D, v) ==
  [table EXCEPT ![n] = [s \in Slot |-> IF s \in D THEN v ELSE table[n][s]]]

\* CLUSTER SETSLOT s IMPORTING id: refused by the owner of s.
AcceptImporting(n, D) == {s \in D : owner[n][s] # n}

SetSlotImporting(n, D, id) ==
  /\ importing' = Rewrite(importing, n, AcceptImporting(n, D), id)
  /\ UNCHANGED << alive, owner, migrating, claim, keys, stored >>

\* CLUSTER SETSLOT s MIGRATING id: refused unless n owns s.
AcceptMigrating(n, D) == {s \in D : owner[n][s] = n}

SetSlotMigrating(n, D, id) ==
  /\ migrating' = Rewrite(migrating, n, AcceptMigrating(n, D), id)
  /\ UNCHANGED << alive, owner, importing, claim, keys, stored >>

\* CLUSTER SETSLOT s NODE id: refused by an owner that still holds keys of s
\* and would give s away.  A node that takes s for itself drops its importing
\* mark and claims s with a new, highest config epoch.
AcceptNode(n, D, id) ==
  {s \in D : ~(owner[n][s] = n /\ id # n /\ KeysIn(n, {s}) # {})}

SetSlotNode(n, D, id) ==
  LET A == AcceptNode(n, D, id) IN
  /\ owner' = Rewrite(owner, n, A, id)
  /\ migrating' = Rewrite(migrating, n, {s \in A : KeysIn(n, {s}) = {}}, None)
  /\ importing' = IF id = n THEN Rewrite(importing, n, A, None) ELSE importing
  /\ claim' = [s \in Slot |-> IF s \in A /\ id = n THEN n ELSE claim[s]]
  /\ UNCHANGED << alive, keys, stored >>

\* CLUSTER ADDSLOTSRANGE: all or nothing, refused if n knows an owner for one
\* of the slots.
AcceptAddSlots(n, R) == \A s \in R : owner[n][s] = None

ClusterAddSlotsRange(n, R) ==
  /\ owner' = Rewrite(owner, n, R, n)
  /\ claim' = [s \in Slot |-> IF s \in R THEN n ELSE claim[s]]
  /\ UNCHANGED << alive, importing, migrating, keys, stored >>

\* CLUSTER FORGET id at the nodes N: they drop id from their tables.
ClusterForget(N, id) ==
  LET Drop(table) == [n \in Master |-> [s \in Slot |->
                        IF n \in N /\ table[n][s] = id THEN None
                                                       ELSE table[n][s]]]
  IN /\ owner' = Drop(owner)
     /\ importing' = Drop(importing)
     /\ migrating' = Drop(migrating)
     /\ UNCHANGED << alive, claim, keys, stored >>

(***************************************************************************)
(* What the nodes do by themselves.                                        *)
(***************************************************************************)

\* Gossip: n learns of the claim with the highest epoch.  A node never
\* updates a slot it is importing.  A node that loses a slot it still has
\* keys of deletes those keys.  Whether it also drops its migrating mark is
\* left open: no code of the operator relies on either.
Gossip(n, s) ==
  /\ n \in alive
  /\ claim[s] \in alive
  /\ owner[claim[s]][s] = claim[s]
  /\ owner[n][s] # claim[s]
  /\ importing[n][s] = None
  /\ owner' = Rewrite(owner, n, {s}, claim[s])
  /\ keys' = IF owner[n][s] = n THEN [keys EXCEPT ![n] = @ \ KeysOf({s})]
                                ELSE keys
  /\ \/ UNCHANGED migrating
     \/ migrating' = Rewrite(migrating, n, {s}, None)
  /\ UNCHANGED << alive, importing, claim, stored >>

\* Where a client that reaches the claimant c finds, or stores, key k: at c
\* itself unless c has a migrating mark and not the key, then at the node that
\* mark names, if that node takes ASKING requests for the slot.
Serves(t, k) ==
  LET s == SlotOf[k] IN
  /\ t \in alive
  /\ \/ importing[t][s] # None
     \/ owner[t][s] = t /\ (k \in keys[t] \/ migrating[t][s] = None)

Target(c, k) ==
  LET s == SlotOf[k] IN
  IF k \in keys[c] \/ migrating[c][s] = None THEN c ELSE migrating[c][s]

\* A client stores a new key at the node its request is routed to.
ClientSet(k) ==
  /\ k \notin stored
  /\ \E c \in alive :
       /\ owner[c][SlotOf[k]] = c
       /\ Serves(Target(c, k), k)
       /\ keys' = [keys EXCEPT ![Target(c, k)] = @ \cup {k}]
  /\ stored' = stored \cup {k}
  /\ UNCHANGED << alive, owner, importing, migrating, claim >>

(***************************************************************************)
(* Views.                                                                  *)
(***************************************************************************)

\* The slots n claims: the Slots of its "myself" line in CLUSTER NODES.
Claimed(n) == {s \in Slot : owner[n][s] = n}

\* ComputeStatus: every node's view of every master equals that master's view
\* of itself.
ComputeStatus ==
  \A n, m \in alive : \A s \in Slot : (owner[n][s] = m) <=> (owner[m][s] = m)
=============================================================================
