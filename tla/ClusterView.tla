----------------------------- MODULE ClusterView -----------------------------
(***************************************************************************)
(* What the operator knows of the Redis nodes: the pool of connections of  *)
(* one reconcile (redisutil/connections.go) and GetClusterInfos, which asks *)
(* one node after the other for its CLUSTER NODES and compares their views *)
(* (clusterinfo.go), while the nodes gossip, fail over and restart.        *)
(* Reconcile reads the infos up to four times: to heal, twice to see the   *)
(* nodes joined, and for the health of the cluster.  What it does between  *)
(* the last two (syncCluster) is in the other modules.                     *)
(*                                                                         *)
(* A pod that starts is a new node with a new id and a new address, so the *)
(* id stands for the address too.                                          *)
(***************************************************************************)
EXTENDS Naturals, FiniteSets

CONSTANTS
  Pod,         \* the pods of the cluster
  Slot,
  None,
  Faults,      \* the kinds of fault that happen: a subset of FaultKind
  MaxFaults    \* bound on the number of faults in a behaviour

\* "restart": a pod goes down.  "suspect": a node that is up is seen as failed.
\* "failover": a replica takes over from a master that is up.  "silent": a node
\* does not answer a request.  "address": a node gives an address that is not its
\* own.  "redis": a command fails.  "crash": the operator dies.
FaultKind == {"restart", "suspect", "failover", "silent", "address", "redis", "crash"}

ASSUME ClusterViewAssumption ==
  /\ IsFiniteSet(Pod) /\ Cardinality(Pod) > 1
  /\ None \notin Pod \X Nat
  /\ Faults \subseteq FaultKind
  /\ MaxFaults \in Nat

Id == Pod \X (0 .. MaxFaults)

VARIABLES
  inc,      \* inc[p]: how often the pod p has started again
  down,     \* the pods that do not run
  table,    \* table[i]: what the node i knows
  claim,    \* claim[s]: the node whose claim of slot s has the highest epoch
  pc,       \* what the reconcile does next
  use,      \* what GetClusterInfos is called for
  listed,   \* the nodes of the pods that were listed
  pool,     \* the nodes the operator has a connection to
  todo,     \* those GetClusterInfos has not asked yet
  cur,      \* the node it is asking, None if none
  errs,     \* those that did not answer
  infos,    \* infos[i]: what i answered, None if nothing
  nok,      \* whether something has set ClusterState to NOK
  moves,    \* moves[s]: how often s was taken over while the health was read, at most 2
  faults,   \* number of faults so far
  hit       \* whether a node gave a wrong address

clusterVars == << inc, down, table, claim >>
readVars == << use, todo, cur, errs, infos, nok, moves >>
opVars == << pc, listed, pool, readVars >>
faultVars == << faults, hit >>
vars == << clusterVars, opVars, faultVars >>

\* A nodes table: the known nodes, the master of each of them (None: it is one
\* itself), the failed ones, those in handshake, and the owners of the slots.
Table == [nodes : SUBSET Id, ref : [Id -> Id \cup {None}], fail : SUBSET Id,
          shake : SUBSET Id, owner : [Slot -> Id \cup {None}]]

\* A line of CLUSTER NODES as it is decoded.
Node == [role : {"master", "slave", ""}, ref : Id \cup {None},
         status : SUBSET {"fail", "handshake"}, slots : SUBSET Slot]

\* None, the infos of a node that has not answered, is no infos.
ASSUME NoneIsNoInfos == \A D \in SUBSET Id : None \notin [D -> Node]

Use == {"heal", "join", "again", "health"}

TypeOK ==
  /\ inc \in [Pod -> 0 .. MaxFaults]
  /\ down \subseteq Pod
  /\ table \in [Id -> Table]
  /\ claim \in [Slot -> Id \cup {None}]
  /\ pc \in {"idle", "ready", "read", "info", "done", "meet", "sync"}
  /\ use \in Use
  /\ listed \subseteq Id /\ pool \subseteq Id
  /\ todo \subseteq pool /\ errs \subseteq pool
  /\ cur \in pool \cup {None}
  /\ DOMAIN infos = Id
  /\ \A i \in Id : infos[i] # None =>
       DOMAIN infos[i] \subseteq Id /\ infos[i] \in [DOMAIN infos[i] -> Node]
  /\ nok \in BOOLEAN /\ moves \in [Slot -> 0 .. 2]
  /\ faults \in 0 .. MaxFaults /\ hit \in BOOLEAN

Live == {<< p, inc[p] >> : p \in Pod \ down}

NoRefs == [i \in Id |-> None]
Blank(i) == [nodes |-> {i}, ref |-> NoRefs, fail |-> {}, shake |-> {},
             owner |-> [s \in Slot |-> None]]
Unread == [i \in Id |-> None]
NoMoves == [s \in Slot |-> 0]

First == {<< p, 0 >> : p \in Pod}

\* The tables of a cluster that has masters M, all other nodes replicas of m.
Formed(M, m, own) ==
  [i \in Id |->
     IF i \notin First THEN Blank(i)
     ELSE [Blank(i) EXCEPT !.nodes = First,
                           !.ref = [j \in Id |-> IF j \in First \ M THEN m ELSE None],
                           !.owner = [s \in Slot |-> own[i]]]]

\* New nodes, or a cluster in which the last SETSLOT NODE have reached their
\* destination and perhaps not the other masters.
Init ==
  /\ inc = [p \in Pod |-> 0] /\ down = {}
  /\ \/ table = [i \in Id |-> Blank(i)] /\ claim = [s \in Slot |-> None]
     \/ LET m == CHOOSE i \in First : TRUE
            n == CHOOSE i \in First : i # m
        IN \E c \in {m, n} : \E own \in [First -> {m, c}] :
            /\ own[c] = c
            /\ table = Formed({m, c}, m, own)
            /\ claim = [s \in Slot |-> c]
  /\ pc = "idle" /\ use = "heal" /\ listed = {} /\ pool = {}
  /\ todo = {} /\ cur = None /\ errs = {} /\ infos = Unread /\ nok = FALSE /\ moves = NoMoves
  /\ faults = 0 /\ hit = FALSE

Fault(kind) ==
  /\ kind \in Faults
  /\ faults < MaxFaults
  /\ faults' = faults + 1
  /\ hit' = (hit \/ kind = "address")

-----------------------------------------------------------------------------
(* Redis nodes and pods.                                                   *)

\* The table t of i after a packet of j: the role of j, the slots it claims,
\* unless i knows of a later claim, and nodes i has not heard of.  The slots of a
\* master that has become a replica are free.  A master that loses its last slot,
\* and its replicas, follow the winner.
Learn(i, t, j) ==
  LET won == {s \in Slot : table[j].owner[s] = j /\ (claim[s] = j \/ t.owner[s] = None)}
      lost == {s \in Slot : t.owner[s] = j /\ table[j].ref[j] # None}
      owner == [s \in Slot |-> IF s \in won THEN j ELSE IF s \in lost THEN None ELSE t.owner[s]]
      master == IF t.ref[i] = None THEN i ELSE t.ref[i]
      beaten == /\ i # j /\ \E s \in won : t.owner[s] = master
                /\ \A s \in Slot : owner[s] # master
  IN [t EXCEPT !.nodes = @ \cup {j},
               !.ref = [k \in Id |-> IF k = i /\ beaten THEN j
                                    ELSE IF k = j THEN table[j].ref[j] ELSE t.ref[k]],
               !.fail = @ \ {j},
               !.shake = (@ \cup ((table[j].nodes \cap Live) \ t.nodes)) \ {i, j},
               !.owner = owner]

redisUnchanged == << inc, down, claim, opVars, faultVars >>

Gossip ==
  /\ \E i, j \in Live :
       /\ i # j /\ j \in table[i].nodes /\ i \in table[j].nodes
       /\ Learn(i, table[i], j) # table[i]
       /\ table' = [table EXCEPT ![i] = Learn(i, @, j)]
  /\ UNCHANGED redisUnchanged

\* A handshake ends, or times out when the node is gone.
Handshake ==
  /\ \E i \in Live : \E j \in table[i].shake :
       table' = IF j \in Live
                THEN [k \in Id |->
                        IF k = i THEN Learn(i, table[i], j)
                        ELSE IF k = j THEN [table[j] EXCEPT !.shake = @ \cup ({i} \ table[j].nodes)]
                        ELSE table[k]]
                ELSE [table EXCEPT ![i].shake = @ \ {j}]
  /\ UNCHANGED redisUnchanged

MarkFailed(i, j) == table' = [table EXCEPT ![i].fail = @ \cup {j}]

NodeFails ==
  /\ \E i \in Live : \E j \in table[i].nodes \ (Live \cup table[i].fail) : MarkFailed(i, j)
  /\ UNCHANGED redisUnchanged

Suspect ==
  /\ Fault("suspect")
  /\ \E i \in Live : \E j \in (table[i].nodes \cap Live) \ {i} : MarkFailed(i, j)
  /\ UNCHANGED << inc, down, claim, opVars >>

\* The replica i of m takes over.
TakeOver(i, m) ==
  LET won == {s \in Slot : claim[s] = m /\ table[i].owner[s] = m} IN
  /\ claim' = [s \in Slot |-> IF s \in won THEN i ELSE claim[s]]
  /\ table' = [table EXCEPT ![i].ref[i] = None,
                 ![i].owner = [s \in Slot |-> IF s \in won THEN i ELSE @[s]]]
  /\ moves' = [s \in Slot |-> IF s \in won /\ use = "health" /\ moves[s] < 2
                              THEN moves[s] + 1 ELSE moves[s]]
  /\ UNCHANGED << inc, down, pc, listed, pool, use, todo, cur, errs, infos, nok >>

Failover ==
  /\ \E i \in Live : LET m == table[i].ref[i] IN
       m # None /\ m \in table[i].fail /\ m \notin Live /\ TakeOver(i, m)
  /\ UNCHANGED faultVars

FailoverOfLive ==
  /\ \E i \in Live : LET m == table[i].ref[i] IN m # None /\ m \in Live /\ TakeOver(i, m)
  /\ Fault("failover")

PodStops ==
  /\ Fault("restart")
  /\ \E p \in Pod \ down : LET i == << p, inc[p] >> IN
       down' = down \cup {p} /\ table' = [table EXCEPT ![i] = Blank(i)]
  /\ UNCHANGED << inc, claim, opVars >>

PodStarts ==
  /\ \E p \in down : down' = down \ {p} /\ inc' = [inc EXCEPT ![p] = @ + 1]
  /\ UNCHANGED << table, claim, opVars, faultVars >>

-----------------------------------------------------------------------------
(* GetClusterInfos.                                                        *)

\* Mutant: the connections are closed, what was being read is kept.
ClosedOnly ==
  /\ pc' = "idle" /\ use' = "heal" /\ listed' = {} /\ pool' = {}
  /\ UNCHANGED << todo, cur, errs, infos, nok, moves >>

\* Reconcile returns; the connections are closed.
Return ==
  /\ pc' = "idle" /\ use' = "heal" /\ listed' = {} /\ pool' = {}
  /\ todo' = {} /\ cur' = None /\ errs' = {} /\ infos' = Unread /\ nok' = FALSE
  /\ moves' = NoMoves

\* GetClusterInfos is called for u with the connections c.
GetClusterInfos(u, c) ==
  /\ pc' = "read" /\ use' = u /\ pool' = c
  /\ todo' = c /\ cur' = None /\ errs' = {} /\ infos' = Unread /\ nok' = FALSE
  /\ moves' = NoMoves
  /\ UNCHANGED listed

GetStatefulSetPods ==
  /\ pc = "idle"
  /\ listed' = Live
  /\ pc' = "ready"
  /\ UNCHANGED << clusterVars, pool, readVars, faultVars >>

\* Mutant: a node that does not answer the PING is not connected to.
NewClientPings(i) == i \in Live

\* A client connects when it is used, and the answer to the PING is not looked at:
\* there is a connection to every address, and a new one after every error.
NewClient(i) == TRUE

\* waitPodReady, then the connections to the pods listed before.
newRedisAdmin ==
  /\ pc = "ready"
  /\ IF down = {} THEN GetClusterInfos("heal", {i \in listed : NewClient(i)}) ELSE Return
  /\ UNCHANGED << clusterVars, faultVars >>

\* The flags of j in the table t: a node in handshake is neither master nor replica.
SetRole(t, j) == IF j \in t.shake THEN "" ELSE IF t.ref[j] = None THEN "master" ELSE "slave"
SetFailureStatus(t, j) ==
  {f \in {"fail", "handshake"} : (f = "fail" /\ j \in t.fail) \/ (f = "handshake" /\ j \in t.shake)}

\* CLUSTER NODES of i has one line for each node it knows or is in handshake with.
DecodeNodeInfos(i) ==
  LET t == table[i] IN
  [j \in t.nodes \cup t.shake |->
     [role |-> SetRole(t, j), ref |-> t.ref[j], status |-> SetFailureStatus(t, j),
      slots |-> {s \in Slot : t.owner[s] = j}]]

\* CLUSTER NODES of a node.  A node that gives another address is left out.  What
\* else it is asked is of use for the health only.
getInfos ==
  /\ pc = "read"
  /\ \E i \in todo \cap Live :
       /\ todo' = todo \ {i}
       /\ \/ /\ infos' = [infos EXCEPT ![i] = DecodeNodeInfos(i)]
             /\ IF use = "health" THEN cur' = i /\ pc' = "info" ELSE UNCHANGED << cur, pc >>
             /\ UNCHANGED faultVars
          \/ /\ Fault("address")
             /\ UNCHANGED << infos, cur, pc >>
  /\ UNCHANGED << clusterVars, listed, pool, use, errs, nok, moves >>

\* No answer: the infos are partial.  handleError reconnects, which puts the address
\* into the map GetClusterInfos ranges over anew, so that it may come up again.
handleError ==
  /\ pc = "read"
  /\ \E i \in todo :
       /\ IF i \in Live THEN Fault("silent") ELSE UNCHANGED faultVars
       /\ errs' = errs \cup {i}
       /\ todo' = todo \ {i} \/ (i \notin errs /\ UNCHANGED todo)
  /\ UNCHANGED << clusterVars, pc, listed, pool, use, cur, infos, nok, moves >>

\* cluster_state of i: every slot has an owner that is not failed.
clusterGetStatus(i) ==
  i \in Live /\ \A s \in Slot : table[i].owner[s] \notin table[i].fail \cup {None}

\* master_link_status of i, if it has said that it is a replica.
GetSlaveStatus(i) == infos[i][i].role = "slave" => i \in Live /\ table[i].ref[i] \in Live

\* The friends of i are neither failed nor in handshake.
FriendsOk(i) == \A j \in DOMAIN infos[i] : infos[i][j].status = {}

\* Mutant: the state of the cluster is not asked for.
ReplicasOnly ==
  /\ pc = "info"
  /\ nok' = (nok \/ ~GetSlaveStatus(cur) \/ ~FriendsOk(cur))
  /\ pc' = "read" /\ cur' = None
  /\ UNCHANGED << faultVars, clusterVars, listed, pool, use, todo, errs, infos, moves >>

\* CLUSTER INFO and INFO of the same node, later: an error is a reason for NOK too.
CheckandUpdateClusterState ==
  /\ pc = "info"
  /\ \/ /\ nok' = (nok \/ ~clusterGetStatus(cur) \/ ~GetSlaveStatus(cur) \/ ~FriendsOk(cur))
        /\ UNCHANGED faultVars
     \/ nok' = TRUE /\ Fault("silent")
  /\ pc' = "read" /\ cur' = None
  /\ UNCHANGED << clusterVars, listed, pool, use, todo, errs, infos, moves >>

Answered == {i \in Id : infos[i] # None}
\* What the nodes say of themselves.
GetNodes == [i \in Answered |-> infos[i][i]]

\* The masters of a view, each with its slots.
getConfigSignature(v) ==
  {<< i, v[i].slots >> : i \in {j \in DOMAIN v : v[j].role = "master"}}

\* Mutant: masters without slots do not count.
SlotsAgree ==
  \A i \in Answered : {c \in getConfigSignature(infos[i]) : c[2] # {}} =
                     {c \in getConfigSignature(GetNodes) : c[2] # {}}

\* Every view is the one put together from what the nodes say of themselves.
ComputeStatus ==
  \A i \in Answered : getConfigSignature(infos[i]) = getConfigSignature(GetNodes)

Status == IF errs # {} THEN "Partial"
          ELSE IF ComputeStatus THEN "Consistent" ELSE "Inconsistent"

AllRead ==
  /\ pc = "read" /\ todo = {}
  /\ pc' = "done"
  /\ UNCHANGED << clusterVars, listed, pool, readVars, faultVars >>

-----------------------------------------------------------------------------
(* Reconcile.                                                              *)

\* i has said that g has the flag f.
HasStatus(i, g, f) == g \in DOMAIN infos[i] /\ f \in infos[i][g].status

Threshold == Cardinality(Pod) \div 2

\* The ids that enough nodes have said are failed.
listGhostNodes ==
  {g \in Id : LET n == Cardinality({i \in Answered : HasStatus(i, g, "fail")})
              IN n >= Threshold /\ n > 0}

\* The ids in handshake at whose address no node has answered.
listUntrustedNodes ==
  {g \in Id : \E i \in Answered : HasStatus(i, g, "handshake")} \ Answered

\* CLUSTER FORGET of G at i: its slots are free again.
Forgotten(t, G) ==
  [t EXCEPT !.nodes = @ \ G, !.fail = @ \ G, !.shake = @ \ G,
            !.ref = [j \in Id |-> IF j \in G THEN None ELSE @[j]],
            !.owner = [s \in Slot |-> IF @[s] \in G THEN None ELSE @[s]]]

\* ForgetNode of every id of G: their replicas are reset and met again by the
\* others, and every node forgets the ids that are not its own, nodes that suspect
\* each other too.  An error ends it for one id, a node that does not answer is left
\* out: each node i has forgotten some ids H[i] only.
ForgetNode(G) ==
  LET Rest == pool \cap Live
      After(i, H) == IF table[i].ref[i] \in H
                     THEN [Blank(i) EXCEPT !.shake = (pool \cap Live) \ {i}]
                     ELSE Forgotten(table[i], H)
  IN \E H \in [Rest -> SUBSET G] :
       /\ \A i \in Rest : i \notin H[i]
       /\ IF H = [i \in Rest |-> G \ {i}] THEN UNCHANGED faultVars ELSE Fault("redis")
       /\ table' = [i \in Id |-> IF i \in Rest THEN After(i, H[i]) ELSE table[i]]

\* Partial infos end the reconcile; failed nodes are forgotten, then untrusted ones,
\* and the reconcile ends; otherwise it goes on to the join.
Heal ==
  /\ pc = "done" /\ use = "heal"
  /\ \/ /\ Status = "Partial"
        /\ Return /\ UNCHANGED << clusterVars, faultVars >>
     \/ /\ Status # "Partial" /\ listGhostNodes # {}
        /\ ForgetNode(listGhostNodes) /\ Return
        /\ UNCHANGED << inc, down, claim >>
     \/ /\ Status # "Partial" /\ listGhostNodes = {} /\ listUntrustedNodes # {}
        /\ ForgetNode(listUntrustedNodes) /\ Return
        /\ UNCHANGED << inc, down, claim >>
     \/ /\ Status # "Partial" /\ listGhostNodes = {} /\ listUntrustedNodes = {}
        /\ GetClusterInfos("join", pool)
        /\ UNCHANGED << clusterVars, faultVars >>

\* The nodes have joined when the infos are consistent; if not, they meet and are
\* asked once more.
waitForClusterJoin ==
  /\ pc = "done" /\ use \in {"join", "again"}
  /\ IF Status = "Consistent"
     THEN pc' = "sync" /\ UNCHANGED << listed, pool, readVars >>
     ELSE IF use = "again" THEN Return
     ELSE /\ pc' = "meet" /\ infos' = Unread /\ errs' = {}
          /\ UNCHANGED << listed, pool, use, todo, cur, nok, moves >>
  /\ UNCHANGED << clusterVars, faultVars >>

\* Mutant: no CLUSTER MEET is sent.
WaitOnly ==
  /\ pc = "meet"
  /\ GetClusterInfos("again", pool)
  /\ UNCHANGED << clusterVars, faultVars >>

\* CLUSTER MEET of one node, any of the infos that were healed, from all the others;
\* the first error ends the reconcile.
Meet(Q, i) ==
  table' = [j \in Id |->
    IF j \in Q /\ j # i THEN [table[j] EXCEPT !.shake = @ \cup ({i} \ table[j].nodes)]
    ELSE IF j = i /\ i \in Live THEN [table[j] EXCEPT !.shake = @ \cup (Q \ table[i].nodes)]
    ELSE table[j]]

AttachNodeToCluster ==
  /\ pc = "meet"
  /\ \E i \in pool :
       \/ /\ pool \ {i} \subseteq Live
          /\ Meet(pool, i) /\ GetClusterInfos("again", pool) /\ UNCHANGED faultVars
       \/ /\ \E Q \in SUBSET (pool \cap Live) : Meet(Q, i)
          /\ IF pool \ {i} \subseteq Live THEN Fault("redis") ELSE UNCHANGED faultVars
          /\ Return
  /\ UNCHANGED << inc, down, claim >>

\* syncCluster, which fails without a node, then the infos for the health.
syncCluster ==
  /\ pc = "sync"
  /\ IF Answered = {} THEN Return ELSE GetClusterInfos("health", pool)
  /\ UNCHANGED << clusterVars, faultVars >>

\* Infos that are partial are not inconsistent.
CheackandUpdateClusterHealth == Status # "Inconsistent" /\ ~nok

healthDone ==
  /\ pc = "done" /\ use = "health"
  /\ Return
  /\ UNCHANGED << clusterVars, faultVars >>

Crash ==
  /\ pc # "idle"
  /\ Fault("crash")
  /\ Return
  /\ UNCHANGED clusterVars

Operator ==
  \/ GetStatefulSetPods \/ newRedisAdmin
  \/ getInfos \/ handleError \/ CheckandUpdateClusterState \/ AllRead
  \/ Heal \/ waitForClusterJoin \/ AttachNodeToCluster \/ syncCluster \/ healthDone

Redis == Gossip \/ Handshake \/ NodeFails \/ Failover \/ PodStarts

Next == Operator \/ Redis \/ Suspect \/ FailoverOfLive \/ PodStops \/ Crash

\* A reconcile runs and is repeated, and the nodes exchange packets all the time.
Fairness == WF_vars(Operator) /\ WF_vars(Redis)

Spec == Init /\ [][Next]_vars /\ Fairness

-----------------------------------------------------------------------------
(* Properties.                                                             *)

\* A pod that was listed and does not answer is never left out unnoticed: AddAll
\* fails silently, but no connection fails.  A wrong address does that.
ConsistentIsComplete ==
  pc = "done" /\ Status = "Consistent" /\ ~hit => Answered = listed

\* When the nodes have joined, those that run know every master.
JoinedMeansMet ==
  pc = "sync" =>
    \A i, j \in Answered \cap Live : GetNodes[j].role = "master" => j \in table[i].nodes

\* Complete infos that are healthy give every slot to a node that has answered,
\* unless the slot went from node to node to node while they were read.
HealthyCoversSlots ==
  pc = "done" /\ use = "health" /\ errs = {} /\ ~hit /\ CheackandUpdateClusterHealth =>
    \A s \in Slot : moves[s] < 2 => \E i \in Answered : s \in GetNodes[i].slots

\* A master that is gone and that fewer running nodes know than listGhostNodes asks
\* for is never forgotten.
Haunted ==
  \E g \in Id \ Live :
    LET knows == {i \in Live : g \in table[i].nodes /\ table[i].ref[g] = None}
    IN knows # {} /\ Cardinality(knows) < Threshold

\* Whatever happens, the nodes join in the end, unless a FORGET that stopped half way
\* has left a master that is gone with too few of them.
JoinCompletes == []<>(pc = "sync" \/ Haunted)

\* The comment in listGhostNodes: "only forget it when no more part of kubernetes,
\* or if noaddress".
OnlyGoneForgotten ==
  pc = "done" /\ use = "heal" /\ Status # "Partial" => listGhostNodes \cap Live = {}
=============================================================================
