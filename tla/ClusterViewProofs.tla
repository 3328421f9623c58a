-------------------------- MODULE ClusterViewProofs --------------------------
(***************************************************************************)
(* Proofs about ClusterView, for any number of pods, slots and faults.     *)
(***************************************************************************)
EXTENDS ClusterView, FiniteSetTheorems, TLAPS

\* A pod starts again only after a fault has stopped it.
Incarnations ==
  \A p \in Pod : inc[p] <= faults /\ (p \in down => inc[p] < faults)

TypeInv == TypeOK /\ Incarnations

\* Every connection is to a pod that was listed, and the other way round; the nodes
\* GetClusterInfos is done with have answered or are in errs, unless one gave a
\* wrong address.
ReadInv ==
  /\ pool = IF pc \in {"idle", "ready"} THEN {} ELSE listed
  /\ Answered \subseteq pool
  /\ pc \in {"read", "info", "done"} /\ ~hit => pool \subseteq todo \cup errs \cup Answered
  /\ pc = "done" => todo = {}

\* A node that still runs knows the nodes it has reported, except those that were
\* in handshake: nobody forgets a node while the infos are in use.
KnownInv ==
  /\ \A i \in listed : i[2] <= inc[i[1]]
  /\ \A i \in Answered \cap Live : \A j \in DOMAIN infos[i] :
       infos[i][j].role # "" => j \in table[i].nodes
  /\ pc = "sync" => ComputeStatus

-----------------------------------------------------------------------------
(* Tables.                                                                 *)

LEMMA LiveIds == ASSUME TypeOK PROVE Live \subseteq Id
BY DEF TypeOK, Live, Id

LEMMA BlankType == ASSUME NEW i \in Id PROVE Blank(i) \in Table
BY DEF Blank, NoRefs, Table

\* The table after a packet, field by field, and that nothing is forgotten.
LEMMA LearnType ==
  ASSUME TypeOK, NEW i \in Id, NEW t \in Table, NEW j \in Id
  PROVE  LET u == Learn(i, t, j) IN
         /\ u \in Table
         /\ u.nodes = t.nodes \cup {j}
         /\ u.shake = (t.shake \cup ((table[j].nodes \cap Live) \ t.nodes)) \ {i, j}
         /\ \A s \in Slot : u.owner[s] =
              IF table[j].owner[s] = j /\ (claim[s] = j \/ t.owner[s] = None) THEN j
              ELSE IF t.owner[s] = j /\ table[j].ref[j] # None THEN None ELSE t.owner[s]
         /\ \A k \in Id \ {i, j} : u.ref[k] = t.ref[k]
         /\ i # j => u.ref[j] = table[j].ref[j]
         /\ i # j /\ u.ref[i] # t.ref[i] =>
              LET master == IF t.ref[i] = None THEN i ELSE t.ref[i] IN
              /\ \E s \in Slot : t.owner[s] = master
              /\ \A s \in Slot : u.owner[s] # master
<1>1. /\ table[j].ref \in [Id -> Id \cup {None}] /\ table[j].nodes \subseteq Id
      /\ t.nodes \subseteq Id /\ t.ref \in [Id -> Id \cup {None}] /\ t.fail \subseteq Id
      /\ t.shake \subseteq Id /\ t.owner \in [Slot -> Id \cup {None}]
  BY DEF TypeOK, Table
<1> DEFINE won == {s \in Slot : table[j].owner[s] = j /\ (claim[s] = j \/ t.owner[s] = None)}
           lost == {s \in Slot : t.owner[s] = j /\ table[j].ref[j] # None}
           own == [s \in Slot |-> IF s \in won THEN j ELSE IF s \in lost THEN None ELSE t.owner[s]]
           master == IF t.ref[i] = None THEN i ELSE t.ref[i]
           beaten == /\ i # j /\ \E s \in won : t.owner[s] = master
                     /\ \A s \in Slot : own[s] # master
           ref == [k \in Id |-> IF k = i /\ beaten THEN j
                            ELSE IF k = j THEN table[j].ref[j] ELSE t.ref[k]]
           shake == (t.shake \cup ((table[j].nodes \cap Live) \ t.nodes)) \ {i, j}
<1>2. own \in [Slot -> Id \cup {None}]
  BY <1>1
<1>3. /\ ref \in [Id -> Id \cup {None}]
      /\ \A k \in Id \ {i, j} : ref[k] = t.ref[k]
      /\ i # j => ref[j] = table[j].ref[j]
      /\ i # j /\ ref[i] # t.ref[i] => beaten
  <2> HIDE DEF beaten
  <2> QED BY <1>1
<1>4. shake \subseteq Id
  BY <1>1
<1>5. Learn(i, t, j) = [t EXCEPT !.nodes = @ \cup {j}, !.ref = ref, !.fail = @ \ {j},
                                 !.shake = shake, !.owner = own]
  BY DEF Learn
<1>6. t.nodes \cup {j} \subseteq Id /\ t.fail \ {j} \subseteq Id
  BY <1>1
<1>9. \A s \in Slot : own[s] =
        IF table[j].owner[s] = j /\ (claim[s] = j \/ t.owner[s] = None) THEN j
        ELSE IF t.owner[s] = j /\ table[j].ref[j] # None THEN None ELSE t.owner[s]
  OBVIOUS
<1> HIDE DEF own, ref, shake
<1>7. t = [nodes |-> t.nodes, ref |-> t.ref, fail |-> t.fail, shake |-> t.shake,
           owner |-> t.owner]
  BY DEF Table
<1>8. Learn(i, t, j) = [nodes |-> t.nodes \cup {j}, ref |-> ref, fail |-> t.fail \ {j},
                        shake |-> shake, owner |-> own]
  BY <1>5, <1>7
<1>10. i # j /\ ref[i] # t.ref[i] =>
         (\E s \in Slot : t.owner[s] = master) /\ \A s \in Slot : own[s] # master
  BY <1>3
<1>11. Learn(i, t, j) \in Table
  BY <1>2, <1>3, <1>4, <1>6, <1>8 DEF Table
<1>12. /\ Learn(i, t, j).nodes = t.nodes \cup {j} /\ Learn(i, t, j).shake = shake
       /\ Learn(i, t, j).owner = own /\ Learn(i, t, j).ref = ref
  BY <1>8
<1> QED BY <1>3, <1>9, <1>10, <1>11, <1>12 DEF shake

LEMMA LearnKeeps ==
  ASSUME TypeOK, NEW i \in Id, NEW t \in Table, NEW j \in Id
  PROVE  Learn(i, t, j) \in Table /\ t.nodes \subseteq Learn(i, t, j).nodes
<1>1. /\ Learn(i, t, j) \in Table
      /\ Learn(i, t, j).nodes = t.nodes \cup {j}
  BY LearnType
<1> QED BY <1>1

TablesTyped == table \in [Id -> Table]
NodesKept == \A i \in Id : table[i].nodes \subseteq table'[i].nodes

LEMMA GossipTables ==
  ASSUME TypeOK, Gossip PROVE TablesTyped' /\ NodesKept
<1>1. PICK i, j \in Live : table' = [table EXCEPT ![i] = Learn(i, @, j)]
  BY DEF Gossip
<1>2. i \in Id /\ j \in Id /\ table \in [Id -> Table]
  BY LiveIds DEF TypeOK
<1>3. Learn(i, table[i], j) \in Table /\ table[i].nodes \subseteq Learn(i, table[i], j).nodes
  BY <1>2, LearnKeeps
<1> QED BY <1>1, <1>2, <1>3 DEF TablesTyped, NodesKept

LEMMA HandshakeTables ==
  ASSUME TypeOK, Handshake PROVE TablesTyped' /\ NodesKept
<1>1. PICK i \in Live : \E j \in table[i].shake :
        table' = IF j \in Live
                 THEN [k \in Id |->
                         IF k = i THEN Learn(i, table[i], j)
                         ELSE IF k = j THEN [table[j] EXCEPT !.shake = @ \cup ({i} \ table[j].nodes)]
                         ELSE table[k]]
                 ELSE [table EXCEPT ![i].shake = @ \ {j}]
  BY DEF Handshake
<1>2. PICK j \in table[i].shake :
        table' = IF j \in Live
                 THEN [k \in Id |->
                         IF k = i THEN Learn(i, table[i], j)
                         ELSE IF k = j THEN [table[j] EXCEPT !.shake = @ \cup ({i} \ table[j].nodes)]
                         ELSE table[k]]
                 ELSE [table EXCEPT ![i].shake = @ \ {j}]
  BY <1>1
<1>3. i \in Id /\ j \in Id /\ table \in [Id -> Table]
  BY <1>2, LiveIds DEF TypeOK, Table
<1>4. Learn(i, table[i], j) \in Table /\ table[i].nodes \subseteq Learn(i, table[i], j).nodes
  BY <1>3, LearnKeeps
<1>5. CASE j \in Live
  <2>1. /\ [table[j] EXCEPT !.shake = @ \cup ({i} \ table[j].nodes)] \in Table
        /\ [table[j] EXCEPT !.shake = @ \cup ({i} \ table[j].nodes)].nodes = table[j].nodes
    <3>1. table[j] \in Table
      BY <1>3
    <3> QED BY <1>3, <3>1 DEF Table
  <2> QED BY <1>2, <1>3, <1>4, <1>5, <2>1 DEF TablesTyped, NodesKept
<1>6. CASE j \notin Live
  <2>1. /\ [table[i] EXCEPT !.shake = @ \ {j}] \in Table
        /\ [table[i] EXCEPT !.shake = @ \ {j}].nodes = table[i].nodes
    <3>1. table[i] \in Table
      BY <1>3
    <3> QED BY <3>1 DEF Table
  <2> QED BY <1>2, <1>3, <1>6, <2>1 DEF TablesTyped, NodesKept
<1> QED BY <1>5, <1>6

LEMMA MarkFailedTables ==
  ASSUME TypeOK, NEW i \in Id, NEW j \in Id, MarkFailed(i, j)
  PROVE  TablesTyped' /\ NodesKept
<1>1. table \in [Id -> Table] /\ table[i] \in Table
  BY DEF TypeOK
<1>2. /\ [table[i] EXCEPT !.fail = @ \cup {j}] \in Table
      /\ [table[i] EXCEPT !.fail = @ \cup {j}].nodes = table[i].nodes
  BY <1>1 DEF Table
<1> QED BY <1>1, <1>2 DEF MarkFailed, TablesTyped, NodesKept

LEMMA TakeOverTables ==
  ASSUME TypeOK, NEW i \in Id, NEW m, TakeOver(i, m)
  PROVE  TablesTyped' /\ NodesKept /\ claim' \in [Slot -> Id \cup {None}]
<1> DEFINE won == {s \in Slot : claim[s] = m /\ table[i].owner[s] = m}
           T == [table EXCEPT ![i].ref[i] = None]
<1>1. table \in [Id -> Table] /\ table[i] \in Table /\ claim \in [Slot -> Id \cup {None}]
  BY DEF TypeOK
<1>2. /\ table[i].ref \in [Id -> Id \cup {None}]
      /\ table[i].owner \in [Slot -> Id \cup {None}]
  BY <1>1 DEF Table
<1>3. T[i] = [table[i] EXCEPT !.ref = [@ EXCEPT ![i] = None]] /\ T \in [Id -> Table]
  <2>1. [table[i] EXCEPT !.ref = [@ EXCEPT ![i] = None]] \in Table
    <3>1. [table[i].ref EXCEPT ![i] = None] \in [Id -> Id \cup {None}]
      BY <1>2
    <3> QED BY <1>1, <3>1 DEF Table
  <2> QED BY <1>1, <2>1
<1>4. T[i].nodes = table[i].nodes /\ T[i].owner = table[i].owner
  BY <1>1, <1>3 DEF Table
<1> DEFINE own == [s \in Slot |-> IF s \in won THEN i ELSE T[i].owner[s]]
<1>5. table' = [T EXCEPT ![i] = [T[i] EXCEPT !.owner = own]]
  BY <1>1 DEF TakeOver
<1>6. own \in [Slot -> Id \cup {None}] /\ claim' \in [Slot -> Id \cup {None}]
  <2>1. own \in [Slot -> Id \cup {None}]
    <3> HIDE DEF T
    <3> QED BY <1>2, <1>4
  <2>2. claim' = [s \in Slot |-> IF s \in won THEN i ELSE claim[s]]
    BY DEF TakeOver
  <2> HIDE DEF own, won
  <2> QED BY <1>1, <2>1, <2>2
<1>7. [T[i] EXCEPT !.owner = own] \in Table /\ [T[i] EXCEPT !.owner = own].nodes = T[i].nodes
  <2>1. T[i] \in Table
    BY <1>3
  <2> HIDE DEF T, own
  <2> QED BY <1>6, <2>1 DEF Table
<1>8. \A j \in Id : T[j].nodes = table[j].nodes
  BY <1>1, <1>4
<1> HIDE DEF T, own
<1>9. TablesTyped' /\ NodesKept
  BY <1>1, <1>3, <1>5, <1>7, <1>8 DEF TablesTyped, NodesKept
<1> QED BY <1>6, <1>9

LEMMA MeetTables ==
  ASSUME TypeOK, NEW Q \in SUBSET Id, NEW i \in Id, Meet(Q, i)
  PROVE  TablesTyped' /\ NodesKept
<1>1. table \in [Id -> Table]
  BY DEF TypeOK
<1>2. ASSUME NEW t \in Table, NEW X \in SUBSET Id
      PROVE  /\ [t EXCEPT !.shake = @ \cup (X \ t.nodes)] \in Table
             /\ [t EXCEPT !.shake = @ \cup (X \ t.nodes)].nodes = t.nodes
  BY DEF Table
<1>3. ASSUME NEW j \in Id
      PROVE  table'[j] \in Table /\ table'[j].nodes = table[j].nodes
  BY <1>1, <1>2 DEF Meet
<1> QED BY <1>3 DEF Meet, TablesTyped, NodesKept

LEMMA ForgetTables ==
  ASSUME TypeOK, NEW G \in SUBSET Id, ForgetNode(G) PROVE TablesTyped'
<1> DEFINE Rest == pool \cap Live
           After(i, H) == IF table[i].ref[i] \in H
                          THEN [Blank(i) EXCEPT !.shake = (pool \cap Live) \ {i}]
                          ELSE Forgotten(table[i], H)
<1>1. table \in [Id -> Table] /\ Rest \subseteq Id /\ pool \subseteq Id
  BY LiveIds DEF TypeOK
<1>2. PICK H \in [Rest -> SUBSET G] :
        table' = [i \in Id |-> IF i \in Rest THEN After(i, H[i]) ELSE table[i]]
  BY DEF ForgetNode
<1>3. ASSUME NEW i \in Id, NEW X \in SUBSET Id PROVE After(i, X) \in Table
  <2>1. [Blank(i) EXCEPT !.shake = (pool \cap Live) \ {i}] \in Table
    BY <1>1 DEF Blank, NoRefs, Table
  <2>2. Forgotten(table[i], X) \in Table
    <3>1. table[i] \in Table
      BY <1>1
    <3> QED BY <3>1 DEF Forgotten, Table
  <2> QED BY <2>1, <2>2
<1> HIDE DEF After, Rest
<1>4. \A i \in Rest : H[i] \in SUBSET Id
  BY <1>2
<1> QED BY <1>1, <1>2, <1>3, <1>4 DEF TablesTyped

-----------------------------------------------------------------------------
(* Type correctness.                                                       *)

ReadTyped ==
  /\ pc \in {"idle", "ready", "read", "info", "done", "meet", "sync"}
  /\ use \in Use
  /\ listed \subseteq Id /\ pool \subseteq Id
  /\ todo \subseteq pool /\ errs \subseteq pool
  /\ cur \in pool \cup {None}
  /\ DOMAIN infos = Id
  /\ \A i \in Id : infos[i] # None =>
       DOMAIN infos[i] \subseteq Id /\ infos[i] \in [DOMAIN infos[i] -> Node]
  /\ nok \in BOOLEAN /\ moves \in [Slot -> 0 .. 2]

CountsTyped ==
  /\ inc \in [Pod -> 0 .. MaxFaults] /\ down \subseteq Pod
  /\ faults \in 0 .. MaxFaults /\ hit \in BOOLEAN
  /\ Incarnations

ClaimTyped == claim \in [Slot -> Id \cup {None}]

LEMMA TypeParts == TypeInv <=> ReadTyped /\ CountsTyped /\ ClaimTyped /\ TablesTyped
BY DEF TypeInv, TypeOK, ReadTyped, CountsTyped, ClaimTyped, TablesTyped

LEMMA TypePartsNext ==
  ASSUME ReadTyped', CountsTyped', ClaimTyped', TablesTyped' PROVE TypeInv'
BY DEF TypeInv, TypeOK, ReadTyped, CountsTyped, ClaimTyped, TablesTyped

LEMMA FaultCounts ==
  ASSUME CountsTyped, NEW kind, Fault(kind), UNCHANGED << inc, down >>
  PROVE  CountsTyped'
<1>1. faults' = faults + 1 /\ faults < MaxFaults /\ hit' \in BOOLEAN
  BY DEF Fault
<1> QED BY <1>1, ClusterViewAssumption DEF CountsTyped, Incarnations

LEMMA SameCounts ==
  ASSUME CountsTyped, UNCHANGED << inc, down, faultVars >> PROVE CountsTyped'
BY DEF CountsTyped, Incarnations, faultVars

LEMMA SameRead == ASSUME ReadTyped, UNCHANGED opVars PROVE ReadTyped'
BY DEF ReadTyped, opVars, readVars

LEMMA NoMovesType == NoMoves \in [Slot -> 0 .. 2]
BY DEF NoMoves

LEMMA ReturnTypes == ASSUME Return PROVE ReadTyped'
BY NoMovesType DEF Return, ReadTyped, Unread, Use

LEMMA CallTypes ==
  ASSUME ReadTyped, NEW u \in Use, NEW c \in SUBSET Id, GetClusterInfos(u, c)
  PROVE  ReadTyped'
BY NoMovesType DEF GetClusterInfos, ReadTyped, Unread

LEMMA DecodeType ==
  ASSUME TypeInv, NEW i \in Id
  PROVE  /\ DOMAIN DecodeNodeInfos(i) \subseteq Id
         /\ DecodeNodeInfos(i) \in [DOMAIN DecodeNodeInfos(i) -> Node]
         /\ DecodeNodeInfos(i) # None
<1> DEFINE t == table[i]
           Line(j) == [role |-> SetRole(t, j), ref |-> t.ref[j], status |-> SetFailureStatus(t, j),
                       slots |-> {s \in Slot : t.owner[s] = j}]
<1>1. t \in Table
  BY DEF TypeInv, TypeOK
<1>2. t.nodes \cup t.shake \subseteq Id /\ t.ref \in [Id -> Id \cup {None}]
  BY <1>1 DEF Table
<1>3. \A j \in Id : Line(j) \in Node
  <2> TAKE j \in Id
  <2>1. SetRole(t, j) \in {"master", "slave", ""}
    BY DEF SetRole
  <2>2. SetFailureStatus(t, j) \in SUBSET {"fail", "handshake"}
    BY DEF SetFailureStatus
  <2>3. t.ref[j] \in Id \cup {None} /\ {s \in Slot : t.owner[s] = j} \in SUBSET Slot
    BY <1>2
  <2> HIDE DEF t
  <2> QED BY <2>1, <2>2, <2>3 DEF Node
<1>4. DecodeNodeInfos(i) = [j \in t.nodes \cup t.shake |-> Line(j)]
  BY DEF DecodeNodeInfos
<1> HIDE DEF t, Line
<1>5. /\ DOMAIN DecodeNodeInfos(i) = t.nodes \cup t.shake
      /\ DecodeNodeInfos(i) \in [t.nodes \cup t.shake -> Node]
  BY <1>2, <1>3, <1>4
<1> QED BY <1>2, <1>5, NoneIsNoInfos

LEMMA AnotherPod == \A x : \E p \in Pod : p # x
<1> SUFFICES ASSUME NEW x, \A p \in Pod : p = x PROVE FALSE
  OBVIOUS
<1>1. Pod = {} \/ Pod = {x}
  OBVIOUS
<1> QED BY <1>1, ClusterViewAssumption, FS_EmptySet, FS_Singleton

\* New nodes, or a cluster of one or two masters.
LEMMA InitTables ==
  ASSUME Init
  PROVE  \/ table = [i \in Id |-> Blank(i)] /\ claim = [s \in Slot |-> None]
         \/ \E m, c \in First : \E own \in [First -> {m, c}] :
              own[c] = c /\ table = Formed({m, c}, m, own) /\ claim = [s \in Slot |-> c]
<1> SUFFICES ASSUME LET m == CHOOSE i \in First : TRUE
                        n == CHOOSE i \in First : i # m
                    IN \E c \in {m, n} : \E own \in [First -> {m, c}] :
                         /\ own[c] = c
                         /\ table = Formed({m, c}, m, own)
                         /\ claim = [s \in Slot |-> c]
             PROVE  \E m, c \in First : \E own \in [First -> {m, c}] :
                      own[c] = c /\ table = Formed({m, c}, m, own) /\ claim = [s \in Slot |-> c]
  BY DEF Init
<1> DEFINE m == CHOOSE i \in First : TRUE
           n == CHOOSE i \in First : i # m
<1>2. m \in First
  <2>1. PICK p \in Pod : TRUE
    BY AnotherPod
  <2>2. << p, 0 >> \in First
    BY DEF First
  <2> QED BY <2>2
<1>3. n \in First
  <2>1. PICK q \in Pod : m = << q, 0 >>
    BY <1>2 DEF First
  <2>2. PICK p \in Pod : p # q
    BY AnotherPod
  <2> HIDE DEF m
  <2>3. << p, 0 >> \in First
    BY DEF First
  <2>4. << p, 0 >> # m
    BY <2>1, <2>2
  <2> QED BY <2>3, <2>4
<1>4. PICK c \in {m, n} : \E own \in [First -> {m, c}] :
        own[c] = c /\ table = Formed({m, c}, m, own) /\ claim = [s \in Slot |-> c]
  OBVIOUS
<1>5. c \in First
  BY <1>2, <1>3
<1> HIDE DEF m, n
<1> WITNESS m \in First, c \in First
<1> QED BY <1>4

LEMMA TypeInit == Init => TypeInv
<1> SUFFICES ASSUME Init PROVE TypeInv
  OBVIOUS
<1>1. ReadTyped
  BY NoMovesType DEF Init, ReadTyped, Unread, Use
<1>2. CountsTyped
  <2>1. /\ inc = [p \in Pod |-> 0] /\ down = {} /\ faults = 0 /\ hit = FALSE
        /\ 0 \in 0 .. MaxFaults
    BY ClusterViewAssumption DEF Init
  <2>2. inc \in [Pod -> 0 .. MaxFaults]
    BY <2>1
  <2>3. Incarnations
    BY <2>1 DEF Incarnations
  <2> QED BY <2>1, <2>2, <2>3 DEF CountsTyped
<1>3. First \subseteq Id
  BY ClusterViewAssumption DEF First, Id
<1>4. \A i \in Id : Blank(i) \in Table
  BY BlankType
<1>5. CASE table = [i \in Id |-> Blank(i)] /\ claim = [s \in Slot |-> None]
  <2>1. TablesTyped
    BY <1>4, <1>5 DEF TablesTyped
  <2>2. ClaimTyped
    BY <1>5 DEF ClaimTyped
  <2> QED BY <1>1, <1>2, <2>1, <2>2, TypeParts
<1>6. ASSUME NEW m \in First, NEW c \in First, NEW own \in [First -> {m, c}],
             table = Formed({m, c}, m, own), claim = [s \in Slot |-> c]
      PROVE  TypeInv
  <2>1. c \in Id /\ m \in Id
    BY <1>3
  <2>2. ASSUME NEW i \in Id
        PROVE  IF i \notin First THEN Blank(i) \in Table
               ELSE [Blank(i) EXCEPT !.nodes = First,
                           !.ref = [j \in Id |-> IF j \in First \ {m, c} THEN m ELSE None],
                           !.owner = [s \in Slot |-> own[i]]] \in Table
    <3>1. CASE i \notin First
      BY <1>4, <3>1
    <3>2. CASE i \in First
      <4>1. own[i] \in Id
        BY <2>1, <3>2
      <4> QED BY <1>3, <2>1, <3>2, <4>1 DEF Blank, NoRefs, Table
    <3> QED BY <3>1, <3>2
  <2>3. TablesTyped
    BY <1>6, <2>2 DEF Formed, TablesTyped
  <2>4. ClaimTyped
    BY <1>6, <2>1 DEF ClaimTyped
  <2> QED BY <1>1, <1>2, <2>3, <2>4, TypeParts
<1> QED BY <1>5, <1>6, InitTables

LEMMA getInfosTypes == ASSUME TypeInv, getInfos PROVE TypeInv'
<1>0. ReadTyped /\ CountsTyped /\ ClaimTyped /\ TablesTyped
  BY TypeParts
<1>1. PICK i \in todo \cap Live :
       /\ todo' = todo \ {i}
       /\ \/ /\ infos' = [infos EXCEPT ![i] = DecodeNodeInfos(i)]
             /\ IF use = "health" THEN cur' = i /\ pc' = "info" ELSE UNCHANGED << cur, pc >>
             /\ UNCHANGED faultVars
          \/ /\ Fault("address")
             /\ UNCHANGED << infos, cur, pc >>
  BY DEF getInfos
<1>2. UNCHANGED << inc, down, table, claim, listed, pool, use, errs, nok, moves >>
  BY DEF getInfos, clusterVars
<1>3. CountsTyped' /\ ClaimTyped' /\ TablesTyped'
  BY <1>0, <1>1, <1>2, FaultCounts, SameCounts DEF ClaimTyped, TablesTyped
<1>4. i \in Id /\ i \in pool
  BY <1>0, <1>1 DEF ReadTyped
<1>5. /\ DOMAIN infos' = Id
      /\ \A k \in Id : infos'[k] # None =>
           DOMAIN infos'[k] \subseteq Id /\ infos'[k] \in [DOMAIN infos'[k] -> Node]
  <2>1. CASE UNCHANGED infos
    BY <1>0, <2>1 DEF ReadTyped
  <2>2. CASE infos' = [infos EXCEPT ![i] = DecodeNodeInfos(i)]
    <3>1. DOMAIN infos' = Id
      BY <1>0, <2>2 DEF ReadTyped
    <3>2. ASSUME NEW k \in Id
          PROVE  infos'[k] = IF k = i THEN DecodeNodeInfos(i) ELSE infos[k]
      BY <1>0, <2>2 DEF ReadTyped
    <3> QED BY <1>0, <1>4, <3>1, <3>2, DecodeType DEF ReadTyped
  <2> QED BY <1>1, <2>1, <2>2
<1>6. ReadTyped'
  BY <1>0, <1>1, <1>2, <1>4, <1>5 DEF ReadTyped
<1> QED BY <1>3, <1>6, TypePartsNext

LEMMA TypeNext == TypeInv /\ [Next]_vars => TypeInv'
<1> SUFFICES ASSUME TypeInv, [Next]_vars PROVE TypeInv'
  OBVIOUS
<1>0. ReadTyped /\ CountsTyped /\ ClaimTyped /\ TablesTyped /\ TypeOK /\ Live \subseteq Id
  BY TypeParts, LiveIds DEF TypeInv
<1>c. UNCHANGED clusterVars => ClaimTyped' /\ TablesTyped' /\ UNCHANGED << inc, down >>
  BY <1>0 DEF clusterVars, ClaimTyped, TablesTyped
<1>a. UNCHANGED claim => ClaimTyped'
  BY <1>0 DEF ClaimTyped
<1>s. ASSUME UNCHANGED clusterVars, UNCHANGED faultVars, ReadTyped' PROVE TypeInv'
  BY <1>0, <1>c, <1>s, SameCounts, TypePartsNext
<1>r. ASSUME UNCHANGED redisUnchanged, TablesTyped' PROVE TypeInv'
  BY <1>0, <1>a, <1>r, SameCounts, SameRead, TypePartsNext DEF redisUnchanged
<1>1. CASE GetStatefulSetPods
  BY <1>0, <1>1, <1>s DEF GetStatefulSetPods, ReadTyped, readVars
<1>2. CASE newRedisAdmin
  <2>1. {i \in listed : NewClient(i)} \in SUBSET Id /\ "heal" \in Use
    BY <1>0 DEF ReadTyped, Use
  <2> QED BY <1>0, <1>2, <1>s, <2>1, CallTypes, ReturnTypes DEF newRedisAdmin
<1>3. CASE getInfos
  BY <1>3, getInfosTypes
<1>4. CASE handleError
  <2>1. CountsTyped' /\ ClaimTyped' /\ TablesTyped'
    BY <1>0, <1>4, <1>c, FaultCounts, SameCounts DEF handleError
  <2>2. ReadTyped'
    BY <1>0, <1>4 DEF handleError, ReadTyped
  <2> QED BY <2>1, <2>2, TypePartsNext
<1>5. CASE CheckandUpdateClusterState
  <2>1. CountsTyped' /\ ClaimTyped' /\ TablesTyped'
    BY <1>0, <1>5, <1>c, FaultCounts, SameCounts DEF CheckandUpdateClusterState
  <2>2. nok' \in BOOLEAN
    BY <1>5 DEF CheckandUpdateClusterState
  <2>3. ReadTyped'
    BY <1>0, <1>5, <2>2 DEF CheckandUpdateClusterState, ReadTyped
  <2> QED BY <2>1, <2>3, TypePartsNext
<1>6. CASE AllRead
  BY <1>0, <1>6, <1>s DEF AllRead, ReadTyped, readVars
<1>7. CASE Heal
  <2>1. CASE Return /\ UNCHANGED << clusterVars, faultVars >>
    BY <1>s, <2>1, ReturnTypes
  <2>2. ASSUME NEW G \in SUBSET Id, ForgetNode(G), Return, UNCHANGED << inc, down, claim >>
        PROVE  TypeInv'
    <3>1. TablesTyped'
      BY <1>0, <2>2, ForgetTables
    <3>2. CountsTyped'
      BY <1>0, <2>2, FaultCounts, SameCounts DEF ForgetNode
    <3> QED BY <1>a, <2>2, <3>1, <3>2, ReturnTypes, TypePartsNext
  <2>3. listGhostNodes \in SUBSET Id /\ listUntrustedNodes \in SUBSET Id
    BY DEF listGhostNodes, listUntrustedNodes
  <2>4. CASE GetClusterInfos("join", pool) /\ UNCHANGED << clusterVars, faultVars >>
    BY <1>0, <1>s, <2>4, CallTypes DEF ReadTyped, Use
  <2> QED BY <1>7, <2>1, <2>2, <2>3, <2>4 DEF Heal
<1>8. CASE waitForClusterJoin
  <2>1. CASE Return
    BY <1>8, <1>s, <2>1, ReturnTypes DEF waitForClusterJoin
  <2>2. CASE pc' = "sync" /\ UNCHANGED << listed, pool, readVars >>
    BY <1>0, <1>8, <1>s, <2>2 DEF waitForClusterJoin, ReadTyped, readVars
  <2>3. CASE /\ pc' = "meet" /\ infos' = Unread /\ errs' = {}
             /\ UNCHANGED << listed, pool, use, todo, cur, nok, moves >>
    BY <1>0, <1>8, <1>s, <2>3 DEF waitForClusterJoin, ReadTyped, Unread
  <2> QED BY <1>8, <2>1, <2>2, <2>3 DEF waitForClusterJoin
<1>9. CASE AttachNodeToCluster
  <2>1. PICK i \in pool :
         \/ /\ Meet(pool, i) /\ GetClusterInfos("again", pool) /\ UNCHANGED faultVars
         \/ /\ \E Q \in SUBSET (pool \cap Live) : Meet(Q, i)
            /\ IF pool \ {i} \subseteq Live THEN Fault("redis") ELSE UNCHANGED faultVars
            /\ Return
    BY <1>9 DEF AttachNodeToCluster
  <2>2. pool \subseteq Id
    BY <1>0 DEF ReadTyped
  <2>3. TablesTyped'
    BY <1>0, <2>1, <2>2, MeetTables
  <2>4. UNCHANGED << inc, down, claim >>
    BY <1>9 DEF AttachNodeToCluster
  <2>5. CountsTyped'
    BY <1>0, <2>1, <2>4, FaultCounts, SameCounts
  <2>6. ReadTyped'
    BY <1>0, <2>1, <2>2, ReturnTypes, CallTypes DEF Use
  <2> QED BY <1>a, <2>3, <2>4, <2>5, <2>6, TypePartsNext
<1>10. CASE syncCluster
  BY <1>0, <1>10, <1>s, ReturnTypes, CallTypes DEF syncCluster, ReadTyped, Use
<1>11. CASE healthDone
  BY <1>11, <1>s, ReturnTypes DEF healthDone
<1>12. CASE Crash
  BY <1>0, <1>12, <1>c, FaultCounts, ReturnTypes, TypePartsNext DEF Crash
<1>13. CASE Gossip \/ Handshake
  BY <1>0, <1>13, <1>r, GossipTables, HandshakeTables DEF Gossip, Handshake
<1>14. CASE NodeFails
  <2>1. PICK i \in Live : \E j \in table[i].nodes : MarkFailed(i, j)
    BY <1>14 DEF NodeFails
  <2>2. table[i].nodes \subseteq Id
    BY <1>0 DEF TablesTyped, Table
  <2> QED BY <1>0, <1>14, <1>r, <2>1, <2>2, MarkFailedTables DEF NodeFails
<1>15. CASE Suspect
  <2>1. PICK i \in Live, j \in Live : MarkFailed(i, j)
    BY <1>15 DEF Suspect
  <2>2. TablesTyped'
    BY <1>0, <2>1, MarkFailedTables
  <2> QED BY <1>0, <1>15, <1>a, <2>2, FaultCounts, SameRead, TypePartsNext DEF Suspect
<1>16. CASE Failover \/ FailoverOfLive
  <2>1. PICK i \in Live : \E m : TakeOver(i, m)
    BY <1>16 DEF Failover, FailoverOfLive
  <2>2. PICK m : TakeOver(i, m)
    BY <2>1
  <2>3. TablesTyped' /\ ClaimTyped'
    BY <1>0, <2>2, TakeOverTables DEF ClaimTyped
  <2>4. UNCHANGED << inc, down, pc, listed, pool, use, todo, cur, errs, infos, nok >>
    BY <2>2 DEF TakeOver
  <2>6. moves' \in [Slot -> 0 .. 2]
    BY <1>0, <2>2 DEF TakeOver, ReadTyped
  <2>7. ReadTyped'
    BY <1>0, <2>4, <2>6 DEF ReadTyped
  <2>5. CountsTyped'
    BY <1>0, <1>16, <2>4, FaultCounts, SameCounts DEF Failover, FailoverOfLive
  <2> QED BY <2>3, <2>5, <2>7, TypePartsNext
<1>17. CASE PodStops
  <2>1. PICK p \in Pod \ down : /\ down' = down \cup {p}
                                /\ table' = [table EXCEPT ![<< p, inc[p] >>] = Blank(<< p, inc[p] >>)]
    BY <1>17 DEF PodStops
  <2>2. /\ UNCHANGED << inc, claim, opVars >>
        /\ faults' = faults + 1 /\ faults < MaxFaults /\ hit' \in BOOLEAN
    BY <1>17 DEF PodStops, Fault
  <2>3. << p, inc[p] >> \in Id
    BY <1>0 DEF CountsTyped, Id
  <2>4. TablesTyped'
    BY <1>0, <2>1, <2>3, BlankType DEF TablesTyped
  <2>5. CountsTyped'
    BY <1>0, <2>1, <2>2, ClusterViewAssumption DEF CountsTyped, Incarnations
  <2> QED BY <1>0, <1>a, <2>2, <2>4, <2>5, SameRead, TypePartsNext
<1>18. CASE PodStarts
  <2>1. PICK p \in down : down' = down \ {p} /\ inc' = [inc EXCEPT ![p] = @ + 1]
    BY <1>18 DEF PodStarts
  <2>2. UNCHANGED << table, claim, opVars, faultVars >>
    BY <1>18 DEF PodStarts
  <2>3. inc[p] + 1 <= faults /\ inc[p] + 1 \in 0 .. MaxFaults
    BY <1>0, <2>1, ClusterViewAssumption DEF CountsTyped, Incarnations
  <2>4. CountsTyped'
    BY <1>0, <2>1, <2>2, <2>3 DEF CountsTyped, Incarnations, faultVars
  <2>5. TablesTyped'
    BY <1>0, <2>2 DEF TablesTyped
  <2> QED BY <1>0, <1>a, <2>2, <2>4, <2>5, SameRead, TypePartsNext
<1>19. CASE UNCHANGED vars
  BY <1>0, <1>19, <1>s, SameRead DEF vars
<1> QED
  BY <1>1, <1>2, <1>3, <1>4, <1>5, <1>6, <1>7, <1>8, <1>9, <1>10, <1>11, <1>12, <1>13,
     <1>14, <1>15, <1>16, <1>17, <1>18, <1>19
  DEF Next, Operator, Redis

LEMMA TypeInvariance == Spec => []TypeInv
BY TypeInit, TypeNext, PTL DEF Spec

\* Type correctness: what the operator has read stays within the connections it has,
\* and no pod starts more often than faults have stopped it, so that the ids of all
\* nodes that ever run are told apart.
THEOREM ClusterViewTypeCorrect == Spec => []TypeOK
<1>1. TypeInv => TypeOK
  BY DEF TypeInv
<1> QED BY <1>1, TypeInvariance, PTL

-----------------------------------------------------------------------------
(* Infos that look complete are.                                           *)

LEMMA NobodyAnswered == ASSUME infos = Unread PROVE Answered = {}
BY DEF Answered, Unread

LEMMA NobodyAnsweredNext == ASSUME infos' = Unread PROVE Answered' = {}
BY DEF Answered, Unread

LEMMA ReadReturn == ASSUME Return PROVE ReadInv'
BY NobodyAnsweredNext DEF Return, ReadInv

LEMMA ReadCall ==
  ASSUME NEW u, GetClusterInfos(u, listed) PROVE ReadInv'
BY NobodyAnsweredNext DEF GetClusterInfos, ReadInv

LEMMA HitStays == ASSUME TypeInv, [Next]_vars PROVE hit => hit'
<1>1. \A kind : Fault(kind) => (hit => hit')
  BY DEF Fault
<1>2. UNCHANGED faultVars => hit' = hit
  BY DEF faultVars
<1> QED
  BY <1>1, <1>2
  DEF Next, Operator, Redis, GetStatefulSetPods, newRedisAdmin, getInfos, handleError,
      CheckandUpdateClusterState, AllRead, Heal, ForgetNode, waitForClusterJoin,
      AttachNodeToCluster, syncCluster, healthDone, Gossip, Handshake, NodeFails, Failover,
      PodStarts, Suspect, FailoverOfLive, PodStops, Crash, redisUnchanged, vars

\* One more node has answered.
LEMMA AnsweredMore ==
  ASSUME TypeInv, NEW i \in Id, infos' = [infos EXCEPT ![i] = DecodeNodeInfos(i)]
  PROVE  /\ Answered' = Answered \cup {i}
         /\ \A k \in Id : infos'[k] = IF k = i THEN DecodeNodeInfos(i) ELSE infos[k]
<1>1. DOMAIN infos = Id
  BY DEF TypeInv, TypeOK
<1>2. \A k \in Id : infos'[k] = IF k = i THEN DecodeNodeInfos(i) ELSE infos[k]
  BY <1>1
<1> QED BY <1>2, DecodeType DEF Answered

LEMMA ReadInit == Init => ReadInv
BY NobodyAnswered DEF Init, ReadInv

LEMMA ReadNext == TypeInv /\ ReadInv /\ [Next]_vars => ReadInv'
<1> SUFFICES ASSUME TypeInv, ReadInv, [Next]_vars PROVE ReadInv'
  OBVIOUS
<1>0. hit => hit'
  BY HitStays
<1>u. ASSUME UNCHANGED << pc, listed, pool, todo, errs, infos >> PROVE ReadInv'
  <2>1. Answered' = Answered
    BY <1>u DEF Answered
  <2> QED BY <1>0, <1>u, <2>1 DEF ReadInv
<1>a. UNCHANGED infos => Answered' = Answered
  BY DEF Answered
<1>1. CASE GetStatefulSetPods
  BY <1>0, <1>1, <1>a DEF GetStatefulSetPods, ReadInv, readVars
<1>2. CASE newRedisAdmin
  <2>1. {i \in listed : NewClient(i)} = listed
    BY DEF NewClient
  <2> QED BY <1>2, <2>1, ReadReturn, ReadCall DEF newRedisAdmin
<1>3. CASE getInfos
  <2>1. PICK i \in todo \cap Live :
         /\ todo' = todo \ {i}
         /\ \/ /\ infos' = [infos EXCEPT ![i] = DecodeNodeInfos(i)]
               /\ IF use = "health" THEN cur' = i /\ pc' = "info" ELSE UNCHANGED << cur, pc >>
            \/ /\ Fault("address")
               /\ UNCHANGED << infos, cur, pc >>
    BY <1>3 DEF getInfos
  <2>2. UNCHANGED << listed, pool, errs >> /\ pc = "read" /\ pc' \in {"read", "info"}
    BY <1>3 DEF getInfos
  <2>3. i \in Id /\ i \in pool
    BY <2>1 DEF TypeInv, TypeOK
  <2>4. CASE infos' = [infos EXCEPT ![i] = DecodeNodeInfos(i)]
    <3>1. Answered' = Answered \cup {i}
      BY <2>3, <2>4, AnsweredMore
    <3> QED BY <1>0, <2>1, <2>2, <2>3, <3>1 DEF ReadInv
  <2>5. CASE Fault("address") /\ UNCHANGED << infos, cur, pc >>
    <3>1. hit'
      BY <2>5 DEF Fault
    <3> QED BY <1>a, <2>2, <2>5, <3>1 DEF ReadInv
  <2> QED BY <2>1, <2>4, <2>5
<1>4. CASE handleError
  <2>1. /\ UNCHANGED << pc, listed, pool, infos >> /\ pc = "read"
        /\ todo \cup errs \subseteq todo' \cup errs'
    BY <1>4 DEF handleError
  <2> QED BY <1>0, <1>a, <2>1 DEF ReadInv
<1>5. CASE CheckandUpdateClusterState
  BY <1>0, <1>5, <1>a DEF CheckandUpdateClusterState, ReadInv
<1>6. CASE AllRead
  BY <1>0, <1>6, <1>a DEF AllRead, ReadInv, readVars
<1>7. CASE Heal
  BY <1>7, ReadReturn, ReadCall DEF Heal, ReadInv
<1>8. CASE waitForClusterJoin
  <2>1. CASE pc' = "sync" /\ UNCHANGED << listed, pool, readVars >>
    BY <1>8, <1>a, <2>1 DEF waitForClusterJoin, ReadInv, readVars
  <2>2. CASE pc' = "meet" /\ infos' = Unread /\ UNCHANGED << listed, pool >>
    BY <1>8, <2>2, NobodyAnsweredNext DEF waitForClusterJoin, ReadInv
  <2> QED BY <1>8, <2>1, <2>2, ReadReturn DEF waitForClusterJoin
<1>9. CASE AttachNodeToCluster
  BY <1>9, ReadReturn, ReadCall DEF AttachNodeToCluster, ReadInv
<1>10. CASE syncCluster
  BY <1>10, ReadReturn, ReadCall DEF syncCluster, ReadInv
<1>11. CASE healthDone \/ Crash
  BY <1>11, ReadReturn DEF healthDone, Crash
<1>12. CASE Redis \/ Suspect \/ FailoverOfLive \/ PodStops
  BY <1>12, <1>u DEF Redis, Suspect, FailoverOfLive, PodStops, Gossip, Handshake, NodeFails,
     Failover, PodStarts, TakeOver, redisUnchanged, opVars, readVars
<1>13. CASE UNCHANGED vars
  BY <1>13, <1>u DEF vars, opVars, readVars
<1> QED
  BY <1>1, <1>2, <1>3, <1>4, <1>5, <1>6, <1>7, <1>8, <1>9, <1>10, <1>11, <1>12, <1>13
  DEF Next, Operator

LEMMA ReadInvariance == Spec => []ReadInv
BY TypeInvariance, ReadInit, ReadNext, PTL DEF Spec

\* Infos that are Consistent are those of all listed pods, unless a node gave a wrong
\* address: a pod that is gone, or that fails in the middle of GetClusterInfos and is
\* asked again after handleError has put it back, always shows as an error.
THEOREM ConsistentInfosAreComplete == Spec => []ConsistentIsComplete
<1>1. ReadInv => ConsistentIsComplete
  <2> SUFFICES ASSUME ReadInv, pc = "done", Status = "Consistent", ~hit
               PROVE  Answered = listed
    BY DEF ConsistentIsComplete
  <2>1. errs = {}
    BY DEF Status
  <2> QED BY <2>1 DEF ReadInv
<1> QED BY <1>1, ReadInvariance, PTL

-----------------------------------------------------------------------------
(* Nodes that have joined know each other.                                 *)

PastIds == \A i \in listed : i[2] <= inc[i[1]]

StillKnown ==
  \A i \in Answered \cap Live : \A j \in DOMAIN infos[i] :
    infos[i][j].role # "" => j \in table[i].nodes

LEMMA KnownParts == KnownInv <=> PastIds /\ StillKnown /\ (pc = "sync" => ComputeStatus)
BY DEF KnownInv, PastIds, StillKnown

LEMMA KnownPartsNext ==
  ASSUME PastIds', StillKnown', pc' = "sync" => ComputeStatus' PROVE KnownInv'
BY DEF KnownInv, PastIds, StillKnown

LEMMA SameInfos ==
  ASSUME UNCHANGED infos PROVE Answered' = Answered /\ (ComputeStatus => ComputeStatus')
BY DEF Answered, ComputeStatus, GetNodes

\* New infos are empty, or there are none any more.
LEMMA KnownFresh ==
  ASSUME PastIds, infos' = Unread, pc' # "sync", inc' = inc, listed' \subseteq listed
  PROVE  KnownInv'
<1>1. PastIds' /\ StillKnown'
  BY NobodyAnsweredNext DEF PastIds, StillKnown
<1> QED BY <1>1, KnownPartsNext

\* The nodes change among themselves, and none forgets another.
LEMMA KnownKept ==
  ASSUME TypeInv, KnownInv, NodesKept, UNCHANGED << inc, down, listed, infos, pc >>
  PROVE  KnownInv'
<1>1. /\ PastIds /\ StillKnown /\ (pc = "sync" => ComputeStatus)
      /\ Answered' = Answered /\ (ComputeStatus => ComputeStatus')
  BY KnownParts, SameInfos
<1>2. Live' = Live /\ Live \subseteq Id
  BY LiveIds DEF Live, TypeInv
<1>3. StillKnown'
  BY <1>1, <1>2 DEF StillKnown, NodesKept
<1> QED BY <1>1, <1>3, KnownPartsNext DEF PastIds

LEMMA KnownInit == Init => KnownInv
<1> SUFFICES ASSUME Init PROVE KnownInv
  OBVIOUS
<1>1. Answered = {} /\ listed = {} /\ pc = "idle"
  BY NobodyAnswered DEF Init
<1> QED BY <1>1 DEF KnownInv

LEMMA KnownRead ==
  ASSUME TypeInv, KnownInv, getInfos PROVE KnownInv'
<1>1. PICK i \in todo \cap Live :
         \/ infos' = [infos EXCEPT ![i] = DecodeNodeInfos(i)]
         \/ UNCHANGED infos
  BY DEF getInfos
<1>2. UNCHANGED << inc, down, table, listed >> /\ pc' # "sync"
  BY DEF getInfos, clusterVars
<1>3. CASE UNCHANGED infos
  <2>1. StillKnown'
    BY <1>2, <1>3, SameInfos, KnownParts DEF StillKnown, Live
  <2> QED BY <1>2, <2>1, KnownParts, KnownPartsNext DEF PastIds
<1>4. CASE infos' = [infos EXCEPT ![i] = DecodeNodeInfos(i)]
  <2>0. i \in Id /\ Live' = Live
    BY <1>2, LiveIds DEF Live, TypeInv
  <2>1. /\ Answered' = Answered \cup {i}
        /\ \A k \in Id : infos'[k] = IF k = i THEN DecodeNodeInfos(i) ELSE infos[k]
    BY <1>4, <2>0, AnsweredMore
  <2>2. \A j \in DOMAIN DecodeNodeInfos(i) :
          DecodeNodeInfos(i)[j].role # "" => j \in table[i].nodes
    BY DEF DecodeNodeInfos, SetRole
  <2>3. StillKnown'
    <3> SUFFICES ASSUME NEW k \in Answered' \cap Live', NEW j \in DOMAIN infos'[k],
                        infos'[k][j].role # ""
                 PROVE  j \in table'[k].nodes
      BY DEF StillKnown
    <3>1. k \in Id
      BY DEF Answered
    <3>2. CASE k = i
      BY <1>2, <2>1, <2>2, <3>1, <3>2
    <3>3. CASE k # i
      BY <1>2, <2>0, <2>1, <3>1, <3>3, KnownParts DEF StillKnown
    <3> QED BY <3>2, <3>3
  <2> QED BY <1>2, <2>3, KnownParts, KnownPartsNext DEF PastIds
<1> QED BY <1>1, <1>3, <1>4

LEMMA KnownStops ==
  ASSUME TypeInv, KnownInv, PodStops PROVE KnownInv'
<1>1. PICK p \in Pod \ down : /\ down' = down \cup {p}
                              /\ table' = [table EXCEPT ![<< p, inc[p] >>] = Blank(<< p, inc[p] >>)]
  BY DEF PodStops
<1>2. UNCHANGED << inc, listed, infos, pc >>
  BY DEF PodStops, opVars, readVars
<1>3. Live' \subseteq Live \ {<< p, inc[p] >>}
  BY <1>1, <1>2 DEF Live
<1>4. \A k \in Id : k # << p, inc[p] >> => table'[k] = table[k]
  BY <1>1 DEF TypeInv, TypeOK
<1>5. StillKnown'
  BY <1>2, <1>3, <1>4, LiveIds, SameInfos, KnownParts DEF StillKnown, TypeInv
<1> QED BY <1>2, <1>5, SameInfos, KnownParts, KnownPartsNext DEF PastIds

\* A pod that starts is a node nobody has listed.
LEMMA KnownStarts ==
  ASSUME TypeInv, ReadInv, KnownInv, PodStarts PROVE KnownInv'
<1>1. PICK p \in down : down' = down \ {p} /\ inc' = [inc EXCEPT ![p] = @ + 1]
  BY DEF PodStarts
<1>2. UNCHANGED << table, listed, infos, pc >>
  BY DEF PodStarts, opVars, readVars
<1>3. /\ p \in Pod /\ inc \in [Pod -> Nat]
      /\ \A q \in Pod : inc'[q] = IF q = p THEN inc[p] + 1 ELSE inc[q]
  BY <1>1 DEF TypeInv, TypeOK
<1>4. Live' \subseteq Live \cup {<< p, inc[p] + 1 >>}
  BY <1>1, <1>3 DEF Live
<1>5. listed \subseteq Id /\ Answered \subseteq listed
  BY DEF TypeInv, TypeOK, ReadInv
<1>6. << p, inc[p] + 1 >> \notin listed
  <2> SUFFICES ASSUME << p, inc[p] + 1 >> \in listed PROVE FALSE
    OBVIOUS
  <2>1. << p, inc[p] + 1 >>[2] <= inc[<< p, inc[p] + 1 >>[1]]
    BY KnownParts DEF PastIds
  <2>2. inc[p] + 1 <= inc[p] /\ inc[p] \in Nat
    BY <1>3, <2>1
  <2> QED BY <2>2
<1>7. StillKnown'
  BY <1>2, <1>4, <1>5, <1>6, SameInfos, KnownParts DEF StillKnown
<1>8. PastIds'
  <2> SUFFICES ASSUME NEW i \in listed PROVE i[2] <= inc'[i[1]]
    BY <1>2 DEF PastIds
  <2>1. i[1] \in Pod /\ i[2] \in Nat /\ i[2] <= inc[i[1]]
    BY <1>5, KnownParts DEF PastIds, Id
  <2> QED BY <1>3, <2>1
<1> QED BY <1>2, <1>7, <1>8, SameInfos, KnownParts, KnownPartsNext

LEMMA KnownNext == TypeInv /\ ReadInv /\ KnownInv /\ [Next]_vars => KnownInv'
<1> SUFFICES ASSUME TypeInv, ReadInv, KnownInv, [Next]_vars PROVE KnownInv'
  OBVIOUS
<1>0. TypeOK /\ Live \subseteq Id /\ PastIds /\ pool \subseteq Id
  BY LiveIds, KnownParts DEF TypeInv, TypeOK
<1>r. ASSUME Return, inc' = inc PROVE KnownInv'
  BY <1>0, <1>r, KnownFresh DEF Return
<1>g. ASSUME NEW u, NEW c, GetClusterInfos(u, c), inc' = inc PROVE KnownInv'
  BY <1>0, <1>g, KnownFresh DEF GetClusterInfos
<1>k. ASSUME UNCHANGED << inc, down, table, listed, infos >>, pc' # "sync" PROVE KnownInv'
  <2>1. StillKnown'
    BY <1>k, SameInfos, KnownParts DEF StillKnown, Live
  <2> QED BY <1>k, <2>1, KnownParts, KnownPartsNext DEF PastIds
<1>1. CASE GetStatefulSetPods
  <2>1. UNCHANGED << inc, down, table, infos >> /\ listed' = Live /\ pc' = "ready"
    BY <1>1 DEF GetStatefulSetPods, clusterVars, readVars
  <2>2. StillKnown'
    BY <2>1, SameInfos, KnownParts DEF StillKnown, Live
  <2>3. PastIds'
    <3>1. inc \in [Pod -> Nat]
      BY DEF TypeInv, TypeOK
    <3> QED BY <2>1, <3>1 DEF PastIds, Live
  <2> QED BY <2>1, <2>2, <2>3, KnownPartsNext
<1>2. CASE getInfos
  BY <1>2, KnownRead
<1>3. CASE handleError \/ CheckandUpdateClusterState \/ AllRead
  BY <1>3, <1>k DEF handleError, CheckandUpdateClusterState, AllRead, clusterVars, readVars
<1>4. CASE newRedisAdmin \/ syncCluster \/ healthDone \/ Crash
  BY <1>4, <1>r, <1>g DEF newRedisAdmin, syncCluster, healthDone, Crash, clusterVars
<1>5. CASE Heal
  BY <1>5, <1>r, <1>g DEF Heal, clusterVars
<1>6. CASE AttachNodeToCluster
  BY <1>6, <1>r, <1>g DEF AttachNodeToCluster
<1>7. CASE waitForClusterJoin
  <2>1. inc' = inc
    BY <1>7 DEF waitForClusterJoin, clusterVars
  <2>2. CASE Status = "Consistent"
    <3>1. UNCHANGED << inc, down, table, listed, infos >> /\ pc' = "sync"
      BY <1>7, <2>2 DEF waitForClusterJoin, clusterVars, readVars
    <3>2. ComputeStatus
      BY <2>2 DEF Status
    <3>3. StillKnown'
      BY <3>1, SameInfos, KnownParts DEF StillKnown, Live
    <3> QED BY <3>1, <3>2, <3>3, SameInfos, KnownParts, KnownPartsNext DEF PastIds
  <2>3. CASE Status # "Consistent"
    <3>1. Return \/ (pc' = "meet" /\ infos' = Unread /\ UNCHANGED listed)
      BY <1>7, <2>3 DEF waitForClusterJoin
    <3> QED BY <1>0, <1>r, <2>1, <3>1, KnownFresh
  <2> QED BY <2>2, <2>3
<1>8. CASE Gossip \/ Handshake
  <2>1. UNCHANGED << inc, down, listed, infos, pc >>
    BY <1>8 DEF Gossip, Handshake, redisUnchanged, opVars, readVars
  <2> QED BY <1>0, <1>8, <2>1, GossipTables, HandshakeTables, KnownKept
<1>9. CASE NodeFails \/ Suspect
  <2>1. UNCHANGED << inc, down, listed, infos, pc >>
    BY <1>9 DEF NodeFails, Suspect, redisUnchanged, opVars, readVars
  <2>2. \A i \in Id : table[i].nodes \subseteq Id
    BY <1>0 DEF TypeOK, Table
  <2>3. PICK i \in Id, j \in Id : MarkFailed(i, j)
    BY <1>0, <1>9, <2>2 DEF NodeFails, Suspect
  <2> QED BY <1>0, <2>1, <2>3, MarkFailedTables, KnownKept
<1>10. CASE Failover \/ FailoverOfLive
  <2>1. PICK i \in Live : \E m : TakeOver(i, m)
    BY <1>10 DEF Failover, FailoverOfLive
  <2>2. PICK m : TakeOver(i, m)
    BY <2>1
  <2>3. UNCHANGED << inc, down, listed, infos, pc >>
    BY <2>2 DEF TakeOver
  <2> QED BY <1>0, <2>2, <2>3, TakeOverTables, KnownKept
<1>11. CASE PodStops
  BY <1>11, KnownStops
<1>12. CASE PodStarts
  BY <1>12, KnownStarts
<1>13. CASE UNCHANGED vars
  <2>1. UNCHANGED << inc, down, listed, infos, pc, table >>
    BY <1>13 DEF vars, clusterVars, opVars, readVars
  <2> QED BY <2>1, KnownKept DEF NodesKept
<1> QED
  BY <1>1, <1>2, <1>3, <1>4, <1>5, <1>6, <1>7, <1>8, <1>9, <1>10, <1>11, <1>12, <1>13
  DEF Next, Operator, Redis

LEMMA KnownInvariance == Spec => []KnownInv
BY TypeInvariance, ReadInvariance, KnownInit, KnownNext, PTL DEF Spec

\* When syncCluster starts, every node that answered and still runs knows every master
\* among them, although the nodes answered one after the other and have gossiped,
\* failed over and restarted since.
THEOREM JoinedNodesHaveMet == Spec => []JoinedMeansMet
<1>1. KnownInv => JoinedMeansMet
  <2> SUFFICES ASSUME KnownInv, pc = "sync", NEW i \in Answered \cap Live,
                      NEW j \in Answered \cap Live, GetNodes[j].role = "master"
               PROVE  j \in table[i].nodes
    BY DEF JoinedMeansMet
  <2>1. getConfigSignature(infos[i]) = getConfigSignature(GetNodes)
    BY DEF KnownInv, ComputeStatus
  <2>2. << j, GetNodes[j].slots >> \in getConfigSignature(GetNodes)
    BY DEF getConfigSignature, GetNodes
  <2>3. \E k \in DOMAIN infos[i] :
          infos[i][k].role = "master" /\ << k, infos[i][k].slots >> = << j, GetNodes[j].slots >>
    BY <2>1, <2>2 DEF getConfigSignature
  <2> QED BY <2>3 DEF KnownInv
<1> QED BY <1>1, KnownInvariance, PTL

-----------------------------------------------------------------------------
(***************************************************************************)
(* Healthy infos cover the slots.  The infos are consistent, so a slot     *)
(* that one view gives to somebody is claimed by a node that has answered. *)
(* What remains is a slot that nobody had an owner for when it was asked,  *)
(* although each one did when it was asked for its cluster_state just      *)
(* after: then a node still to be asked claims the slot.                   *)
(***************************************************************************)

\* A node knows itself and the owners of the slots, and knows these as masters.
Sound(i, t) ==
  /\ i \in t.nodes /\ i \notin t.shake /\ t.nodes \cap t.shake = {}
  /\ \A s \in Slot : t.owner[s] # None => t.owner[s] \in t.nodes /\ t.ref[t.owner[s]] = None

TablesSound == \A i \in Id : Sound(i, table[i])

\* The winning claim is that of a node which claims the slot, if it runs.
Claimants ==
  \A s \in Slot : claim[s] # None =>
    /\ claim[s][2] <= inc[claim[s][1]]
    /\ claim[s] \in Live => table[claim[s]].owner[s] = claim[s]

\* A master without slots.
Fresh(i) == table[i].ref[i] = None /\ \A s \in Slot : table[i].owner[s] # i

\* A node that starts after the pods were listed gets no slot before they are listed
\* again: only a replica takes over, and a master becomes one by losing its slots.
NewNodes ==
  \A i \in Id : i[2] > inc[i[1]] \/ (pc # "idle" /\ i \in Live \ listed) => Fresh(i)

\* What the steps of the nodes do to the owners and the masters in the tables.
OwnersSame == \A k \in Id : table'[k].owner = table[k].owner /\ table'[k].ref = table[k].ref

Heard(i, j) ==
  /\ i \in Live /\ j \in Live /\ i # j
  /\ \A k \in Id \ {i} : table'[k].owner = table[k].owner /\ table'[k].ref = table[k].ref
  /\ \A s \in Slot :
       \/ table'[i].owner[s] = table[i].owner[s]
       \/ /\ table'[i].owner[s] = j /\ table[j].owner[s] = j
          /\ claim[s] = j \/ table[i].owner[s] = None
       \/ table'[i].owner[s] = None /\ table[i].owner[s] = j /\ table[j].ref[j] # None
  /\ Fresh(i) => table'[i].ref[i] = None

LEMMA LearnSound ==
  ASSUME TypeOK, TablesSound, NEW i \in Id, NEW j \in Id, i # j
  PROVE  LET t == table[i]
             u == Learn(i, t, j)
         IN /\ Sound(i, u)
            /\ \A s \in Slot :
                 \/ u.owner[s] = t.owner[s]
                 \/ u.owner[s] = j /\ table[j].owner[s] = j /\ (claim[s] = j \/ t.owner[s] = None)
                 \/ u.owner[s] = None /\ t.owner[s] = j /\ table[j].ref[j] # None
            /\ Fresh(i) => u.ref[i] = None
<1> DEFINE t == table[i]
           u == Learn(i, t, j)
           master == IF t.ref[i] = None THEN i ELSE t.ref[i]
<1>1. t \in Table /\ None \notin Id
  BY ClusterViewAssumption DEF TypeOK, Id
<1> HIDE DEF t
<1>2. /\ u.nodes = t.nodes \cup {j}
      /\ u.shake = (t.shake \cup ((table[j].nodes \cap Live) \ t.nodes)) \ {i, j}
      /\ \A s \in Slot : u.owner[s] =
           IF table[j].owner[s] = j /\ (claim[s] = j \/ t.owner[s] = None) THEN j
           ELSE IF t.owner[s] = j /\ table[j].ref[j] # None THEN None ELSE t.owner[s]
      /\ \A k \in Id \ {i, j} : u.ref[k] = t.ref[k]
      /\ u.ref[j] = table[j].ref[j]
      /\ u.ref[i] # t.ref[i] =>
           (\E s \in Slot : t.owner[s] = master) /\ \A s \in Slot : u.owner[s] # master
  BY <1>1, LearnType
<1>3. Sound(i, t) /\ Sound(j, table[j])
  BY DEF TablesSound, t
<1>4. \A s \in Slot : t.owner[s] \in Id \cup {None}
  BY <1>1 DEF Table
<1> HIDE DEF u
<1>5. i \in u.nodes /\ i \notin u.shake /\ u.nodes \cap u.shake = {}
  BY <1>2, <1>3 DEF Sound
<1>6. ASSUME NEW s \in Slot, u.owner[s] # None
      PROVE  u.owner[s] \in u.nodes /\ u.ref[u.owner[s]] = None
  <2>1. CASE u.owner[s] = j
    <3>1. table[j].ref[j] = None
      <4>1. CASE table[j].owner[s] = j
        BY <1>1, <1>3, <4>1 DEF Sound
      <4>2. CASE table[j].owner[s] # j
        BY <1>1, <1>2, <2>1, <4>2
      <4> QED BY <4>1, <4>2
    <3> QED BY <1>2, <2>1, <3>1
  <2>2. CASE u.owner[s] # j
    <3>1. u.owner[s] = t.owner[s]
      BY <1>2, <1>6, <2>2
    <3>2. t.owner[s] \in t.nodes /\ t.ref[t.owner[s]] = None /\ t.owner[s] \in Id
      BY <1>3, <1>4, <1>6, <3>1 DEF Sound
    <3>3. CASE t.owner[s] # i
      BY <1>2, <2>2, <3>1, <3>2, <3>3
    <3>4. CASE t.owner[s] = i
      BY <1>2, <3>1, <3>2, <3>4
    <3> QED BY <3>3, <3>4
  <2> QED BY <2>1, <2>2
<1>7. Sound(i, u)
  BY <1>5, <1>6 DEF Sound
<1>8. Fresh(i) => u.ref[i] = None
  BY <1>2 DEF Fresh, t
<1>9. \A s \in Slot :
        \/ u.owner[s] = t.owner[s]
        \/ u.owner[s] = j /\ table[j].owner[s] = j /\ (claim[s] = j \/ t.owner[s] = None)
        \/ u.owner[s] = None /\ t.owner[s] = j /\ table[j].ref[j] # None
  BY <1>2
<1> QED BY <1>7, <1>8, <1>9 DEF t, u

\* A packet of another node.
LEMMA HeardGossip ==
  ASSUME TypeOK, TablesSound, Gossip PROVE TablesSound' /\ \E i, j \in Id : Heard(i, j)
<1>1. PICK i, j \in Live : i # j /\ table' = [table EXCEPT ![i] = Learn(i, @, j)]
  BY DEF Gossip
<1>2. i \in Id /\ j \in Id /\ table \in [Id -> Table]
  BY LiveIds DEF TypeOK
<1>3. table'[i] = Learn(i, table[i], j) /\ \A k \in Id \ {i} : table'[k] = table[k]
  BY <1>1, <1>2
<1>4. /\ Sound(i, table'[i])
      /\ \A s \in Slot :
           \/ table'[i].owner[s] = table[i].owner[s]
           \/ /\ table'[i].owner[s] = j /\ table[j].owner[s] = j
              /\ claim[s] = j \/ table[i].owner[s] = None
           \/ table'[i].owner[s] = None /\ table[i].owner[s] = j /\ table[j].ref[j] # None
      /\ Fresh(i) => table'[i].ref[i] = None
  BY <1>1, <1>2, <1>3, LearnSound
<1>5. TablesSound'
  BY <1>3, <1>4 DEF TablesSound
<1>6. Heard(i, j)
  BY <1>1, <1>3, <1>4 DEF Heard
<1> QED BY <1>2, <1>5, <1>6

LEMMA HeardHandshake ==
  ASSUME TypeOK, TablesSound, Handshake
  PROVE  TablesSound' /\ (OwnersSame \/ \E i, j \in Id : Heard(i, j))
<1>1. PICK i \in Live : \E j \in table[i].shake :
        table' = IF j \in Live
                 THEN [k \in Id |->
                         IF k = i THEN Learn(i, table[i], j)
                         ELSE IF k = j THEN [table[j] EXCEPT !.shake = @ \cup ({i} \ table[j].nodes)]
                         ELSE table[k]]
                 ELSE [table EXCEPT ![i].shake = @ \ {j}]
  BY DEF Handshake
<1>2. PICK j \in table[i].shake :
        table' = IF j \in Live
                 THEN [k \in Id |->
                         IF k = i THEN Learn(i, table[i], j)
                         ELSE IF k = j THEN [table[j] EXCEPT !.shake = @ \cup ({i} \ table[j].nodes)]
                         ELSE table[k]]
                 ELSE [table EXCEPT ![i].shake = @ \ {j}]
  BY <1>1
<1>3. i \in Id /\ j \in Id /\ table \in [Id -> Table] /\ table[i] \in Table /\ table[j] \in Table
  BY <1>2, LiveIds DEF TypeOK, Table
<1>4. Sound(i, table[i]) /\ Sound(j, table[j]) /\ i # j
  BY <1>2, <1>3 DEF TablesSound, Sound
<1>5. CASE j \in Live
  <2>1. /\ table'[i] = Learn(i, table[i], j)
        /\ table'[j] = [table[j] EXCEPT !.shake = @ \cup ({i} \ table[j].nodes)]
        /\ \A k \in Id \ {i, j} : table'[k] = table[k]
    BY <1>2, <1>3, <1>4, <1>5
  <2>2. /\ table'[j].owner = table[j].owner /\ table'[j].ref = table[j].ref
        /\ table'[j].nodes = table[j].nodes
        /\ table'[j].shake = table[j].shake \cup ({i} \ table[j].nodes)
    BY <1>3, <2>1 DEF Table
  <2>3. Sound(j, table'[j])
    BY <1>4, <2>2 DEF Sound
  <2>4. /\ Sound(i, table'[i])
        /\ \A s \in Slot :
             \/ table'[i].owner[s] = table[i].owner[s]
             \/ /\ table'[i].owner[s] = j /\ table[j].owner[s] = j
                /\ claim[s] = j \/ table[i].owner[s] = None
             \/ table'[i].owner[s] = None /\ table[i].owner[s] = j /\ table[j].ref[j] # None
        /\ Fresh(i) => table'[i].ref[i] = None
    BY <1>3, <1>4, <2>1, LearnSound
  <2>7. ASSUME NEW k \in Id PROVE Sound(k, table'[k])
    BY <2>1, <2>3, <2>4 DEF TablesSound
  <2>5. TablesSound'
    BY <2>7 DEF TablesSound
  <2>6. Heard(i, j)
    BY <1>4, <1>5, <2>1, <2>2, <2>4 DEF Heard
  <2> QED BY <1>3, <2>5, <2>6
<1>6. CASE j \notin Live
  <2>1. /\ table'[i] = [table[i] EXCEPT !.shake = @ \ {j}]
        /\ \A k \in Id \ {i} : table'[k] = table[k]
    BY <1>2, <1>3, <1>6
  <2>2. /\ table'[i].owner = table[i].owner /\ table'[i].ref = table[i].ref
        /\ table'[i].nodes = table[i].nodes /\ table'[i].shake = table[i].shake \ {j}
    BY <1>3, <2>1 DEF Table
  <2>3. OwnersSame
    BY <2>1, <2>2 DEF OwnersSame
  <2>4. Sound(i, table'[i])
    BY <1>4, <2>2 DEF Sound
  <2>5. ASSUME NEW k \in Id PROVE Sound(k, table'[k])
    BY <2>1, <2>4 DEF TablesSound
  <2> QED BY <2>3, <2>5 DEF TablesSound
<1> QED BY <1>5, <1>6

LEMMA SoundMarkFailed ==
  ASSUME TypeOK, TablesSound, NEW i \in Id, NEW j, MarkFailed(i, j)
  PROVE  TablesSound' /\ OwnersSame
<1>1. table \in [Id -> Table] /\ table[i] \in Table
  BY DEF TypeOK
<1>2. /\ table'[i] = [table[i] EXCEPT !.fail = @ \cup {j}]
      /\ \A k \in Id \ {i} : table'[k] = table[k]
  BY <1>1 DEF MarkFailed
<1>3. /\ table'[i].owner = table[i].owner /\ table'[i].ref = table[i].ref
      /\ table'[i].nodes = table[i].nodes /\ table'[i].shake = table[i].shake
  BY <1>1, <1>2 DEF Table
<1>4. Sound(i, table'[i])
  BY <1>3 DEF TablesSound, Sound
<1>5. ASSUME NEW k \in Id PROVE Sound(k, table'[k])
  BY <1>2, <1>4 DEF TablesSound
<1> QED BY <1>2, <1>3, <1>5 DEF TablesSound, OwnersSame

LEMMA SoundMeet ==
  ASSUME TypeOK, TablesSound, NEW Q \in SUBSET Id, NEW i \in Id, Meet(Q, i)
  PROVE  TablesSound' /\ OwnersSame
<1>1. table \in [Id -> Table]
  BY DEF TypeOK
<1>3. ASSUME NEW k \in Id
      PROVE  \/ table'[k] = table[k]
             \/ table'[k] = [table[k] EXCEPT !.shake = @ \cup ({i} \ table[k].nodes)]
             \/ table'[k] = [table[k] EXCEPT !.shake = @ \cup (Q \ table[k].nodes)]
  BY DEF Meet
<1>4. ASSUME NEW k \in Id
      PROVE  /\ table'[k].owner = table[k].owner /\ table'[k].ref = table[k].ref
             /\ Sound(k, table'[k])
  <2>1. table[k] \in Table /\ Sound(k, table[k]) /\ {i} \in SUBSET Id
    BY <1>1 DEF TablesSound
  <2>2. CASE table'[k] = table[k]
    BY <2>1, <2>2
  <2>3. ASSUME NEW X \in SUBSET Id, table'[k] = [table[k] EXCEPT !.shake = @ \cup (X \ table[k].nodes)]
        PROVE  /\ table'[k].owner = table[k].owner /\ table'[k].ref = table[k].ref
               /\ Sound(k, table'[k])
    <3>1. /\ table'[k].owner = table[k].owner /\ table'[k].ref = table[k].ref
          /\ table'[k].nodes = table[k].nodes
          /\ table'[k].shake = table[k].shake \cup (X \ table[k].nodes)
      BY <2>1, <2>3 DEF Table
    <3>2. Sound(k, table'[k])
      <4>1. /\ k \in table[k].nodes /\ k \notin table[k].shake /\ table[k].nodes \cap table[k].shake = {}
            /\ \A s \in Slot : table[k].owner[s] # None =>
                 table[k].owner[s] \in table[k].nodes /\ table[k].ref[table[k].owner[s]] = None
        BY <2>1 DEF Sound
      <4> QED BY <3>1, <4>1 DEF Sound
    <3> QED BY <3>1, <3>2
  <2> QED BY <1>3, <2>1, <2>2, <2>3
<1> QED BY <1>4 DEF TablesSound, OwnersSame

\* The replica i takes slots over from m.
LEMMA SoundTakeOver ==
  ASSUME TypeOK, TablesSound, NEW i \in Id, NEW m, m # None, table[i].ref[i] = m, TakeOver(i, m)
  PROVE  /\ TablesSound'
         /\ \A k \in Id \ {i} : table'[k] = table[k]
         /\ table'[i].ref[i] = None
         /\ \A s \in Slot :
              IF claim[s] = m /\ table[i].owner[s] = m
              THEN claim'[s] = i /\ table'[i].owner[s] = i
              ELSE claim'[s] = claim[s] /\ table'[i].owner[s] = table[i].owner[s]
<1> DEFINE won == {s \in Slot : claim[s] = m /\ table[i].owner[s] = m}
           T == [table EXCEPT ![i].ref[i] = None]
<1>1. table \in [Id -> Table] /\ table[i] \in Table /\ claim \in [Slot -> Id \cup {None}]
  BY DEF TypeOK
<1>2. /\ table[i].ref \in [Id -> Id \cup {None}]
      /\ table[i].owner \in [Slot -> Id \cup {None}]
  BY <1>1 DEF Table
<1>3. T[i] = [table[i] EXCEPT !.ref = [@ EXCEPT ![i] = None]] /\ DOMAIN T = Id
      /\ \A k \in Id \ {i} : T[k] = table[k]
  BY <1>1
<1> DEFINE own == [s \in Slot |-> IF s \in won THEN i ELSE T[i].owner[s]]
<1>4. table' = [T EXCEPT ![i] = [T[i] EXCEPT !.owner = own]]
  BY <1>1 DEF TakeOver
<1>5. /\ T[i].nodes = table[i].nodes /\ T[i].owner = table[i].owner
      /\ T[i].shake = table[i].shake /\ T[i].ref = [table[i].ref EXCEPT ![i] = None]
      /\ T[i] = [nodes |-> T[i].nodes, ref |-> T[i].ref, fail |-> T[i].fail,
                 shake |-> T[i].shake, owner |-> T[i].owner]
  BY <1>1, <1>3 DEF Table
<1> HIDE DEF T, own
<1>6. table'[i] = [T[i] EXCEPT !.owner = own] /\ \A k \in Id \ {i} : table'[k] = table[k]
  BY <1>3, <1>4
<1>7. /\ table'[i].nodes = table[i].nodes /\ table'[i].shake = table[i].shake
      /\ table'[i].ref = [table[i].ref EXCEPT ![i] = None] /\ table'[i].owner = own
  BY <1>5, <1>6
<1>8. \A s \in Slot : own[s] = IF s \in won THEN i ELSE table[i].owner[s]
  BY <1>5 DEF own
<1>9. \A s \in Slot : claim'[s] = IF s \in won THEN i ELSE claim[s]
  BY DEF TakeOver
<1>10. Sound(i, table'[i])
  <2>1. Sound(i, table[i])
    BY DEF TablesSound
  <2>2. ASSUME NEW s \in Slot, own[s] # None
        PROVE  own[s] \in table[i].nodes /\ [table[i].ref EXCEPT ![i] = None][own[s]] = None
    BY <1>2, <1>8, <2>1, <2>2 DEF Sound
  <2> QED BY <1>7, <2>1, <2>2 DEF Sound
<1>11. ASSUME NEW k \in Id PROVE Sound(k, table'[k])
  BY <1>6, <1>10 DEF TablesSound
<1>12. TablesSound'
  BY <1>11 DEF TablesSound
<1>13. table'[i].ref[i] = None
  BY <1>2, <1>7
<1>14. ASSUME NEW s \in Slot
       PROVE  IF claim[s] = m /\ table[i].owner[s] = m
              THEN claim'[s] = i /\ table'[i].owner[s] = i
              ELSE claim'[s] = claim[s] /\ table'[i].owner[s] = table[i].owner[s]
  BY <1>7, <1>8, <1>9
<1> QED BY <1>6, <1>12, <1>13, <1>14

\* Forgetting leaves a node that claims a slot its claim, and touches listed nodes only.
LEMMA SoundForget ==
  ASSUME TypeOK, TablesSound, NEW G \in SUBSET Id, ForgetNode(G)
  PROVE  /\ TablesSound'
         /\ \A k \in Id \ (pool \cap Live) : table'[k] = table[k]
         /\ \A k \in Id, s \in Slot : table[k].owner[s] = k => table'[k].owner[s] = k
<1> DEFINE Rest == pool \cap Live
           After(i, H) == IF table[i].ref[i] \in H
                          THEN [Blank(i) EXCEPT !.shake = (pool \cap Live) \ {i}]
                          ELSE Forgotten(table[i], H)
<1>1. table \in [Id -> Table] /\ Rest \subseteq Id /\ None \notin Id
  BY LiveIds, ClusterViewAssumption DEF TypeOK, Id
<1>2. PICK H \in [Rest -> SUBSET G] :
        /\ \A i \in Rest : i \notin H[i]
        /\ table' = [i \in Id |-> IF i \in Rest THEN After(i, H[i]) ELSE table[i]]
  BY DEF ForgetNode
<1>3. ASSUME NEW i \in Id, NEW X \in SUBSET Id, i \notin X
      PROVE  /\ Sound(i, After(i, X))
             /\ \A s \in Slot : table[i].owner[s] = i => After(i, X).owner[s] = i
  <2>0. Sound(i, table[i]) /\ table[i] \in Table
    BY <1>1 DEF TablesSound
  <2>1. CASE table[i].ref[i] \in X
    <3> DEFINE u == [Blank(i) EXCEPT !.shake = (pool \cap Live) \ {i}]
    <3>1. /\ u.nodes = {i} /\ u.shake = (pool \cap Live) \ {i}
          /\ \A s \in Slot : u.owner[s] = None
      BY DEF Blank, NoRefs
    <3> HIDE DEF u
    <3>2. Sound(i, u)
      BY <3>1 DEF Sound
    <3>3. \A s \in Slot : table[i].owner[s] # i
      BY <1>1, <2>0, <2>1 DEF Sound
    <3> QED BY <2>1, <3>2, <3>3 DEF u
  <2>2. CASE table[i].ref[i] \notin X
    <3> DEFINE u == Forgotten(table[i], X)
    <3>1. /\ u.nodes = table[i].nodes \ X /\ u.shake = table[i].shake \ X
          /\ \A j \in Id : u.ref[j] = IF j \in X THEN None ELSE table[i].ref[j]
          /\ \A s \in Slot : u.owner[s] = IF table[i].owner[s] \in X THEN None
                                                                    ELSE table[i].owner[s]
      BY <2>0 DEF Forgotten, Table
    <3>2. \A s \in Slot : table[i].owner[s] \in Id \cup {None}
      BY <2>0 DEF Table
    <3> HIDE DEF u
    <3>3. Sound(i, u)
      BY <1>3, <2>0, <3>1, <3>2 DEF Sound
    <3>4. \A s \in Slot : table[i].owner[s] = i => u.owner[s] = i
      BY <1>3, <3>1
    <3> QED BY <2>2, <3>3, <3>4 DEF u
  <2> QED BY <2>1, <2>2
<1> HIDE DEF After
<1>4. ASSUME NEW k \in Id
      PROVE  /\ Sound(k, table'[k])
             /\ \A s \in Slot : table[k].owner[s] = k => table'[k].owner[s] = k
  <2>1. CASE k \in Rest
    <3>1. H[k] \in SUBSET Id /\ k \notin H[k] /\ table'[k] = After(k, H[k])
      BY <1>2, <2>1
    <3> QED BY <1>3, <3>1
  <2>2. CASE k \notin Rest
    <3>1. table'[k] = table[k]
      BY <1>2, <2>2
    <3> QED BY <3>1 DEF TablesSound
  <2> QED BY <2>1, <2>2
<1>5. \A k \in Id \ (pool \cap Live) : table'[k] = table[k]
  BY <1>2
<1> QED BY <1>4, <1>5 DEF TablesSound

LEMMA SoundBlank ==
  ASSUME NEW i \in Id
  PROVE  Sound(i, Blank(i)) /\ Blank(i).ref[i] = None /\ \A s \in Slot : Blank(i).owner[s] = None
<1>1. /\ Blank(i).nodes = {i} /\ Blank(i).shake = {} /\ Blank(i).ref[i] = None
      /\ \A s \in Slot : Blank(i).owner[s] = None
  BY DEF Blank, NoRefs
<1> QED BY <1>1 DEF Sound

LEMMA LiveFacts ==
  ASSUME TypeOK
  PROVE  /\ \A i : i \in Live <=> i \in Id /\ i[1] \in Pod \ down /\ i[2] = inc[i[1]]
         /\ None \notin Id
<1>1. inc \in [Pod -> 0 .. MaxFaults]
  BY DEF TypeOK
<1>2. ASSUME NEW i, i \in Live PROVE i \in Id /\ i[1] \in Pod \ down /\ i[2] = inc[i[1]]
  BY <1>1, <1>2 DEF Live, Id
<1>3. ASSUME NEW i, i \in Id, i[1] \in Pod \ down, i[2] = inc[i[1]] PROVE i \in Live
  <2>1. i = << i[1], i[2] >>
    BY <1>3 DEF Id
  <2> QED BY <1>3, <2>1 DEF Live
<1> QED BY <1>2, <1>3, ClusterViewAssumption DEF Id

LiveSame == UNCHANGED << inc, down >>

\* The list of pods is used, dropped or read.
ListedKept == pc' = "idle" \/ listed' = Live \/ (pc # "idle" /\ listed' = listed)

ClaimInv == TablesSound /\ Claimants /\ NewNodes

LEMMA ClaimsSame ==
  ASSUME TypeInv, Claimants, NewNodes, OwnersSame, LiveSame, claim' = claim, ListedKept
  PROVE  Claimants' /\ NewNodes'
<1>1. TypeOK /\ Live' = Live /\ inc' = inc /\ claim \in [Slot -> Id \cup {None}]
  BY DEF TypeInv, TypeOK, Live, LiveSame
<1>2. \A i \in Id : Fresh(i) => Fresh(i)'
  BY DEF OwnersSame, Fresh
<1>3. NewNodes'
  BY <1>1, <1>2 DEF NewNodes, ListedKept
<1>4. Claimants'
  BY <1>1 DEF Claimants, OwnersSame
<1> QED BY <1>3, <1>4

LEMMA ClaimsHeard ==
  ASSUME TypeInv, ClaimInv, LiveSame, claim' = claim, pc' = pc, listed' = listed,
         NEW i \in Id, NEW j \in Id, Heard(i, j)
  PROVE  Claimants' /\ NewNodes'
<1>1. TypeOK /\ Live' = Live /\ inc' = inc /\ claim \in [Slot -> Id \cup {None}]
  BY DEF TypeInv, TypeOK, Live, LiveSame
<1>2. Sound(j, table[j]) /\ None \notin Id
  BY <1>1, LiveFacts DEF ClaimInv, TablesSound
<1>3. ASSUME NEW k \in Id, Fresh(k) PROVE Fresh(k)'
  <2>1. CASE k = i
    <3>1. table'[i].ref[i] = None
      BY <1>3, <2>1 DEF Heard
    <3>2. ASSUME NEW s \in Slot PROVE table'[i].owner[s] # i
      BY <1>2, <1>3, <2>1 DEF Heard, Fresh
    <3> QED BY <2>1, <3>1, <3>2 DEF Fresh
  <2>2. CASE k # i
    BY <1>3, <2>2 DEF Heard, Fresh
  <2> QED BY <2>1, <2>2
<1>4. NewNodes'
  BY <1>1, <1>3 DEF ClaimInv, NewNodes
<1>5. ASSUME NEW s \in Slot, claim[s] \in Live, claim[s] # None
      PROVE  table'[claim[s]].owner[s] = claim[s]
  <2>1. table[claim[s]].owner[s] = claim[s] /\ claim[s] \in Id
    BY <1>1, <1>5, LiveFacts DEF ClaimInv, Claimants
  <2>2. CASE claim[s] = i
    <3>1. table[i].owner[s] = i /\ claim[s] # j /\ i # j
      BY <2>1, <2>2 DEF Heard
    <3> QED BY <1>2, <2>2, <3>1 DEF Heard
  <2>3. CASE claim[s] # i
    BY <2>1, <2>3 DEF Heard
  <2> QED BY <2>2, <2>3
<1>6. Claimants'
  BY <1>1, <1>5 DEF ClaimInv, Claimants
<1> QED BY <1>4, <1>6

LEMMA ClaimsTakeOver ==
  ASSUME TypeInv, ClaimInv, LiveSame, pc' = pc, listed' = listed,
         NEW i \in Live, NEW m, m # None, table[i].ref[i] = m, TakeOver(i, m)
  PROVE  ClaimInv'
<1>1. TypeOK /\ Live' = Live /\ inc' = inc /\ claim \in [Slot -> Id \cup {None}]
  BY DEF TypeInv, TypeOK, Live, LiveSame
<1>2. i \in Id /\ None \notin Id /\ i[2] = inc[i[1]] /\ inc[i[1]] \in Nat
  <2>1. i \in Id /\ None \notin Id /\ i[2] = inc[i[1]] /\ i[1] \in Pod
    BY <1>1, LiveFacts
  <2> QED BY <1>1, <2>1 DEF TypeOK
<1>3. /\ TablesSound'
      /\ \A k \in Id \ {i} : table'[k] = table[k]
      /\ \A s \in Slot :
           IF claim[s] = m /\ table[i].owner[s] = m
           THEN claim'[s] = i /\ table'[i].owner[s] = i
           ELSE claim'[s] = claim[s] /\ table'[i].owner[s] = table[i].owner[s]
  BY <1>1, <1>2, SoundTakeOver DEF ClaimInv
<1>4. ASSUME NEW k \in Id, k[2] > inc[k[1]] \/ (pc # "idle" /\ k \in Live \ listed)
      PROVE  Fresh(k)'
  <2>1. Fresh(k)
    BY <1>4 DEF ClaimInv, NewNodes
  <2>2. k # i
    BY <2>1 DEF Fresh
  <2> QED BY <1>3, <2>1, <2>2 DEF Fresh
<1>5. NewNodes'
  BY <1>1, <1>4 DEF NewNodes
<1>6. ASSUME NEW s \in Slot, claim'[s] # None
      PROVE  /\ claim'[s][2] <= inc[claim'[s][1]]
             /\ claim'[s] \in Live => table'[claim'[s]].owner[s] = claim'[s]
  <2>1. CASE claim[s] = m /\ table[i].owner[s] = m
    <3>1. claim'[s] = i /\ table'[i].owner[s] = i
      BY <1>3, <2>1
    <3> QED BY <1>2, <3>1
  <2>2. CASE ~(claim[s] = m /\ table[i].owner[s] = m)
    <3>1. claim'[s] = claim[s] /\ table'[i].owner[s] = table[i].owner[s]
      BY <1>3, <2>2
    <3>2. /\ claim[s][2] <= inc[claim[s][1]] /\ claim[s] \in Id
          /\ claim[s] \in Live => table[claim[s]].owner[s] = claim[s]
      BY <1>1, <1>6, <3>1 DEF ClaimInv, Claimants
    <3> QED BY <1>3, <3>1, <3>2
  <2> QED BY <2>1, <2>2
<1>7. Claimants'
  BY <1>1, <1>6 DEF Claimants
<1> QED BY <1>3, <1>5, <1>7 DEF ClaimInv

LEMMA ClaimsForget ==
  ASSUME TypeInv, ReadInv, KnownInv, ClaimInv, LiveSame, claim' = claim, pc' = "idle",
         NEW G \in SUBSET Id, ForgetNode(G)
  PROVE  ClaimInv'
<1>1. TypeOK /\ Live' = Live /\ inc' = inc /\ claim \in [Slot -> Id \cup {None}]
  BY DEF TypeInv, TypeOK, Live, LiveSame
<1>2. /\ TablesSound'
      /\ \A k \in Id \ (pool \cap Live) : table'[k] = table[k]
      /\ \A k \in Id, s \in Slot : table[k].owner[s] = k => table'[k].owner[s] = k
  BY <1>1, SoundForget DEF ClaimInv
<1>3. ASSUME NEW k \in Id, k[2] > inc[k[1]] PROVE Fresh(k)'
  <2>1. Fresh(k)
    BY <1>3 DEF ClaimInv, NewNodes
  <2>2. k \notin Live
    <3>1. k \in Live => k[2] = inc[k[1]] /\ k[1] \in Pod
      BY <1>1, LiveFacts
    <3>2. \A p \in Pod : inc[p] \in Nat
      BY <1>1 DEF TypeOK
    <3> QED BY <1>3, <3>1, <3>2
  <2> QED BY <1>2, <2>1, <2>2 DEF Fresh
<1>4. NewNodes'
  BY <1>1, <1>3 DEF NewNodes
<1>5. Claimants'
  BY <1>1, <1>2 DEF Claimants, ClaimInv
<1> QED BY <1>2, <1>4, <1>5 DEF ClaimInv

LEMMA ClaimsStops ==
  ASSUME TypeInv, ClaimInv, PodStops PROVE ClaimInv'
<1>1. PICK p \in Pod \ down : /\ down' = down \cup {p}
                              /\ table' = [table EXCEPT ![<< p, inc[p] >>] = Blank(<< p, inc[p] >>)]
  BY DEF PodStops
<1>2. UNCHANGED << inc, claim, listed, pc >> /\ TypeOK
  BY DEF PodStops, opVars, TypeInv
<1>0. PICK i \in Id : i = << p, inc[p] >>
  BY <1>2 DEF TypeOK, Id
<1>3. Live' \subseteq Live \ {i}
  BY <1>0, <1>1, <1>2 DEF Live
<1>4. table \in [Id -> Table] /\ claim \in [Slot -> Id \cup {None}]
  BY <1>2 DEF TypeOK
<1>5. table'[i] = Blank(i) /\ \A k \in Id \ {i} : table'[k] = table[k]
  BY <1>0, <1>1, <1>4
<1>6. Sound(i, table'[i]) /\ Fresh(i)'
  <2>1. Sound(i, Blank(i)) /\ Blank(i).ref[i] = None /\ \A s \in Slot : Blank(i).owner[s] = None
    BY <1>4, SoundBlank
  <2>2. i # None
    BY <1>2, <1>4, LiveFacts
  <2> QED BY <1>5, <2>1, <2>2 DEF Fresh
<1>7. ASSUME NEW k \in Id PROVE Sound(k, table'[k]) /\ (Fresh(k) => Fresh(k)')
  <2>1. CASE k = i
    BY <1>6, <2>1
  <2>2. CASE k # i
    <3>1. table'[k] = table[k]
      BY <1>5, <2>2
    <3>2. Sound(k, table'[k])
      BY <3>1 DEF ClaimInv, TablesSound
    <3>3. Fresh(k) => Fresh(k)'
      BY <3>1 DEF Fresh
    <3> QED BY <3>2, <3>3
  <2> QED BY <2>1, <2>2
<1>8. NewNodes'
  <2> SUFFICES ASSUME NEW k \in Id, k[2] > inc'[k[1]] \/ (pc' # "idle" /\ k \in Live' \ listed')
               PROVE  Fresh(k)'
    BY DEF NewNodes
  <2>1. Fresh(k)
    BY <1>2, <1>3 DEF ClaimInv, NewNodes
  <2> QED BY <1>7, <2>1
<1>9. Claimants'
  <2> SUFFICES ASSUME NEW s \in Slot, claim[s] # None
               PROVE  /\ claim[s][2] <= inc[claim[s][1]]
                      /\ claim[s] \in Live' => table'[claim[s]].owner[s] = claim[s]
    BY <1>2 DEF Claimants
  <2> QED BY <1>3, <1>4, <1>5 DEF ClaimInv, Claimants
<1> QED BY <1>7, <1>8, <1>9 DEF ClaimInv, TablesSound

LEMMA ClaimsStarts ==
  ASSUME TypeInv, ClaimInv, PodStarts PROVE ClaimInv'
<1>1. PICK p \in down : down' = down \ {p} /\ inc' = [inc EXCEPT ![p] = @ + 1]
  BY DEF PodStarts
<1>2. UNCHANGED << table, claim, listed, pc >> /\ TypeOK
  BY DEF PodStarts, opVars, TypeInv
<1>3. /\ p \in Pod /\ inc \in [Pod -> Nat] /\ claim \in [Slot -> Id \cup {None}]
      /\ \A q \in Pod : inc'[q] = IF q = p THEN inc[p] + 1 ELSE inc[q]
  BY <1>1, <1>2 DEF TypeOK
<1>4. Live' \subseteq Live \cup {<< p, inc[p] + 1 >>}
  BY <1>1, <1>3 DEF Live
<1>5. \A i \in Id : i[1] \in Pod /\ i[2] \in Nat
  BY DEF Id
<1>6. \A i \in Id : Fresh(i)' <=> Fresh(i)
  BY <1>2 DEF Fresh
<1>7. NewNodes'
  <2> SUFFICES ASSUME NEW i \in Id, i[2] > inc'[i[1]] \/ (pc # "idle" /\ i \in Live' \ listed)
               PROVE  Fresh(i)
    BY <1>2, <1>6 DEF NewNodes
  <2>1. CASE i[2] > inc'[i[1]]
    <3>1. i[2] > inc[i[1]]
      BY <1>3, <1>5, <2>1
    <3> QED BY <3>1 DEF ClaimInv, NewNodes
  <2>2. CASE pc # "idle" /\ i \in Live \ listed
    BY <2>2 DEF ClaimInv, NewNodes
  <2>3. CASE i = << p, inc[p] + 1 >>
    <3>1. i[2] > inc[i[1]]
      BY <1>3, <2>3
    <3> QED BY <3>1 DEF ClaimInv, NewNodes
  <2> QED BY <1>4, <2>1, <2>2, <2>3
<1>8. Claimants'
  <2> SUFFICES ASSUME NEW s \in Slot, claim[s] # None
               PROVE  /\ claim[s][2] <= inc'[claim[s][1]]
                      /\ claim[s] \in Live' => table[claim[s]].owner[s] = claim[s]
    BY <1>2 DEF Claimants
  <2>1. claim[s] \in Id /\ claim[s][2] <= inc[claim[s][1]]
    BY <1>3 DEF ClaimInv, Claimants
  <2>2. claim[s] # << p, inc[p] + 1 >>
    <3> SUFFICES ASSUME claim[s] = << p, inc[p] + 1 >> PROVE FALSE
      OBVIOUS
    <3>1. inc[p] + 1 <= inc[p] /\ inc[p] \in Nat
      BY <1>3, <2>1
    <3> QED BY <3>1
  <2>3. claim[s][2] <= inc'[claim[s][1]]
    BY <1>3, <1>5, <2>1
  <2> QED BY <1>4, <2>2, <2>3 DEF ClaimInv, Claimants
<1> QED BY <1>2, <1>7, <1>8 DEF ClaimInv, TablesSound, Sound

LEMMA ClaimInit == Init => ClaimInv
<1> SUFFICES ASSUME Init PROVE ClaimInv
  OBVIOUS
<1>0. TypeOK /\ pc = "idle" /\ inc = [p \in Pod |-> 0]
  BY TypeInit DEF TypeInv, Init
<1>1. First \subseteq Id /\ None \notin Id
  BY <1>0, LiveFacts, ClusterViewAssumption DEF First, Id
<1>2. \A i \in Id : /\ Sound(i, Blank(i)) /\ Blank(i).ref[i] = None
                    /\ \A s \in Slot : Blank(i).owner[s] = None
  BY SoundBlank
<1>3. \A i \in Id : i[1] \in Pod /\ i[2] \in Nat
  BY DEF Id
<1>4. ASSUME NEW i \in Id, table[i] = Blank(i) PROVE Sound(i, table[i]) /\ Fresh(i)
  BY <1>1, <1>2, <1>4 DEF Fresh
<1>5. CASE table = [i \in Id |-> Blank(i)] /\ claim = [s \in Slot |-> None]
  <2>1. \A i \in Id : table[i] = Blank(i)
    BY <1>5
  <2> QED BY <1>4, <1>5, <2>1 DEF ClaimInv, TablesSound, Claimants, NewNodes
<1>6. ASSUME NEW m \in First, NEW c \in First, NEW own \in [First -> {m, c}], own[c] = c,
             table = Formed({m, c}, m, own), claim = [s \in Slot |-> c]
      PROVE  ClaimInv
  <2>1. ASSUME NEW i \in First
        PROVE  /\ Sound(i, table[i])
               /\ \A s \in Slot : table[i].owner[s] = own[i]
    <3>1. /\ table[i].nodes = First /\ table[i].shake = {}
          /\ \A j \in Id : table[i].ref[j] = IF j \in First \ {m, c} THEN m ELSE None
          /\ \A s \in Slot : table[i].owner[s] = own[i]
      BY <1>1, <1>6 DEF Formed, Blank, NoRefs
    <3>2. own[i] \in {m, c} /\ own[i] \in Id /\ own[i] \in First
      BY <1>1
    <3> QED BY <3>1, <3>2 DEF Sound
  <2>2. ASSUME NEW i \in Id \ First PROVE table[i] = Blank(i)
    BY <1>6 DEF Formed
  <2>3. TablesSound
    BY <1>4, <2>1, <2>2 DEF TablesSound
  <2>4. Claimants
    <3>1. c[2] = 0 /\ inc[c[1]] = 0
      BY <1>0 DEF First
    <3>2. \A s \in Slot : claim[s] = c /\ table[c].owner[s] = c
      BY <1>6, <2>1
    <3>3. c[2] <= inc[c[1]]
      BY <3>1
    <3> QED BY <3>2, <3>3 DEF Claimants
  <2>5. NewNodes
    <3> SUFFICES ASSUME NEW i \in Id, i[2] > inc[i[1]] PROVE Fresh(i)
      BY <1>0 DEF NewNodes
    <3>1. i \notin First
      BY <1>0, <1>3 DEF First
    <3> QED BY <1>4, <2>2, <3>1
  <2> QED BY <2>3, <2>4, <2>5 DEF ClaimInv
<1> QED BY <1>5, <1>6, InitTables

\* What the operator does between two requests leaves the nodes alone.
LEMMA ListedReturn == ASSUME Return PROVE ListedKept
BY DEF Return, ListedKept

LEMMA ListedCall == ASSUME NEW u, NEW c, pc # "idle", GetClusterInfos(u, c) PROVE ListedKept
BY DEF GetClusterInfos, ListedKept

LEMMA ClaimNext == TypeInv /\ ReadInv /\ KnownInv /\ ClaimInv /\ [Next]_vars => ClaimInv'
<1> SUFFICES ASSUME TypeInv, ReadInv, KnownInv, ClaimInv, [Next]_vars PROVE ClaimInv'
  OBVIOUS
<1>0. TypeOK /\ Live \subseteq Id /\ pool \subseteq Id
  BY LiveIds DEF TypeInv, TypeOK
<1>t. ASSUME TablesSound', OwnersSame, LiveSame, claim' = claim, ListedKept PROVE ClaimInv'
  BY <1>t, ClaimsSame DEF ClaimInv
<1>k. ASSUME UNCHANGED clusterVars, ListedKept PROVE ClaimInv'
  <2>1. OwnersSame /\ LiveSame /\ claim' = claim /\ table' = table
    BY <1>k DEF clusterVars, OwnersSame, LiveSame
  <2>2. TablesSound'
    BY <2>1 DEF ClaimInv, TablesSound, Sound
  <2> QED BY <1>k, <1>t, <2>1, <2>2
<1>1. CASE GetStatefulSetPods
  BY <1>1, <1>k DEF GetStatefulSetPods, ListedKept
<1>2. CASE getInfos \/ handleError \/ CheckandUpdateClusterState \/ AllRead
  BY <1>2, <1>k DEF getInfos, handleError, CheckandUpdateClusterState, AllRead, ListedKept
<1>3. CASE newRedisAdmin \/ syncCluster \/ healthDone \/ Crash
  BY <1>3, <1>k, ListedReturn, ListedCall DEF newRedisAdmin, syncCluster, healthDone, Crash
<1>4. CASE waitForClusterJoin
  <2>1. ListedKept
    BY <1>4, ListedReturn DEF waitForClusterJoin, ListedKept
  <2> QED BY <1>4, <1>k, <2>1 DEF waitForClusterJoin
<1>5. CASE Heal
  <2>1. CASE UNCHANGED clusterVars
    BY <1>5, <1>k, <2>1, ListedReturn, ListedCall DEF Heal
  <2>2. ASSUME NEW G \in SUBSET Id, ForgetNode(G), Return, UNCHANGED << inc, down, claim >>
        PROVE  ClaimInv'
    BY <2>2, ClaimsForget DEF LiveSame, Return
  <2>3. listGhostNodes \in SUBSET Id /\ listUntrustedNodes \in SUBSET Id
    BY DEF listGhostNodes, listUntrustedNodes
  <2>4. \/ UNCHANGED clusterVars
        \/ ForgetNode(listGhostNodes) /\ Return /\ UNCHANGED << inc, down, claim >>
        \/ ForgetNode(listUntrustedNodes) /\ Return /\ UNCHANGED << inc, down, claim >>
    BY <1>5 DEF Heal
  <2> QED BY <2>1, <2>2, <2>3, <2>4
<1>6. CASE AttachNodeToCluster
  <2>1. ListedKept /\ LiveSame /\ claim' = claim
    BY <1>6, ListedReturn, ListedCall DEF AttachNodeToCluster, LiveSame
  <2>2. PICK Q \in SUBSET Id, i \in Id : Meet(Q, i)
    BY <1>0, <1>6 DEF AttachNodeToCluster
  <2> QED BY <1>0, <1>t, <2>1, <2>2, SoundMeet DEF ClaimInv
<1>7. CASE Gossip \/ Handshake
  <2>1. LiveSame /\ UNCHANGED << claim, pc, listed >>
    BY <1>7 DEF Gossip, Handshake, redisUnchanged, opVars, LiveSame
  <2>2. TablesSound' /\ (OwnersSame \/ \E i, j \in Id : Heard(i, j))
    BY <1>0, <1>7, HeardGossip, HeardHandshake DEF ClaimInv
  <2>3. CASE OwnersSame
    <3>1. ListedKept
      BY <2>1 DEF ListedKept
    <3> QED BY <1>t, <2>1, <2>2, <2>3, <3>1
  <2>4. CASE \E i, j \in Id : Heard(i, j)
    BY <2>1, <2>2, <2>4, ClaimsHeard DEF ClaimInv
  <2> QED BY <2>2, <2>3, <2>4
<1>8. CASE NodeFails \/ Suspect
  <2>1. LiveSame /\ UNCHANGED << claim, pc, listed >>
    BY <1>8 DEF NodeFails, Suspect, redisUnchanged, opVars, LiveSame
  <2>2. PICK i \in Id : \E j : MarkFailed(i, j)
    BY <1>0, <1>8 DEF NodeFails, Suspect
  <2>3. TablesSound' /\ OwnersSame
    BY <1>0, <2>2, SoundMarkFailed DEF ClaimInv
  <2>4. ListedKept
    BY <2>1 DEF ListedKept
  <2> QED BY <1>t, <2>1, <2>3, <2>4
<1>9. CASE Failover \/ FailoverOfLive
  <2>1. PICK i \in Live : table[i].ref[i] # None /\ TakeOver(i, table[i].ref[i])
    BY <1>9 DEF Failover, FailoverOfLive
  <2>2. LiveSame /\ UNCHANGED << pc, listed >>
    BY <2>1 DEF TakeOver, LiveSame
  <2> QED BY <2>1, <2>2, ClaimsTakeOver
<1>10. CASE PodStops
  BY <1>10, ClaimsStops
<1>11. CASE PodStarts
  BY <1>11, ClaimsStarts
<1>12. CASE UNCHANGED vars
  <2>1. UNCHANGED clusterVars /\ UNCHANGED << pc, listed >>
    BY <1>12 DEF vars, opVars
  <2>2. ListedKept \/ pc' = "idle"
    BY <2>1 DEF ListedKept
  <2> QED BY <1>k, <2>1, <2>2 DEF ListedKept
<1> QED
  BY <1>1, <1>2, <1>3, <1>4, <1>5, <1>6, <1>7, <1>8, <1>9, <1>10, <1>11, <1>12
  DEF Next, Operator, Redis

LEMMA ClaimInvariance == Spec => []ClaimInv
BY TypeInvariance, ReadInvariance, KnownInvariance, ClaimInit, ClaimNext, PTL DEF Spec

\* The nodes that have answered, the one that is being asked and those still to be.
AskedInv ==
  /\ IF pc = "info" THEN cur \in Answered ELSE cur = None
  /\ use = "health" => pc \in {"read", "info", "done"} /\ pool # {}
  /\ todo \cap Answered = {}

\* Who is said to have slots is said to be a master.
MastersHaveSlots ==
  \A i \in Answered : \A j \in DOMAIN infos[i] :
    infos[i][j].slots # {} => infos[i][j].role = "master"

\* So far the cluster looks healthy.
Watch == use = "health" /\ errs = {} /\ ~hit /\ ~nok

Seen(s) == \E i \in Answered : \E j \in DOMAIN infos[i] : s \in infos[i][j].slots
Holds(i, s) == i \in Live /\ table[i].owner[s] = i

\* A node still to be asked will not answer or will say who has s.
Ahead(s) == \E j \in todo : j \notin Live \/ table[j].owner[s] = j
Ahead1(s) == \E j \in todo : j \notin Live \/ table[j].owner[s] \in {j, claim[s]} \ {None}

\* A node that has answered, and one that is being asked and knows an owner by now.
Told(s) == Answered \ {cur} # {} \/ (cur \in Live /\ table[cur].owner[s] # None)

\* The claim of a slot that was not seen is ahead: as long as the slot stays with one
\* node, that node is still to be asked; after one failover a node that has the old or
\* the new owner is.
Covered(s) ==
  \/ Seen(s)
  \/ moves[s] = 2
  \/ moves[s] = 0 /\ (\A i \in Answered : ~Holds(i, s)) /\ (Told(s) => Ahead(s))
  \/ moves[s] = 1 /\ Ahead1(s)

Cover == Watch => \A s \in Slot : Covered(s)

CoverInv == AskedInv /\ MastersHaveSlots /\ Cover

\* The nodes change and the operator does nothing.
NodesStep ==
  UNCHANGED << pc, listed, pool, use, todo, cur, errs, infos, nok >> /\ (hit => hit')

LEMMA AskedStep == ASSUME AskedInv, MastersHaveSlots, NodesStep PROVE AskedInv' /\ MastersHaveSlots'
<1>1. Answered' = Answered
  BY DEF Answered, NodesStep
<1> QED BY <1>1 DEF AskedInv, MastersHaveSlots, NodesStep

LEMMA WatchStep ==
  ASSUME NodesStep, Watch' PROVE Watch /\ Answered' = Answered /\ \A s : Seen(s) => Seen(s)'
<1>1. Answered' = Answered /\ infos' = infos
  BY DEF Answered, NodesStep
<1> QED BY <1>1 DEF Watch, NodesStep, Seen

\* While the health looks good, a node that is no mere newcomer is still to be asked
\* or has answered.
LEMMA Asked ==
  ASSUME TypeInv, ReadInv, ClaimInv, AskedInv, Watch, NEW i \in Live, ~Fresh(i)
  PROVE  i \in todo \cup Answered
<1>1. i \in Id /\ pc \in {"read", "info", "done"} /\ ~hit /\ errs = {}
  BY LiveIds DEF TypeInv, AskedInv, Watch
<1>2. i \in listed
  BY <1>1 DEF ClaimInv, NewNodes
<1>3. pool = listed /\ pool \subseteq todo \cup errs \cup Answered
  BY <1>1 DEF ReadInv
<1> QED BY <1>1, <1>2, <1>3

LEMMA CoverSame ==
  ASSUME TypeInv, Cover, NodesStep, OwnersSame, LiveSame, UNCHANGED << claim, moves >>
  PROVE  Cover'
<1> SUFFICES ASSUME Watch', NEW s \in Slot PROVE Covered(s)'
  BY DEF Cover
<1>1. Watch /\ Answered' = Answered /\ (Seen(s) => Seen(s)') /\ Live' = Live /\ Live \subseteq Id
  BY WatchStep, LiveIds DEF Live, LiveSame, TypeInv
<1>2. Covered(s) /\ todo \subseteq Id /\ todo' = todo /\ cur' = cur
  BY <1>1 DEF Cover, TypeInv, TypeOK, NodesStep
<1>3. \A k \in Id : table'[k].owner[s] = table[k].owner[s]
  BY DEF OwnersSame
<1>4. (Ahead(s) => Ahead(s)') /\ (Ahead1(s) => Ahead1(s)')
  BY <1>1, <1>2, <1>3 DEF Ahead, Ahead1
<1>5. (Told(s)' => Told(s)) /\ \A i \in Answered : Holds(i, s)' => Holds(i, s)
  BY <1>1, <1>2, <1>3 DEF Told, Holds
<1> QED BY <1>1, <1>2, <1>4, <1>5 DEF Covered

LEMMA CoverHeard ==
  ASSUME TypeInv, ReadInv, ClaimInv, AskedInv, Cover, NodesStep, LiveSame,
         UNCHANGED << claim, moves >>, NEW i \in Id, NEW j \in Id, Heard(i, j)
  PROVE  Cover'
<1> SUFFICES ASSUME Watch', NEW s \in Slot PROVE Covered(s)'
  BY DEF Cover
<1>1. /\ Watch /\ Answered' = Answered /\ (Seen(s) => Seen(s)') /\ Live' = Live
      /\ Live \subseteq Id /\ None \notin Id
  BY WatchStep, LiveFacts, LiveIds DEF Live, LiveSame, TypeInv
<1>2. Covered(s) /\ todo \subseteq Id /\ todo' = todo /\ cur' = cur
  BY <1>1 DEF Cover, TypeInv, TypeOK, NodesStep
<1>3. /\ i \in Live /\ j \in Live /\ i # j
      /\ \A k \in Id \ {i} : table'[k].owner[s] = table[k].owner[s]
  BY DEF Heard
<1>4. \/ table'[i].owner[s] = table[i].owner[s]
      \/ /\ table'[i].owner[s] = j /\ table[j].owner[s] = j
         /\ claim[s] = j \/ table[i].owner[s] = None
      \/ table'[i].owner[s] = None /\ table[i].owner[s] = j /\ table[j].ref[j] # None
  BY DEF Heard
<1>5. CASE moves[s] = 0 /\ (\A k \in Answered : ~Holds(k, s)) /\ (Told(s) => Ahead(s))
  <2>1. ASSUME NEW k \in Answered PROVE ~Holds(k, s)'
    BY <1>1, <1>3, <1>4, <1>5 DEF Holds, Answered
  <2>2. ASSUME table[j].owner[s] = j PROVE Ahead(s)'
    <3>1. j \in todo
      BY <1>1, <1>3, <1>5, <2>2, Asked DEF Fresh, Holds
    <3> QED BY <1>1, <1>2, <1>3, <2>2, <3>1 DEF Ahead
  <2>3. ASSUME Ahead(s) PROVE Ahead(s)'
    <3>1. PICK w \in todo : w \notin Live \/ table[w].owner[s] = w
      BY <2>3 DEF Ahead
    <3>2. CASE w # i
      BY <1>1, <1>2, <1>3, <3>1, <3>2 DEF Ahead
    <3>3. CASE w = i
      <4>1. table[i].owner[s] = i
        BY <1>3, <3>1, <3>3
      <4>2. CASE table'[i].owner[s] = i
        BY <1>2, <3>1, <3>3, <4>2 DEF Ahead
      <4>3. CASE table'[i].owner[s] # i
        BY <1>3, <1>4, <2>2, <4>1, <4>3
      <4> QED BY <4>2, <4>3
    <3> QED BY <3>2, <3>3
  <2>4. ASSUME Told(s)', ~Told(s) PROVE Ahead(s)'
    <3>1. cur \in Live /\ table'[cur].owner[s] # None /\ table[cur].owner[s] = None
      BY <1>1, <1>2, <2>4 DEF Told
    <3>2. cur = i
      BY <1>1, <1>3, <3>1
    <3>3. table[j].owner[s] = j
      BY <1>1, <1>4, <3>1, <3>2
    <3> QED BY <2>2, <3>3
  <2>5. moves'[s] = 0
    BY <1>5
  <2> QED BY <1>1, <1>5, <2>1, <2>3, <2>4, <2>5 DEF Covered
<1>6. CASE moves[s] = 1 /\ Ahead1(s)
  <2>1. PICK w \in todo : w \notin Live \/ table[w].owner[s] \in {w, claim[s]} \ {None}
    BY <1>6 DEF Ahead1
  <2>2. w \in Id
    BY <1>2, <2>1
  <2>3. w \notin Live \/ table'[w].owner[s] \in {w, claim[s]} \ {None}
    <3>1. CASE w # i
      BY <1>3, <2>1, <2>2, <3>1
    <3>2. CASE w = i
      <4>1. table[i].owner[s] \in {i, claim[s]} \ {None}
        BY <1>3, <2>1, <3>2
      <4>2. ~(table[i].owner[s] = j /\ table[j].ref[j] # None)
        <5> SUFFICES ASSUME table[i].owner[s] = j PROVE table[j].ref[j] = None
          OBVIOUS
        <5>1. claim[s] = j
          BY <1>3, <4>1
        <5>2. table[j].owner[s] = j
          BY <1>1, <1>3, <5>1 DEF ClaimInv, Claimants
        <5>3. Sound(j, table[j])
          BY DEF ClaimInv, TablesSound
        <5> QED BY <1>1, <5>2, <5>3 DEF Sound
      <4> QED BY <1>1, <1>4, <3>2, <4>1, <4>2
    <3> QED BY <3>1, <3>2
  <2>4. Ahead1(s)'
    BY <1>1, <1>2, <2>1, <2>3 DEF Ahead1
  <2> QED BY <1>6, <2>4 DEF Covered
<1>7. CASE moves[s] = 2 \/ Seen(s)
  BY <1>1, <1>7 DEF Covered
<1> QED BY <1>2, <1>5, <1>6, <1>7 DEF Covered

LEMMA CoverTakeOver ==
  ASSUME TypeInv, ReadInv, ClaimInv, AskedInv, Cover, NodesStep, LiveSame,
         NEW i \in Live, NEW m, m # None, table[i].ref[i] = m, TakeOver(i, m)
  PROVE  Cover'
<1> SUFFICES ASSUME Watch', NEW s \in Slot PROVE Covered(s)'
  BY DEF Cover
<1>1. /\ TypeOK /\ Watch /\ Answered' = Answered /\ (Seen(s) => Seen(s)') /\ Live' = Live
      /\ i \in Id /\ None \notin Id
  BY WatchStep, LiveFacts, LiveIds DEF Live, LiveSame, TypeInv
<1>2. Covered(s) /\ todo \subseteq Id /\ todo' = todo /\ cur' = cur
  BY <1>1 DEF Cover, TypeOK, NodesStep
<1>3. /\ \A k \in Id \ {i} : table'[k] = table[k]
      /\ IF claim[s] = m /\ table[i].owner[s] = m
         THEN claim'[s] = i /\ table'[i].owner[s] = i
         ELSE claim'[s] = claim[s] /\ table'[i].owner[s] = table[i].owner[s]
  BY <1>1, SoundTakeOver DEF ClaimInv
<1>4. moves'[s] = IF claim[s] = m /\ table[i].owner[s] = m /\ moves[s] < 2
                  THEN moves[s] + 1 ELSE moves[s]
  BY <1>1 DEF TakeOver, Watch
<1>5. moves[s] \in 0 .. 2
  BY <1>1 DEF TypeOK
<1>6. CASE claim[s] = m /\ table[i].owner[s] = m
  <2>1. CASE moves[s] # 0
    <3>1. moves'[s] = 2
      BY <1>4, <1>5, <1>6, <2>1
    <3> QED BY <3>1 DEF Covered
  <2>2. CASE moves[s] = 0 /\ ~Seen(s)
    <3>1. moves'[s] = 1
      BY <1>4, <1>6, <2>2
    <3>2. CASE i \in todo
      BY <1>1, <1>2, <1>3, <1>6, <3>1, <3>2 DEF Covered, Ahead1
    <3>3. CASE i \in Answered
      <4>1. Told(s)
        BY <1>6, <3>3 DEF Told
      <4>2. Ahead(s)
        BY <1>2, <2>2, <4>1 DEF Covered
      <4>3. PICK w \in todo : w \notin Live \/ table[w].owner[s] = w
        BY <4>2 DEF Ahead
      <4>4. w \in Id /\ w # None
        BY <1>1, <1>2
      <4>5. w \notin Live' \/ table'[w].owner[s] \in {w, claim'[s]} \ {None}
        BY <1>1, <1>3, <1>6, <4>3, <4>4
      <4>6. Ahead1(s)'
        BY <1>2, <4>3, <4>5 DEF Ahead1
      <4> QED BY <3>1, <4>6 DEF Covered
    <3>4. ~Fresh(i)
      BY DEF Fresh
    <3> QED BY <1>1, <3>2, <3>3, <3>4, Asked
  <2>3. CASE Seen(s)
    BY <1>1, <2>3 DEF Covered
  <2> QED BY <2>1, <2>2, <2>3
<1>7. CASE ~(claim[s] = m /\ table[i].owner[s] = m)
  <2>1. /\ moves'[s] = moves[s] /\ claim'[s] = claim[s]
        /\ \A k \in Id : table'[k].owner[s] = table[k].owner[s]
    BY <1>3, <1>4, <1>7
  <2>2. (Ahead(s) => Ahead(s)') /\ (Ahead1(s) => Ahead1(s)')
    BY <1>1, <1>2, <2>1 DEF Ahead, Ahead1
  <2>3. Live \subseteq Id
    BY <1>1, LiveIds
  <2>4. (Told(s)' => Told(s)) /\ \A k \in Answered : Holds(k, s)' => Holds(k, s)
    BY <1>1, <1>2, <2>1, <2>3 DEF Told, Holds
  <2> QED BY <1>1, <1>2, <2>1, <2>2, <2>4 DEF Covered
<1> QED BY <1>6, <1>7

\* Listed nodes come and go: one that has gone does not come back under the same id.
LEMMA CoverPods ==
  ASSUME TypeInv, ReadInv, AskedInv, Cover, NodesStep, UNCHANGED << claim, moves >>,
         None \notin Live', listed \cap Live' \subseteq Live,
         \A k \in listed \cap Live' : table'[k] = table[k]
  PROVE  Cover'
<1> SUFFICES ASSUME Watch', NEW s \in Slot PROVE Covered(s)'
  BY DEF Cover
<1>1. Watch /\ Answered' = Answered /\ (Seen(s) => Seen(s)') /\ None \notin Id /\ TypeOK
  BY WatchStep, LiveFacts DEF TypeInv
<1>2. Covered(s) /\ todo' = todo /\ cur' = cur
  BY <1>1 DEF Cover, NodesStep
<1>3. pc \in {"read", "info", "done"}
  BY <1>1 DEF AskedInv, Watch
<1>4. pool = listed /\ todo \subseteq listed /\ Answered \subseteq listed /\ cur \in listed \cup {None}
  BY <1>1, <1>3 DEF ReadInv, TypeOK
<1>6. (Ahead(s) => Ahead(s)') /\ (Ahead1(s) => Ahead1(s)')
  BY <1>2, <1>4 DEF Ahead, Ahead1
<1>7. (Told(s)' => Told(s)) /\ \A k \in Answered : Holds(k, s)' => Holds(k, s)
  BY <1>1, <1>2, <1>4 DEF Told, Holds
<1> QED BY <1>1, <1>2, <1>6, <1>7 DEF Covered

LEMMA CoverStops ==
  ASSUME TypeInv, ReadInv, AskedInv, Cover, NodesStep, PodStops PROVE Cover'
<1>1. PICK p \in Pod \ down : /\ down' = down \cup {p}
                              /\ table' = [table EXCEPT ![<< p, inc[p] >>] = Blank(<< p, inc[p] >>)]
  BY DEF PodStops
<1>2. UNCHANGED << inc, claim, moves >>
  BY DEF PodStops, opVars, readVars
<1>3. Live' \subseteq Live \ {<< p, inc[p] >>}
  BY <1>1, <1>2 DEF Live
<1>4. \A k \in Id : k # << p, inc[p] >> => table'[k] = table[k]
  BY <1>1 DEF TypeInv, TypeOK
<1>5. Live \subseteq Id /\ None \notin Id
  BY LiveIds, LiveFacts DEF TypeInv
<1>6. \A k \in listed \cap Live' : table'[k] = table[k]
  BY <1>3, <1>4, <1>5
<1> QED BY <1>2, <1>3, <1>5, <1>6, CoverPods

LEMMA CoverStarts ==
  ASSUME TypeInv, ReadInv, KnownInv, AskedInv, Cover, NodesStep, PodStarts PROVE Cover'
<1>1. PICK p \in down : down' = down \ {p} /\ inc' = [inc EXCEPT ![p] = @ + 1]
  BY DEF PodStarts
<1>2. UNCHANGED << table, claim, moves >>
  BY DEF PodStarts, opVars, readVars
<1>3. p \in Pod /\ inc \in [Pod -> Nat]
  BY <1>1 DEF TypeInv, TypeOK
<1>4. Live' \subseteq Live \cup {<< p, inc[p] + 1 >>}
  BY <1>1, <1>3 DEF Live
<1>5. << p, inc[p] + 1 >> \notin listed
  <2> SUFFICES ASSUME << p, inc[p] + 1 >> \in listed PROVE FALSE
    OBVIOUS
  <2>1. << p, inc[p] + 1 >>[2] <= inc[<< p, inc[p] + 1 >>[1]]
    BY KnownParts DEF PastIds
  <2>2. inc[p] + 1 <= inc[p] /\ inc[p] \in Nat
    BY <1>3, <2>1
  <2> QED BY <2>2
<1>6. None \notin Live'
  <2>1. << p, inc[p] + 1 >> \in Pod \X Nat
    BY <1>3
  <2> QED BY <1>4, <2>1, LiveIds, LiveFacts, ClusterViewAssumption DEF TypeInv
<1>7. listed \cap Live' \subseteq Live
  BY <1>4, <1>5
<1> QED BY <1>2, <1>6, <1>7, CoverPods

\* What a node says of the slots.
LEMMA DecodedSlots ==
  ASSUME TypeInv, ClaimInv, NEW i \in Id
  PROVE  LET v == DecodeNodeInfos(i) IN
         /\ \A j \in DOMAIN v : v[j].slots # {} => v[j].role = "master"
         /\ \A s \in Slot : table[i].owner[s] # None => \E j \in DOMAIN v : s \in v[j].slots
<1>1. Sound(i, table[i])
  BY DEF ClaimInv, TablesSound
<1> DEFINE v == DecodeNodeInfos(i)
<1>2. /\ DOMAIN v = table[i].nodes \cup table[i].shake
      /\ \A j \in DOMAIN v : /\ v[j].role = SetRole(table[i], j)
                             /\ v[j].slots = {s \in Slot : table[i].owner[s] = j}
  BY DEF DecodeNodeInfos
<1> HIDE DEF v
<1>3. ASSUME NEW j \in DOMAIN v, v[j].slots # {} PROVE v[j].role = "master"
  <2>1. PICK s \in Slot : table[i].owner[s] = j
    BY <1>2, <1>3
  <2>2. j # None
    <3>1. table[i] \in Table /\ None \notin Id
      BY LiveFacts DEF TypeInv, TypeOK
    <3> QED BY <1>2, <3>1 DEF Table
  <2> QED BY <1>1, <1>2, <2>1, <2>2 DEF Sound, SetRole
<1>4. ASSUME NEW s \in Slot, table[i].owner[s] # None PROVE \E j \in DOMAIN v : s \in v[j].slots
  BY <1>1, <1>2, <1>4 DEF Sound
<1> QED BY <1>3, <1>4 DEF v

LEMMA CoverRead ==
  ASSUME TypeInv, ReadInv, ClaimInv, CoverInv, getInfos PROVE CoverInv'
<1>0. hit => hit'
  BY HitStays DEF Next, Operator
<1>1. PICK i \in todo \cap Live :
        /\ todo' = todo \ {i}
        /\ \/ /\ infos' = [infos EXCEPT ![i] = DecodeNodeInfos(i)]
              /\ IF use = "health" THEN cur' = i /\ pc' = "info" ELSE UNCHANGED << cur, pc >>
           \/ /\ Fault("address")
              /\ UNCHANGED << infos, cur, pc >>
  BY DEF getInfos
<1>2. /\ pc = "read" /\ pc' \in {"read", "info"}
      /\ UNCHANGED << inc, down, table, claim, listed, pool, use, errs, nok, moves >>
  BY DEF getInfos, clusterVars
<1>3. i \in Id /\ Live' = Live /\ cur = None /\ None \notin Id /\ i \notin Answered
  BY <1>1, <1>2, LiveIds, LiveFacts DEF CoverInv, AskedInv, TypeInv, Live
<1>4. CASE Fault("address") /\ UNCHANGED << infos, cur, pc >>
  <2>1. Answered' = Answered
    BY <1>4 DEF Answered
  <2>2. hit'
    BY <1>4 DEF Fault
  <2>3. AskedInv' /\ MastersHaveSlots'
    BY <1>1, <1>2, <1>4, <2>1 DEF CoverInv, AskedInv, MastersHaveSlots
  <2> QED BY <2>2, <2>3 DEF CoverInv, Cover, Watch
<1>5. CASE /\ infos' = [infos EXCEPT ![i] = DecodeNodeInfos(i)]
           /\ IF use = "health" THEN cur' = i /\ pc' = "info" ELSE UNCHANGED << cur, pc >>
  <2>1. /\ Answered' = Answered \cup {i}
        /\ \A k \in Id : infos'[k] = IF k = i THEN DecodeNodeInfos(i) ELSE infos[k]
    BY <1>3, <1>5, AnsweredMore
  <2>2. infos'[i] = DecodeNodeInfos(i) /\ \A k \in Answered : infos'[k] = infos[k]
    BY <1>3, <2>1 DEF Answered
  <2>3. AskedInv'
    BY <1>1, <1>2, <1>3, <1>5, <2>1 DEF CoverInv, AskedInv
  <2>4. MastersHaveSlots'
    BY <1>3, <2>1, <2>2, DecodedSlots DEF CoverInv, MastersHaveSlots
  <2>5. ASSUME Watch', NEW s \in Slot PROVE Covered(s)'
    <3>1. Watch /\ cur' = i
      BY <1>0, <1>2, <1>5, <2>5 DEF Watch
    <3>2. Covered(s)
      BY <3>1 DEF CoverInv, Cover
    <3>3. CASE Seen(s)
      <4>1. Seen(s)'
        BY <2>1, <2>2, <3>3 DEF Seen
      <4> QED BY <4>1 DEF Covered
    <3>4. CASE table[i].owner[s] # None
      <4>1. \E j \in DOMAIN DecodeNodeInfos(i) : s \in DecodeNodeInfos(i)[j].slots
        BY <1>3, <3>4, DecodedSlots
      <4>2. Seen(s)'
        BY <2>1, <2>2, <4>1 DEF Seen
      <4> QED BY <4>2 DEF Covered
    <3>5. CASE table[i].owner[s] = None
      <4>1. Ahead(s) => Ahead(s)'
        BY <1>1, <1>2, <1>3, <3>5 DEF Ahead
      <4>2. Ahead1(s) => Ahead1(s)'
        BY <1>1, <1>2, <1>3, <3>5 DEF Ahead1
      <4>3. Told(s)' => Told(s)
        BY <1>2, <1>3, <2>1, <3>1, <3>5 DEF Told, Answered
      <4>4. (\A k \in Answered : ~Holds(k, s)) => \A k \in Answered' : ~Holds(k, s)'
        BY <1>2, <1>3, <2>1, <3>5 DEF Holds
      <4>5. moves'[s] = moves[s]
        BY <1>2
      <4> QED BY <3>2, <3>3, <4>1, <4>2, <4>3, <4>4, <4>5 DEF Covered
    <3> QED BY <3>4, <3>5
  <2> QED BY <2>3, <2>4, <2>5 DEF CoverInv, Cover
<1> QED BY <1>1, <1>4, <1>5

\* A node that knows an owner of every slot just after it has answered.
LEMMA CoverCheck ==
  ASSUME TypeInv, CoverInv, CheckandUpdateClusterState PROVE CoverInv'
<1>0. hit => hit'
  BY HitStays DEF Next, Operator
<1>1. /\ pc = "info" /\ pc' = "read" /\ cur' = None
      /\ UNCHANGED << inc, down, table, claim, listed, pool, use, todo, errs, infos, moves >>
  BY DEF CheckandUpdateClusterState, clusterVars
<1>2. Answered' = Answered /\ Live' = Live /\ None \notin Id
  BY <1>1, LiveFacts DEF Answered, Live, TypeInv
<1>3. AskedInv' /\ MastersHaveSlots'
  BY <1>1, <1>2 DEF CoverInv, AskedInv, MastersHaveSlots
<1>4. ASSUME Watch', NEW s \in Slot PROVE Covered(s)'
  <2>1. ~nok'
    BY <1>4 DEF Watch
  <2>2. ~nok /\ clusterGetStatus(cur)
    BY <2>1 DEF CheckandUpdateClusterState
  <2>3. Covered(s)
    BY <1>0, <1>1, <1>4, <2>2 DEF CoverInv, Cover, Watch
  <2>4. Told(s)
    BY <2>2 DEF Told, clusterGetStatus
  <2>5. /\ Ahead(s) => Ahead(s)'
        /\ Ahead1(s) => Ahead1(s)'
        /\ Seen(s) => Seen(s)'
        /\ \A k \in Answered : Holds(k, s)' => Holds(k, s)
    BY <1>1, <1>2 DEF Ahead, Ahead1, Seen, Holds
  <2> QED BY <1>1, <1>2, <2>3, <2>4, <2>5 DEF Covered
<1> QED BY <1>3, <1>4 DEF CoverInv, Cover

\* No health is read, or nobody has been asked yet.
LEMMA CoverOff ==
  ASSUME AskedInv', MastersHaveSlots', use' # "health" \/ errs' # {} PROVE CoverInv'
BY DEF CoverInv, Cover, Watch

LEMMA CoverUnread ==
  ASSUME infos' = Unread, cur' = None, pc' # "info" PROVE Answered' = {} /\ MastersHaveSlots'
BY NobodyAnsweredNext DEF MastersHaveSlots

LEMMA CoverReturn == ASSUME Return PROVE CoverInv'
<1>1. Answered' = {} /\ MastersHaveSlots'
  BY CoverUnread DEF Return
<1>2. AskedInv'
  BY <1>1 DEF AskedInv, Return
<1> QED BY <1>1, <1>2, CoverOff DEF Return

LEMMA CoverCall ==
  ASSUME NEW u, NEW c, u = "health" => c # {}, GetClusterInfos(u, c), None \notin Live'
  PROVE  CoverInv'
<1>1. Answered' = {} /\ MastersHaveSlots'
  BY CoverUnread DEF GetClusterInfos
<1>2. AskedInv'
  BY <1>1 DEF AskedInv, GetClusterInfos
<1>3. ASSUME NEW s \in Slot PROVE Covered(s)'
  <2>1. cur' = None /\ moves' = NoMoves
    BY DEF GetClusterInfos
  <2>2. ~Told(s)' /\ moves'[s] = 0
    BY <1>1, <2>1 DEF Told, NoMoves
  <2> QED BY <1>1, <2>2 DEF Covered
<1> QED BY <1>1, <1>2, <1>3 DEF CoverInv, Cover

LEMMA CoverInit == Init => CoverInv
<1> SUFFICES ASSUME Init PROVE CoverInv
  OBVIOUS
<1>1. Answered = {} /\ use = "heal" /\ pc = "idle" /\ cur = None
  BY NobodyAnswered DEF Init
<1> QED BY <1>1 DEF CoverInv, AskedInv, MastersHaveSlots, Cover, Watch

\* The steps of the nodes.
LEMMA CoverNodes ==
  ASSUME TypeInv, ReadInv, KnownInv, ClaimInv, CoverInv, [Next]_vars,
         Redis \/ Suspect \/ FailoverOfLive \/ PodStops
  PROVE  CoverInv'
<1>0. TypeOK /\ Live \subseteq Id /\ AskedInv /\ Cover /\ MastersHaveSlots /\ TablesSound
  BY LiveIds DEF TypeInv, CoverInv, ClaimInv
<1>1. NodesStep
  BY HitStays DEF Redis, Suspect, FailoverOfLive, PodStops, Gossip, Handshake, NodeFails,
     Failover, PodStarts, TakeOver, redisUnchanged, opVars, readVars, NodesStep
<1>2. AskedInv' /\ MastersHaveSlots'
  BY <1>0, <1>1, AskedStep
<1>3. CASE Gossip \/ Handshake
  <2>1. LiveSame /\ UNCHANGED << claim, moves >>
    BY <1>3 DEF Gossip, Handshake, redisUnchanged, opVars, readVars, LiveSame
  <2>2. OwnersSame \/ \E i, j \in Id : Heard(i, j)
    BY <1>0, <1>3, HeardGossip, HeardHandshake
  <2> QED BY <1>0, <1>1, <1>2, <2>1, <2>2, CoverSame, CoverHeard DEF CoverInv
<1>4. CASE NodeFails \/ Suspect
  <2>1. LiveSame /\ UNCHANGED << claim, moves >>
    BY <1>4 DEF NodeFails, Suspect, redisUnchanged, opVars, readVars, LiveSame
  <2>2. PICK i \in Id : \E j : MarkFailed(i, j)
    BY <1>0, <1>4 DEF NodeFails, Suspect
  <2>3. OwnersSame
    BY <1>0, <2>2, SoundMarkFailed
  <2> QED BY <1>0, <1>1, <1>2, <2>1, <2>3, CoverSame DEF CoverInv
<1>5. CASE Failover \/ FailoverOfLive
  <2>1. PICK i \in Live : table[i].ref[i] # None /\ TakeOver(i, table[i].ref[i])
    BY <1>5 DEF Failover, FailoverOfLive
  <2>2. LiveSame
    BY <2>1 DEF TakeOver, LiveSame
  <2> QED BY <1>0, <1>1, <1>2, <2>1, <2>2, CoverTakeOver DEF CoverInv
<1>6. CASE PodStops
  BY <1>0, <1>1, <1>2, <1>6, CoverStops DEF CoverInv
<1>7. CASE PodStarts
  BY <1>0, <1>1, <1>2, <1>7, CoverStarts DEF CoverInv
<1> QED BY <1>3, <1>4, <1>5, <1>6, <1>7 DEF Redis

LEMMA CoverNext == TypeInv /\ ReadInv /\ KnownInv /\ ClaimInv /\ CoverInv /\ [Next]_vars => CoverInv'
<1> SUFFICES ASSUME TypeInv, ReadInv, KnownInv, ClaimInv, CoverInv, [Next]_vars PROVE CoverInv'
  OBVIOUS
<1>0. TypeOK /\ AskedInv /\ Cover /\ MastersHaveSlots /\ None \notin Live
  BY LiveIds, LiveFacts DEF TypeInv, CoverInv
<1>a. UNCHANGED infos => Answered' = Answered /\ (MastersHaveSlots => MastersHaveSlots')
  BY DEF Answered, MastersHaveSlots
<1>l. UNCHANGED << inc, down >> => None \notin Live'
  BY <1>0 DEF Live
<1>k. ASSUME UNCHANGED << clusterVars, use, todo, cur, errs, infos, nok, moves, pool >>,
             hit => hit', pc' = "info" <=> pc = "info",
             use = "health" => pc' \in {"read", "info", "done"}
      PROVE  CoverInv'
  <2>1. Answered' = Answered /\ MastersHaveSlots' /\ Live' = Live
    BY <1>0, <1>a, <1>k DEF clusterVars, Live
  <2>2. AskedInv'
    BY <1>0, <1>k, <2>1 DEF AskedInv
  <2>3. ASSUME Watch', NEW s \in Slot PROVE Covered(s)'
    <3>1. Covered(s)
      BY <1>0, <1>k, <2>3 DEF Cover, Watch
    <3>2. /\ Ahead(s) => Ahead(s)'
          /\ Ahead1(s) => Ahead1(s)'
          /\ Seen(s) => Seen(s)'
          /\ Told(s)' => Told(s)
          /\ \A k \in Answered : Holds(k, s)' => Holds(k, s)
      BY <1>k, <2>1 DEF Ahead, Ahead1, Seen, Told, Holds, clusterVars
    <3> QED BY <1>k, <2>1, <3>1, <3>2 DEF Covered
  <2> QED BY <2>1, <2>2, <2>3 DEF CoverInv, Cover
<1>h. hit => hit'
  BY HitStays
<1>1. CASE GetStatefulSetPods
  <2>1. use # "health"
    BY <1>0, <1>1 DEF GetStatefulSetPods, AskedInv
  <2> QED BY <1>1, <1>h, <1>k, <2>1 DEF GetStatefulSetPods, readVars
<1>2. CASE newRedisAdmin
  BY <1>2, <1>l, CoverReturn, CoverCall DEF newRedisAdmin, clusterVars
<1>3. CASE getInfos
  BY <1>3, CoverRead
<1>4. CASE handleError
  <2>1. /\ UNCHANGED << pc, pool, use, cur, infos >> /\ errs' # {} /\ todo' \subseteq todo
    BY <1>4 DEF handleError
  <2>2. AskedInv'
    BY <1>0, <1>a, <2>1 DEF AskedInv
  <2> QED BY <1>0, <1>a, <2>1, <2>2, CoverOff
<1>5. CASE CheckandUpdateClusterState
  BY <1>5, CoverCheck
<1>6. CASE AllRead
  BY <1>6, <1>h, <1>k DEF AllRead, readVars
<1>7. CASE Heal
  BY <1>7, <1>l, CoverReturn, CoverCall DEF Heal, clusterVars
<1>8. CASE waitForClusterJoin
  <2>1. CASE pc' = "sync" /\ UNCHANGED << listed, pool, readVars >>
    BY <1>8, <1>h, <1>k, <2>1 DEF waitForClusterJoin, readVars
  <2>2. CASE pc' = "meet" /\ infos' = Unread /\ UNCHANGED << pool, use, todo, cur >>
    <3>1. pc = "done" /\ use' # "health" /\ cur' = None
      BY <1>0, <1>8, <2>2 DEF waitForClusterJoin, AskedInv
    <3>2. Answered' = {} /\ MastersHaveSlots'
      BY <2>2, <3>1, CoverUnread
    <3>3. AskedInv'
      BY <2>2, <3>1, <3>2 DEF AskedInv
    <3> QED BY <3>1, <3>2, <3>3, CoverOff
  <2> QED BY <1>8, <2>1, <2>2, CoverReturn DEF waitForClusterJoin
<1>9. CASE AttachNodeToCluster
  BY <1>9, <1>l, CoverReturn, CoverCall DEF AttachNodeToCluster
<1>10. CASE syncCluster
  <2>1. Return \/ (Answered # {} /\ GetClusterInfos("health", pool))
    BY <1>10 DEF syncCluster
  <2>2. Answered # {} => pool # {}
    BY DEF ReadInv
  <2> QED BY <1>10, <1>l, <2>1, <2>2, CoverReturn, CoverCall DEF syncCluster, clusterVars
<1>11. CASE healthDone \/ Crash
  BY <1>11, CoverReturn DEF healthDone, Crash
<1>12. CASE Redis \/ Suspect \/ FailoverOfLive \/ PodStops
  BY <1>12, CoverNodes
<1>13. CASE UNCHANGED vars
  BY <1>0, <1>13, <1>h, <1>k DEF vars, opVars, readVars, AskedInv
<1> QED
  BY <1>1, <1>2, <1>3, <1>4, <1>5, <1>6, <1>7, <1>8, <1>9, <1>10, <1>11, <1>12, <1>13
  DEF Next, Operator

LEMMA CoverInvariance == Spec => []CoverInv
BY TypeInvariance, ReadInvariance, KnownInvariance, ClaimInvariance, CoverInit, CoverNext, PTL
DEF Spec

\* Complete infos that are healthy give every slot to a node that has answered, although
\* each node answers at another time and the nodes fail over, restart and gossip in
\* between, as long as the slot has not changed hands twice meanwhile.
THEOREM HealthyInfosCoverSlots == Spec => []HealthyCoversSlots
<1>1. TypeInv /\ ReadInv /\ CoverInv => HealthyCoversSlots
  <2> SUFFICES ASSUME TypeInv, ReadInv, CoverInv, pc = "done", use = "health", errs = {}, ~hit,
                      CheackandUpdateClusterHealth, NEW s \in Slot, moves[s] < 2
               PROVE  \E i \in Answered : s \in GetNodes[i].slots
    BY DEF HealthyCoversSlots
  <2>1. ComputeStatus /\ Watch
    BY DEF CheackandUpdateClusterHealth, Status, Watch
  <2>2. todo = {} /\ cur = None /\ Answered # {} /\ None \notin Answered
    <3>1. None \notin Id
      BY LiveFacts DEF TypeInv
    <3> QED BY <3>1 DEF ReadInv, CoverInv, AskedInv, Answered
  <2>3. moves[s] # 2
    OBVIOUS
  <2>4. ~Ahead(s) /\ ~Ahead1(s) /\ Told(s)
    BY <2>2 DEF Ahead, Ahead1, Told
  <2>5. Seen(s)
    BY <2>1, <2>3, <2>4 DEF CoverInv, Cover, Covered
  <2>6. PICK i \in Answered : \E j \in DOMAIN infos[i] : s \in infos[i][j].slots
    BY <2>5 DEF Seen
  <2>7. PICK j \in DOMAIN infos[i] : s \in infos[i][j].slots
    BY <2>6
  <2>8. infos[i][j].role = "master"
    BY <2>7 DEF CoverInv, MastersHaveSlots
  <2>9. << j, infos[i][j].slots >> \in getConfigSignature(GetNodes)
    BY <2>1, <2>8 DEF ComputeStatus, getConfigSignature
  <2>10. PICK k \in DOMAIN GetNodes : << k, GetNodes[k].slots >> = << j, infos[i][j].slots >>
    BY <2>9 DEF getConfigSignature
  <2>11. k \in Answered /\ GetNodes[k].slots = infos[i][j].slots
    BY <2>10 DEF GetNodes
  <2> QED BY <2>7, <2>11
<1> QED BY <1>1, TypeInvariance, ReadInvariance, CoverInvariance, PTL
=============================================================================
