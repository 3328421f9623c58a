---------------------------- MODULE BackupProofs ----------------------------
(***************************************************************************)
(* Proofs about BackupController, for any number of backups and images, any*)
(* scope of the operator and any bounds on faults, creations and changes.  *)
(***************************************************************************)
EXTENDS BackupController, TLAPS

\* The reconcile of an object that is to stay, and of one that is to go.
Managing == {"cluster", "get", "create", "update", "addFinalizer"}
Finalizing == {"finGet", "finDelete", "removeFinalizer"}

(***************************************************************************)
(* The object a reconcile works on is an old version of the one in         *)
(* Kubernetes, and the version tells whether it is still the same.         *)
(***************************************************************************)
WorkIsOlder(b) ==
  pc[b] # "idle" =>
    /\ inst[b] \in Object
    /\ inst[b].version <= obj[b].version
    /\ inst[b].version = obj[b].version => inst[b] = obj[b]
    /\ pc[b] \in Managing => inst[b].there /\ ~inst[b].deleting

\* Only an object with the finalizer is in deletion, and it stays until its own
\* reconcile has removed the finalizer.
FinalizerHolds(b) ==
  /\ obj[b].deleting => obj[b].there /\ obj[b].fin
  /\ pc[b] \in Finalizing => obj[b].deleting

(***************************************************************************)
(* If no object went before it had a finalizer, the reconciles are all of  *)
(* existing objects, and one whose deletion of the deployment is not the   *)
(* last thing that happened vouches for the deployment.                    *)
(***************************************************************************)
Vouched ==
  "early" \notin hit =>
    /\ \A b \in Backup : pc[b] # "idle" => obj[b].there
    /\ depl # None => \E b \in Backup : obj[b].there /\ pc[b] # "removeFinalizer"

IInv ==
  /\ TypeOK
  /\ \A b \in Backup : WorkIsOlder(b) /\ FinalizerHolds(b)
  /\ Vouched

-----------------------------------------------------------------------------
LEMMA AbsentTyped ==
  ASSUME NEW i \in Image, NEW v \in Nat
  PROVE  Absent(i, v) \in Object
BY DEF Absent, Object

\* What Kubernetes has after it stored o under the name b.
LEMMA StoreEffect ==
  ASSUME obj \in [Backup -> Object], NEW b \in Backup, NEW o \in Object, Store(b, o)
  PROVE  /\ obj' \in [Backup -> Object]
         /\ obj'[b].there = o.there /\ obj'[b].deleting = o.deleting
         /\ obj'[b].fin = o.fin /\ obj'[b].image = o.image
         /\ obj'[b].version = obj[b].version + 1
         /\ \A c \in Backup : c # b => obj'[c] = obj[c]
<1>1. obj[b] \in Object /\ obj[b].version + 1 \in Nat
  BY DEF Object
<1>2. [o EXCEPT !.version = obj[b].version + 1] \in Object
  BY <1>1 DEF Object
<1> QED BY <1>1, <1>2 DEF Store, Object

\* The object that took the place of a reconcile's object is newer.
LEMMA StoreKeepsOlder ==
  ASSUME obj \in [Backup -> Object], NEW b \in Backup, NEW o \in Object, Store(b, o),
         WorkIsOlder(b), pc'[b] # "idle" => pc[b] # "idle" /\ pc'[b] = pc[b],
         inst'[b] = inst[b]
  PROVE  WorkIsOlder(b)'
<1>1. obj'[b].version = obj[b].version + 1 /\ obj[b].version \in Nat
  BY StoreEffect DEF Object
<1>2. CASE pc'[b] = "idle"
  BY <1>2 DEF WorkIsOlder
<1>3. CASE pc'[b] # "idle"
  <2>1. inst[b] \in Object /\ inst[b].version \in Nat /\ inst[b].version <= obj[b].version
    BY <1>3 DEF WorkIsOlder, Object
  <2>2. inst[b].version # obj'[b].version /\ inst[b].version <= obj'[b].version
    BY <1>1, <2>1
  <2> QED BY <1>3, <2>1, <2>2 DEF WorkIsOlder
<1> QED BY <1>2, <1>3
-----------------------------------------------------------------------------
\* A step that leaves the reconciles of the others alone: what is left to show.
LEMMA OthersKeep ==
  ASSUME NEW b \in Backup, NEW c \in Backup, c # b,
         obj'[c] = obj[c], pc'[c] = pc[c], inst'[c] = inst[c],
         WorkIsOlder(c), FinalizerHolds(c)
  PROVE  WorkIsOlder(c)' /\ FinalizerHolds(c)'
BY DEF WorkIsOlder, FinalizerHolds

\* The reconcile of b moves on or returns; nothing else changes for it.
LEMMA ReturnEffect ==
  ASSUME TypeOK, NEW b \in Backup, Return(b)
  PROVE  /\ pc' \in [Backup -> PC] /\ inst' \in [Backup -> Object \cup {None}]
         /\ pc'[b] = "idle"
         /\ \A c \in Backup : c # b => pc'[c] = pc[c] /\ inst'[c] = inst[c]
BY DEF TypeOK, Return, PC

LEMMA GotoEffect ==
  ASSUME TypeOK, NEW b \in Backup, NEW l \in PC, Goto(b, l)
  PROVE  /\ pc' \in [Backup -> PC] /\ inst' = inst /\ queued' = queued
         /\ pc'[b] = l
         /\ \A c \in Backup : c # b => pc'[c] = pc[c]
BY DEF TypeOK, Goto, PC

LEMMA RequeueEffect ==
  ASSUME TypeOK, NEW b \in Backup, Requeue(b)
  PROVE  Return(b) /\ queued' \in [Backup -> BOOLEAN]
BY DEF TypeOK, Requeue

LEMMA NotifyEffect ==
  ASSUME TypeOK, NEW b \in Backup, Notify(b)
  PROVE  queued' \in [Backup -> BOOLEAN]
<1>1. ShoudManage(b) \in BOOLEAN
  BY BackupAssumption DEF ShoudManage
<1> QED BY <1>1, Zenon DEF TypeOK, Notify

LEMMA FaultEffect ==
  ASSUME TypeOK, NEW kind \in FaultKind, Fault(kind)
  PROVE  /\ faults' \in 0 .. MaxFaults /\ hit' \subseteq FaultKind \cup EventKind
         /\ "early" \notin hit' => "early" \notin hit
BY BackupAssumption DEF TypeOK, Fault, FaultKind

\* A reconcile that only moves on or returns keeps the invariant, as long as the
\* label it moves to asks nothing that is not known already.
LEMMA MoveKeepsInv ==
  ASSUME IInv, NEW b \in Backup, TypeOK', obj' = obj,
         depl' # None =>
           depl # None \/ (pc[b] # "idle" /\ pc'[b] # "removeFinalizer"),
         "early" \notin hit' => "early" \notin hit,
         pc'[b] = "idle" \/ inst'[b] = inst[b],
         \A c \in Backup : c # b => pc'[c] = pc[c] /\ inst'[c] = inst[c],
         pc'[b] # "idle" => pc[b] # "idle",
         pc'[b] \in Managing => pc[b] \in Managing,
         pc'[b] \in Finalizing => pc[b] \in Finalizing,
         pc'[b] = "removeFinalizer" => depl' = None
  PROVE  IInv'
<1>1. \A c \in Backup : WorkIsOlder(c)' /\ FinalizerHolds(c)'
  <2> TAKE c \in Backup
  <2>1. CASE c # b
    BY <2>1, OthersKeep DEF IInv
  <2>2. CASE c = b
    BY <2>2 DEF IInv, WorkIsOlder, FinalizerHolds, Managing, Finalizing
  <2> QED BY <2>1, <2>2
<1>2. Vouched'
  <2> SUFFICES ASSUME "early" \notin hit' PROVE
         /\ \A c \in Backup : pc'[c] # "idle" => obj'[c].there
         /\ depl' # None => \E c \in Backup : obj'[c].there /\ pc'[c] # "removeFinalizer"
    BY DEF Vouched
  <2>1. /\ \A c \in Backup : pc[c] # "idle" => obj[c].there
        /\ depl # None => \E c \in Backup : obj[c].there /\ pc[c] # "removeFinalizer"
    BY DEF IInv, Vouched
  <2>2. \A c \in Backup : pc'[c] # "idle" => obj'[c].there
    BY <2>1
  <2>3. ASSUME depl' # None
        PROVE  \E c \in Backup : obj'[c].there /\ pc'[c] # "removeFinalizer"
    <3>1. CASE pc[b] # "idle" /\ pc'[b] # "removeFinalizer"
      BY <2>1, <3>1
    <3>2. CASE depl # None
      <4>1. PICK c \in Backup : obj[c].there /\ pc[c] # "removeFinalizer"
        BY <2>1, <3>2
      <4>2. pc'[c] # "removeFinalizer"
        BY <2>3, <4>1
      <4> QED BY <4>1, <4>2
    <3> QED BY <2>3, <3>1, <3>2
  <2> QED BY <2>2, <2>3
<1> QED BY <1>1, <1>2 DEF IInv

-----------------------------------------------------------------------------
(* The reconcile keeps the invariant, one lemma per request.               *)

LEMMA BranchTyped ==
  ASSUME NEW o \in Object
  PROVE  /\ Branch(o) \in PC /\ Branch(o) # "removeFinalizer"
         /\ Branch(o) # "idle" => o.there
         /\ Branch(o) \in Managing => ~o.deleting
         /\ Branch(o) \in Finalizing => o.deleting
BY DEF Branch, PC, Managing, Finalizing

LEMMA ReconcileInv ==
  ASSUME IInv, NEW b \in Backup, Reconcile(b) PROVE IInv'
<1> USE DEF Reconcile
<1>0. TypeOK /\ obj[b] \in Object
  BY DEF IInv, TypeOK
<1>1. TypeOK'
  BY <1>0, BranchTyped DEF TypeOK, boundVars, faultVars
<1>2. /\ pc'[b] = Branch(obj[b]) /\ obj' = obj /\ depl' = depl /\ hit' = hit
      /\ Branch(obj[b]) # "idle" => inst'[b] = obj[b]
      /\ \A c \in Backup : c # b => pc'[c] = pc[c] /\ inst'[c] = inst[c]
  BY <1>0 DEF TypeOK, faultVars
<1>3. \A c \in Backup : WorkIsOlder(c)' /\ FinalizerHolds(c)'
  <2> TAKE c \in Backup
  <2>1. CASE c # b
    BY <1>2, <2>1, OthersKeep DEF IInv
  <2>2. CASE c = b
    <3>1. WorkIsOlder(b)'
      <4>1. obj[b].version \in Nat
        BY <1>0 DEF Object
      <4> QED BY <1>0, <1>2, <4>1, BranchTyped DEF WorkIsOlder
    <3>2. FinalizerHolds(b)'
      BY <1>0, <1>2, BranchTyped DEF IInv, FinalizerHolds
    <3> QED BY <2>2, <3>1, <3>2
  <2> QED BY <2>1, <2>2
<1>4. Vouched'
  <2> SUFFICES ASSUME "early" \notin hit' PROVE
         /\ \A c \in Backup : pc'[c] # "idle" => obj'[c].there
         /\ depl' # None => \E c \in Backup : obj'[c].there /\ pc'[c] # "removeFinalizer"
    BY DEF Vouched
  <2>1. /\ \A c \in Backup : pc[c] # "idle" => obj[c].there
        /\ depl # None => \E c \in Backup : obj[c].there /\ pc[c] # "removeFinalizer"
    BY <1>2 DEF IInv, Vouched
  <2> QED BY <1>0, <1>2, <2>1, BranchTyped
<1> QED BY <1>1, <1>3, <1>4 DEF IInv

LEMMA GetClusterInv ==
  ASSUME IInv, NEW b \in Backup, GetDistributedRedisCluster(b) PROVE IInv'
<1> USE DEF GetDistributedRedisCluster
<1>0. TypeOK /\ cluster.size \in Size
  BY DEF IInv, TypeOK
<1>1. CASE ~cluster.there
  <2>1. Requeue(b) /\ UNCHANGED << obj, depl, cluster, size, boundVars, faultVars >>
    BY <1>1
  <2>2. TypeOK'
    BY <1>0, <2>1, RequeueEffect, ReturnEffect DEF TypeOK, boundVars, faultVars
  <2> QED BY <1>0, <2>1, <2>2, RequeueEffect, ReturnEffect, MoveKeepsInv
          DEF Managing, Finalizing, faultVars
<1>2. CASE cluster.there
  <2>0. PICK l \in {"get", "addFinalizer"} :
          Goto(b, l) /\ size' = [size EXCEPT ![b] = cluster.size]
    BY <1>2
  <2>1. l \in PC
    BY DEF PC
  <2>2. TypeOK'
    BY <1>0, <2>0, <2>1, GotoEffect DEF TypeOK, boundVars, faultVars
  <2> QED BY <1>0, <2>0, <2>1, <2>2, GotoEffect, MoveKeepsInv
          DEF Managing, Finalizing, faultVars
<1> QED BY <1>1, <1>2

LEMMA GetUtilInv ==
  ASSUME IInv, NEW b \in Backup, reconcileUtilDeployment(b) PROVE IInv'
<1> USE DEF reconcileUtilDeployment
<1>0. TypeOK
  BY DEF IInv
<1>1. PICK l \in {"create", "update", "addFinalizer"} : Goto(b, l)
  OBVIOUS
<1>2. l \in PC
  BY DEF PC
<1>3. TypeOK'
  BY <1>0, <1>1, <1>2, GotoEffect DEF TypeOK, boundVars, faultVars
<1> QED BY <1>0, <1>1, <1>2, <1>3, GotoEffect, MoveKeepsInv
        DEF Managing, Finalizing, faultVars

\* The deployment a reconcile wants is one.
LEMMA UtilTyped ==
  ASSUME IInv, NEW b \in Backup, pc[b] # "idle"
  PROVE  UtilNewDeploymentForCR(b) \in Deployment /\ UtilNewDeploymentForCR(b) # None
<1>1. inst[b].image \in Image /\ size[b] \in Size
  BY DEF IInv, TypeOK, WorkIsOlder, Object
<1>2. UtilNewDeploymentForCR(b) \in Deployment
  BY <1>1 DEF UtilNewDeploymentForCR, Deployment
<1> QED BY <1>2, NoneAssumption

LEMMA WriteUtilInv ==
  ASSUME IInv, NEW b \in Backup, CreateDeployment(b) \/ UpdateDeployment(b) PROVE IInv'
<1> USE DEF CreateDeployment, UpdateDeployment
<1>0. TypeOK /\ pc[b] # "idle" /\ pc[b] \in Managing /\ "addFinalizer" \in PC
  BY DEF IInv, Managing, PC
<1>1. /\ Goto(b, "addFinalizer")
      /\ depl' \in {depl, UtilNewDeploymentForCR(b)}
      /\ UNCHANGED << obj, cluster, size, boundVars, faultVars >>
  OBVIOUS
<1>2. TypeOK'
  BY <1>0, <1>1, GotoEffect, UtilTyped DEF TypeOK, boundVars, faultVars
<1> QED BY <1>0, <1>1, <1>2, GotoEffect, MoveKeepsInv
        DEF Managing, Finalizing, faultVars

LEMMA FinGetInv ==
  ASSUME IInv, NEW b \in Backup, GetDeployment(b) PROVE IInv'
<1> USE DEF GetDeployment
<1>0. TypeOK /\ "finDelete" \in PC
  BY DEF IInv, PC
<1>1. CASE Requeue(b)
  <2>1. TypeOK'
    BY <1>0, <1>1, RequeueEffect, ReturnEffect DEF TypeOK, boundVars, faultVars
  <2> QED BY <1>0, <1>1, <2>1, RequeueEffect, ReturnEffect, MoveKeepsInv
          DEF Managing, Finalizing, faultVars
<1>2. CASE Goto(b, "finDelete")
  <2>1. TypeOK'
    BY <1>0, <1>2, GotoEffect DEF TypeOK, boundVars, faultVars
  <2> QED BY <1>0, <1>2, <2>1, GotoEffect, MoveKeepsInv
          DEF Managing, Finalizing, faultVars
<1> QED BY <1>1, <1>2

LEMMA FinDeleteInv ==
  ASSUME IInv, NEW b \in Backup, DeleteDeployment(b) PROVE IInv'
<1> USE DEF DeleteDeployment
<1>0. TypeOK /\ "removeFinalizer" \in PC
  BY DEF IInv, PC
<1>1. CASE Requeue(b)
  <2>1. TypeOK'
    BY <1>0, <1>1, RequeueEffect, ReturnEffect DEF TypeOK, boundVars, faultVars
  <2> QED BY <1>0, <1>1, <2>1, RequeueEffect, ReturnEffect, MoveKeepsInv
          DEF Managing, Finalizing, faultVars
<1>2. CASE Goto(b, "removeFinalizer")
  <2>1. TypeOK'
    BY <1>0, <1>2, GotoEffect DEF TypeOK, boundVars, faultVars
  <2> QED BY <1>0, <1>2, <2>1, GotoEffect, MoveKeepsInv
          DEF Managing, Finalizing, faultVars
<1> QED BY <1>1, <1>2

LEMMA RequestFailsInv ==
  ASSUME IInv, NEW b \in Backup, RequestFails(b) PROVE IInv'
<1> USE DEF RequestFails
<1>0. TypeOK /\ "api" \in FaultKind /\ "addFinalizer" \in PC
  BY DEF IInv, FaultKind, PC
<1>1. CASE Requeue(b)
  <2>1. TypeOK'
    BY <1>0, <1>1, RequeueEffect, ReturnEffect, FaultEffect DEF TypeOK, boundVars
  <2> QED BY <1>0, <1>1, <2>1, RequeueEffect, ReturnEffect, FaultEffect, MoveKeepsInv
          DEF Managing, Finalizing
<1>2. CASE pc[b] \in {"get", "create", "update"} /\ Goto(b, "addFinalizer")
  <2>1. TypeOK'
    BY <1>0, <1>2, GotoEffect, FaultEffect DEF TypeOK, boundVars
  <2> QED BY <1>0, <1>2, <2>1, GotoEffect, FaultEffect, MoveKeepsInv
          DEF Managing, Finalizing
<1> QED BY <1>1, <1>2

-----------------------------------------------------------------------------
(* The steps that change an object.                                        *)

\* A new version of b keeps the invariant if b goes only in its finalizer's last
\* step or without ever having had one.
LEMMA StoreKeepsInv ==
  ASSUME IInv, NEW b \in Backup, NEW o \in Object, Store(b, o), TypeOK', depl' = depl,
         "early" \notin hit' => "early" \notin hit,
         pc'[b] = "idle" \/ (pc'[b] = pc[b] /\ inst'[b] = inst[b]),
         \A c \in Backup : c # b => pc'[c] = pc[c] /\ inst'[c] = inst[c],
         o.deleting => o.there /\ o.fin,
         pc'[b] \in Finalizing => o.deleting,
         "early" \notin hit' /\ obj[b].there /\ ~o.there =>
           pc[b] = "removeFinalizer" /\ pc'[b] = "idle"
  PROVE  IInv'
<1>0. obj \in [Backup -> Object] /\ WorkIsOlder(b)
  BY DEF IInv, TypeOK
<1>1. /\ obj'[b].there = o.there /\ obj'[b].deleting = o.deleting
      /\ obj'[b].fin = o.fin
      /\ \A c \in Backup : c # b => obj'[c] = obj[c]
  BY <1>0, StoreEffect
<1>2. \A c \in Backup : WorkIsOlder(c)' /\ FinalizerHolds(c)'
  <2> TAKE c \in Backup
  <2>1. CASE c # b
    BY <1>1, <2>1, OthersKeep DEF IInv
  <2>2. CASE c = b
    <3>1. WorkIsOlder(b)'
      <4>1. CASE pc'[b] = "idle"
        BY <4>1 DEF WorkIsOlder
      <4>2. CASE pc'[b] # "idle"
        BY <1>0, <4>2, StoreKeepsOlder
      <4> QED BY <4>1, <4>2
    <3>2. FinalizerHolds(b)'
      BY <1>1 DEF FinalizerHolds
    <3> QED BY <2>2, <3>1, <3>2
  <2> QED BY <2>1, <2>2
<1>3. Vouched'
  <2> SUFFICES ASSUME "early" \notin hit' PROVE
         /\ \A c \in Backup : pc'[c] # "idle" => obj'[c].there
         /\ depl' # None => \E c \in Backup : obj'[c].there /\ pc'[c] # "removeFinalizer"
    BY DEF Vouched
  <2>1. /\ \A c \in Backup : pc[c] # "idle" => obj[c].there
        /\ depl # None => \E c \in Backup : obj[c].there /\ pc[c] # "removeFinalizer"
    BY DEF IInv, Vouched
  <2>2. \A c \in Backup : pc'[c] # "idle" => obj'[c].there
    BY <1>1, <2>1
  <2>3. ASSUME depl' # None
        PROVE  \E c \in Backup : obj'[c].there /\ pc'[c] # "removeFinalizer"
    <3>1. PICK c \in Backup : obj[c].there /\ pc[c] # "removeFinalizer"
      BY <2>1, <2>3
    <3>2. obj'[c].there /\ pc'[c] # "removeFinalizer"
      BY <1>1, <3>1
    <3> QED BY <3>1, <3>2
  <2> QED BY <2>2, <2>3
<1> QED BY <1>2, <1>3 DEF IInv

LEMMA AddFinalizerInv ==
  ASSUME IInv, NEW b \in Backup, AddFinalizer(b) PROVE IInv'
<1> USE DEF AddFinalizer
<1>0. /\ TypeOK /\ inst[b] \in Object /\ inst[b].there /\ ~inst[b].deleting
      /\ pc[b] = "addFinalizer"
  BY DEF IInv, WorkIsOlder, Managing
<1>1. /\ Return(b) /\ queued' \in [Backup -> BOOLEAN]
      /\ pc'[b] = "idle"
      /\ \A c \in Backup : c # b => pc'[c] = pc[c] /\ inst'[c] = inst[c]
      /\ pc' \in [Backup -> PC] /\ inst' \in [Backup -> Object \cup {None}]
  BY <1>0, RequeueEffect, ReturnEffect
<1>2. CASE UNCHANGED << obj, hit >>
  <2>1. TypeOK'
    BY <1>0, <1>1, <1>2 DEF TypeOK, boundVars
  <2> QED BY <1>0, <1>1, <1>2, <2>1, MoveKeepsInv DEF Managing, Finalizing
<1>3. CASE /\ ~inst[b].fin
           /\ Store(b, [inst[b] EXCEPT !.fin = TRUE])
           /\ hit' = IF depl = None THEN hit \cup {"unready"} ELSE hit
  <2> DEFINE o == [inst[b] EXCEPT !.fin = TRUE]
  <2>1. o \in Object /\ o.there /\ ~o.deleting /\ o.fin
    BY <1>0 DEF Object
  <2>2. obj' \in [Backup -> Object]
    BY <1>0, <1>3, <2>1, StoreEffect DEF TypeOK
  <2>3. hit' \subseteq FaultKind \cup EventKind /\ ("early" \notin hit' => "early" \notin hit)
    BY <1>0, <1>3 DEF TypeOK, EventKind
  <2>4. TypeOK'
    BY <1>0, <1>1, <2>2, <2>3 DEF TypeOK, boundVars
  <2> HIDE DEF o
  <2> QED BY <1>0, <1>1, <1>3, <2>1, <2>3, <2>4, StoreKeepsInv DEF o, Finalizing
<1> QED BY <1>2, <1>3

LEMMA RemoveFinalizerInv ==
  ASSUME IInv, NEW b \in Backup, RemoveFinalizer(b) PROVE IInv'
<1> USE DEF RemoveFinalizer
<1>0. TypeOK /\ inst[b] \in Object /\ inst[b].image \in Image /\ pc[b] = "removeFinalizer"
  BY DEF IInv, WorkIsOlder, Object
<1>1. CASE Requeue(b) /\ hit' = hit \cup {"conflict"} /\ UNCHANGED obj
  <2>1. TypeOK'
    BY <1>0, <1>1, RequeueEffect, ReturnEffect DEF TypeOK, EventKind, boundVars
  <2> QED BY <1>0, <1>1, <2>1, RequeueEffect, ReturnEffect, MoveKeepsInv
          DEF Managing, Finalizing
<1>2. CASE Done(b) /\ Store(b, Absent(inst[b].image, 0)) /\ UNCHANGED hit
  <2>1. Return(b) /\ queued' = queued
    BY <1>2 DEF Done
  <2>2. Absent(inst[b].image, 0) \in Object /\ ~Absent(inst[b].image, 0).there
        /\ ~Absent(inst[b].image, 0).deleting
    BY <1>0, AbsentTyped DEF Absent
  <2>3. obj' \in [Backup -> Object]
    BY <1>0, <1>2, <2>2, StoreEffect DEF TypeOK
  <2>4. TypeOK'
    BY <1>0, <1>2, <2>1, <2>3, ReturnEffect DEF TypeOK, boundVars
  <2> QED BY <1>0, <1>2, <2>1, <2>2, <2>4, ReturnEffect, StoreKeepsInv DEF Finalizing
<1> QED BY <1>1, <1>2

LEMMA CreateInv ==
  ASSUME IInv, NEW b \in Backup, CreateCR(b) PROVE IInv'
<1> USE DEF CreateCR
<1>0. TypeOK
  BY DEF IInv
<1>1. PICK i \in Image : Store(b, [Absent(i, 0) EXCEPT !.there = TRUE])
  OBVIOUS
<1> DEFINE o == [Absent(i, 0) EXCEPT !.there = TRUE]
<1>2. o \in Object /\ o.there /\ ~o.deleting
  BY AbsentTyped DEF Absent, Object
<1>3. obj' \in [Backup -> Object]
  BY <1>0, <1>1, <1>2, StoreEffect DEF TypeOK
<1>4. hit' \subseteq FaultKind \cup EventKind /\ ("early" \notin hit' => "early" \notin hit)
  BY <1>0 DEF TypeOK, EventKind
<1>5. created' \in 0 .. MaxCreates
  BY <1>0, BackupAssumption DEF TypeOK
<1>6. TypeOK'
  BY <1>0, <1>3, <1>4, <1>5, NotifyEffect DEF TypeOK, workVars
<1>7. pc'[b] \notin Finalizing
  BY <1>0 DEF IInv, FinalizerHolds, workVars
<1> HIDE DEF o
<1> QED BY <1>0, <1>1, <1>2, <1>4, <1>6, <1>7, StoreKeepsInv DEF o, workVars

LEMMA EditInv ==
  ASSUME IInv, NEW b \in Backup, EditCR(b) PROVE IInv'
<1> USE DEF EditCR
<1>0. TypeOK /\ obj[b] \in Object
  BY DEF IInv, TypeOK
<1>1. PICK i \in Image : Store(b, [obj[b] EXCEPT !.image = i])
  OBVIOUS
<1> DEFINE o == [obj[b] EXCEPT !.image = i]
<1>2. /\ o \in Object
      /\ o.there = obj[b].there /\ o.deleting = obj[b].deleting /\ o.fin = obj[b].fin
  BY <1>0 DEF Object
<1>3. obj' \in [Backup -> Object]
  BY <1>0, <1>1, <1>2, StoreEffect DEF TypeOK
<1>4. changes' \in 0 .. MaxChanges
  BY <1>0, BackupAssumption DEF TypeOK
<1>5. TypeOK'
  BY <1>0, <1>3, <1>4, NotifyEffect DEF TypeOK, workVars, faultVars
<1>6. FinalizerHolds(b)
  BY DEF IInv
<1> HIDE DEF o
<1> QED BY <1>0, <1>1, <1>2, <1>5, <1>6, StoreKeepsInv
        DEF o, FinalizerHolds, workVars, faultVars

LEMMA DeleteInv ==
  ASSUME IInv, NEW b \in Backup, DeleteCR(b) PROVE IInv'
<1> USE DEF DeleteCR
<1>0. TypeOK /\ obj[b] \in Object /\ obj[b].image \in Image /\ FinalizerHolds(b)
  BY DEF IInv, TypeOK, Object
<1>1. CASE obj[b].fin /\ Store(b, [obj[b] EXCEPT !.deleting = TRUE]) /\ UNCHANGED hit
  <2> DEFINE o == [obj[b] EXCEPT !.deleting = TRUE]
  <2>1. o \in Object /\ o.there = obj[b].there /\ o.deleting /\ o.fin
    BY <1>0, <1>1 DEF Object
  <2>2. obj' \in [Backup -> Object]
    BY <1>0, <1>1, <2>1, StoreEffect DEF TypeOK
  <2>3. TypeOK'
    BY <1>0, <1>1, <2>2, NotifyEffect DEF TypeOK, workVars, boundVars
  <2> HIDE DEF o
  <2> QED BY <1>0, <1>1, <2>1, <2>3, StoreKeepsInv DEF o, workVars
<1>2. CASE Store(b, Absent(obj[b].image, 0)) /\ hit' = hit \cup {"early"}
  <2>1. Absent(obj[b].image, 0) \in Object /\ ~Absent(obj[b].image, 0).deleting
    BY <1>0, AbsentTyped DEF Absent
  <2>2. obj' \in [Backup -> Object]
    BY <1>0, <1>2, <2>1, StoreEffect DEF TypeOK
  <2>3. TypeOK'
    BY <1>0, <1>2, <2>2, NotifyEffect DEF TypeOK, EventKind, workVars, boundVars
  <2>4. pc'[b] \notin Finalizing
    BY <1>0 DEF FinalizerHolds, workVars
  <2> QED BY <1>0, <1>2, <2>1, <2>3, <2>4, StoreKeepsInv DEF workVars
<1> QED BY <1>1, <1>2

-----------------------------------------------------------------------------
LEMMA ChangeClusterInv ==
  ASSUME IInv, ChangeCluster PROVE IInv'
<1> USE DEF ChangeCluster, workVars, faultVars
<1>0. TypeOK
  BY DEF IInv
<1>1. changes' \in 0 .. MaxChanges
  BY <1>0, BackupAssumption DEF TypeOK
<1>2. TypeOK'
  BY <1>0, <1>1 DEF TypeOK
<1>3. \A b \in Backup : WorkIsOlder(b)' /\ FinalizerHolds(b)'
  BY DEF IInv, WorkIsOlder, FinalizerHolds
<1>4. Vouched'
  BY DEF IInv, Vouched
<1> QED BY <1>2, <1>3, <1>4 DEF IInv

LEMMA CrashInv ==
  ASSUME IInv, Crash PROVE IInv'
<1> USE DEF Crash
<1>0. TypeOK /\ "crash" \in FaultKind
  BY DEF IInv, FaultKind
<1>1. queued' \in [Backup -> BOOLEAN]
  OBVIOUS
<1>2. pc' \in [Backup -> PC] /\ inst' \in [Backup -> Object \cup {None}]
      /\ \A b \in Backup : pc'[b] = "idle"
  BY DEF PC
<1>3. TypeOK'
  BY <1>0, <1>1, <1>2, FaultEffect DEF TypeOK, boundVars
<1>4. \A b \in Backup : WorkIsOlder(b)' /\ FinalizerHolds(b)'
  BY <1>2 DEF IInv, WorkIsOlder, FinalizerHolds, Finalizing
<1>5. Vouched'
  BY <1>0, <1>2, FaultEffect DEF IInv, Vouched
<1> QED BY <1>3, <1>4, <1>5 DEF IInv

LEMMA InitInv ==
  ASSUME Init PROVE IInv
<1> USE DEF Init
<1>1. PICK i \in Image : obj = [b \in Backup |-> Absent(i, 0)]
  OBVIOUS
<1>2. obj \in [Backup -> Object] /\ \A b \in Backup : ~obj[b].there /\ ~obj[b].deleting
  BY <1>1, AbsentTyped DEF Absent
<1>3. TypeOK
  <2>1. cluster \in [there : BOOLEAN, ready : BOOLEAN, size : Size]
    <3>1. {TRUE} \subseteq BOOLEAN /\ {1} \subseteq Size
      BY DEF Size
    <3>2. PICK t \in {TRUE}, r \in BOOLEAN, n \in {1} :
            cluster = [there |-> t, ready |-> r, size |-> n]
      BY Zenon
    <3>3. t \in BOOLEAN /\ n \in Size
      BY <3>1
    <3> QED BY <3>2, <3>3, Zenon
  <2>2. queued \in [Backup -> BOOLEAN] /\ size \in [Backup -> Size]
    BY DEF Size
  <2>3. pc \in [Backup -> PC] /\ inst \in [Backup -> Object \cup {None}]
    BY DEF PC
  <2> QED BY <1>2, <2>1, <2>2, <2>3, BackupAssumption DEF TypeOK
<1>4. \A b \in Backup : WorkIsOlder(b) /\ FinalizerHolds(b)
  BY <1>2 DEF WorkIsOlder, FinalizerHolds, Finalizing
<1> QED BY <1>3, <1>4 DEF IInv, Vouched

LEMMA StepInv ==
  ASSUME IInv, [Next]_vars PROVE IInv'
<1>1. ASSUME NEW b \in Backup, Worker(b) PROVE IInv'
  BY <1>1, ReconcileInv, GetClusterInv, GetUtilInv, WriteUtilInv, AddFinalizerInv,
     FinGetInv, FinDeleteInv, RemoveFinalizerInv DEF Worker
<1>2. ASSUME NEW b \in Backup, Users(b) PROVE IInv'
  BY <1>2, CreateInv, EditInv, DeleteInv DEF Users
<1>3. CASE UNCHANGED vars
  <2>1. TypeOK'
    BY <1>3 DEF IInv, TypeOK, vars, workVars, boundVars, faultVars
  <2>2. \A b \in Backup : WorkIsOlder(b)' /\ FinalizerHolds(b)'
    BY <1>3 DEF IInv, WorkIsOlder, FinalizerHolds, vars, workVars
  <2>3. Vouched'
    BY <1>3 DEF IInv, Vouched, vars, workVars, faultVars
  <2> QED BY <2>1, <2>2, <2>3 DEF IInv
<1> QED BY <1>1, <1>2, <1>3, RequestFailsInv, ChangeClusterInv, CrashInv DEF Next

LEMMA SpecInv == Spec => []IInv
BY InitInv, StepInv, PTL DEF Spec

\* Every variable of the backup controller keeps its type.
THEOREM BackupTypeCorrect == Spec => []TypeOK
<1>1. IInv => TypeOK
  BY DEF IInv
<1> QED BY <1>1, SpecInv, PTL

\* The shared deployment never outlives the last backup of the cluster, unless an
\* object was deleted before it had the finalizer: whatever fails, however
\* often the operator crashes, and however the reconciles of any number of
\* backups interleave between reading an object and writing it back.
THEOREM DeploymentNeverOrphaned == Spec => []DeploymentHasBackup
<1>1. IInv => DeploymentHasBackup
  BY DEF IInv, Vouched, DeploymentHasBackup
<1> QED BY <1>1, SpecInv, PTL

-----------------------------------------------------------------------------
(* The controller implements BackupLifecycle.                              *)

Phases == [b \in Backup |-> PhaseOf(b)]

LEMMA PhaseChange ==
  ASSUME NEW b \in Backup, \A c \in Backup : c # b => obj'[c] = obj[c] /\ pc'[c] = pc[c]
  PROVE  Phases' = [Phases EXCEPT ![b] = PhaseOf(b)'] /\ Phases[b] = PhaseOf(b)
<1>1. \A c \in Backup : c # b => PhaseOf(c)' = PhaseOf(c)
  BY DEF PhaseOf
<1> QED BY <1>1 DEF Phases

\* Moving on anywhere but into or out of the last step changes no phase.
LEMMA PhaseSame ==
  ASSUME NEW b \in Backup, \A c \in Backup : c # b => pc'[c] = pc[c], obj' = obj,
         pc[b] # "removeFinalizer", pc'[b] # "removeFinalizer"
  PROVE  Phases' = Phases
<1>1. \A c \in Backup : PhaseOf(c)' = PhaseOf(c)
  BY DEF PhaseOf
<1> QED BY <1>1 DEF Phases

\* The phase of b, by what it depends on.
LEMMA PhaseValues ==
  ASSUME NEW b \in Backup, FinalizerHolds(b)
  PROVE  /\ ~obj[b].there => PhaseOf(b) = "absent"
         /\ obj[b].deleting /\ pc[b] = "removeFinalizer" => PhaseOf(b) = "cleaned"
         /\ obj[b].deleting /\ pc[b] # "removeFinalizer" => PhaseOf(b) = "deleting"
         /\ obj[b].there /\ ~obj[b].deleting /\ obj[b].fin => PhaseOf(b) = "protected"
         /\ obj[b].there /\ ~obj[b].deleting /\ ~obj[b].fin => PhaseOf(b) = "live"
BY DEF FinalizerHolds, PhaseOf

\* One failed attempt of b is forgotten.
LEMMA ForgetOne ==
  ASSUME NEW b \in Backup, PhaseOf(b) = "cleaned", PhaseOf(b)' = "deleting",
         Phases' = [Phases EXCEPT ![b] = PhaseOf(b)'], depl' = depl
  PROVE  Lifecycle!Forget
<1>1. {b} \in SUBSET {c \in Backup : Phases[c] = "cleaned"}
  BY DEF Phases
<1>2. Phases' = [c \in Backup |-> IF c \in {b} THEN "deleting" ELSE Phases[c]]
  BY DEF Phases
<1> QED BY <1>1, <1>2 DEF Lifecycle!Forget, Phases

AbstractStep == Lifecycle!Next \/ (Phases' = Phases /\ (depl # None)' = (depl # None))

LEMMA CreateImplements ==
  ASSUME IInv, IInv', NEW b \in Backup, CreateCR(b) PROVE AbstractStep
<1>1. PICK i \in Image : Store(b, [Absent(i, 0) EXCEPT !.there = TRUE])
  BY DEF CreateCR
<1> DEFINE o == [Absent(i, 0) EXCEPT !.there = TRUE]
<1>2. o \in Object /\ o.there /\ ~o.deleting /\ ~o.fin
  BY AbsentTyped DEF Absent, Object
<1>3. /\ obj'[b].there /\ ~obj'[b].deleting /\ ~obj'[b].fin
      /\ \A c \in Backup : c # b => obj'[c] = obj[c]
  BY <1>1, <1>2, StoreEffect DEF IInv, TypeOK
<1>4. PhaseOf(b) = "absent"
  BY PhaseValues DEF CreateCR, IInv
<1>5. PhaseOf(b)' = "live"
  BY <1>3 DEF PhaseOf
<1>6. Phases' = [Phases EXCEPT ![b] = "live"] /\ Phases[b] = "absent"
  BY <1>3, <1>4, <1>5, PhaseChange DEF CreateCR, workVars
<1>7. Lifecycle!Create(b)
  BY <1>6 DEF CreateCR, Phases, Lifecycle!Create, Lifecycle!Become
<1> QED BY <1>7 DEF AbstractStep, Lifecycle!Next

LEMMA EditImplements ==
  ASSUME IInv, NEW b \in Backup, EditCR(b) PROVE AbstractStep
<1>1. PICK i \in Image : Store(b, [obj[b] EXCEPT !.image = i])
  BY DEF EditCR
<1> DEFINE o == [obj[b] EXCEPT !.image = i]
<1>2. /\ o \in Object
      /\ o.there = obj[b].there /\ o.deleting = obj[b].deleting /\ o.fin = obj[b].fin
  BY DEF IInv, TypeOK, Object
<1>3. /\ obj'[b].there = obj[b].there /\ obj'[b].deleting = obj[b].deleting
      /\ obj'[b].fin = obj[b].fin
      /\ \A c \in Backup : c # b => obj'[c] = obj[c]
  BY <1>1, <1>2, StoreEffect DEF IInv, TypeOK
<1>4. \A c \in Backup : PhaseOf(c)' = PhaseOf(c)
  <2> TAKE c \in Backup
  <2>1. CASE c = b
    BY <1>3, <2>1 DEF PhaseOf, EditCR, workVars
  <2>2. CASE c # b
    BY <1>3, <2>2 DEF PhaseOf, EditCR, workVars
  <2> QED BY <2>1, <2>2
<1> QED BY <1>4 DEF AbstractStep, Phases, EditCR

LEMMA DeleteImplements ==
  ASSUME IInv, IInv', NEW b \in Backup, DeleteCR(b) PROVE AbstractStep
<1> USE DEF DeleteCR
<1>0. /\ obj \in [Backup -> Object] /\ obj[b] \in Object /\ obj[b].image \in Image
      /\ FinalizerHolds(b) /\ FinalizerHolds(b)'
  BY DEF IInv, TypeOK, Object
<1>1. pc' = pc /\ depl' = depl /\ pc[b] # "removeFinalizer"
  BY <1>0 DEF workVars, FinalizerHolds, Finalizing
<1>2. CASE obj[b].fin /\ Store(b, [obj[b] EXCEPT !.deleting = TRUE])
  <2> DEFINE o == [obj[b] EXCEPT !.deleting = TRUE]
  <2>1. o \in Object /\ o.deleting
    BY <1>0 DEF Object
  <2>2. obj'[b].deleting /\ \A c \in Backup : c # b => obj'[c] = obj[c]
    BY <1>0, <1>2, <2>1, StoreEffect
  <2>3. PhaseOf(b) = "protected" /\ PhaseOf(b)' = "deleting"
    BY <1>0, <1>1, <1>2, <2>2 DEF PhaseOf, FinalizerHolds
  <2>4. Phases' = [Phases EXCEPT ![b] = "deleting"] /\ Phases[b] = "protected"
    BY <1>1, <2>2, <2>3, PhaseChange
  <2>5. Lifecycle!Delete(b)
    BY <1>1, <2>4 DEF Phases, Lifecycle!Delete, Lifecycle!Become
  <2> QED BY <2>5 DEF AbstractStep, Lifecycle!Next
<1>3. CASE ~obj[b].fin /\ Store(b, Absent(obj[b].image, 0))
  <2>1. Absent(obj[b].image, 0) \in Object /\ ~Absent(obj[b].image, 0).there
    BY <1>0, AbsentTyped DEF Absent
  <2>2. ~obj'[b].there /\ \A c \in Backup : c # b => obj'[c] = obj[c]
    BY <1>0, <1>3, <2>1, StoreEffect
  <2>3. PhaseOf(b) = "live" /\ PhaseOf(b)' = "absent"
    BY <1>0, <1>1, <1>3, <2>2 DEF PhaseOf, FinalizerHolds
  <2>4. Phases' = [Phases EXCEPT ![b] = "absent"] /\ Phases[b] = "live"
    BY <1>1, <2>2, <2>3, PhaseChange
  <2>5. Lifecycle!Delete(b)
    BY <1>1, <2>4 DEF Phases, Lifecycle!Delete, Lifecycle!Become
  <2> QED BY <2>5 DEF AbstractStep, Lifecycle!Next
<1> QED BY <1>2, <1>3

\* The requests before the finalizer: a phase changes in none of them.
LEMMA QuietImplements ==
  ASSUME IInv, NEW b \in Backup,
         \/ Reconcile(b) \/ GetDistributedRedisCluster(b) \/ reconcileUtilDeployment(b)
         \/ GetDeployment(b)
  PROVE  AbstractStep
<1>0. TypeOK /\ obj[b] \in Object
  BY DEF IInv, TypeOK
<1>1. /\ obj' = obj /\ depl' = depl
      /\ pc[b] # "removeFinalizer" /\ pc'[b] # "removeFinalizer"
      /\ \A c \in Backup : c # b => pc'[c] = pc[c]
  <2>1. CASE Reconcile(b)
    BY <1>0, <2>1, BranchTyped DEF Reconcile, TypeOK
  <2>2. CASE GetDistributedRedisCluster(b)
    BY <1>0, <2>2 DEF GetDistributedRedisCluster, Goto, Requeue, Return, TypeOK
  <2>3. CASE reconcileUtilDeployment(b)
    BY <1>0, <2>3 DEF reconcileUtilDeployment, Goto, TypeOK
  <2>4. CASE GetDeployment(b)
    BY <1>0, <2>4 DEF GetDeployment, Goto, Requeue, Return, TypeOK
  <2> QED BY <2>1, <2>2, <2>3, <2>4
<1> QED BY <1>1, PhaseSame DEF AbstractStep

LEMMA WriteUtilImplements ==
  ASSUME IInv, NEW b \in Backup, CreateDeployment(b) \/ UpdateDeployment(b)
  PROVE  AbstractStep
<1> USE DEF CreateDeployment, UpdateDeployment
<1>1. Phases' = Phases
  <2>1. /\ pc'[b] = "addFinalizer" /\ pc[b] # "removeFinalizer" /\ obj' = obj
        /\ \A c \in Backup : c # b => pc'[c] = pc[c]
    BY DEF Goto, IInv, TypeOK
  <2> QED BY <2>1, PhaseSame
<1>2. depl' = depl \/ depl' # None
  BY UtilTyped
<1>3. CASE depl' = depl
  BY <1>1, <1>3 DEF AbstractStep
<1>4. CASE depl' # None
  <2>1. Lifecycle!Deploy
    BY <1>1, <1>4 DEF Lifecycle!Deploy, Phases
  <2> QED BY <2>1 DEF AbstractStep, Lifecycle!Next
<1> QED BY <1>2, <1>3, <1>4

LEMMA AddFinalizerImplements ==
  ASSUME IInv, NEW b \in Backup, AddFinalizer(b) PROVE AbstractStep
<1> USE DEF AddFinalizer
<1>0. /\ TypeOK /\ inst[b] \in Object /\ inst[b].there /\ ~inst[b].deleting
      /\ inst[b].version = obj[b].version => inst[b] = obj[b]
  BY DEF IInv, WorkIsOlder, Managing
<1>1. /\ depl' = depl /\ pc[b] = "addFinalizer" /\ pc'[b] = "idle"
      /\ \A c \in Backup : c # b => pc'[c] = pc[c]
  BY <1>0, RequeueEffect, ReturnEffect
<1>2. CASE UNCHANGED << obj, hit >>
  BY <1>1, <1>2, PhaseSame DEF AbstractStep
<1>3. CASE ~inst[b].fin /\ ~UpdateRefused(b) /\ Store(b, [inst[b] EXCEPT !.fin = TRUE])
  <2> DEFINE o == [inst[b] EXCEPT !.fin = TRUE]
  <2>1. o \in Object /\ o.there /\ ~o.deleting /\ o.fin
    BY <1>0 DEF Object
  <2>2. /\ obj'[b].there /\ ~obj'[b].deleting /\ obj'[b].fin
        /\ \A c \in Backup : c # b => obj'[c] = obj[c]
    BY <1>0, <1>3, <2>1, StoreEffect DEF TypeOK
  <2>3. obj[b] = inst[b]
    BY <1>0, <1>3 DEF UpdateRefused
  <2>4. PhaseOf(b) = "live" /\ PhaseOf(b)' = "protected"
    BY <1>0, <1>3, <2>2, <2>3 DEF PhaseOf
  <2>5. Phases' = [Phases EXCEPT ![b] = "protected"] /\ Phases[b] = "live"
    BY <1>1, <2>2, <2>4, PhaseChange
  <2>6. Lifecycle!Protect(b)
    BY <1>1, <2>5 DEF Phases, Lifecycle!Protect, Lifecycle!Become
  <2> QED BY <2>6 DEF AbstractStep, Lifecycle!Next
<1> QED BY <1>2, <1>3

LEMMA FinDeleteImplements ==
  ASSUME IInv, NEW b \in Backup, DeleteDeployment(b) PROVE AbstractStep
<1> USE DEF DeleteDeployment
<1>0. TypeOK /\ FinalizerHolds(b) /\ obj[b].deleting /\ obj' = obj /\ depl' = None
  BY DEF IInv, FinalizerHolds, Finalizing
<1>1. CASE depl = None /\ Requeue(b)
  <2>1. pc'[b] = "idle" /\ \A c \in Backup : c # b => pc'[c] = pc[c]
    BY <1>0, <1>1, RequeueEffect, ReturnEffect
  <2> QED BY <1>0, <1>1, <2>1, PhaseSame DEF AbstractStep
<1>2. CASE Goto(b, "removeFinalizer")
  <2>1. pc'[b] = "removeFinalizer" /\ \A c \in Backup : c # b => pc'[c] = pc[c]
    BY <1>0, <1>2 DEF Goto, TypeOK
  <2>2. PhaseOf(b) = "deleting" /\ PhaseOf(b)' = "cleaned"
    BY <1>0, <2>1 DEF PhaseOf, FinalizerHolds
  <2>3. Phases' = [Phases EXCEPT ![b] = "cleaned"] /\ Phases[b] = "deleting"
    BY <1>0, <2>1, <2>2, PhaseChange
  <2>4. Lifecycle!Clean(b)
    BY <1>0, <2>3 DEF Phases, Lifecycle!Clean, Lifecycle!Become
  <2> QED BY <2>4 DEF AbstractStep, Lifecycle!Next
<1> QED BY <1>1, <1>2

LEMMA RemoveFinalizerImplements ==
  ASSUME IInv, NEW b \in Backup, RemoveFinalizer(b) PROVE AbstractStep
<1> USE DEF RemoveFinalizer
<1>0. /\ TypeOK /\ FinalizerHolds(b) /\ obj[b].deleting /\ depl' = depl
      /\ inst[b] \in Object /\ inst[b].image \in Image
  BY DEF IInv, FinalizerHolds, Finalizing, WorkIsOlder, Object
<1>1. PhaseOf(b) = "cleaned"
  BY <1>0 DEF PhaseOf, FinalizerHolds
<1>2. pc'[b] = "idle" /\ \A c \in Backup : c # b => pc'[c] = pc[c]
  BY <1>0, RequeueEffect, ReturnEffect DEF Done
<1>3. CASE UNCHANGED obj
  <2>1. PhaseOf(b)' = "deleting"
    BY <1>0, <1>2, <1>3 DEF PhaseOf, FinalizerHolds
  <2>2. Phases' = [Phases EXCEPT ![b] = PhaseOf(b)']
    BY <1>2, <1>3, PhaseChange
  <2>3. Lifecycle!Forget
    BY <1>0, <1>1, <2>1, <2>2, ForgetOne
  <2> QED BY <2>3 DEF AbstractStep, Lifecycle!Next
<1>4. CASE Store(b, Absent(inst[b].image, 0))
  <2>1. Absent(inst[b].image, 0) \in Object /\ ~Absent(inst[b].image, 0).there
    BY <1>0, AbsentTyped DEF Absent
  <2>2. ~obj'[b].there /\ \A c \in Backup : c # b => obj'[c] = obj[c]
    BY <1>0, <1>4, <2>1, StoreEffect DEF TypeOK
  <2>3. PhaseOf(b)' = "absent"
    BY <2>2 DEF PhaseOf
  <2>4. Phases' = [Phases EXCEPT ![b] = "absent"] /\ Phases[b] = "cleaned"
    BY <1>1, <1>2, <2>2, <2>3, PhaseChange
  <2>5. Lifecycle!Release(b)
    BY <1>0, <2>4 DEF Phases, Lifecycle!Release, Lifecycle!Become
  <2> QED BY <2>5 DEF AbstractStep, Lifecycle!Next
<1> QED BY <1>3, <1>4

LEMMA RequestFailsImplements ==
  ASSUME IInv, NEW b \in Backup, RequestFails(b) PROVE AbstractStep
<1> USE DEF RequestFails
<1>0. TypeOK /\ FinalizerHolds(b) /\ obj' = obj /\ depl' = depl
  BY DEF IInv
<1>1. /\ pc'[b] \in {"idle", "addFinalizer"}
      /\ \A c \in Backup : c # b => pc'[c] = pc[c]
  BY <1>0 DEF Goto, Requeue, Return, TypeOK
<1>2. CASE pc[b] = "removeFinalizer"
  <2>1. PhaseOf(b) = "cleaned" /\ PhaseOf(b)' = "deleting"
    BY <1>0, <1>1, <1>2 DEF PhaseOf, FinalizerHolds, Finalizing
  <2>2. Phases' = [Phases EXCEPT ![b] = PhaseOf(b)']
    BY <1>0, <1>1, PhaseChange
  <2>3. Lifecycle!Forget
    BY <1>0, <2>1, <2>2, ForgetOne
  <2> QED BY <2>3 DEF AbstractStep, Lifecycle!Next
<1>3. CASE pc[b] # "removeFinalizer"
  BY <1>0, <1>1, <1>3, PhaseSame DEF AbstractStep
<1> QED BY <1>2, <1>3

LEMMA CrashImplements ==
  ASSUME IInv, Crash PROVE AbstractStep
<1> USE DEF Crash
<1> DEFINE bs == {b \in Backup : Phases[b] = "cleaned"}
<1>0. obj' = obj /\ depl' = depl /\ \A b \in Backup : FinalizerHolds(b) /\ pc'[b] = "idle"
  BY DEF IInv
<1>1. \A b \in Backup :
        PhaseOf(b)' = IF PhaseOf(b) = "cleaned" THEN "deleting" ELSE PhaseOf(b)
  <2> TAKE b \in Backup
  <2>1. CASE ~obj[b].there
    BY <1>0, <2>1 DEF PhaseOf
  <2>2. CASE obj[b].there /\ obj[b].deleting
    BY <1>0, <2>2 DEF PhaseOf
  <2>3. CASE obj[b].there /\ ~obj[b].deleting /\ obj[b].fin
    BY <1>0, <2>3 DEF PhaseOf
  <2>4. CASE obj[b].there /\ ~obj[b].deleting /\ ~obj[b].fin
    BY <1>0, <2>4 DEF PhaseOf
  <2> QED BY <2>1, <2>2, <2>3, <2>4
<1>2. Phases' = [b \in Backup |-> IF b \in bs THEN "deleting" ELSE Phases[b]]
  BY <1>1 DEF Phases
<1>3. Lifecycle!Forget
  BY <1>0, <1>2 DEF Lifecycle!Forget, Phases
<1> QED BY <1>3 DEF AbstractStep, Lifecycle!Next

LEMMA InitImplements ==
  ASSUME Init PROVE Lifecycle!Init
<1>1. \A b \in Backup : ~obj[b].there
  BY DEF Init, Absent
<1>2. \A b \in Backup : PhaseOf(b) = "absent"
  BY <1>1 DEF PhaseOf
<1> QED BY <1>2 DEF Lifecycle!Init, Init

LEMMA StepImplements ==
  ASSUME IInv, IInv', [Next]_vars PROVE [Lifecycle!Next]_(Lifecycle!vars)
<1>1. AbstractStep
  <2>1. ASSUME NEW b \in Backup, Worker(b) PROVE AbstractStep
    BY <2>1, QuietImplements, WriteUtilImplements, AddFinalizerImplements,
       FinDeleteImplements, RemoveFinalizerImplements DEF Worker
  <2>2. ASSUME NEW b \in Backup, Users(b) PROVE AbstractStep
    BY <2>2, CreateImplements, EditImplements, DeleteImplements DEF Users
  <2>3. CASE ChangeCluster \/ UNCHANGED vars
    <3>1. obj' = obj /\ pc' = pc /\ depl' = depl
      BY <2>3 DEF ChangeCluster, vars, workVars
    <3>2. \A b \in Backup : PhaseOf(b)' = PhaseOf(b)
      BY <3>1 DEF PhaseOf
    <3> QED BY <3>1, <3>2 DEF AbstractStep, Phases
  <2> QED BY <2>1, <2>2, <2>3, RequestFailsImplements, CrashImplements DEF Next
<1> QED BY <1>1 DEF AbstractStep, Phases, Lifecycle!vars

\* The backup controller implements BackupLifecycle: an object that got the
\* finalizer leaves Kubernetes only right after a deletion of the deployment by
\* its own reconcile, which a failed request, a refused update or a crash in
\* between makes it do again.
THEOREM ImplementsLifecycle == Spec => LifecycleSpec
<1>1. Init => Lifecycle!Init
  BY InitImplements
<1>2. IInv /\ IInv' /\ [Next]_vars => [Lifecycle!Next]_(Lifecycle!vars)
  BY StepImplements
<1> QED BY <1>1, <1>2, SpecInv, PTL DEF Spec, LifecycleSpec, Lifecycle!Spec
=============================================================================
