--------------------------- MODULE BackupLifecycle ---------------------------
(***************************************************************************)
(* What the backup controller promises about the life of RedisClusterBackup*)
(* objects that share the one utility deployment of their cluster.  An     *)
(* object that carries the finalizer leaves Kubernetes only after the      *)
(* deployment was deleted on its behalf, however often the operator fails  *)
(* and starts again in between.                                            *)
(***************************************************************************)
CONSTANT Backup     \* the RedisClusterBackup objects of one cluster

VARIABLES
  phase,   \* phase[b]: where the object b is in its life
  util     \* whether the utility deployment exists

vars == << phase, util >>

\* protected: has the finalizer; cleaned: its deployment was just deleted.
Phase == {"absent", "live", "protected", "deleting", "cleaned"}

Init ==
  /\ phase = [b \in Backup |-> "absent"]
  /\ util = FALSE

Become(b, from, to) == phase[b] = from /\ phase' = [phase EXCEPT ![b] = to]

Create(b) == Become(b, "absent", "live") /\ UNCHANGED util

Protect(b) == Become(b, "live", "protected") /\ UNCHANGED util

Delete(b) ==
  /\ Become(b, "live", "absent") \/ Become(b, "protected", "deleting")
  /\ UNCHANGED util

Deploy == util' = TRUE /\ UNCHANGED phase

Clean(b) == Become(b, "deleting", "cleaned") /\ util' = FALSE

Release(b) == Become(b, "cleaned", "absent") /\ UNCHANGED util

\* A failed request or a crash: the deletion has to be done again.
Forget ==
  /\ \E bs \in SUBSET {b \in Backup : phase[b] = "cleaned"} :
        phase' = [b \in Backup |-> IF b \in bs THEN "deleting" ELSE phase[b]]
  /\ UNCHANGED util

Next ==
  \/ \E b \in Backup :
        Create(b) \/ Protect(b) \/ Delete(b) \/ Clean(b) \/ Release(b)
  \/ Deploy
  \/ Forget

Spec == Init /\ [][Next]_vars
=============================================================================
