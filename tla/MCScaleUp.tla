------------------------------ MODULE MCScaleUp ------------------------------
(***************************************************************************)
(* Instances of ScaleUp for TLC, with the plans the code computes.         *)
(***************************************************************************)
EXTENDS ScaleUp, TLC

R == INSTANCE Rebalance

MCAllocs == {R!AllocSlots(p, NumSlots) : p \in R!SetToSeqs(Master)}
MCReshards(slots) == R!RebalancedCluster(Master, slots, NumSlots)

\* One master has everything; the others are new.
One == {[s \in Slot |-> 0]}

\* The same, or nothing is assigned yet: the cluster is being created.
EmptyOrOne == One \cup {[s \in Slot |-> None]}

\* Slots 0 and 2 have keys, slot 0 two of them.
MCKey == {"a", "b", "c"}
MCSlotOf == [k \in MCKey |-> IF k = "c" THEN 2 ELSE 0]
=============================================================================
