----------------------------- MODULE MCScaleDown -----------------------------
(***************************************************************************)
(* Instances of ScaleDown for TLC, with the plans the code computes.       *)
(***************************************************************************)
EXTENDS ScaleDown, TLC

P == INSTANCE SlotPlan

\* A table (@@ makes TLC enumerate it), so that every set of plans is computed
\* once.
PlanTable ==
  [slots \in [Master -> SUBSET Slot] |-> P!migrationSlotInfo(New, slots, NumSlots)]
    @@ << >>

MCPlans(slots) == PlanTable[slots]

\* Three masters; the last one has two slots, whose new owners depend on the
\* order the new masters come in.
Full == {[s \in 0 .. 3 |-> IF s < 2 THEN s ELSE 2]}

\* The same, or slot 1 is lost.
FullOrLost == Full \cup {[s \in 0 .. 3 |-> CASE s = 0 -> 0 [] s = 1 -> None
                                             [] s = 2 -> 1 [] s = 3 -> 2]}

\* Two keys share slot 2, so that a key may stay behind in a slot where another
\* one is written while it moves.
MCKey == {"a", "b"}
MCSlotOf == [k \in MCKey |-> 2]
=============================================================================
