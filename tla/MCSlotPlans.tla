----------------------------- MODULE MCSlotPlans -----------------------------
(***************************************************************************)
(* The plans of SlotPlan (scale down), Rebalance (scale up) and AllocSlots *)
(* (creation) against what a plan is for, over every assignment of a few   *)
(* slots to a few masters: a state holds one assignment and then one of    *)
(* its plans.                                                              *)
(***************************************************************************)
EXTENDS Integers, Sequences, FiniteSets, SequencesExt

CONSTANTS MaxSts, MaxSlots, None

P == INSTANCE SlotPlan
R == INSTANCE Rebalance

VARIABLES
  nodes,      \* number of masters
  kept,       \* Spec.MasterSize
  count,      \* number of slots
  assigned,   \* assigned[s]: the master that reports s, or None
  op,         \* "down", "up" or "create"
  plan        \* the jobs computed for it, in order; << >> at first

vars == << nodes, kept, count, assigned, op, plan >>

Master == 0 .. nodes - 1
New    == 0 .. kept - 1
Slot   == 0 .. count - 1

\* A scale up finds at least one master without slots, and no slot is lost; a
\* creation finds no slot assigned.
Init ==
  /\ op \in {"down", "up", "create"}
  /\ nodes \in 2 .. MaxSts
  /\ kept \in IF op = "down" THEN 1 .. nodes - 1 ELSE {nodes}
  /\ count \in nodes .. MaxSlots
  /\ assigned \in CASE op = "down"   -> [0 .. count - 1 -> 0 .. nodes - 1 \cup {None}]
                    [] op = "up"     -> [0 .. count - 1 -> 0 .. nodes - 2]
                    [] op = "create" -> [0 .. count - 1 -> {None}]
  /\ plan = << >>

Slots == [n \in Master |-> {s \in Slot : assigned[s] = n}]

Compute ==
  /\ plan = << >>
  /\ \/ op = "down" /\ \E p \in P!migrationSlotInfo(New, Slots, count) : plan' = SetToSeq(p)
     \/ op = "up" /\ plan' \in R!RebalancedCluster(Master, Slots, count)
     \/ op = "create" /\ \E p \in SetToSeqs(Master) : plan' = R!AllocSlots(p, count)
  /\ UNCHANGED << nodes, kept, count, assigned, op >>

Spec == Init /\ [][Compute]_vars

Gets(n)  == UNION {plan[i].slots : i \in {j \in DOMAIN plan : plan[j].to = n}}
Gives(n) == UNION {plan[i].slots : i \in {j \in DOMAIN plan : plan[j].from = n}}
After(n) == (Slots[n] \ Gives(n)) \cup Gets(n)

\* A plan moves a slot at most once, from where it is; and a scale up lets no
\* master both give and take.
MovesOnce ==
  /\ \A i \in DOMAIN plan : \A s \in plan[i].slots : assigned[s] = plan[i].from
  /\ \A i, j \in DOMAIN plan : i # j => plan[i].slots \cap plan[j].slots = {}
  /\ op = "up" => \A n \in Master : Gets(n) = {} \/ Gives(n) = {}

\* Executing the plan gives every slot to exactly one of the masters that are
\* kept: the slots of removed masters and the unassigned ones included, whatever
\* the order of the Go maps and of masters of equal balance.  No slot is moved
\* twice on the way.
PlanPartitionsSlots ==
  plan # << >> =>
    MovesOnce /\ \A s \in Slot : Cardinality({n \in New : s \in After(n)}) = 1

\* How even the plan is.  Scale down: no master ends with more than one slot
\* above nbSlotByNode, since the cursor of buildSlotByNodeFromAvailableSlots may
\* step onto a full master but overfills it once only.  Scale up: no master is
\* below its share, or above it by more than the remainder, which may all go to
\* one new master.  Creation: the shares differ by one slot at most.
PlanBalanced ==
  LET share == count \div kept
      Has(n) == Cardinality(After(n)) IN
  plan # << >> =>
    \A n \in New :
      /\ op = "down" => Has(n) <= P!NbSlotByNode(count, kept) + 1
      /\ op = "up" => Has(n) \in share .. share + (count % kept)
      /\ op = "create" => Has(n) \in share .. share + 1
=============================================================================
