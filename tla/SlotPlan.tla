------------------------------ MODULE SlotPlan ------------------------------
(***************************************************************************)
(* Which slots a scale down moves where: the pure part of                  *)
(* controllers/clustering/migration.go.  A plan is a set of jobs           *)
(*   [from |-> node or None, to |-> node, slots |-> set of slots]          *)
(* one per entry of the Go map mapSlotByMigInfo; from = None stands for    *)
(* slots that no master owns.                                              *)
(*                                                                         *)
(* The Go code ranges over maps (newMastersBySts, the nodes of the cluster *)
(* infos, slotToMigrateByNode), so the order of the new masters, of the    *)
(* current masters and of the sources differs from call to call: each      *)
(* order is a parameter here, and migrationSlotInfo collects every outcome.*)
(***************************************************************************)
EXTENDS Integers, Sequences, FiniteSets, SequencesExt

CONSTANT None     \* the nil From of a migrationInfo, and the id "" of lost slots

Ascending(S) == SetToSortSeq(S, <)

\* math.Ceil(float64(nbSlots) / float64(nbNode))
NbSlotByNode(nbSlots, nbNode) == (nbSlots + nbNode - 1) \div nbNode

\* old: the slice of slots of every current master.  A master with more than
\* nb slots gives away the tail of its slice.
retrieveSlotToMigrateFrom(old, nb) ==
  [n \in DOMAIN old |-> SubSeq(old[n], nb + 1, Len(old[n]))]

\* Mutant: the slots of removed masters are left out.
noSlotsFromRemovedNodes(new, old) == [n \in DOMAIN old \ new |-> << >>]

\* A current master that is not a new master gives away everything.
retrieveSlotToMigrateFromRemovedNodes(new, old) ==
  [n \in DOMAIN old \ new |-> old[n]]

\* The slots of 0 .. nbSlots - 1 missing from the sorted union, found in one
\* scan that compares each slot with its predecessor.
retrieveLostSlots(old, nbSlots) ==
  LET all   == FlattenSeq([i \in 1 .. Cardinality(DOMAIN old) |->
                             old[Ascending(DOMAIN old)[i]]])
      full  == SortSeq(all, <)
      Gap(lo, hi) == [i \in 1 .. (IF hi < lo THEN 0 ELSE hi - lo + 1) |-> lo + i - 1]
      first == IF full = << >> \/ Head(full) # 0 THEN << 0 >> ELSE << >>
      Scan(acc, s) == [last |-> s, lost |-> acc.lost \o Gap(acc.last + 1, s - 1)]
      end   == FoldLeft(Scan, [last |-> 0, lost |-> first], full)
  IN end.lost \o Gap(end.last + 1, nbSlots - 1)

\* Hand out the available slots one by one.  The cursor moves on when its
\* node is full, without looking whether the next one is full too; the last
\* node takes whatever is left.
buildSlotByNodeFromAvailableSlots(newSeq, have, nb, avail) ==
  LET Give(acc, s) ==
        LET full == acc.have[newSeq[acc.id]] >= nb
            id   == IF full /\ acc.id < Len(newSeq) THEN acc.id + 1 ELSE acc.id
            n    == newSeq[id]
        IN [id |-> id,
            have |-> [acc.have EXCEPT ![n] = @ + 1],
            add  |-> [acc.add EXCEPT ![n] = Append(@, s)]]
      start == [id |-> 1, have |-> have, add |-> [n \in ToSet(newSeq) |-> << >>]]
  IN FoldLeft(Give, start, avail).add

\* What every master may lose: its excess, or all of it when it is removed,
\* and under None the slots nobody owns.
SlotToMigrateByNode(new, old, nbSlots) ==
  LET excess  == retrieveSlotToMigrateFrom(old, NbSlotByNode(nbSlots, Cardinality(new)))
      removed == retrieveSlotToMigrateFromRemovedNodes(new, old)
      lost    == retrieveLostSlots(old, nbSlots)
  IN [n \in DOMAIN old \cup {None} |->
        IF n = None THEN lost
        ELSE IF n \in DOMAIN removed THEN removed[n] ELSE excess[n]]

\* from is SlotToMigrateByNode; the sources are visited in the order srcSeq.
BuildSlotsByNode(newSeq, old, from, srcSeq, nbSlots) ==
  LET have == [n \in ToSet(newSeq) |-> IF n \in DOMAIN old THEN Len(old[n]) ELSE 0]
  IN buildSlotByNodeFromAvailableSlots(
       newSeq, have, NbSlotByNode(nbSlots, Len(newSeq)),
       FlattenSeq([i \in 1 .. Len(srcSeq) |-> from[srcSeq[i]]]))

\* Who a slot comes from: the first current master that has it.  A slot that
\* comes back to its own master is not a move.
feedMigInfo(curSeq, old, toAdd) ==
  LET Holder(s) == LET i == SelectInSeq(curSeq, LAMBDA n : s \in ToSet(old[n]))
                   IN IF i = 0 THEN None ELSE curSeq[i]
      moves == {m \in UNION {{<< Holder(s), n, s >> : s \in ToSet(toAdd[n])}
                             : n \in DOMAIN toAdd} : m[1] # m[2]}
  IN {[from |-> p[1], to |-> p[2],
       slots |-> {m[3] : m \in {x \in moves : x[1] = p[1] /\ x[2] = p[2]}}]
       : p \in {<< m[1], m[2] >> : m \in moves}}

\* Every plan a reconcile may compute from the slots the masters report.
migrationSlotInfo(new, slots, nbSlots) ==
  LET cur  == {n \in DOMAIN slots : slots[n] # {}}
      old  == [n \in cur |-> Ascending(slots[n])]
      from == SlotToMigrateByNode(new, old, nbSlots)
      srcs == {n \in DOMAIN from : from[n] # << >>}
      adds == {BuildSlotsByNode(newSeq, old, from, srcSeq, nbSlots) :
                 newSeq \in SetToSeqs(new), srcSeq \in SetToSeqs(srcs)}
  IN {feedMigInfo(curSeq, old, toAdd) : curSeq \in SetToSeqs(cur), toAdd \in adds}
=============================================================================
