------------------------------ MODULE Rebalance ------------------------------
(***************************************************************************)
(* Which slots a new cluster's masters get, and which slots a scale up     *)
(* moves: the pure part of controllers/clustering/rebalance.go.  A plan is *)
(* a sequence of jobs                                                      *)
(*   [from |-> node or None, to |-> node, slots |-> set of slots]          *)
(* from = None for AllocSlots, which adds slots nobody owns.               *)
(*                                                                         *)
(* newMasterNodes comes out of a Go map, and sort.Sort is not stable, so   *)
(* the order of the masters, and of masters of equal balance, is a         *)
(* parameter.                                                              *)
(***************************************************************************)
EXTENDS Integers, Sequences, FiniteSets, SequencesExt

CONSTANT None

Ascending(S) == SetToSortSeq(S, <)
Abs(x) == IF x < 0 THEN -x ELSE x

\* int(float64(GetHashMaxSlot() + 1) / float64(nbNode))
ExpectedSlots(nbSlots, nbNode) == nbSlots \div nbNode

SumOf(f, S) == FoldSet(LAMBDA x, acc : acc + f[x], 0, S)

\* The remainder of the division is charged, one slot at a time, to the masters
\* below their share, in rounds over newMasterNodes.  The rounds end because a
\* scale up has a master without slots, which is below its share.
RECURSIVE ChargeRemainder(_, _, _, _)
ChargeRemainder(newSeq, balance, total, i) ==
  IF total <= 0 THEN balance
  ELSE LET n    == newSeq[i]
           next == IF i = Len(newSeq) THEN 1 ELSE i + 1
       IN IF balance[n] < 0
            THEN ChargeRemainder(newSeq, [balance EXCEPT ![n] = @ - 1], total - 1, next)
            ELSE ChargeRemainder(newSeq, balance, total, next)

\* Mutant: the expected share is rounded up instead of down.
BalancesRoundedUp(newSeq, slots, nbSlots) ==
  [n \in ToSet(newSeq) |-> Cardinality(slots[n])
                             - ((nbSlots + Len(newSeq) - 1) \div Len(newSeq))]

Balances(newSeq, slots, nbSlots) ==
  LET new     == ToSet(newSeq)
      initial == [n \in new |-> Cardinality(slots[n])
                                  - ExpectedSlots(nbSlots, Len(newSeq))]
  IN ChargeRemainder(newSeq, initial, SumOf(initial, new), 1)

\* computeReshardTable for one source: its first numSlots slots, which it has
\* unless slots are lost.  A source without slots makes the quotient NaN, and
\* nothing is moved.
computeReshardTable(src, dst, slots, numSlots) ==
  LET keys == Ascending(slots)
  IN [i \in 1 .. (IF slots = {} THEN 0 ELSE numSlots) |->
        [from |-> src, to |-> dst, slots |-> {keys[i]}]]

\* From both ends of the masters sorted by balance: the emptiest takes from the
\* fullest what one of them needs.
RECURSIVE Reshard(_, _, _, _, _)
Reshard(sn, balance, slots, d, s) ==
  IF d >= s THEN << >>
  ELSE LET dst == sn[d]
           src == sn[s]
           num == IF Abs(balance[dst]) < Abs(balance[src])
                    THEN Abs(balance[dst]) ELSE Abs(balance[src])
           table == computeReshardTable(src, dst, slots[src], num)
           after == [balance EXCEPT ![dst] = @ + num, ![src] = @ - num]
           kept  == [slots EXCEPT ![src] = @ \ UNION {table[i].slots : i \in DOMAIN table}]
       IN table \o Reshard(sn, after, kept,
                           IF after[dst] = 0 THEN d + 1 ELSE d,
                           IF after[src] = 0 THEN s - 1 ELSE s)

SortedBy(balance) ==
  {sn \in SetToSeqs(DOMAIN balance) :
     \A i \in 1 .. Len(sn) - 1 : balance[sn[i]] <= balance[sn[i + 1]]}

\* Every plan RebalancedCluster may execute for the slots the masters report.
RebalancedCluster(new, slots, nbSlots) ==
  UNION {LET balance == Balances(newSeq, slots, nbSlots)
         IN {Reshard(sn, balance, slots, 1, Len(sn)) : sn \in SortedBy(balance)}
         : newSeq \in SetToSeqs(new)}

\* utils.Round(cursor + slotsPerNode - 1) for the i-th master, counted from 0
RoundedLast(nbSlots, nbNode, i) == (2 * (i + 1) * nbSlots - nbNode) \div (2 * nbNode)

\* The last slot of every master in turn.
LastSlot(nbSlots, nbNode) ==
  LET last[i \in 0 .. nbNode - 1] ==
        LET first   == IF i = 0 THEN 0 ELSE last[i - 1] + 1
            rounded == RoundedLast(nbSlots, nbNode, i)
            capped  == IF rounded > nbSlots \/ i = nbNode - 1 THEN nbSlots - 1 ELSE rounded
        IN IF capped < first THEN first ELSE capped
  IN last

\* AllocSlots for the masters in the order newSeq.
AllocSlots(newSeq, nbSlots) ==
  LET last == LastSlot(nbSlots, Len(newSeq))
  IN [i \in 1 .. Len(newSeq) |->
        [from |-> None, to |-> newSeq[i],
         slots |-> (IF i = 1 THEN 0 ELSE last[i - 2] + 1) .. last[i - 1]]]
=============================================================================
