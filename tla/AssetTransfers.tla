---------------------------- MODULE AssetTransfers ----------------------------
(* The arithmetic of paying out a finalized outcome: the two pure functions of *)
(* MultiAssetHolder.sol, for one asset.  Allocations are a sequence in order   *)
(* of priority; positions count from 1.  The indices argument is a strictly    *)
(* increasing array in the contract, so it is a set here, and {} means "all".  *)
EXTENDS Integers, FiniteSets, SequencesExt

Allocation(Destination, Amount) ==
  [destination : Destination, amount : Amount,
   allocationType : {"simple", "guarantee"},
   metadata : Seq(Destination)]   \* of a guarantee: who may claim, in order

Least(a, b) == IF a > b THEN b ELSE a

\* What is left of held once the first i allocations have had what they can.
Surplus(held, allocations) ==
  LET surplus[i \in 0 .. Len(allocations)] ==
        IF i = 0 THEN held
        ELSE surplus[i - 1] - Least(allocations[i].amount, surplus[i - 1])
  IN  surplus

\* Variant with a bug, for mutation tests: an amount that was paid is not taken off.
PayDownNothing(allocations, payouts) == allocations

Affords(held, allocations, i) ==
  Least(allocations[i].amount, Surplus(held, allocations)[i - 1])

Total(payouts) == FoldFunction(+, 0, payouts)

\* Both functions return what each position is paid; amounts shrink by as much.
PayDown(allocations, payouts) ==
  [i \in DOMAIN allocations |-> [allocations[i] EXCEPT !.amount = @ - payouts[i]]]

AllocatesOnlyZeros(allocations) == \A i \in DOMAIN allocations : allocations[i].amount = 0

Selected(allocations, indices) ==
  IF indices = {} THEN DOMAIN allocations ELSE indices \intersect DOMAIN allocations

\* The value of k when the loop meets position i: how many were matched before.
Matched(indices, i) == Cardinality({j \in indices : j < i})

\* Variant with a bug, for mutation tests: guarantees may be transferred.
TransferAnything(allocations, indices) == TRUE

\* The loop refuses guarantees, but looks at allocations[k] where it pays
\* allocations[i].
TransferAllowed(allocations, indices) ==
  LET selected == Selected(allocations, indices)
  IN  \A i \in selected :
        allocations[Matched(selected, i) + 1].allocationType # "guarantee"

\* Variant with a bug, for mutation tests: the allocations before are passed over.
TransferWithoutPriority(held, allocations, indices) ==
  [i \in DOMAIN allocations |->
     IF i \in Selected(allocations, indices) THEN Least(allocations[i].amount, held) ELSE 0]

TransferPayouts(held, allocations, indices) ==
  [i \in DOMAIN allocations |->
     IF i \in Selected(allocations, indices) THEN Affords(held, allocations, i) ELSE 0]

\* The first allocation with a destination.
FirstFor(allocations, destination) ==
  LET Places == {i \in DOMAIN allocations : allocations[i].destination = destination}
  IN  CHOOSE i \in Places : \A j \in Places : i <= j

\* One beneficiary of a guarantee: charged to it whether it is paid or not.  The
\* k-th match has to be the k-th index, or nothing is paid.
ClaimStep(target, indices, acc, destination) ==
  IF \A i \in DOMAIN target : target[i].destination # destination THEN acc
  ELSE LET i == FirstFor(target, destination)
           affords == Least(target[i].amount, acc.surplus)
           paid == \/ indices = {}
                   \/ i \in indices /\ Matched(indices, i) = acc.k
       IN  [surplus |-> acc.surplus - affords,
            k       |-> IF paid THEN acc.k + 1 ELSE acc.k,
            payouts |-> IF paid THEN [acc.payouts EXCEPT ![i] = affords]
                                ELSE acc.payouts]

\* A claim walks the beneficiaries, in the guarantee's order.
ClaimLoop(targetSurplus, beneficiaries, target, indices) ==
  LET loop[j \in 0 .. Len(beneficiaries)] ==
        IF j = 0 THEN [surplus |-> targetSurplus, k |-> 0,
                       payouts |-> [i \in DOMAIN target |-> 0]]
        ELSE ClaimStep(target, indices, loop[j - 1], beneficiaries[j])
  IN  loop

ClaimPayouts(held, source, target, indexOfTargetInSource, indices) ==
  LET beneficiaries == source[indexOfTargetInSource].metadata
  IN  ClaimLoop(Affords(held, source, indexOfTargetInSource),
                beneficiaries, target, indices)[Len(beneficiaries)].payouts
===============================================================================
