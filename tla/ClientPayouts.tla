----------------------------- MODULE ClientPayouts ------------------------------
(* What the client library of the contracts (nitro-protocol/src/contract) computes *)
(* off chain: the status word of a channel, and the effects of transfer and claim,  *)
(* which a client needs to know the outcome that it must present next.  They are a  *)
(* second implementation of what NitroAdjudicator models, in another language and    *)
(* with other shortcuts: the question is whether the two agree.                     *)
EXTENDS NitroAdjudicator

CONSTANT Missing        \* an optional field that is not there

\* It is neither an outcome nor the hash of one.
ASSUME MissingAssumption ==
  /\ Missing \notin Seq(SingleAssetExit)
  /\ Missing \notin [hashOf : {"outcome"}, outcome : Seq(SingleAssetExit)]

-------------------------------------------------------------------------------
(* The status word (channel-storage.ts, channel-mode.ts).                         *)

\* The fingerprint of an open channel is that of two zero hashes, whatever else is
\* given.
GetFingerprintPreimage(finalizesAt, stateHash, outcome) ==
  [stateHash   |-> IF finalizesAt = 0 \/ stateHash = Missing THEN NoHash ELSE stateHash,
   outcomeHash |-> IF finalizesAt = 0 \/ outcome = Missing THEN NoHash
                   ELSE OutcomeHash(outcome)]

ChannelDataToStatus(turnNumRecord, finalizesAt, stateHash, outcome) ==
  LET preimage == GetFingerprintPreimage(finalizesAt, stateHash, outcome)
  IN  ChannelData(turnNumRecord, finalizesAt, preimage.stateHash, preimage.outcomeHash)

ParseStatus(status) ==
  [turnNumRecord |-> status.turnNumRecord, finalizesAt |-> status.finalizesAt,
   fingerprint |-> [stateHash |-> status.stateHash, outcomeHash |-> status.outcomeHash]]

GetChannelMode(finalizesAt, now) ==
  CASE finalizesAt = 0   -> "Open"
    [] 0 < finalizesAt /\ finalizesAt <= now -> "Finalized"
    [] finalizesAt > now -> "Challenge"

-------------------------------------------------------------------------------
(* The emulated payouts (multi-asset-holder.ts).  indices is an array here.        *)

Pays(allocations, i, amount) == [allocations EXCEPT ![i].amount = @ - amount]
Exit(item, amount) == [item EXCEPT !.amount = amount]

Chosen(indices, k, i) == indices = <<>> \/ (k < Len(indices) /\ indices[k + 1] = i)

\* Variant with a bug, for mutation tests: what is not chosen leaves the surplus alone.
TransferKeepingSurplus(initialHoldings, allocations, indices) ==
  FoldLeftDomain(LAMBDA acc, i :
      LET affords == Least(allocations[i].amount, acc.surplus)
      IN  IF Chosen(indices, acc.k, i)
          THEN [surplus |-> acc.surplus - affords, k |-> acc.k + 1,
                newAllocations |-> Pays(acc.newAllocations, i, affords),
                exitAllocations |-> Append(acc.exitAllocations, Exit(allocations[i], affords))]
          ELSE acc,
    [surplus |-> initialHoldings, k |-> 0,
     newAllocations |-> allocations, exitAllocations |-> <<>>],
    allocations)

\* One pass over the allocations; a match appends to the exit.
ComputeTransferEffectsAndInteractions(initialHoldings, allocations, indices) ==
  FoldLeftDomain(LAMBDA acc, i :
      LET affords == Least(allocations[i].amount, acc.surplus)
          rest    == [acc EXCEPT !.surplus = @ - affords]
      IN  IF Chosen(indices, acc.k, i)
          THEN [rest EXCEPT !.k = @ + 1,
                            !.newAllocations = Pays(@, i, affords),
                            !.exitAllocations = Append(@, Exit(allocations[i], affords))]
          ELSE rest,
    [surplus |-> initialHoldings, k |-> 0,
     newAllocations |-> allocations, exitAllocations |-> <<>>],
    allocations)

TotalOf(exit) == FoldLeft(LAMBDA sum, item : sum + item.amount, 0, exit)
LeavesOnlyZeros(effects) == \A i \in DOMAIN effects.newAllocations :
                              effects.newAllocations[i].amount = 0

\* The walk over the beneficiaries stops where nothing is left, and so does the search
\* for each of them among the allocations of the target.
ComputeClaimEffectsAndInteractions(initialHoldings, source, target, indexOfTarget, indices) ==
  LET SourceSurplus ==
        FoldLeft(LAMBDA left, item : left - Least(item.amount, left),
                 initialHoldings, SubSeq(source, 1, indexOfTarget - 1))
      First(destination) ==
        SelectInSeq(target, LAMBDA item : item.destination = destination)
      Claims(acc, destination) ==
        LET i       == First(destination)
            affords == Least(acc.newTarget[i].amount, acc.surplus)
            rest    == [acc EXCEPT !.surplus = @ - affords]
        IN  IF acc.surplus = 0 \/ i = 0 THEN acc
            ELSE IF ~Chosen(indices, acc.k, i) THEN rest
            ELSE [rest EXCEPT !.k = @ + 1,
                              !.newTarget = Pays(@, i, affords),
                              !.newSource = Pays(@, indexOfTarget, affords),
                              !.exitAllocations[i].amount = @ + affords]
  IN  FoldLeft(Claims,
               [surplus   |-> Least(SourceSurplus, source[indexOfTarget].amount), k |-> 0,
                newSource |-> source, newTarget |-> target,
                exitAllocations |-> [i \in DOMAIN target |-> Exit(target[i], 0)]],
               source[indexOfTarget].metadata)

-------------------------------------------------------------------------------
\* The indices that the contract accepts: strictly increasing.
IncreasingIndices(allocations) ==
  {indices \in SeqOf(DOMAIN allocations, Len(allocations)) :
     \A i, j \in DOMAIN indices : i < j => indices[i] < indices[j]}

\* What a client computes of any transfer that the contract would carry out in this
\* state is what the contract does: the same outcome is left, the same is paid.
TransferAgrees(c, outcome, n, indices) ==
  LET held    == holdings[outcome[n].asset][c]
      items   == outcome[n].allocations
      payouts == TransferPayouts(held, items, Range(indices))
      effects == ComputeTransferEffectsAndInteractions(held, items, indices)
  IN  /\ effects.newAllocations = PayDown(items, payouts)
      /\ TotalOf(effects.exitAllocations) = Total(payouts)
      /\ LeavesOnlyZeros(effects) <=> AllocatesOnlyZeros(PayDown(items, payouts))
      /\ \A k \in DOMAIN indices :
           effects.exitAllocations[k] = Exit(items[indices[k]], payouts[indices[k]])

\* The same of a claim.
ClaimAgrees(args, indices) ==
  LET from    == SourceAllocations(args)
      to      == TargetAllocations(args)
      held    == holdings[SourceAsset(args)][args.sourceChannelId]
      i       == args.indexOfTargetInSource
      payouts == ClaimPayouts(held, from, to, i, Range(indices))
      effects == ComputeClaimEffectsAndInteractions(held, from, to, i, indices)
  IN  /\ effects.newTarget = PayDown(to, payouts)
      /\ effects.newSource[i].amount = from[i].amount - Total(payouts)
      /\ \A j \in DOMAIN to : effects.exitAllocations[j] = Exit(to[j], payouts[j])

\* A client that knows how a channel was finalized computes the fingerprint that the
\* contract compares with, and of every transfer and claim the outcome that will be
\* stored: a client that falls out of step can never present an outcome again.
ClientAgrees ==
  /\ \A c \in Channel :
       LET status == statusOf[c]
       IN  /\ GetChannelMode(ParseStatus(status).finalizesAt, Now) = Mode(status, Now)
           /\ ChannelDataToStatus(0, 0, Missing, Missing) = EmptyStatus
           /\ Live(c) =>
                ChannelDataToStatus(status.turnNumRecord, status.finalizesAt,
                  IF status.stateHash = NoHash THEN Missing ELSE status.stateHash,
                  OutcomeOf(c)) = status
  /\ \A c \in Channel : Live(c) =>
       \A outcome \in Presented(c) : \A n \in DOMAIN outcome :
         \A indices \in IncreasingIndices(outcome[n].allocations) :
           TransferAllowed(outcome[n].allocations, Range(indices)) =>
             TransferAgrees(c, outcome, n, indices)
  /\ \A c, t \in Channel : Live(c) /\ Live(t) =>
       \A args \in ClaimArgs(c, t, OutcomeOf(c), OutcomeOf(t)) :
         ClaimChecks(args) /\ SourceAllocations(args)[args.indexOfTargetInSource].metadata # <<>> =>
           \A indices \in IncreasingIndices(TargetAllocations(args)) :
             ClaimAgrees(args, indices)
===============================================================================
