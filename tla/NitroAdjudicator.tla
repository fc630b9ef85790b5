--------------------------- MODULE NitroAdjudicator ---------------------------
(* The money side of the adjudicator (MultiAssetHolder.sol and                 *)
(* NitroAdjudicator.sol): deposits, and the paying out of finalized outcomes   *)
(* by transfer, claim and transferAllAssets, over several channels that fund   *)
(* each other.  How a channel comes to be finalized is ForceMove's matter:     *)
(* here it may be, at any time, with an outcome its participants signed.       *)
EXTENDS AssetTransfers, StatusManager

CONSTANTS Asset,
          Channel,        \* destinations whose funds stay in the contract
          External,       \* destinations that are an address
          SignedOutcome,  \* [Channel -> sets of outcomes]: what may be finalized
          MaxFunds        \* bound: the tokens there are of each asset

Destination == Channel \union External
Amount == 0 .. MaxFunds

\* An outcome (exit) lists, for each asset once, its allocations.
SingleAssetExit == [asset : Asset, allocations : Seq(Allocation(Destination, Amount))]

IsOutcome(outcome) ==
  /\ outcome \in Seq(SingleAssetExit)
  /\ IsInjective([n \in DOMAIN outcome |-> outcome[n].asset])
  /\ \A n \in DOMAIN outcome : \A i \in DOMAIN outcome[n].allocations :
       LET item == outcome[n].allocations[i]
       IN  \* a beneficiary is named once, a simple allocation names none
           /\ IsInjective(item.metadata)
           /\ item.metadata = <<>> <=> item.allocationType = "simple"

ASSUME OutcomeAssumption ==
  /\ IsFiniteSet(Destination)
  /\ Channel \intersect External = {} /\ MaxFunds \in Nat
  /\ \A c \in Channel : \A outcome \in SignedOutcome[c] : IsOutcome(outcome)

VARIABLES statusOf,  \* [Channel -> ChannelData], outcomeHash a Fingerprint
          holdings,  \* [Asset -> [Channel -> Nat]]
          balance,   \* the tokens the contract owns, [Asset -> Nat]
          received,  \* history: what was paid out, [Asset -> [External -> Nat]]
          credited   \* history: what finalized outcomes allocated, same shape

adjudicatorVars == <<statusOf, holdings, balance, received, credited>>

\* keccak256 of the bytes of an outcome, or of something else made from them.
OutcomeHash(outcome) == [hashOf |-> "outcome", outcome |-> outcome]
BytesHash(outcome)   == [hashOf |-> "bytes", outcome |-> outcome]

\* Blocks carry one time: only whether a channel is finalized matters here.
Now == 1
Finalized(c) == Mode(statusOf[c], Now) = "Finalized"

\* _requireMatchingFingerprint, with the stateHash that was stored: the caller
\* must present the bytes of the outcome whose hash is stored.
StoredOutcome(c, outcome) == statusOf[c].outcomeHash = OutcomeHash(outcome)

\* The outcomes that can match: the fingerprint is read by comparison only.
Presented(c) ==
  IF statusOf[c].outcomeHash = NoHash THEN {} ELSE {statusOf[c].outcomeHash.outcome}

UpdateFingerprint(status, hash) == [status EXCEPT !.outcomeHash = hash]

SumOf(allocations, payouts, destination) ==
  Total([i \in {j \in DOMAIN allocations : allocations[j].destination = destination}
           |-> payouts[i]])

\* Variant with a bug, for mutation tests: a channel that is paid is not credited.
HoldingsUncredited(held, c, allocations, payouts) ==
  [d \in Channel |-> held[d] - (IF d = c THEN Total(payouts) ELSE 0)]

\* _executeSingleAssetExit after the effect "holdings -= totalPayouts": one asset
\* n of an outcome of channel c is paid out along payouts.
HoldingsAfter(held, c, allocations, payouts) ==
  [d \in Channel |-> held[d] - (IF d = c THEN Total(payouts) ELSE 0)
                             + SumOf(allocations, payouts, d)]

ReceivedAfter(got, allocations, payouts) ==
  [d \in External |-> got[d] + SumOf(allocations, payouts, d)]

PaidOut(allocations, payouts) ==
  Total([i \in {j \in DOMAIN allocations : allocations[j].destination \in External}
           |-> payouts[i]])

PayAsset(asset, c, allocations, payouts) ==
  /\ holdings' = [holdings EXCEPT ![asset] = HoldingsAfter(@, c, allocations, payouts)]
  /\ balance'  = [balance EXCEPT ![asset] = @ - PaidOut(allocations, payouts)]
  /\ received' = [received EXCEPT ![asset] = ReceivedAfter(@, allocations, payouts)]

AdjudicatorInit ==
  /\ statusOf = [c \in Channel |-> EmptyStatus]
  /\ holdings = [a \in Asset |-> [c \in Channel |-> 0]]
  /\ balance  = [a \in Asset |-> 0]
  /\ received = [a \in Asset |-> [d \in External |-> 0]]
  /\ credited = received

\* msg.value (or the tokens pulled) less what is refunded is amountDeposited.
Deposit(asset, channelId, expectedHeld, amount) ==
  LET held == holdings[asset][channelId]
      amountDeposited == expectedHeld + amount - held
  IN  /\ held >= expectedHeld
      /\ held < expectedHeld + amount
      /\ balance[asset] + Total(received[asset]) + amountDeposited <= MaxFunds
      /\ holdings' = [holdings EXCEPT ![asset][channelId] = held + amountDeposited]
      /\ balance'  = [balance EXCEPT ![asset] = @ + amountDeposited]
      /\ UNCHANGED <<statusOf, received, credited>>

AllocationsOf(outcome, asset) ==
  UNION {{<<n, i>> : i \in DOMAIN outcome[n].allocations} :
           n \in {m \in DOMAIN outcome : outcome[m].asset = asset}}

Owed(outcome, asset, d) ==
  Total([p \in AllocationsOf(outcome, asset) |->
           LET item == outcome[p[1]].allocations[p[2]]
           IN  IF item.destination = d THEN item.amount ELSE 0])

Credit(outcome) ==
  credited' = [a \in Asset |->
                 [d \in External |-> credited[a][d] + Owed(outcome, a, d)]]

\* ForceMove: conclude, or a challenge that runs out.
ConcludedStatus(outcome) == ChannelData(0, Now, NoHash, OutcomeHash(outcome))
ExpiredStatus(outcome)   == ChannelData(1, Now, OutcomeHash(outcome), OutcomeHash(outcome))

Finalize(channelId, outcome, status) ==
  /\ ~Finalized(channelId)
  /\ statusOf' = [statusOf EXCEPT ![channelId] = status]
  /\ Credit(outcome)
  /\ UNCHANGED <<holdings, balance, received>>

Transfer(assetIndex, fromChannelId, outcome, indices) ==
  LET asset       == outcome[assetIndex].asset
      allocations == outcome[assetIndex].allocations
      payouts     == TransferPayouts(holdings[asset][fromChannelId], allocations, indices)
  IN  /\ Finalized(fromChannelId)
      /\ StoredOutcome(fromChannelId, outcome)
      /\ TransferAllowed(allocations, indices)
      /\ statusOf' =
           [statusOf EXCEPT ![fromChannelId] =
              UpdateFingerprint(@, OutcomeHash(
                [outcome EXCEPT ![assetIndex].allocations = PayDown(@, payouts)]))]
      /\ PayAsset(asset, fromChannelId, allocations, payouts)
      /\ UNCHANGED credited

\* claimArgs of the contract: the two channels, the outcomes they present, and
\* positions in them.
ClaimArgs(source, target, sourceOutcome, targetOutcome) ==
  [sourceChannelId : {source}, sourceOutcome : {sourceOutcome},
   sourceAssetIndex : DOMAIN sourceOutcome,
   indexOfTargetInSource : UNION {DOMAIN sourceOutcome[n].allocations :
                                    n \in DOMAIN sourceOutcome},
   targetChannelId : {target}, targetOutcome : {targetOutcome},
   targetAssetIndex : DOMAIN targetOutcome]

SourceAsset(args) == args.sourceOutcome[args.sourceAssetIndex].asset
SourceAllocations(args) == args.sourceOutcome[args.sourceAssetIndex].allocations
TargetAllocations(args) == args.targetOutcome[args.targetAssetIndex].allocations

\* The check for a guarantee looks at allocations[targetAssetIndex].
ClaimChecks(args) ==
  LET allocations == SourceAllocations(args)
  IN  /\ Finalized(args.sourceChannelId)
      /\ StoredOutcome(args.sourceChannelId, args.sourceOutcome)
      /\ args.targetAssetIndex \in DOMAIN allocations
      /\ allocations[args.targetAssetIndex].allocationType = "guarantee"
      /\ args.indexOfTargetInSource \in DOMAIN allocations
      /\ allocations[args.indexOfTargetInSource].destination = args.targetChannelId
      /\ args.targetOutcome[args.targetAssetIndex].asset = SourceAsset(args)
      /\ Finalized(args.targetChannelId)
      /\ StoredOutcome(args.targetChannelId, args.targetOutcome)

\* Decoding the metadata of a simple allocation as guarantee data fails.  The
\* source's fingerprint is written before the target's.
Claim(args, indices) ==
  LET asset    == SourceAsset(args)
      from     == SourceAllocations(args)
      to       == TargetAllocations(args)
      payouts  == ClaimPayouts(holdings[asset][args.sourceChannelId], from, to,
                               args.indexOfTargetInSource, indices)
      charged  == [i \in DOMAIN from |->
                     IF i = args.indexOfTargetInSource THEN Total(payouts) ELSE 0]
      sourceWritten ==
        [statusOf EXCEPT ![args.sourceChannelId] = UpdateFingerprint(@, OutcomeHash(
           [args.sourceOutcome EXCEPT
              ![args.sourceAssetIndex].allocations = PayDown(@, charged)]))]
  IN  /\ ClaimChecks(args)
      /\ from[args.indexOfTargetInSource].metadata # <<>>
      /\ statusOf' =
           [sourceWritten EXCEPT ![args.targetChannelId] = UpdateFingerprint(@, OutcomeHash(
              [args.targetOutcome EXCEPT
                 ![args.targetAssetIndex].allocations = PayDown(@, payouts)]))]
      /\ PayAsset(asset, args.sourceChannelId, to, payouts)
      /\ UNCHANGED credited

\* transferAllAssets on a channel whose status is known to match the outcome.
PayAllAssets(channelId, status, outcome) ==
  LET At(a)       == {n \in DOMAIN outcome : outcome[n].asset = a}
      payouts     == [n \in DOMAIN outcome |->
                        TransferPayouts(holdings[outcome[n].asset][channelId],
                                        outcome[n].allocations, {})]
      newOutcome  == [n \in DOMAIN outcome |->
                        [outcome[n] EXCEPT !.allocations = PayDown(@, payouts[n])]]
      Paid(a, Rule(_, _), otherwise) ==
        IF At(a) = {} THEN otherwise
        ELSE LET n == CHOOSE n \in At(a) : TRUE
             IN  Rule(outcome[n].allocations, payouts[n])
  IN  /\ \A n \in DOMAIN outcome : TransferAllowed(outcome[n].allocations, {})
      /\ statusOf' =
           [statusOf EXCEPT ![channelId] =
              IF \A n \in DOMAIN outcome : AllocatesOnlyZeros(newOutcome[n].allocations)
                THEN EmptyStatus
                ELSE UpdateFingerprint(status, BytesHash(outcome))]
      /\ holdings' = [a \in Asset |->
           Paid(a, LAMBDA items, paid : HoldingsAfter(holdings[a], channelId, items, paid),
                holdings[a])]
      /\ balance'  = [a \in Asset |->
           balance[a] - Paid(a, LAMBDA items, paid : PaidOut(items, paid), 0)]
      /\ received' = [a \in Asset |->
           Paid(a, LAMBDA items, paid : ReceivedAfter(received[a], items, paid),
                received[a])]

TransferAllAssets(channelId, outcome) ==
  /\ Finalized(channelId)
  /\ StoredOutcome(channelId, outcome)
  /\ PayAllAssets(channelId, statusOf[channelId], outcome)
  /\ UNCHANGED credited

ConcludeAndTransferAllAssets(channelId, outcome) ==
  /\ ~Finalized(channelId)
  /\ PayAllAssets(channelId, ConcludedStatus(outcome), outcome)
  /\ Credit(outcome)

AdjudicatorNext ==
  \/ \E a \in Asset, c \in Channel, expectedHeld \in Amount, amount \in Amount :
       Deposit(a, c, expectedHeld, amount)
  \/ \E c \in Channel : \E outcome \in SignedOutcome[c] :
       \/ Finalize(c, outcome, ConcludedStatus(outcome))
       \/ Finalize(c, outcome, ExpiredStatus(outcome))
       \/ ConcludeAndTransferAllAssets(c, outcome)
  \/ \E c \in Channel : \E outcome \in Presented(c) :
       \/ TransferAllAssets(c, outcome)
       \/ \E n \in DOMAIN outcome :
            \E indices \in SUBSET DOMAIN outcome[n].allocations :
              Transfer(n, c, outcome, indices)
  \/ \E c, t \in Channel :
       \E outcome \in Presented(c), targetOutcome \in Presented(t) :
         \E args \in ClaimArgs(c, t, outcome, targetOutcome) :
           \E indices \in SUBSET DOMAIN TargetAllocations(args) : Claim(args, indices)

AdjudicatorSpec == AdjudicatorInit /\ [][AdjudicatorNext]_adjudicatorVars
-------------------------------------------------------------------------------
\* c is finalized with an outcome that can be presented.
Live(c) ==
  Finalized(c) /\ statusOf[c].outcomeHash.hashOf = "outcome"

OutcomeOf(c) == statusOf[c].outcomeHash.outcome

OwedNow(a, d) ==
  Total([c \in {c \in Channel : Live(c)} |-> Owed(OutcomeOf(c), a, d)])

\* Type invariant.
AdjudicatorTypeOK ==
  /\ \A c \in Channel :
       statusOf[c] # EmptyStatus =>
         /\ statusOf[c].turnNumRecord \in UInt48 /\ statusOf[c].finalizesAt = Now
         /\ statusOf[c].outcomeHash.hashOf \in {"outcome", "bytes"}
         /\ IsOutcome(OutcomeOf(c))
  /\ holdings \in [Asset -> [Channel -> Amount]]
  /\ balance \in [Asset -> Amount]
  /\ received \in [Asset -> [External -> Amount]]
  /\ credited \in [Asset -> [External -> Nat]]

\* The books of the contract are its tokens: what it holds for the channels is
\* what it owns.
HoldingsBacked ==
  /\ AdjudicatorTypeOK
  /\ \A a \in Asset : balance[a] = Total(holdings[a])

\* Nobody is paid more than the finalized outcomes allocated to them, whatever
\* mix of transfers, claims and transferAllAssets pays it, however often.
NeverOverpaid ==
  /\ HoldingsBacked
  /\ \A a \in Asset, d \in External :
       received[a][d] + OwedNow(a, d) <= credited[a][d]

\* What an allocation could be paid before a step, it was paid or can be paid after it.
AllocationKept(c) ==
  \A n \in DOMAIN OutcomeOf(c) :
    LET asset == OutcomeOf(c)[n].asset
        items == OutcomeOf(c)[n].allocations
        left  == OutcomeOf(c)'[n].allocations
    IN  \A i \in DOMAIN items :
          items[i].amount - left[i].amount + Affords(holdings'[asset][c], left, i)
            >= Affords(holdings[asset][c], items, i)

\* The same of a guarantee, for those who may claim it through its target.
GuaranteeKept(c, t) ==
  \A n \in DOMAIN OutcomeOf(c), m \in DOMAIN OutcomeOf(t) :
    LET asset == OutcomeOf(c)[n].asset
        from  == OutcomeOf(c)[n].allocations
        to    == OutcomeOf(t)[m].allocations
        left  == OutcomeOf(t)'[m].allocations
    IN  asset = OutcomeOf(t)[m].asset =>
          \A i \in DOMAIN from :
            from[i].destination = t /\ from[i].metadata # <<>> =>
              \A j \in DOMAIN to :
                to[j].amount - left[j].amount
                + ClaimPayouts(holdings'[asset][c], OutcomeOf(c)'[n].allocations,
                               left, i, {})[j]
                  >= ClaimPayouts(holdings[asset][c], from, to, i, {})[j]

\* No call takes away from another's due.
EntitlementKept ==
  [][ \A c \in {d \in Channel : Live(d) /\ Live(d)'} :
        /\ AllocationKept(c)
        /\ \A t \in {d \in Channel : Live(d) /\ Live(d)'} : GuaranteeKept(c, t)
    ]_adjudicatorVars

\* What a finalized outcome still owes stays on record until it is paid.
NothingForgotten ==
  \A a \in Asset, d \in External :
    received[a][d] + OwedNow(a, d) = credited[a][d]
===============================================================================
