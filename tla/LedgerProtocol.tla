---------------------------- MODULE LedgerProtocol ----------------------------
(* How a wallet advances a two-party ledger channel (server-wallet             *)
(* ledger-protocol.ts): one crank looks at the states it stores and at its     *)
(* active requests, updates the requests and says which states to sign.        *)
(* All the operators are pure; LedgerChannel runs two wallets on them.         *)
(*                                                                             *)
(* Channels to be funded are numbered in the order the code sorts them in.     *)
(* The order of the allocation items is left out: items are only appended and  *)
(* removed, in an order the baseline and the set of changes determine.         *)
EXTENDS Integers, FiniteSets, SequencesExt

CONSTANTS App,         \* the channels the ledger may fund
          FundAmount,  \* [App -> [Wallet -> Nat]]: what each party puts in
          RefundAmount \* [App -> [Wallet -> Nat]]: what each party gets back

Leader == 0
Follower == 1
Wallet == {Leader, Follower}

ASSUME AppAssumption ==
  /\ App \subseteq Nat /\ IsFiniteSet(App)
  /\ FundAmount \in [App -> [Wallet -> Nat]] /\ RefundAmount \in [App -> [Wallet -> Nat]]
  /\ \A x \in App : /\ FundAmount[x][0] + FundAmount[x][1] > 0
                    /\ RefundAmount[x][0] + RefundAmount[x][1]
                         = FundAmount[x][0] + FundAmount[x][1]

\* A ledger outcome: the two balances, and how many items fund each app.
Outcome == [bal : [Wallet -> Int], items : [App -> Nat]]

\* A request is a kind and a channel.  NotLoaded: terminal, or never made.
RequestKey == {"fund", "defund"} \X App
Terminal == {"succeeded", "cancelled", "insufficient-funds", "inconsistent"}
NotLoaded == "not loaded"

Fund(x) == <<"fund", x>>
Defund(x) == <<"defund", x>>
\* Variant with a bug, for mutation tests: pending requests are not loaded.
LoadedWithoutPending(reqs) == {k \in RequestKey : reqs[k] \notin {NotLoaded, "pending"}}

Loaded(reqs) == {k \in RequestKey : reqs[k] # NotLoaded}
WithStatus(reqs, st) == {k \in RequestKey : reqs[k] = st}
Mark(reqs, keys, st) == [k \in RequestKey |-> IF k \in keys THEN st ELSE reqs[k]]

\* What party w has in the given channels.
Moved(amount, apps, w) == FoldFunction(+, 0, [x \in apps |-> amount[x][w]])

\* A variant with a bug, for mutation tests: nobody is refunded.
RemoveWithoutRefund(outcome, apps) ==
  [outcome EXCEPT !.items = [x \in App |-> @[x] - (IF x \in apps THEN 1 ELSE 0)]]

\* SimpleAllocationOutcome.add and .remove, for several channels: add does not
\* ask whether a channel is funded already.
AddItems(outcome, apps) ==
  [bal   |-> [w \in Wallet |-> outcome.bal[w] - Moved(FundAmount, apps, w)],
   items |-> [x \in App |-> outcome.items[x] + (IF x \in apps THEN 1 ELSE 0)]]
CanAdd(outcome, x) == \A w \in Wallet : outcome.bal[w] >= FundAmount[x][w]
RemoveItems(outcome, apps) ==
  [bal   |-> [w \in Wallet |-> outcome.bal[w] + Moved(RefundAmount, apps, w)],
   items |-> [x \in App |-> outcome.items[x] - (IF x \in apps THEN 1 ELSE 0)]]
CanRemove(outcome, x) == outcome.items[x] > 0

\* The channels that can still be afforded, when funded in ascending order.
Affordable(outcome, apps) ==
  CHOOSE funded \in SUBSET apps :
    \A x \in apps : x \in funded <=> CanAdd(AddItems(outcome, {y \in funded : y < x}), x)

\* buildOutcome for the given requests: the defunds, then the funds.
BuildOutcome(reqs, outcome, keys) ==
  LET Apps(kind) == {x \in App : <<kind, x>> \in keys}
      removed == {x \in Apps("defund") : CanRemove(outcome, x)}
      rest    == RemoveItems(outcome, removed)
      added   == Affordable(rest, Apps("fund"))
  IN  [outcome |-> AddItems(rest, added),
       reqs    |-> Mark(Mark(reqs, {Defund(x) : x \in Apps("defund") \ removed}, "inconsistent"),
                        {Fund(x) : x \in Apps("fund") \ added}, "insufficient-funds")]

\* The defunds whose fund is among the loaded requests too.
CancellationDefunds(reqs) ==
  {Defund(x) : x \in {y \in App : Fund(y) \in Loaded(reqs) /\ Defund(y) \in Loaded(reqs)}}

\* identifyPotentialCancellations throws otherwise.
CancellationsQueued(reqs) == \A k \in CancellationDefunds(reqs) : reqs[k] = "queued"

\* markSuccessesAndInconsistencies: amounts always agree here.
MarkSuccesses(reqs, keys, outcome) ==
  Mark(reqs,
       {k \in keys : (k[1] = "fund") = (outcome.items[k[2]] > 0)},
       "succeeded")

\* The duplicate it throws on.
NoDuplicates(keys, outcome) ==
  \A k \in keys : k[1] = "defund" => outcome.items[k[2]] <= 1

\* Variants with a bug, for mutation tests: requests are cancelled before the
\* outcome is looked at, and pending requests are not put back into the queue.
ProcessCancellingFirst(reqs, outcome) ==
  LET cancellations == CancellationDefunds(reqs)
      canceled == Mark(reqs, cancellations \union {Fund(k[2]) : k \in cancellations}, "cancelled")
      judged   == MarkSuccesses(canceled, WithStatus(canceled, "queued")
                                            \union WithStatus(canceled, "pending"), outcome)
  IN  Mark(judged, WithStatus(judged, "pending"), "queued")

ProcessWithoutReset(reqs, outcome) ==
  MarkSuccesses(reqs, Loaded(reqs) \ CancellationDefunds(reqs), outcome)

ProcessAgreedState(reqs, outcome) ==
  LET cancellations == CancellationDefunds(reqs)
      judged   == MarkSuccesses(reqs, Loaded(reqs) \ cancellations, outcome)
      reset    == Mark(judged, WithStatus(judged, "pending"), "queued")
      applied  == {k \in cancellations : reset[Fund(k[2])] = "queued"}
      canceled == Mark(reset, applied \union {Fund(k[2]) : k \in applied}, "cancelled")
  IN  MarkSuccesses(canceled, cancellations \ applied, outcome)

ProcessAgreedStateThrows(reqs, outcome) ==
  ~CancellationsQueued(reqs) \/ ~NoDuplicates(Loaded(reqs), outcome)

\* compareChangesWithRequests: requests of any loaded status overlap.
ChangedApps(baseline, candidate) ==
  {x \in App : (baseline.items[x] > 0) # (candidate.items[x] > 0)}

\* Variant with a bug, for mutation tests: the other's proposal is trusted.
ComparisonTrusting(reqs, baseline, candidate) ==
  [type |-> "full-agreement", reqs |-> reqs, outcome |-> candidate]

Comparison(reqs, baseline, candidate) ==
  LET changed == ChangedApps(baseline, candidate)
      overlap == {k \in Loaded(reqs) \ CancellationDefunds(reqs) : k[2] \in changed}
      built   == BuildOutcome(reqs, baseline, overlap)
      Result(type, rs, outcome) == [type |-> type, reqs |-> rs, outcome |-> outcome]
  IN  IF changed = {} THEN Result("full-agreement", reqs, candidate)
      ELSE IF ~CancellationsQueued(reqs) THEN Result("cancellation error", reqs, baseline)
      ELSE IF overlap = {} THEN Result("no-overlap", reqs, baseline)
      ELSE IF Cardinality(overlap) # Cardinality(changed)
             THEN Result("some-overlap", built.reqs, built.outcome)
      ELSE IF built.outcome = candidate
             THEN Result("full-agreement", built.reqs, candidate)
             ELSE Result("outcomes inconsistent", built.reqs, baseline)

\* Variant with a bug, for mutation tests: a proposal counts as a success.
MarkProposedSucceeded(reqs, outcome) ==
  Mark(reqs,
       {k \in WithStatus(reqs, "queued") : (k[1] = "fund") = (outcome.items[k[2]] > 0)},
       "succeeded")

\* markIncludedRequestsAsPending
MarkPending(reqs, outcome) ==
  Mark(reqs,
       {k \in WithStatus(reqs, "queued") : (k[1] = "fund") = (outcome.items[k[2]] > 0)},
       "pending")

\* What a crank comes to: an error rolls the transaction back.
Cranked(reqs, states) == [error |-> "none", reqs |-> reqs, states |-> states]
Thrown(error) == [error |-> error, reqs |-> <<>>, states |-> <<>>]
ProtocolState(turnNum, outcome) == [turnNum |-> turnNum, outcome |-> outcome]

CrankAsLeaderInAgreement(reqs, agreed, before) ==
  LET processed == ProcessAgreedState(reqs, agreed.outcome)
      built     == BuildOutcome(processed, agreed.outcome, WithStatus(processed, "queued"))
  IN  IF ProcessAgreedStateThrows(reqs, agreed.outcome) THEN Thrown("process")
      ELSE IF built.outcome = agreed.outcome THEN Cranked(built.reqs, before)
      ELSE Cranked(MarkPending(built.reqs, built.outcome),
                   Append(before, ProtocolState(agreed.turnNum + 1, built.outcome)))

CrankAsFollowerInAgreement(reqs, agreed) ==
  IF ProcessAgreedStateThrows(reqs, agreed.outcome) THEN Thrown("process")
  ELSE Cranked(ProcessAgreedState(reqs, agreed.outcome), <<>>)

\* Variant with a bug, for mutation tests: the next turn number is counted from
\* the agreed state instead of from the counter-proposal.
CrankFromAgreedTurn(reqs, agreed, counterProposed) ==
  LET comparison == Comparison(reqs, agreed.outcome, counterProposed.outcome)
  IN  IF comparison.type # "full-agreement" THEN Thrown(comparison.type)
      ELSE CrankAsLeaderInAgreement(comparison.reqs,
                                    [counterProposed EXCEPT !.turnNum = agreed.turnNum],
                                    <<counterProposed>>)

CrankAsLeaderInCounterProposal(reqs, agreed, counterProposed) ==
  LET comparison == Comparison(reqs, agreed.outcome, counterProposed.outcome)
  IN  IF comparison.type # "full-agreement" THEN Thrown(comparison.type)
      ELSE CrankAsLeaderInAgreement(comparison.reqs, counterProposed, <<counterProposed>>)

CrankAsFollowerInProposal(reqs, agreed, proposed) ==
  LET comparison ==
        Comparison(ProcessAgreedState(reqs, agreed.outcome), agreed.outcome, proposed.outcome)
  IN  IF ProcessAgreedStateThrows(reqs, agreed.outcome) THEN Thrown("process")
      ELSE CASE comparison.type = "full-agreement" ->
                  IF ProcessAgreedStateThrows(comparison.reqs, proposed.outcome)
                    THEN Thrown("process")
                    ELSE Cranked(ProcessAgreedState(comparison.reqs, proposed.outcome),
                                 <<proposed>>)
             [] comparison.type \in {"some-overlap", "no-overlap"} ->
                  Cranked(MarkPending(comparison.reqs, comparison.outcome),
                          <<ProtocolState(proposed.turnNum + 1, comparison.outcome)>>)
             [] OTHER -> Thrown(comparison.type)
===============================================================================
