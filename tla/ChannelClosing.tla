---------------------------- MODULE ChannelClosing -----------------------------
(* The two server wallets of a funded ledger channel close it: they sign the     *)
(* final state in turn (ChannelCloser), one of them withdraws (Defunder), and    *)
(* both follow the chain in the adjudicator_status, funding and                  *)
(* chain_service_requests tables.  Meanwhile either may challenge                *)
(* (ChallengeSubmitter), and a DefundChannel objective may withdraw what a        *)
(* challenge made final.                                                         *)
EXTENDS Integers, Sequences, FiniteSets

CONSTANTS FirstSigners,   \* whose turn it may be
          Share,          \* Share[o][w]: what outcome o allocates to w; the channel
                          \* was opened with "initial" and stands at "latest"
          Challengers,    \* wallets whose application challenges
          Defunders,      \* wallets whose application inserts DefundChannel
          Twice,          \* wallets that registered the channel twice
          Unreliable,     \* wallets that may lose their output or restart
          RestartInChallenge, \* whether they also restart while a challenge runs
          ChallengeDuration,
          MaxTime,        \* bound: block timestamps
          MaxFaults       \* bound: lost outputs and restarts

Wallet == {0, 1}
Outcome == {"initial", "latest"}

ASSUME ShareAssumption == Share \in [Outcome -> [Wallet -> Nat]]
\* The channel has funds, and a challenge takes time.
ASSUME ClosingAssumption ==
  /\ Share["latest"][0] + Share["latest"][1] > 0
  /\ ChallengeDuration \in Nat \ {0} /\ MaxTime \in Nat \ {0} /\ MaxFaults \in Nat
  /\ FirstSigners \subseteq Wallet

Objective == {"CloseChannel", "SubmitChallenge", "DefundChannel"}
Retries == 2
Unlisted == 0
NoRow == [finalizesAt |-> 0, blockTimestamp |-> 0, states |-> "no row"]
NoStatus == [turn |-> 0, finalizesAt |-> 0, outcome |-> "none"]

VARIABLES finalSigned,    \* w -> who signed the final state, as stored by w
          objective,      \* w -> objective -> its status
          request,        \* w -> the chain_service_requests rows: withdraw, challenge
          funded,         \* w -> whether its funding row holds the funds
          transferredOut, \* w -> how often that row records the payout
          status,         \* w -> its adjudicator_status row
          tasks,          \* w -> the writes its process has been told to do
          pending,        \* w -> its chain requests that are not mined yet
          finalizing,     \* w -> the listed finalization time of the channel
          chain,          \* statusOf the channel
          paid,           \* the outcome it was paid out by, or "nothing"
          time,           \* the timestamp of the last block
          expired,        \* history: the outcomes that challenges made final
          first,          \* the wallet whose turn it is
          faults

tables == <<finalSigned, objective, request, funded, transferredOut, status>>
memory == <<tasks, pending, finalizing>>
onChain == <<chain, paid, time, expired>>
vars == <<tables, memory, onChain, first, faults>>

Peer(w) == 1 - w

-------------------------------------------------------------------------------
(* The channel as stored by a wallet.                                           *)

\* Both signed the state before the final one, so the final state is supported
\* as soon as its first signature is there, and the turn passes.
HasFinalState(w) == finalSigned[w] # {}
\* A mutant: who finds the final state made does not sign it.
MyTurnToCraft(w) == w = first

MyTurn(w) == IF HasFinalState(w) THEN w # first ELSE w = first

\* Channel.fundingMilestones and isPartlyDirectFunded: the funds exceed what the
\* outcome allocates before w.
Total == Share["latest"][0] + Share["latest"][1]
TargetBefore(w) == IF w = 0 THEN 0 ELSE Share["latest"][0]
\* A mutant: off by one.
IsPartlyDirectFundedBeyond(w) == funded[w] /\ Total > TargetBefore(w) + 1

IsPartlyDirectFunded(w) == funded[w] /\ Total > TargetBefore(w)

\* txSubmitterOrder of the CloseChannel objective, and what the supported outcome
\* allocates to a participant.
TxSubmitterOrder == <<1, 0>>
AllocatedTo(w) == Share["latest"][w]

\* shouldSubmitCollaborativeTx: the first of that order who has funds in the channel.
Submitter == IF AllocatedTo(TxSubmitterOrder[1]) > 0 THEN TxSubmitterOrder[1]
             ELSE TxSubmitterOrder[2]

Mode(row) ==
  CASE row.finalizesAt = 0 -> "Open"
    [] row.finalizesAt # 0 /\ row.finalizesAt <= row.blockTimestamp -> "Finalized"
    [] OTHER -> "Challenge"

IsValid(req) == req.attempts >= Retries \/ (req.attempts > 0 /\ req.recent)
Again(req) == [attempts |-> req.attempts + 1, recent |-> req.attempts + 1 < Retries]

-------------------------------------------------------------------------------
Init ==
  /\ finalSigned = [w \in Wallet |-> {}]
  /\ objective = [w \in Wallet |-> [o \in Objective |-> "none"]]
  /\ request = [w \in Wallet |-> [withdraw |-> [attempts |-> 0, recent |-> FALSE],
                                  challenge |-> FALSE]]
  /\ funded = [w \in Wallet |-> TRUE]
  /\ transferredOut = [w \in Wallet |-> 0]
  /\ status = [w \in Wallet |-> NoRow]
  /\ tasks = [w \in Wallet |-> {}] /\ pending = [w \in Wallet |-> {}]
  /\ finalizing = [w \in Wallet |-> Unlisted]
  /\ chain = NoStatus /\ paid = "nothing" /\ time = 1 /\ expired = {}
  /\ first \in FirstSigners
  /\ faults = 0

\* The application asks for an objective: Wallet.closeChannels, Engine.challenge,
\* or the DefundChannel objective it inserts.  Bounds: a challenge while it can still
\* run out, a DefundChannel when it has.
Commence(w, o) ==
  /\ objective[w][o] = "none"
  /\ o = "SubmitChallenge" => w \in Challengers /\ time + ChallengeDuration <= MaxTime
  /\ o = "DefundChannel" => w \in Defunders /\ Mode(status[w]) = "Finalized"
  /\ objective' = [objective EXCEPT ![w][o] = "approved"]
  /\ UNCHANGED <<finalSigned, request, funded, transferredOut, status, memory, onChain,
                 first, faults>>

\* Engine.pushMessage: what the peer has stored arrives, or what it had stored when
\* an older message left.  With its objective a CloseChannel is approved here, also
\* one that has succeeded before: ObjectiveModel.insert merges the status.
Push(w, signers, withObjective) ==
  /\ finalSigned' = [finalSigned EXCEPT ![w] = @ \cup signers]
  /\ objective' = IF withObjective THEN [objective EXCEPT ![w]["CloseChannel"] = "approved"]
                  ELSE objective
  /\ UNCHANGED <<request, funded, transferredOut, status, memory, onChain, first, faults>>

PushMessage(w) ==
  \E signers \in SUBSET finalSigned[Peer(w)], withObjective \in BOOLEAN :
    /\ withObjective => objective[Peer(w)]["CloseChannel"] # "none"
    /\ withObjective \/ ~signers \subseteq finalSigned[w]
    /\ Push(w, signers, withObjective)

\* Wallet.syncObjectives: the stored states go out with every approved objective,
\* and with a GetChannel request that the peer answers with its own states.
SyncObjectives(w) ==
  /\ \E o \in Objective : objective[w][o] = "approved"
  /\ Push(Peer(w), finalSigned[w], objective[w]["CloseChannel"] = "approved")

AnswerSync(w) ==
  /\ \E o \in Objective : objective[w][o] = "approved"
  /\ Push(w, finalSigned[Peer(w)], FALSE)

-------------------------------------------------------------------------------
(* The cranks of approved objectives.  A chain event, a message or an answer to a *)
(* sync brings them about (Engine.takeActions), so they come again and again.  A  *)
(* crank that throws rolls its transaction back and keeps nothing.               *)

\* ChannelCloser.areAllFinalStatesSigned: the signers after the crank.
SignersAfter(w) == IF MyTurn(w) THEN finalSigned[w] \cup {w} ELSE finalSigned[w]

Finalized(w) == Mode(status[w]) = "Finalized"

\* Defunder.directDefunder: what the crank of o hands to the chain service, once
\* the final state has these signers, and what it becomes.
ConcludeRequest == [do |-> "conclude", outcome |-> "latest"]
WithdrawRequest(w) == [do |-> "withdraw", outcome |-> status[w].states]

Requests(w, signers, submits) ==
  IF ~IsPartlyDirectFunded(w) \/ IsValid(request[w].withdraw) \/ ~submits THEN {}
  ELSE IF Finalized(w) THEN {WithdrawRequest(w)}
  ELSE IF signers = Wallet THEN {ConcludeRequest} ELSE {}

\* They are lost when the process dies after the crank's commit, or when
\* handleChainRequests throws.
HandOver(w, requests) ==
  \/ pending' = [pending EXCEPT ![w] = @ \cup requests] /\ UNCHANGED faults
  \/ /\ w \in Unreliable /\ faults < MaxFaults /\ requests # {}
     /\ faults' = faults + 1
     /\ UNCHANGED pending

Submit(w, requests) ==
  /\ HandOver(w, requests)
  /\ request' = IF ConcludeRequest \in requests
                THEN [request EXCEPT ![w].withdraw = Again(@)] ELSE request

\* A row that setFinalized inserted holds no states: states[0] throws.
Throws(requests) == \E r \in requests : r.outcome = "no states"

Succeed(w, o) == objective' = [objective EXCEPT ![w][o] = "succeeded"]

CrankClose(w) ==
  LET signers == SignersAfter(w)
      requests == IF signers = Wallet THEN Requests(w, signers, w = Submitter) ELSE {}
  IN
  /\ objective[w]["CloseChannel"] = "approved"
  /\ ~Throws(requests)
  /\ finalSigned' = [finalSigned EXCEPT ![w] = signers]
  /\ Submit(w, requests)
  /\ IF signers = Wallet /\ ~IsPartlyDirectFunded(w) THEN Succeed(w, "CloseChannel")
     ELSE UNCHANGED objective
  /\ UNCHANGED <<funded, transferredOut, status, tasks, finalizing, onChain, first>>

\* ChannelDefunder.crank succeeds with the submission, whatever becomes of it.
CrankDefund(w) ==
  LET requests == Requests(w, finalSigned[w], TRUE) IN
  /\ objective[w]["DefundChannel"] = "approved"
  /\ requests # {} /\ ~Throws(requests)
  /\ Submit(w, requests)
  /\ Succeed(w, "DefundChannel")
  /\ UNCHANGED <<finalSigned, funded, transferredOut, status, tasks, finalizing, onChain,
                 first>>

\* ChallengeSubmitter.crank challenges with the initial support, once.
CrankChallenge(w) ==
  /\ objective[w]["SubmitChallenge"] = "approved"
  /\ Mode(status[w]) = "Open"
  /\ ~request[w].challenge
  /\ request' = [request EXCEPT ![w].challenge = TRUE]
  /\ HandOver(w, {[do |-> "challenge", outcome |-> "initial"]})
  /\ Succeed(w, "SubmitChallenge")
  /\ UNCHANGED <<finalSigned, funded, transferredOut, status, tasks, finalizing, onChain,
                 first>>

\* ChainServiceRequest.isValid no longer holds ten minutes later.
RequestTimeout(w) ==
  /\ request[w].withdraw.recent
  /\ request' = [request EXCEPT ![w].withdraw.recent = FALSE]
  /\ UNCHANGED <<finalSigned, objective, funded, transferredOut, status, memory,
                 onChain, first, faults>>

-------------------------------------------------------------------------------
(* ChainService and the contract.                                               *)

OnChainMode == Mode([finalizesAt |-> chain.finalizesAt, blockTimestamp |-> time])
Trackers(w) == IF w \in Twice THEN {1, 2} ELSE {1}

\* addFinalizingChannel ignores a channel that it lists.
Listed(w, finalizesAt) == IF finalizing[w] = Unlisted THEN finalizesAt ELSE finalizing[w]

RegisterTask(w) == [do |-> "register", finalizesAt |-> chain'.finalizesAt,
                    states |-> chain'.outcome]
\* getAllocationUpdatedEvent: what the transaction of the event has paid out.
AllocationUpdatedEvent(pays) == [pays |-> pays]
PayoutTask(k, pays) ==
  [do |-> "payout", tracker |-> k, event |-> AllocationUpdatedEvent(pays)]

\* The contract's require statements (every challenge is with the initial support).
Accepts(tx) ==
  CASE tx.do = "challenge" -> OnChainMode = "Open" /\ chain.turn <= 1
    [] tx.do = "conclude"  -> OnChainMode # "Finalized"
    [] tx.do = "withdraw"  -> OnChainMode = "Finalized" /\ chain.outcome = tx.outcome

Challenge ==
  /\ chain' = [turn |-> 1, finalizesAt |-> time + ChallengeDuration, outcome |-> "initial"]
  /\ tasks' = [w \in Wallet |-> tasks[w] \cup {RegisterTask(w)}]
  /\ finalizing' = [w \in Wallet |-> Listed(w, time + ChallengeDuration)]
  /\ UNCHANGED paid

\* A transfer of the outcome o, the channel being finalized with it: the status
\* goes with the last funds.
Transfer(o, statusBefore) ==
  /\ paid' = IF paid = "nothing" THEN o ELSE paid
  /\ chain' = IF paid = "nothing" THEN NoStatus ELSE statusBefore
  /\ tasks' = [w \in Wallet |-> tasks[w] \cup
                 {PayoutTask(k, paid = "nothing") : k \in Trackers(w)}]

Conclude ==
  /\ Transfer("latest", [turn |-> 0, finalizesAt |-> time, outcome |-> "latest"])
  /\ finalizing' = [w \in Wallet |-> Listed(w, time)]

Withdraw(o) == Transfer(o, chain) /\ UNCHANGED finalizing

Mine(w, tx) ==
  /\ tx \in pending[w]
  /\ pending' = [pending EXCEPT ![w] = @ \ {tx}]
  /\ IF ~Accepts(tx) THEN UNCHANGED <<chain, paid, tasks, finalizing>>
     ELSE CASE tx.do = "challenge" -> Challenge
            [] tx.do = "conclude"  -> Conclude
            [] tx.do = "withdraw"  -> Withdraw(tx.outcome)
  /\ UNCHANGED <<tables, time, expired, first, faults>>

\* Bound: ChallengeRegistered is handled before the next block.
Tick ==
  /\ time < MaxTime
  /\ \A w \in Wallet : \A t \in tasks[w] : t.do # "register"
  /\ time' = time + 1
  /\ expired' = IF chain.finalizesAt = time + 1 THEN expired \cup {chain.outcome} ELSE expired
  /\ UNCHANGED <<tables, memory, chain, paid, first, faults>>

\* checkFinalizingChannels, on a new block.
CheckFinalizing(w) ==
  /\ finalizing[w] # Unlisted /\ finalizing[w] <= time
  /\ \/ /\ chain.finalizesAt = finalizing[w]
        /\ finalizing' = [finalizing EXCEPT ![w] = Unlisted]
        /\ tasks' = [tasks EXCEPT ![w] = @ \cup
                       {[do |-> "finalized", finalizesAt |-> chain.finalizesAt,
                         blockTimestamp |-> time]}]
     \/ /\ chain.finalizesAt # finalizing[w]
        /\ finalizing' = [finalizing EXCEPT ![w] = chain.finalizesAt]
        /\ UNCHANGED tasks
  /\ UNCHANGED <<tables, pending, onChain, first, faults>>

-------------------------------------------------------------------------------
(* The wallet's chain listener: a table is written, then the objectives are       *)
(* cranked.                                                                     *)

Done(w, t) == [tasks EXCEPT ![w] = @ \ {t}]

\* A mutant: the row is finalized as it is inserted.
ChallengeRegisteredAsFinal(w, t) ==
  /\ t \in tasks[w] /\ t.do = "register"
  /\ tasks' = Done(w, t)
  /\ IF status[w] = NoRow
     THEN status' = [status EXCEPT ![w] = [finalizesAt |-> t.finalizesAt,
                                           blockTimestamp |-> t.finalizesAt, states |-> t.states]]
     ELSE UNCHANGED status
  /\ UNCHANGED <<finalSigned, objective, request, funded, transferredOut,
                 pending, finalizing, onChain, first, faults>>

\* AdjudicatorStatusModel.insertAdjudicatorStatus: on a row that exists the insert
\* throws, and the listener with it.
ChallengeRegistered(w, t) ==
  /\ t \in tasks[w] /\ t.do = "register"
  /\ tasks' = Done(w, t)
  /\ IF status[w] = NoRow
     THEN status' = [status EXCEPT ![w] = [finalizesAt |-> t.finalizesAt,
                                           blockTimestamp |-> 0, states |-> t.states]]
     ELSE UNCHANGED status
  /\ UNCHANGED <<finalSigned, objective, request, funded, transferredOut,
                 pending, finalizing, onChain, first, faults>>

\* markAdjudicatorStatusAsFinalized is not waited for: the crank may come first.
ChannelFinalized(w, t) ==
  /\ t \in tasks[w] /\ t.do = "finalized"
  /\ tasks' = Done(w, t)
  /\ status' = [status EXCEPT ![w] =
       IF @ = NoRow THEN [finalizesAt |-> t.finalizesAt,
                          blockTimestamp |-> t.blockTimestamp, states |-> "no states"]
       ELSE [@ EXCEPT !.blockTimestamp = t.blockTimestamp]]
  /\ UNCHANGED <<finalSigned, objective, request, funded, transferredOut,
                 pending, finalizing, onChain, first, faults>>

\* Store.updateTransferredOut, which is not waited for either: the listener's cranks
\* are tasks of their own.
AllocationUpdated(w, t) ==
  /\ t \in tasks[w] /\ t.do = "payout"
  /\ transferredOut' = [transferredOut EXCEPT ![w] = @ + (IF t.event.pays THEN 1 ELSE 0)]
  /\ funded' = [funded EXCEPT ![w] = FALSE]
  /\ tasks' = Done(w, t)
  /\ UNCHANGED <<finalSigned, objective, request, status, pending, finalizing, onChain,
                 first, faults>>

\* The process dies and starts again.  Every channel is registered, whatever its
\* status: the holdings of the confirmed block are reported, the events since then
\* are played, and the channel is listed if its status on chain has a finalization
\* time.
Restart(w) ==
  /\ w \in Unreliable /\ faults < MaxFaults
  /\ RestartInChallenge \/ chain.finalizesAt = 0
  /\ faults' = faults + 1
  /\ finalizing' = [finalizing EXCEPT ![w] = chain.finalizesAt]
  /\ \E replays \in IF paid = "nothing" THEN {FALSE} ELSE BOOLEAN :
       /\ funded' = [funded EXCEPT ![w] = @ /\ (paid = "nothing" \/ replays)]
       /\ tasks' = [tasks EXCEPT ![w] =
                      IF replays THEN {PayoutTask(k, TRUE) : k \in Trackers(w)} ELSE {}]
  /\ UNCHANGED <<finalSigned, objective, request, transferredOut, status, pending,
                 onChain, first>>

-------------------------------------------------------------------------------
(* What an application is told of the funding.                                   *)

\* A mutant: whoever asks, somebody was paid.
DefundedByAnybody(w) ==
  IF HasFinalState(w) /\ transferredOut[w] > 0 THEN "Defunded" ELSE "Uncategorized"

\* directFundingStatus, of the supported outcome and the funding row.  Its amounts are
\* those of the payouts that the row records.
DirectFundingStatus(w) ==
  LET amount == IF funded[w] THEN Total ELSE 0
      transferredTo(v) == IF transferredOut[w] = 0 THEN 0 ELSE transferredOut[w] * Share[paid][v]
      toMe == transferredTo(w)
      toAll == transferredTo(0) + transferredTo(1)
      before == TargetBefore(w)
  IN IF HasFinalState(w) /\ toMe >= Share["latest"][w] THEN "Defunded"
     ELSE IF toMe = 0 /\ amount >= Total THEN "Funded"
     ELSE IF toAll = 0 /\ amount \in before .. before + Share["latest"][w] - 1 THEN "ReadyToFund"
     ELSE "Uncategorized"

-------------------------------------------------------------------------------
Crank(w) == CrankClose(w) \/ CrankDefund(w) \/ CrankChallenge(w)

Listen(w) == \E t \in tasks[w] :
               ChallengeRegistered(w, t) \/ ChannelFinalized(w, t) \/ AllocationUpdated(w, t)

Next ==
  \/ \E w \in Wallet :
       \/ \E o \in Objective : Commence(w, o)
       \/ PushMessage(w) \/ SyncObjectives(w) \/ AnswerSync(w)
       \/ Crank(w) \/ Listen(w)
       \/ RequestTimeout(w) \/ CheckFinalizing(w) \/ Restart(w)
       \/ \E r \in pending[w] : Mine(w, r)
  \/ Tick

Spec == Init /\ [][Next]_vars

\* A process does what it has heard of, its transactions are mined in the end, and
\* the sync interval of a wallet that runs comes again and again.  No message has
\* to arrive.
Fairness ==
  /\ WF_vars(Tick)
  /\ \A w \in Wallet :
       /\ WF_vars(CrankClose(w))
       /\ WF_vars(CrankDefund(w) \/ CrankChallenge(w) \/ Listen(w) \/ CheckFinalizing(w))
       /\ WF_vars(\E r \in pending[w] : Mine(w, r))
       /\ WF_vars(RequestTimeout(w))
       /\ WF_vars(SyncObjectives(w)) /\ WF_vars(AnswerSync(w))

FairSpec == Spec /\ Fairness

-------------------------------------------------------------------------------
ClosingTypeOK ==
  /\ finalSigned \in [Wallet -> SUBSET Wallet]
  /\ objective \in [Wallet -> [Objective -> {"none", "approved", "succeeded"}]]
  /\ request \in [Wallet -> [withdraw : [attempts : 0 .. Retries,
                                         recent : BOOLEAN],
                             challenge : BOOLEAN]]
  /\ funded \in [Wallet -> BOOLEAN]
  /\ transferredOut \in [Wallet -> Nat]
  /\ status \in [Wallet -> [finalizesAt : Nat, blockTimestamp : 0 .. MaxTime,
                            states : Outcome \cup {"no row", "no states"}]]
  /\ finalizing \in [Wallet -> 0 .. MaxTime + ChallengeDuration]
  /\ chain \in [turn : 0 .. 1, finalizesAt : 0 .. MaxTime + ChallengeDuration,
                outcome : Outcome \cup {"none"}]
  /\ paid \in Outcome \cup {"nothing"}
  /\ expired \subseteq Outcome
  /\ time \in 1 .. MaxTime /\ faults \in 0 .. MaxFaults /\ first \in Wallet

\* The two wallets and the chain keep what ChannelClosure promises: the funds leave
\* by an outcome that was agreed on or not answered in time, and no wallet's
\* CloseChannel objective succeeds while it has a share in the channel.
Closure == INSTANCE ChannelClosure WITH
             agreed <- {w \in Wallet : w \in finalSigned[w]},
             closed <- {w \in Wallet : objective[w]["CloseChannel"] = "succeeded"}
KeepsClosure == Closure!ClosureSpec

\* No application is told that its channel is defunded before it has its share, nor that
\* it is funded once the payout is recorded (directFundingStatus).
FundingStatusTrue(w) ==
  /\ DirectFundingStatus(w) = "Defunded" /\ Share["latest"][w] > 0 =>
       paid # "nothing" /\ Share[paid][w] >= Share["latest"][w]
  /\ DirectFundingStatus(w) = "Funded" =>
       paid = "nothing" \/ transferredOut[w] = 0

\* While the funds are there, a wallet whose adjudicator_status row calls the channel
\* finalized is right, and the states of the row, if it has any, are the ones that
\* withdraw them ("we are assuming that we submitted the challenge", defunder.ts:129).
RowsAreTrue ==
  \A w \in Wallet :
    Finalized(w) /\ paid = "nothing" =>
      OnChainMode = "Finalized" /\ status[w].states \in {chain.outcome, "no states"}

\* What a wallet has stored of the chain is true, and so is the funding status that an
\* application is told.
FinalizedOnChain ==
  /\ ClosingTypeOK
  /\ RowsAreTrue
  /\ \A w \in Wallet : FundingStatusTrue(w)

\* Whoever starts to close a channel closes it, whatever is lost and although the
\* peer may challenge, as long as the submitter has not tried twice in vain.
GivenUp == request[Submitter].withdraw.attempts >= Retries

ChannelClosesOrGivesUp ==
  \A w \in Wallet : objective[w]["CloseChannel"] = "approved"
                      ~> objective[w]["CloseChannel"] = "succeeded" \/ GivenUp
===============================================================================
