------------------------------ MODULE RichOpening ------------------------------
(* Browser wallets open a directly funded channel with the protocol of           *)
(* wallet-core's direct-funder ("wallet 2.0"): a rich objective in memory, and   *)
(* cranks of it that wait for the private key before they write.                 *)
EXTENDS Integers, Sequences, FiniteSets, SequencesExt, ChannelStoreEntry, WalletRequests

CONSTANTS nWallets, Amount,
          Overlapping,    \* wallets that may start a crank while another one waits
                          \* for the key: bound, two at a time
          MaxApprovals,   \* bound: CREATE or JOIN requests of each wallet
          Impatient,      \* users whose UI triggers a Crank event, once each
          Updaters,       \* participants whose wallet goes on to update the application
          MayReject       \* users who may reject the deposit, once each

VARIABLES holdings, postfunded, opened
O == INSTANCE ChannelOpening

Wallet == 0 .. nWallets - 1
Creator == 0
ASSUME AmountAssumption == nWallets \in Nat \ {0} /\ Amount \in [Wallet -> Nat]

VARIABLES entry,          \* w -> its stored states of the channel
          objective,      \* w -> its rich objective
          cranks,         \* w -> the cranks that wait for the private key, in order
          running,        \* w -> the cranks that perform their actions
          net,            \* messages on their way
          mempool,        \* deposits on their way: [from, before, amount]
          notices,        \* w -> the Deposited events it has not processed
          approvals, triggered, rejected,  \* what the bounds count
          overtaken       \* history: a crank wrote over the result of another one,
                          \* a message or an event overtook an earlier one

opening == <<holdings, postfunded, opened>>
wallets == <<entry, objective, cranks, running>>
inputs == <<approvals, triggered, rejected>>
vars == <<opening, wallets, net, mempool, notices, inputs, overtaken>>

-------------------------------------------------------------------------------
(* The objective and its cranker.                                               *)

NoObjective == [status |-> "none"]
Step == {"preFundSetup", "postFundSetup"}
TurnNum(step) == IF step = "preFundSetup" THEN 0 ELSE 2 * nWallets - 1
SetupState(step, signers) == SignedState(TurnNum(step), FALSE, "opening", signers)

\* initialize: the signatures the opening state came with count.
Initialize(signers) ==
  [status |-> "approval", approved |-> FALSE, preFundSetup |-> signers,
   postFundSetup |-> {}, funding |-> 0, fundingRequest |-> FALSE]

Completed(o, step) == o[step] = Wallet
Error == <<[type |-> "handleError"]>>
SendStates(steps) ==
  IF steps = {} THEN <<>> ELSE <<[type |-> "sendStates", steps |-> steps]>>

\* The first part of openChannelCranker: the event is processed.
Processed(o, event) ==
  CASE event.type = "Approval" -> [o EXCEPT !.approved = TRUE]
    [] event.type = "DepositSubmitted" -> [o EXCEPT !.fundingRequest = TRUE]
    [] event.type = "FundingUpdated" -> [o EXCEPT !.funding = event.amount]
    [] event.type = "StatesReceived" /\ event.step \in Step ->
         [o EXCEPT ![event.step] = @ \cup event.signers]
    [] event.type = "StatesReceived" /\ event.step \notin Step -> [o EXCEPT !.status = "error"]
    [] OTHER -> o

\* Mutants: whoever sees less than the total deposits; a request counts as a deposit;
\* a wallet waits for more than those before it deposit.
FundingImpatient(w, o, event) ==
  IF o.funding >= O!TargetTotal THEN "funded"
  ELSE IF o.fundingRequest THEN "channelFunded" ELSE "deposit"

FundingTrusting(w, o, event) ==
  CASE o.funding >= O!TargetTotal \/ o.fundingRequest -> "funded"
    [] o.funding < O!TargetBefore(w) -> "safeToDeposit"
    [] OTHER -> "deposit"

FundingOffByOne(w, o, event) ==
  CASE o.funding >= O!TargetTotal -> "funded"
    [] w > 0 /\ o.funding <= O!TargetBefore(w) -> "safeToDeposit"
    [] OTHER -> IF o.fundingRequest THEN "channelFunded" ELSE "deposit"

\* utils.fundingMilestone, and the branches on it: who waits for what.  A crank that
\* the UI triggered may be late enough for a timeout.
Funding(w, o, event) ==
  CASE o.funding >= O!TargetTotal -> "funded"
    [] o.funding < O!TargetBefore(w) -> "safeToDeposit"
    [] O!TargetAfter(w) <= o.funding /\ o.funding < O!TargetTotal -> "channelFunded"
    [] OTHER -> IF ~o.fundingRequest THEN "deposit"
                ELSE IF event.type = "Crank" /\ event.late THEN "error" ELSE "channelFunded"

\* The second part: the transitions, and the actions they ask for.
Advance(w, o, event) ==
  LET prefund == [o EXCEPT !.preFundSetup = @ \cup {w}]
      postfund == [prefund EXCEPT !.postFundSetup = @ \cup {w}]
      Unsigned(step) == IF w \in o[step] THEN {} ELSE {step}
      step == Funding(w, prefund, event)
      Result(result, status, actions) ==
        [objective |-> [result EXCEPT !.status = status], actions |-> actions]
  IN CASE ~o.approved -> Result(o, "approval", <<>>)
       [] o.approved /\ ~Completed(prefund, "preFundSetup") ->
            Result(prefund, "theirPreFundSetup", SendStates(Unsigned("preFundSetup")))
       [] o.approved /\ Completed(prefund, "preFundSetup") /\ step # "funded" ->
            Result(prefund, IF step = "deposit" THEN "channelFunded" ELSE step,
                   SendStates(Unsigned("preFundSetup")) \o
                     CASE step = "deposit" ->
                            <<[type |-> "deposit", amount |-> O!TargetAfter(w) - o.funding]>>
                       [] step = "error" -> Error
                       [] OTHER -> <<>>)
       [] OTHER ->
            Result(postfund,
                   IF Completed(postfund, "postFundSetup") THEN "success"
                   ELSE "theirPostFundSetup",
                   SendStates(Unsigned("preFundSetup") \cup Unsigned("postFundSetup")))

OpenChannelCranker(w, o, event) ==
  LET processed == Processed(o, event)
  IN IF event.type = "StatesReceived" /\ event.step \notin Step
     THEN [objective |-> processed, actions |-> Error]
     ELSE Advance(w, processed, event)

-------------------------------------------------------------------------------
(* A wallet.  crankRichObjective takes the objective it finds, and waits.        *)

\* The queue of waiting cranks after one more with this event.
Cranking(w, event) ==
  IF objective[w] = NoObjective THEN cranks
  ELSE [cranks EXCEPT ![w] = Append(@, [event |-> event, snapshot |-> objective[w]])]
RoomToCrank(w) == Len(cranks[w]) < IF w \in Overlapping THEN 2 ELSE 1

Init ==
  /\ O!OpeningInit
  /\ entry = [w \in Wallet |-> {}]
  /\ objective = [w \in Wallet |-> NoObjective]
  /\ cranks = [w \in Wallet |-> <<>>] /\ running = [w \in Wallet |-> <<>>]
  /\ net = {} /\ mempool = {}
  /\ notices = [w \in Wallet |-> {}]
  /\ approvals = [w \in Wallet |-> 0] /\ triggered = {} /\ rejected = {}
  /\ overtaken = FALSE

\* CREATE_CHANNEL: Store.createAndStoreOpenChannelObjective.
CreateChannel ==
  /\ objective[Creator] = NoObjective
  /\ \E request \in CreateChannelRequests :
       Starts(request, EnabledView(Creator), {}, "createAndStoreOpenChannelObjective") # {}
  /\ objective' = [objective EXCEPT ![Creator] = Initialize({})]
  /\ UNCHANGED <<opening, entry, cranks, running, net, mempool, notices, inputs, overtaken>>

\* JOIN_CHANNEL, or the creator's own approval: approveRichObjective.
Approve(w) ==
  /\ objective[w] # NoObjective
  /\ Starts(JoinChannelRequest, EnabledView(w), {}, "approveRichObjective") # {}
  /\ approvals[w] < MaxApprovals /\ RoomToCrank(w)
  /\ approvals' = [approvals EXCEPT ![w] = @ + 1]
  /\ cranks' = Cranking(w, [type |-> "Approval"])
  /\ UNCHANGED <<opening, entry, objective, running, net, mempool, notices, triggered,
                 rejected, overtaken>>

\* The callback of setTriggerObjectiveEvent, with the time.  Bound: while the wallet
\* waits for the chain, as the timeout is about.
Trigger(w, late) ==
  /\ objective[w].status = "channelFunded"
  /\ w \in Impatient \ triggered /\ RoomToCrank(w)
  /\ triggered' = triggered \cup {w}
  /\ cranks' = Cranking(w, [type |-> "Crank", late |-> late])
  /\ UNCHANGED <<opening, entry, objective, running, net, mempool, notices, approvals,
                 rejected, overtaken>>

\* The private key is there: the first waiting crank runs and stores its result.
RunCrank(w) ==
  /\ cranks[w] # <<>>
  /\ \E crank \in {Head(cranks[w])} :
     \E result \in {OpenChannelCranker(w, crank.snapshot, crank.event)} :
       /\ cranks' = [cranks EXCEPT ![w] = Tail(@)]
       /\ objective' = [objective EXCEPT ![w] = result.objective]
       /\ running' = IF result.actions = <<>> THEN running
                     ELSE [running EXCEPT ![w] =
                             Append(@, [approval |-> crank.event.type = "Approval",
                                        todo |-> result.actions])]
       /\ postfunded' = IF w \in result.objective.postFundSetup
                        THEN postfunded \cup {w} ELSE postfunded
       /\ opened' = IF result.objective.status = "success" THEN opened \cup {w} ELSE opened
       /\ overtaken' = (overtaken \/ crank.snapshot # objective[w])
  /\ UNCHANGED <<holdings, entry, net, mempool, notices, inputs>>

\* The handler goes on after an action, or ends.
Done(w, k) ==
  LET left == Tail(running[w][k].todo)
  IN running' = IF left = <<>> THEN [running EXCEPT ![w] = RemoveAt(@, k)]
                ELSE [running EXCEPT ![w][k].todo = left]
Action(w, k) == Head(running[w][k].todo)

StateMessage(to, step, signers) ==
  [to |-> to, type |-> "state", step |-> step, signers |-> signers]
ObjectiveMessage(to) == [to |-> to, type |-> "objective"]
ToOthers(w, Message(_)) == {Message(v) : v \in Wallet \ {w}}
Sent(w, step) == {StateMessage(v, step, {w}) : v \in Wallet \ {w}}

\* sendObjective, after each action of a crank that an approval brought about.
SendObjective(w, k) ==
  IF running[w][k].approval /\ w = Creator THEN ToOthers(w, ObjectiveMessage) ELSE {}

\* Store.addState stores my signature and puts it into the outbox.
PerformSendStates(w, k) ==
  LET steps == Action(w, k).steps
      Add(e, step) == IF step \in steps THEN AddState(nWallets, e, SetupState(step, {w})) ELSE e
  IN /\ Action(w, k).type = "sendStates"
     /\ entry' = [entry EXCEPT ![w] = Add(Add(@, "preFundSetup"), "postFundSetup")]
     /\ net' = net \cup (UNION {Sent(w, step) : step \in steps}) \cup SendObjective(w, k)
     /\ Done(w, k)
     /\ UNCHANGED <<opening, objective, cranks, mempool, notices, inputs, overtaken>>

\* ChainWatcher.deposit: the user confirms, and the transaction is sent.
SubmitDeposit(w, k) ==
  /\ Action(w, k).type = "deposit"
  /\ mempool' = mempool \cup
       {[from |-> w, before |-> O!TargetBefore(w), amount |-> Action(w, k).amount]}
  /\ running' = [running EXCEPT ![w][k].todo = <<[type |-> "submitted"]>> \o Tail(@)]
  /\ UNCHANGED <<opening, entry, objective, cranks, net, notices, inputs, overtaken>>

\* It is sent: the handler cranks the objective again.
DepositSubmitted(w, k) ==
  /\ Action(w, k).type = "submitted" /\ RoomToCrank(w)
  /\ cranks' = Cranking(w, [type |-> "DepositSubmitted"])
  /\ net' = net \cup SendObjective(w, k)
  /\ Done(w, k)
  /\ UNCHANGED <<opening, entry, objective, mempool, notices, inputs, overtaken>>

\* The user rejects it, or the crank asked for handleError: the handler throws.
Throw(w, k) ==
  /\ \/ Action(w, k).type = "handleError" /\ UNCHANGED rejected
     \/ Action(w, k).type = "deposit" /\ w \in MayReject \ rejected
        /\ rejected' = rejected \cup {w}
  /\ running' = [running EXCEPT ![w] = RemoveAt(@, k)]
  /\ UNCHANGED <<opening, entry, objective, cranks, net, mempool, notices, approvals,
                 triggered, overtaken>>

-------------------------------------------------------------------------------
(* Messages, each delivered once, and the chain.                                *)

\* Store.pushMessage and pushMessage2 with states: stored, then sent to the objective.
ReceiveStates(w, message) ==
  /\ message \in net /\ message.to = w /\ message.type = "state"
  /\ objective[w] # NoObjective => RoomToCrank(w)
  /\ net' = net \ {message}
  /\ entry' = [entry EXCEPT ![w] =
                 AddState(nWallets, @, IF message.step \in Step
                                       THEN SetupState(message.step, message.signers)
                                       ELSE SignedState(2 * nWallets, FALSE, "app",
                                                        message.signers))]
  /\ cranks' = Cranking(w, [type |-> "StatesReceived", step |-> message.step,
                            signers |-> message.signers])
  /\ overtaken' = (overtaken \/ message.step = "app")
  /\ UNCHANGED <<opening, objective, running, mempool, notices, inputs>>

\* createAndStoreRichObjectiveFromObjective throws when it is too early or too late.
ReceiveObjective(w) ==
  LET latest == LatestOf(entry[w])
      creates == objective[w] = NoObjective /\ entry[w] # {}
  IN /\ ObjectiveMessage(w) \in net
     /\ net' = net \ {ObjectiveMessage(w)}
     /\ objective' = IF creates /\ latest.turn = 0
                     THEN [objective EXCEPT ![w] = Initialize(latest.signers)] ELSE objective
     /\ overtaken' = (overtaken \/ entry[w] = {})
     /\ UNCHANGED <<opening, entry, cranks, running, mempool, notices, inputs>>

\* A peer that is done, and has another wallet, updates the application.
PeerUpdates(w) ==
  /\ w \in opened /\ w \in Updaters \ triggered
  /\ triggered' = triggered \cup {w}
  /\ net' = net \cup {StateMessage(v, "app", {w}) : v \in Wallet \ {w}}
  /\ UNCHANGED <<opening, wallets, mempool, notices, approvals, rejected, overtaken>>

\* The contract tops up to before + amount; the event goes to registered wallets.
MineDeposit(tx) ==
  LET mined == holdings >= tx.before /\ holdings < tx.before + tx.amount
  IN /\ tx \in mempool
     /\ mempool' = mempool \ {tx}
     /\ holdings' = IF mined THEN tx.before + tx.amount ELSE holdings
     /\ notices' = [w \in Wallet |->
                      IF mined /\ objective[w] # NoObjective
                      THEN notices[w] \cup {tx.before + tx.amount} ELSE notices[w]]
     /\ UNCHANGED <<postfunded, opened, wallets, net, inputs, overtaken>>

\* chainUpdatedFeed asks the chain for the rest of its information before it passes
\* an event on, so events may overtake each other.
FundingUpdated(w, amount) ==
  /\ amount \in notices[w] /\ RoomToCrank(w)
  /\ notices' = [notices EXCEPT ![w] = @ \ {amount}]
  /\ cranks' = Cranking(w, [type |-> "FundingUpdated", amount |-> amount])
  /\ overtaken' = (overtaken \/ \E earlier \in notices[w] : earlier < amount)
  /\ UNCHANGED <<opening, entry, objective, running, net, mempool, inputs>>

Perform(w, k) ==
  PerformSendStates(w, k) \/ SubmitDeposit(w, k) \/ DepositSubmitted(w, k) \/ Throw(w, k)

Next ==
  \/ CreateChannel
  \/ \E w \in Wallet :
       \/ Approve(w) \/ RunCrank(w) \/ ReceiveObjective(w) \/ PeerUpdates(w)
       \/ \E late \in BOOLEAN : Trigger(w, late)
       \/ \E k \in 1 .. Len(running[w]) : Perform(w, k)
       \/ \E message \in net : ReceiveStates(w, message)
       \/ \E amount \in notices[w] : FundingUpdated(w, amount)
  \/ \E tx \in mempool : MineDeposit(tx)

Spec == Init /\ [][Next]_vars

-------------------------------------------------------------------------------
(* Safety.                                                                      *)

\* Type correctness of the objectives, the store and what is on its way.
RichTypeOK ==
  /\ \A w \in Wallet : objective[w] # NoObjective =>
       objective[w] \in
         [status : {"approval", "theirPreFundSetup", "safeToDeposit", "channelFunded",
                    "theirPostFundSetup", "success", "error"},
          approved : BOOLEAN, preFundSetup : SUBSET Wallet, postFundSetup : SUBSET Wallet,
          funding : 0 .. O!TargetTotal, fundingRequest : BOOLEAN]
  /\ \A w \in Wallet : InvariantsHold(entry[w]) /\ notices[w] \subseteq 1 .. O!TargetTotal
  /\ \A tx \in mempool : tx.amount \in 1 .. O!TargetTotal

\* What an objective takes for signed by others is in the store, where a restarted
\* workflow or a challenge would look for it.
ObjectiveIsStored ==
  /\ RichTypeOK
  /\ \A w \in Wallet : objective[w] # NoObjective =>
    \A step \in Step : \A v \in objective[w][step] \ {w} :
      \E s \in entry[w] : s.turn >= TurnNum(step) /\ v \in s.signers

\* A wallet has what it takes to get its money back: the signatures of all others on
\* the opening state, to which it can add its own, or a later state that is supported.
Secured(w) ==
  \/ IsSupported(nWallets, entry[w])
  \/ \A v \in Wallet \ {w} : \E s \in entry[w] : s.turn = 0 /\ v \in s.signers

\* Nobody's money leaves for the chain before everybody else signed the state that says
\* how to get it back, and before those who come first have paid in; nor does a later
\* state, or a crank that was late, take that state away.
DepositsAreSafe ==
  /\ ObjectiveIsStored
  /\ \A tx \in mempool : Secured(tx.from) /\ holdings >= tx.before

\* The rich objectives open a channel as ChannelOpening demands, whatever cranks
\* write over each other, and however often a deposit is asked for.
RichOpeningSpec == O!OpeningSpec

-------------------------------------------------------------------------------
(* Liveness.  A page that is open runs its handlers, the app joins, the network  *)
(* delivers, and the chain mines and reports.  There is no retry and no sync.    *)
Fairness ==
  /\ \A w \in Wallet :
       /\ WF_vars(Approve(w) /\ approvals[w] = 0)
       /\ WF_vars(RunCrank(w)) /\ WF_vars(ReceiveObjective(w))
       /\ WF_vars(\E k \in 1 .. Len(running[w]) : Perform(w, k))
       /\ WF_vars(\E message \in net : ReceiveStates(w, message))
       /\ WF_vars(\E amount \in notices[w] : FundingUpdated(w, amount))
  /\ \A tx \in {[from |-> w, before |-> O!TargetBefore(w), amount |-> Amount[w]] : w \in Wallet} :
       WF_vars(MineDeposit(tx))

FairSpec == Spec /\ Fairness

\* A channel that was created is opened by everybody, unless a crank wrote over what
\* another one had stored, a message or an event was overtaken, or a user refused to
\* deposit: then nothing ever starts the objective again.
RichChannelOpens ==
  objective[Creator] # NoObjective ~> opened = Wallet \/ overtaken \/ rejected # {}
================================================================================
