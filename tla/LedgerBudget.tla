------------------------------ MODULE LedgerBudget ------------------------------
(* The ledger between a player and a hub, and the budget it backs, in the       *)
(* browser wallet: the application asks to enable Ethereum, to approve a budget *)
(* and fund a ledger, and to close the ledger and withdraw (messaging.ts,        *)
(* ethereum-enable.ts, approve-budget-and-fund.ts, close-ledger-and-withdraw.ts).*)
(* The hub runs create-and-fund-ledger.ts and close-ledger-and-withdraw.ts on   *)
(* what it receives, as approve-budget.test.ts and close-withdraw.test.ts have   *)
(* it do.                                                                       *)
EXTENDS Integers, Sequences, FiniteSets, ChannelStoreEntry, WalletRequests

CONSTANTS Budgets,        \* the budgets that may be asked for: [send, receive]
          Policies,       \* what the hub deposits: "all", or its "share"
          MaxLedgers,     \* bound: how many budgets are approved
          MaxClosings     \* bound: how often a wallet starts to close a ledger

ASSUME BudgetAssumption ==
  /\ Budgets \subseteq [send : Nat \ {0}, receive : Nat]
  /\ Policies \subseteq {"all", "share"}
  /\ MaxLedgers \in Nat \ {0} /\ MaxClosings \in Nat \ {0}

VARIABLES policy,         \* what this hub deposits
          session,        \* where ethereum-enable is, and what it has set
          rich,           \* has the selected address what the budget takes?
          budget,         \* the budget the store has for the domain
          approving,      \* the workflow of approve-budget-and-fund
          funding,        \* l -> the hub's workflow of create-and-fund-ledger
          closing,        \* w -> k -> the workflows of close-ledger-and-withdraw
          entry,          \* w -> l -> the stored states of a ledger
          ledger,         \* w -> the ledger with the other, or NoLedger
          net,            \* signed states on their way: [to, ledger, state]
          amounts,        \* l -> what the chain held for it, from the first to now
          concluded,      \* the ledgers that were finalized on chain
          paidIn,         \* history: l -> w -> what w deposited
          hasty           \* history: a request came before the last was answered

wallets == <<session, rich, budget, approving, funding, closing, entry, ledger, net>>
chain == <<amounts, concluded, paidIn>>
vars == <<policy, wallets, chain, hasty>>

Wallet == {"player", "hub"}
Peer(w) == IF w = "player" THEN "hub" ELSE "player"
Index(w) == IF w = "player" THEN 0 ELSE 1
Ledgers == 1 .. MaxLedgers
NoLedger == 0
NoBudget == [send |-> 0, receive |-> 0]

\* What the requests of the application meet: the wallet, and the workflow ids in use.
View(w) ==
  [address |-> w, enabled |-> session.address,
   destination |-> IF session.destination THEN "account" ELSE NoDestination,
   budget |-> IF budget = NoBudget THEN {} ELSE {budget}]
Running == IF approving.at = "none" THEN {}
           ELSE CalculateWorkflowId([type |-> "APPROVE_BUDGET_AND_FUND", hub |-> AnotherHub])

-------------------------------------------------------------------------------
(* The store.                                                                   *)

Sum(b) == b.send + b.receive
Holdings(l) == amounts[l][Len(amounts[l])]
Mine(w, l) == LatestOf(SignedBy(entry[w][l], Index(w)))
SupportedBy(w, l, turn) ==
  IsSupported(2, entry'[w][l]) /\ Supported(2, entry'[w][l]).turn = turn

\* notifyWhenPreFSSupported: the opening state, and no later one, is supported.
NotifyWhenPreFSSupported(l) == SupportedBy("player", l, 0)

\* support-state.ts tells each workflow that waits for the state of that turn.
\* A watcher of the chain hears first of what there is.
ApprovalSettled ==
  IF approving.at = "waitForPreFS" /\ NotifyWhenPreFSSupported(approving.ledger)
  THEN [approving EXCEPT !.at = "init", !.seen = Len(amounts[approving.ledger]) - 1]
  ELSE approving
FundingSettled(flows) ==
  [l \in Ledgers |->
     IF flows[l].at = "supportPreFundState" /\ SupportedBy("hub", l, flows[l].turn)
     THEN [flows[l] EXCEPT !.at = "depositing", !.seen = Len(amounts[l]) - 1] ELSE flows[l]]
ClosingSettled(flows) ==
  [w \in Wallet |-> [k \in 1 .. MaxClosings |->
     IF flows[w][k].at = "supportState" /\ SupportedBy(w, flows[w][k].of, flows[w][k].turn)
     THEN [flows[w][k] EXCEPT !.at = "submitTransaction",
                              !.seen = Len(amounts[flows[w][k].ledger]) - 1]
     ELSE flows[w][k]]]

\* A transaction on ledger l of w has committed.
Stored(w, l, e, fundings, closings) ==
  /\ entry' = [entry EXCEPT ![w][l] = e]
  /\ funding' = FundingSettled(fundings)
  /\ closing' = ClosingSettled(closings)

\* Store.supportState: the last state I signed is not signed again, and one that comes
\* before it throws staleState; who waits for it to be supported waits on.
SupportState(w, l, state, fundings, closings) ==
  LET signers == {Index(w)} \cup
                 UNION {s.signers : s \in {t \in entry[w][l] : SameState(t, state)}}
      signed == [state EXCEPT !.signers = signers]
  IN IF MaySign(entry[w][l], Index(w), state.turn)
     THEN /\ Stored(w, l, AddState(2, entry[w][l], signed), fundings, closings)
          /\ net' = net \cup {[to |-> Peer(w), ledger |-> l, state |-> signed]}
     ELSE Stored(w, l, entry[w][l], fundings, closings) /\ UNCHANGED net

\* setNonce refuses a channel older than one that is known.
KnownNonce(w, l) == entry[w][l] # {} \/ \A k \in Ledgers : k > l => entry[w][k] = {}

\* Store.pushMessage
PushMessage(message) ==
  LET w == message.to
      l == message.ledger
  IN /\ net' = net \ {message}
     /\ PushedMessage(PushMessageRequest(message, message.to), View(w)) # {}
     /\ \E e \in {AddState(2, entry[w][l], message.state)} :
          IF KnownNonce(w, l) /\ InvariantsHold(e)
          THEN Stored(w, l, e, funding, closing) /\ approving' = ApprovalSettled
          ELSE UNCHANGED <<entry, funding, closing, approving>>
     /\ UNCHANGED <<policy, session, rich, budget, ledger, chain, hasty>>

-------------------------------------------------------------------------------
(* The chain.                                                                   *)

\* FakeChain.deposit, by w on top of what it expects.
Deposit(l, w, expectedHeld, amount) ==
  IF amount > 0 /\ Holdings(l) >= expectedHeld
  THEN /\ amounts' = [amounts EXCEPT ![l] = Append(@, Holdings(l) + amount)]
       /\ paidIn' = [paidIn EXCEPT ![l][w] = @ + amount]
       /\ UNCHANGED concluded
  ELSE UNCHANGED chain

FinalizeAndWithdraw(l) ==
  /\ amounts' = [amounts EXCEPT ![l] = Append(@, 0)]
  /\ concluded' = concluded \cup {l}
  /\ UNCHANGED paidIn

\* The next amount that a feed has not delivered yet.
More(flow, l) == flow.seen < Len(amounts[l])
NextAmount(flow, l) == amounts[l][flow.seen + 1]

-------------------------------------------------------------------------------
(* Enabling Ethereum.                                                           *)

Idle == approving.at = "none" /\ \A k \in 1 .. MaxClosings : closing["player"][k].at \in {"none", "done"}

\* Bound: one request comes out of turn.
Requested(outOfTurn) == (hasty => ~outOfTurn) /\ hasty' = (hasty \/ outOfTurn)

\* receiveRequest: answered at once when it was enabled before.
EnableEthereum ==
  /\ session.at = "none"
  /\ Starts(EnableEthereumRequest, View("player"), Running, "ethereumEnableWorkflow") # {}
  /\ session' = [session EXCEPT !.at = "explainToUser"]

UserApprovesEnable ==
  /\ session.at = "explainToUser"
  /\ session' = [session EXCEPT !.at = "enabling"]

\* USER_REJECTS_ENABLE, or the provider refuses.
EnableFails ==
  /\ session.at \in {"explainToUser", "enabling"}
  /\ session' = [session EXCEPT !.at = "none"]

EthereumEnabled ==
  /\ session.at = "enabling"
  /\ session' = [session EXCEPT !.at = "settingDestinationAddress", !.address = TRUE]

SetDestinationAddressIfEmpty ==
  /\ session.at = "settingDestinationAddress"
  /\ session' = [session EXCEPT !.at = "none", !.destination = TRUE]

Enabling ==
  /\ EnableEthereum \/ UserApprovesEnable \/ EnableFails \/ EthereumEnabled
       \/ SetDestinationAddressIfEmpty
  /\ UNCHANGED <<policy, rich, budget, approving, funding, closing, entry, ledger, net,
                 chain, hasty>>

-------------------------------------------------------------------------------
(* Approving a budget.                                                          *)

NoApproval == [at |-> "none", budget |-> NoBudget, ledger |-> NoLedger, seen |-> 0]
Approved == {l \in Ledgers : entry["player"][l] # {}}

\* APPROVE_BUDGET_AND_FUND: throws without a destination, or when one is under way.
ApproveBudgetAndFund ==
  /\ Cardinality(Approved) < MaxLedgers
  /\ \E request \in ApproveBudgetAndFundRequests(Budgets) :
       /\ request.hubParticipantId = AnotherHub
       /\ \E event \in Starts(request, View("player"), Running, "ApproveBudgetAndFund") :
            approving' = [NoApproval EXCEPT !.at = "waitForUserApproval",
                                            !.budget = event.budget]
  /\ Requested(~Idle \/ budget # NoBudget)
  /\ UNCHANGED <<policy, session, rich, budget, funding, closing, entry, ledger, net, chain>>

\* USER_APPROVES_BUDGET, USER_REJECTS_BUDGET
UserDecidesOnBudget ==
  /\ approving.at = "waitForUserApproval"
  /\ approving' \in {[approving EXCEPT !.at = "waitForSufficientFunds"], NoApproval}
  /\ UNCHANGED <<policy, session, rich, budget, funding, closing, entry, ledger, net, chain,
                 hasty>>

\* balanceUpdatedFeed of the selected address.
BalanceUpdated ==
  /\ ~rich /\ rich' = TRUE
  /\ UNCHANGED <<policy, session, budget, approving, funding, closing, entry, ledger, net,
                 chain, hasty>>

\* SUFFICIENT_FUNDS_DETECTED
NotifyWhenSufficientFunds ==
  /\ approving.at = "waitForSufficientFunds" /\ rich
  /\ approving' = [approving EXCEPT !.at = "createLedger"]
  /\ UNCHANGED <<policy, session, rich, budget, funding, closing, entry, ledger, net, chain,
                 hasty>>

\* createLedger: a channel with a new nonce, which becomes the ledger with this hub.
CreateLedger ==
  /\ approving.at = "createLedger"
  /\ \E l \in {Cardinality(Approved) + 1} :
       /\ SupportState("player", l, SignedState(0, FALSE, approving.budget, {}), funding, closing)
       /\ ledger' = [ledger EXCEPT !["player"] = l]
       /\ approving' = [approving EXCEPT !.at = "waitForPreFS", !.ledger = l]
  /\ UNCHANGED <<policy, session, rich, budget, chain, hasty>>

\* Mutants: I go first; what the hub puts in is the share it has in the budget.
NobodyBefore(b) == 0
OnlyMyShare(b) == b.send

\* calculateDepositInfo: "hub goes first", with as much as I put in.
DepositAt(b) == b.send
TotalAfterDeposit(b) == 2 * b.send

MyTurnNow(b, balance) == DepositAt(b) <= balance /\ balance < TotalAfterDeposit(b)
NotMyTurnYet(b, balance) == balance < DepositAt(b)
FullAmountConfirmed(b, balance) == balance >= TotalAfterDeposit(b)

\* What is missing to the total, on top of the balance of the last event.
SubmitDepositTransaction(b, l, balance) ==
  Deposit(l, "player", balance, TotalAfterDeposit(b) - balance)

\* CHAIN_EVENT: a nested state that reacts goes first, then the parent.  My deposit is
\* submitted in the same turn of the event loop.
ChainEvent ==
  LET b == approving.budget
      l == approving.ledger
      balance == NextAmount(approving, l)
      heard == [approving EXCEPT !.seen = @ + 1]
  IN /\ approving.at \in {"init", "waitTurn", "waitMining"} /\ More(approving, l)
     /\ \/ /\ approving.at \in {"init", "waitTurn"} /\ MyTurnNow(b, balance)
           /\ approving' = [heard EXCEPT !.at = "waitMining"]
           /\ SubmitDepositTransaction(b, l, balance)
        \/ /\ approving.at = "init" /\ NotMyTurnYet(b, balance)
           /\ approving' = [heard EXCEPT !.at = "waitTurn"]
           /\ UNCHANGED chain
        \/ /\ FullAmountConfirmed(b, balance)
           /\ approving' = [heard EXCEPT !.at = "createBudget"]
           /\ UNCHANGED chain
        \/ /\ ~FullAmountConfirmed(b, balance)
           /\ approving.at = "waitTurn" => ~MyTurnNow(b, balance)
           /\ approving.at # "init"
           /\ approving' = heard
           /\ UNCHANGED chain
     /\ UNCHANGED <<policy, session, rich, budget, funding, closing, entry, ledger, net, hasty>>

\* Store.createBudget: a budget that exists is logged as an error, and overwritten.
CreateBudget ==
  /\ approving.at = "createBudget"
  /\ budget' = approving.budget
  /\ approving' = NoApproval
  /\ UNCHANGED <<policy, session, rich, funding, closing, entry, ledger, net, chain, hasty>>

-------------------------------------------------------------------------------
(* The hub funds the ledger.                                                    *)

NoFunding == [at |-> "none", turn |-> 0, seen |-> 0]

\* getPreFundState: the latest state there is, whatever it is by now.
HubJoins(l) ==
  /\ funding[l].at = "none" /\ entry["hub"][l] # {}
  /\ \E latest \in {LatestOf(entry["hub"][l])} :
       SupportState("hub", l, latest,
                    [funding EXCEPT ![l] = [at |-> "supportPreFundState",
                                            turn |-> latest.turn, seen |-> 0]], closing)
  /\ ledger' = [ledger EXCEPT !["hub"] = l]
  /\ UNCHANGED <<policy, session, rich, budget, approving, chain, hasty>>

\* A mutant: the player's share comes first.
HubGoesSecond(b) == b.send

\* getDepositingInfo of participant 1: from the start, up to everything.  A hub that
\* keeps to its share deposits that.
HubDepositAt(b) == 0
HubTotal(b) == IF policy = "all" THEN Sum(b) ELSE b.receive

\* depositing.ts: FUNDED, SAFE_TO_DEPOSIT and submitDepositTransaction.
HubDeposits(l) ==
  LET b == Supported(2, entry["hub"][l]).outcome
      amount == NextAmount(funding[l], l)
  IN /\ funding[l].at = "depositing" /\ More(funding[l], l)
     /\ funding' = [funding EXCEPT ![l].seen = @ + 1,
                                   ![l].at = IF amount >= Sum(b) THEN "done" ELSE @]
     /\ IF HubDepositAt(b) <= amount /\ amount < Sum(b)
        THEN Deposit(l, "hub", amount, HubTotal(b) - amount) ELSE UNCHANGED chain
     /\ UNCHANGED <<policy, session, rich, budget, approving, closing, entry, ledger, net, hasty>>

-------------------------------------------------------------------------------
(* Closing and withdrawing.                                                     *)

NoClosing == [at |-> "none", ledger |-> NoLedger, of |-> NoLedger, turn |-> 0, seen |-> 0]
CloseGoto(w, k, flow) ==
  /\ closing' = [closing EXCEPT ![w][k] = flow]
  /\ UNCHANGED <<policy, session, rich, approving, funding, entry, ledger, net, hasty>>

\* CLOSE_AND_WITHDRAW: any number of times.  The hub starts when it sees a final state.
CloseAndWithdraw(w, k) ==
  /\ closing[w][k].at = "none" /\ \A j \in 1 .. k - 1 : closing[w][j].at # "none"
  /\ IF w = "player"
     THEN /\ \E request \in CloseAndWithdrawRequests :
               Starts(request, View(w), Running, "CloseLedgerAndWithdraw") # {}
          /\ Requested(~Idle \/ budget = NoBudget)
     ELSE /\ \E l \in Ledgers :
               /\ ledger["hub"] = l /\ \E s \in entry["hub"][l] : s.final
               /\ \A j \in 1 .. k - 1 : closing["hub"][j].ledger # l
          /\ UNCHANGED hasty
  /\ closing' = [closing EXCEPT ![w][k].at = "waitForUserApproval"]
  /\ UNCHANGED <<policy, session, rich, budget, approving, funding, entry, ledger, net, chain>>

\* USER_REJECTS_CLOSE
UserRejectsClose(w, k) ==
  /\ closing[w][k].at = "waitForUserApproval" /\ w = "player"
  /\ CloseGoto(w, k, [NoClosing EXCEPT !.at = "done"])
  /\ UNCHANGED <<budget, chain>>

\* USER_APPROVES_CLOSE, then createObjective, which throws and stays where it is when
\* there is no ledger.
CreateObjective(w, k) ==
  /\ closing[w][k].at = "waitForUserApproval"
  /\ CloseGoto(w, k, IF ledger[w] = NoLedger THEN [NoClosing EXCEPT !.at = "createObjective"]
                     ELSE [NoClosing EXCEPT !.at = "constructFinalState", !.ledger = ledger[w]])
  /\ UNCHANGED <<budget, chain>>

\* A mutant: each side makes a final state of its own.
OwnFinalState(w, l) ==
  IF Mine(w, l).final THEN Mine(w, l)
  ELSE SignedState(Mine(w, l).turn + 1, TRUE, Mine(w, l).outcome, {})

\* constructFinalState: the final state I got, the one I made, or a new one.
FinalState(w, l) ==
  LET latest == LatestOf(entry[w][l])
  IN CASE latest.final /\ Mine(w, l).outcome = latest.outcome -> latest
       [] OTHER -> OwnFinalState(w, l)

\* It asks the store again for the ledger, where I have signed the opening state.
ConstructFinalState(w, k) ==
  LET l == ledger[w]
  IN /\ closing[w][k].at = "constructFinalState"
     /\ \E state \in {FinalState(w, l)} :
          SupportState(w, l, state, funding,
            [closing EXCEPT ![w][k] = [@ EXCEPT !.at = "supportState", !.of = l,
                                                !.turn = state.turn]])
     /\ approving' = ApprovalSettled
     /\ UNCHANGED <<policy, session, rich, budget, ledger, chain, hasty>>

\* submitWithdrawTransaction throws when the ledger of now has no conclusion proof; the
\* chain is observed all the same.
SubmitWithdrawTransaction(w, k) ==
  /\ closing[w][k].at = "submitTransaction"
  /\ IF HasConclusionProof(2, entry[w][ledger[w]])
     THEN FinalizeAndWithdraw(ledger[w]) ELSE UNCHANGED chain
  /\ CloseGoto(w, k, [closing[w][k] EXCEPT !.at = "waitMining"])
  /\ UNCHANGED budget

\* A mutant: the first event of the chain is taken for the withdrawal.
AnyAmount(amount) == TRUE

\* observeFundsWithdrawal: nothing is held.
FundsWithdrawn(amount) == amount = 0

ObserveFundsWithdrawal(w, k) ==
  LET flow == closing[w][k]
  IN /\ flow.at \in {"submitTransaction", "waitMining"} /\ More(flow, flow.ledger)
     /\ CloseGoto(w, k, [flow EXCEPT !.seen = @ + 1,
                           !.at = IF FundsWithdrawn(NextAmount(flow, flow.ledger))
                                  THEN "clearBudget" ELSE @])
     /\ UNCHANGED <<budget, chain>>

\* Store.clearBudget: of the domain, whatever ledger backs it by now.
ClearBudget(w, k) ==
  /\ closing[w][k].at = "clearBudget"
  /\ CloseGoto(w, k, [closing[w][k] EXCEPT !.at = "done"])
  /\ budget' = IF w = "player" THEN NoBudget ELSE budget
  /\ UNCHANGED chain

Closing(w, k) ==
  \/ CreateObjective(w, k) \/ ConstructFinalState(w, k)
  \/ SubmitWithdrawTransaction(w, k) \/ ObserveFundsWithdrawal(w, k) \/ ClearBudget(w, k)

-------------------------------------------------------------------------------
Init ==
  /\ policy \in Policies
  /\ session = [at |-> "none", address |-> FALSE, destination |-> FALSE]
  /\ rich \in BOOLEAN
  /\ budget = NoBudget /\ approving = NoApproval
  /\ funding = [l \in Ledgers |-> NoFunding]
  /\ closing = [w \in Wallet |-> [k \in 1 .. MaxClosings |-> NoClosing]]
  /\ entry = [w \in Wallet |-> [l \in Ledgers |-> {}]]
  /\ ledger = [w \in Wallet |-> NoLedger]
  /\ net = {}
  /\ amounts = [l \in Ledgers |-> <<0>>] /\ concluded = {}
  /\ paidIn = [l \in Ledgers |-> [w \in Wallet |-> 0]]
  /\ hasty = FALSE

Approval == NotifyWhenSufficientFunds \/ CreateLedger \/ ChainEvent \/ CreateBudget

Next ==
  \/ Enabling
  \/ ApproveBudgetAndFund \/ UserDecidesOnBudget \/ BalanceUpdated \/ Approval
  \/ \E l \in Ledgers : HubJoins(l) \/ HubDeposits(l)
  \/ \E w \in Wallet, k \in 1 .. MaxClosings :
       CloseAndWithdraw(w, k) \/ UserRejectsClose(w, k) \/ Closing(w, k)
  \/ \E message \in net : PushMessage(message)

Spec == Init /\ [][Next]_vars

-------------------------------------------------------------------------------
(* Safety.                                                                      *)

\* Type correctness: the stores' invariants, money, and one approval at a time.
BudgetTypeOK ==
  /\ budget \in Budgets \cup {NoBudget} /\ ledger \in [Wallet -> 0 .. MaxLedgers]
  /\ \A w \in Wallet, l \in Ledgers : InvariantsHold(entry[w][l])
  /\ \A l \in Ledgers : Holdings(l) >= 0 /\ \A w \in Wallet : paidIn[l][w] >= 0
  /\ session.destination => session.address

\* A budget that asks for no more than it gives, as calculateDepositInfo takes it.
Modest(b) == b.receive <= b.send

\* The player pays in no more than the ledger allocates to it, and only on top of what
\* is allocated before it: it can always get back what it has paid, however the hub
\* funds the ledger and however requests cross each other.
DepositsCovered ==
  \A l \in Ledgers \ concluded :
    \A s \in entry["player"][l] : Modest(s.outcome) /\ paidIn[l]["player"] > 0 =>
      /\ paidIn[l]["player"] <= s.outcome.send
      /\ Holdings(l) >= s.outcome.receive + paidIn[l]["player"]

\* While an application that waits for its answers is told of a budget, the ledger with
\* the hub holds all of it, until it is withdrawn; and no ledger the player paid into is
\* left with money but the one it can still close.
BudgetBacked ==
  /\ BudgetTypeOK /\ DepositsCovered
  /\ ~hasty =>
       /\ \A b \in SendResponse(GetBudgetRequest, View("player")) : Modest(b) =>
            ledger["player"] \in concluded \/ Holdings(ledger["player"]) >= Sum(b)
       /\ \A l \in Ledgers : paidIn[l]["player"] > 0 /\ Holdings(l) > 0
                          /\ (\A s \in entry["player"][l] : Modest(s.outcome)) =>
            /\ l = ledger["player"] /\ l \notin concluded
            /\ budget # NoBudget \/ approving.ledger = l

-------------------------------------------------------------------------------
(* Progress.  The page stays open, the network delivers, the hub answers.        *)

\* What goes on of itself, without the user, the application or the balance.
ByItself ==
  \/ Approval
  \/ \E l \in Ledgers : HubJoins(l) \/ HubDeposits(l)
  \/ \E w \in Wallet, k \in 1 .. MaxClosings : Closing(w, k) \/ (w = "hub" /\ CloseAndWithdraw(w, k))
  \/ \E message \in net : PushMessage(message)

\* An application that waits for its answers gets them: when nothing more happens of
\* itself, no budget that takes as much as it gives is left half funded, and no ledger
\* half closed.  Nobody waits on somebody who waits on him.
Waiting(at) == at \notin {"none", "waitForUserApproval", "done"}
LedgerAnswers ==
  /\ ~hasty /\ Waiting(approving.at) /\ approving.budget.receive = approving.budget.send /\ rich =>
       ENABLED ByItself
  /\ ~hasty /\ (\E k \in 1 .. MaxClosings : Waiting(closing["player"][k].at)) =>
       ENABLED ByItself
=================================================================================
