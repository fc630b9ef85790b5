---------------------------- MODULE DirectFunding -----------------------------
(* The server wallets of one channel open it and fund it on chain.  A handler   *)
(* (a message, a chain event, a call of the application) stores what it learnt  *)
(* in one transaction and cranks the objective in another; its messages and its *)
(* chain requests leave the process after that.  What a process holds in memory *)
(* is lost when it stops; messages arrive late, twice, out of order or never.   *)
EXTENDS Integers, Sequences, FiniteSets, Functions

CONSTANTS nWallets,       \* participants, numbered in the order of the allocation
          Amount,         \* Amount[w]: what the outcome allocates to w
          Overlapping,    \* the wallets whose updates of the funding row may overlap
          Unreliable,     \* the wallets that may restart or lose their output
          MaxFaults       \* bound: how often they do

ASSUME AmountAssumption ==
  /\ nWallets \in Nat \ {0}
  /\ Amount \in [0 .. nWallets - 1 -> Nat]

ASSUME FaultAssumption ==
  /\ Overlapping \cup Unreliable \subseteq 0 .. nWallets - 1
  /\ MaxFaults \in Nat

Creator == 0
Slot == {"startup", "handler"}
Handler == {"opening", "event"}
NoRow == -1
NothingSeen == -1
Retries == 2              \* ChainServiceRequest.isValid

VARIABLES stored,         \* w -> who signed the prefund and the postfund state
          objective,      \* w -> the status of its OpenChannel objective
          funding,        \* w -> the amount of its funding row
          request,        \* w -> its chain_service_requests row of kind fund
          handlers,       \* w -> handlers that stored something and have to crank
          outbox,         \* w -> chain requests that have to be submitted
          trackers,       \* w -> the event trackers of the channel, by registration
          updates,        \* w -> funding updates that are not written yet
          net,            \* every message sent
          mempool,        \* submitted transactions
          deposits,       \* the Deposited events of the channel, as mined
          faults

durable == <<stored, objective, funding, request>>
volatile == <<handlers, outbox, trackers, updates>>
world == <<net, mempool, deposits>>
vars == <<durable, volatile, world, faults>>

O == INSTANCE ChannelOpening WITH
       holdings <- IF deposits = <<>> THEN 0 ELSE deposits[Len(deposits)],
       postfunded <- {w \in 0 .. nWallets - 1 : w \in stored[w].postfund},
       opened <- {w \in 0 .. nWallets - 1 : objective[w] = "succeeded"}

Wallet == O!Wallet
Others(w) == Wallet \ {w}

Held(k) == IF k = 0 THEN 0 ELSE deposits[k]
Holdings == Held(Len(deposits))

-------------------------------------------------------------------------------
(* Stored states.  Everybody signs one prefund and one postfund state.          *)

NoStates == [prefund |-> {}, postfund |-> {}]

\* addState and clearOldStates: once the postfund state has all its signatures,
\* the prefund state goes.
AddStates(s, prefund, postfund) ==
  LET all == [prefund |-> s.prefund \cup prefund, postfund |-> s.postfund \cup postfund]
  IN  IF all.postfund = Wallet THEN [all EXCEPT !.prefund = {}] ELSE all

PreFundComplete(s) == Wallet \in {s.prefund, s.postfund}
PostFundComplete(s) == s.postfund = Wallet
PrefundSigned(w, s) == w \in s.prefund \cup s.postfund
PostfundSigned(w, s) == w \in s.postfund

Message(to, withObjective, prefund, postfund) ==
  [to |-> to, objective |-> withObjective, prefund |-> prefund, postfund |-> postfund]

-------------------------------------------------------------------------------
Init ==
  /\ stored = [w \in Wallet |-> NoStates]
  /\ objective = [w \in Wallet |-> "none"]
  /\ funding = [w \in Wallet |-> NoRow]
  /\ request = [w \in Wallet |-> [attempts |-> 0, recent |-> FALSE]]
  /\ handlers = [w \in Wallet |-> {}]
  /\ outbox = [w \in Wallet |-> {}]
  /\ trackers = [w \in Wallet |-> [slot \in {} |-> 0]]
  /\ updates = [w \in Wallet |-> {}]
  /\ net = {} /\ mempool = {} /\ deposits = <<>> /\ faults = 0

\* Wallet.createLedgerChannel of the creator: sign and store the prefund state
\* and an approved objective.
CreateLedgerChannel ==
  /\ objective[Creator] = "none"
  /\ stored' = [stored EXCEPT ![Creator] = AddStates(@, {Creator}, {})]
  /\ objective' = [objective EXCEPT ![Creator] = "approved"]
  /\ handlers' = [handlers EXCEPT ![Creator] = @ \cup {"opening"}]
  /\ net' = net \cup {Message(p, TRUE, {Creator}, {}) : p \in Others(Creator)}
  /\ UNCHANGED <<funding, request, outbox, trackers, updates, mempool, deposits, faults>>

\* Wallet.approveObjectives.
ApproveObjective(w) ==
  /\ objective[w] = "pending"
  /\ objective' = [objective EXCEPT ![w] = "approved"]
  /\ handlers' = [handlers EXCEPT ![w] = @ \cup {"opening"}]
  /\ UNCHANGED <<stored, funding, request, outbox, trackers, updates, world, faults>>

\* A handler is about to crank the objective.  The crank of one that is not
\* approved does nothing, and it is left out.
Touch(w) ==
  handlers' = [handlers EXCEPT ![w] =
                 IF objective[w] = "approved" THEN @ \cup {"event"} ELSE @]

\* Engine.pushMessage, storing the states and the objective of a message.
PushMessage(w, m) ==
  /\ stored' = [stored EXCEPT ![w] = AddStates(@, m.prefund, m.postfund)]
  /\ objective' = [objective EXCEPT ![w] =
                     IF @ = "none" /\ m.objective THEN "pending" ELSE @]
  /\ Touch(w)
  /\ UNCHANGED <<funding, request, outbox, trackers, updates, world, faults>>

\* The GetChannel requests for the channel that a sync sends.
QueueChannelRequest(w) ==
  IF objective[w] = "approved" THEN {[to |-> p, from |-> w] : p \in Others(w)} ELSE {}

\* Wallet.syncObjectives sends all stored states of a stale objective again, with
\* the objective and a GetChannel request that p answers with its own.  Either
\* message may be lost; that one of them arrives late is left out, because the
\* states it carries are in the messages of net too, which arrive at any time.
SyncObjective(w, p) ==
  /\ objective[w] = "approved"
  /\ PushMessage(p, Message(p, TRUE, stored[w].prefund, stored[w].postfund))

AnswerSync(w, p) ==
  /\ objective[p] # "none" /\ [to |-> p, from |-> w] \in QueueChannelRequest(w)
  /\ PushMessage(w, Message(w, FALSE, stored[p].prefund, stored[p].postfund))

-------------------------------------------------------------------------------
(* The crank of an approved objective: ChannelOpener and DirectFunder.          *)

CurrentAmount(w) == IF funding[w] = NoRow THEN 0 ELSE funding[w]

OneAttempt(req) == req.attempts >= 1

IsValid(req) == req.attempts >= Retries \/ (req.attempts > 0 /\ req.recent)

OutOfTurn(w) ==
  /\ CurrentAmount(w) < O!TargetAfter(w)
  /\ ~IsValid(request[w])

\* It is the turn of w, its deposit is not on chain yet, and none is outstanding.
ShouldDeposit(w) ==
  /\ CurrentAmount(w) < O!TargetTotal
  /\ CurrentAmount(w) >= O!TargetBefore(w)
  /\ CurrentAmount(w) < O!TargetAfter(w)
  /\ ~IsValid(request[w])

SignPrefundSetup(w, s) ==
  IF PrefundSigned(w, s) THEN s ELSE AddStates(s, {w}, {})

SignPostfundSetup(w, s) ==
  IF PostfundSigned(w, s) THEN s ELSE AddStates(s, {}, {w})

\* DirectFunder.crank, once it decided to deposit.
RequestDeposit(w) ==
  LET attempt == request[w].attempts + 1 IN
  /\ request' = [request EXCEPT ![w] = [attempts |-> attempt, recent |-> attempt < Retries]]
  /\ outbox' = [outbox EXCEPT ![w] = @ \cup
                  {[by |-> w, attempt |-> attempt, expectedHeld |-> CurrentAmount(w),
                    amount |-> O!TargetAfter(w) - CurrentAmount(w)]}]

\* The deposits w can ask for.
Transactions(w) ==
  [by : {w}, attempt : 1 .. Retries, expectedHeld : 0 .. O!TargetTotal,
   amount : 1 .. O!TargetTotal]

\* ChannelOpener.crank.
OpenChannel(w) ==
  LET prefund == SignPrefundSetup(w, stored[w])
      funded == PreFundComplete(prefund) /\ CurrentAmount(w) >= O!TargetTotal
      states == IF funded THEN SignPostfundSetup(w, prefund) ELSE prefund
      signed == [prefund |-> IF PrefundSigned(w, stored[w]) THEN {} ELSE {w},
                 postfund |-> IF states = prefund THEN {} ELSE {w}]
  IN
  /\ stored' = [stored EXCEPT ![w] = states]
  /\ net' = net \cup (IF signed = NoStates THEN {}
                      ELSE {Message(p, FALSE, signed.prefund, signed.postfund) :
                              p \in Others(w)})
  /\ objective' = [objective EXCEPT ![w] =
                     IF funded /\ PostFundComplete(states) THEN "succeeded" ELSE @]
  /\ IF PreFundComplete(prefund) /\ ShouldDeposit(w)
       THEN RequestDeposit(w) ELSE UNCHANGED <<request, outbox>>

Registered == [seen |-> NothingSeen, initial |-> TRUE]

\* Engine.takeActions of one handler, then the registration with the chain
\* service by the call that created or approved the objective.
Crank(w, handler) ==
  /\ handler \in handlers[w]
  /\ handlers' = [handlers EXCEPT ![w] = @ \ {handler}]
  /\ IF objective[w] = "approved"
       THEN OpenChannel(w) ELSE UNCHANGED <<stored, net, objective, request, outbox>>
  /\ trackers' = IF handler # "opening" THEN trackers
                 ELSE [trackers EXCEPT ![w] =
                         [slot \in DOMAIN @ \cup {"handler"} |->
                            IF slot = "handler" THEN Registered ELSE @[slot]]]
  /\ UNCHANGED <<funding, updates, mempool, deposits, faults>>

-------------------------------------------------------------------------------
(* The chain.                                                                   *)

\* ChainService.fundChannel.
SubmitTransaction(w, tx) ==
  /\ tx \in outbox[w]
  /\ outbox' = [outbox EXCEPT ![w] = @ \ {tx}]
  /\ mempool' = mempool \cup {tx}
  /\ UNCHANGED <<durable, handlers, trackers, updates, net, deposits, faults>>

\* MultiAssetHolder.deposit tops up what is held to expectedHeld + amount.
Sufficient(held, tx) == held >= tx.expectedHeld + tx.amount

DepositInFull(tx) ==
  /\ tx \in mempool
  /\ mempool' = mempool \ {tx}
  /\ deposits' = IF Holdings >= tx.expectedHeld
                   THEN Append(deposits, Holdings + tx.amount) ELSE deposits
  /\ UNCHANGED <<durable, volatile, net, faults>>

MineDeposit(tx) ==
  /\ tx \in mempool
  /\ mempool' = mempool \ {tx}
  /\ deposits' = IF Holdings >= tx.expectedHeld /\ ~Sufficient(Holdings, tx)
                   THEN Append(deposits, tx.expectedHeld + tx.amount) ELSE deposits
  /\ UNCHANGED <<durable, volatile, net, faults>>

\* getDepositedEvent: the amount of the k-th event is what is held after it.
GetDepositedEvent(k) == [position |-> k, amount |-> Held(k)]

\* EventTracker.holdingUpdated: if the holdings after the k-th deposit are news to
\* this tracker, the listener, which nobody awaits, hears of them.  It begins
\* Funding.updateFunding, which looks for the row to know what to write.  Two
\* updates with the same amount are one.
Track(w, slot, k, isNew, initial) ==
  /\ w \in Overlapping \/ updates[w] = {}
  /\ objective[w] # "succeeded"
  /\ trackers' = [trackers EXCEPT ![w][slot] =
                    [seen |-> IF isNew THEN k ELSE @.seen, initial |-> initial]]
  /\ updates' = [updates EXCEPT ![w] =
                   IF isNew THEN @ \cup {[event |-> GetDepositedEvent(k),
                                          inserts |-> funding[w] = NoRow]} ELSE @]
  /\ UNCHANGED <<durable, handlers, outbox, world, faults>>

\* getInitialHoldings reports the holdings at a confirmed block, as the latest
\* event of that block.
InitialHoldings(w, slot, k) ==
  /\ slot \in DOMAIN trackers[w] /\ trackers[w][slot].initial
  /\ Track(w, slot, k, k >= trackers[w][slot].seen, FALSE)

\* A Deposited event is heard live, or read again at registration.
Deposited(w, slot, k) ==
  /\ slot \in DOMAIN trackers[w]
  /\ k > trackers[w][slot].seen
  /\ Track(w, slot, k, TRUE, trackers[w][slot].initial)

\* The rest of Funding.updateFunding, and the crank it leads to.  An insertion
\* throws when another update inserted the row in between, and its handler ends
\* without a crank.
UpdateFunding(w, u) ==
  /\ u \in updates[w]
  /\ updates' = [updates EXCEPT ![w] = @ \ {u}]
  /\ IF u.inserts /\ funding[w] # NoRow
       THEN UNCHANGED <<funding, handlers>>
       ELSE /\ funding' = [funding EXCEPT ![w] = u.event.amount]
            /\ Touch(w)
  /\ UNCHANGED <<stored, objective, request, outbox, trackers, world, faults>>

-------------------------------------------------------------------------------
(* Time and failures.                                                           *)

\* Ten minutes pass, in which a process got to submit the request or lost it: it
\* may be repeated, if it was the first.
RequestTimeout(w) ==
  /\ request[w].recent
  /\ outbox[w] = {}
  /\ request' = [request EXCEPT ![w].recent = FALSE]
  /\ UNCHANGED <<stored, objective, funding, volatile, world, faults>>

\* handleEngineOutput throws where the message service does, before it turns to
\* the chain requests, or where the provider refuses a transaction.
LoseOutput(w) ==
  /\ faults < MaxFaults
  /\ faults' = faults + 1
  /\ outbox[w] # {}
  /\ outbox' = [outbox EXCEPT ![w] = {}]
  /\ UNCHANGED <<durable, handlers, trackers, updates, world>>

\* The process stops and starts again: it registers the channels it has stored.
Restart(w) ==
  /\ faults < MaxFaults
  /\ faults' = faults + 1
  /\ objective[w] # "succeeded"
  /\ handlers' = [handlers EXCEPT ![w] = {}]
  /\ outbox' = [outbox EXCEPT ![w] = {}]
  /\ updates' = [updates EXCEPT ![w] = {}]
  /\ trackers' = [trackers EXCEPT ![w] =
                    [slot \in (IF objective[w] = "none" THEN {} ELSE {"startup"}) |->
                       Registered]]
  /\ UNCHANGED <<durable, world>>

-------------------------------------------------------------------------------
Next ==
  \/ CreateLedgerChannel
  \/ \E m \in net : PushMessage(m.to, m)
  \/ \E tx \in mempool : MineDeposit(tx)
  \/ \E w \in Wallet :
       \/ ApproveObjective(w)
       \/ \E p \in Others(w) : SyncObjective(w, p) \/ AnswerSync(w, p)
       \/ \E handler \in handlers[w] : Crank(w, handler)
       \/ \E tx \in outbox[w] : SubmitTransaction(w, tx)
       \/ \E slot \in Slot :
            \/ \E k \in 0 .. Len(deposits) : InitialHoldings(w, slot, k)
            \/ \E k \in 1 .. Len(deposits) : Deposited(w, slot, k)
       \/ \E u \in updates[w] : UpdateFunding(w, u)
       \/ RequestTimeout(w)
  \/ \E w \in Unreliable : LoseOutput(w) \/ Restart(w)

Spec == Init /\ [][Next]_vars

-------------------------------------------------------------------------------
(* Safety.                                                                      *)

\* Type correctness of the tables, of what a process holds and of the chain.
FundingTypeOK ==
  /\ stored \in [Wallet -> [prefund : SUBSET Wallet, postfund : SUBSET Wallet]]
  /\ objective \in [Wallet -> {"none", "pending", "approved", "succeeded"}]
  /\ funding \in [Wallet -> {NoRow} \cup 0 .. O!TargetTotal]
  /\ request \in [Wallet -> [attempts : 0 .. Retries, recent : BOOLEAN]]
  /\ handlers \in [Wallet -> SUBSET Handler]
  /\ \A w \in Wallet : DOMAIN trackers[w] \subseteq Slot
  /\ \A w \in Wallet : outbox[w] \subseteq Transactions(w)
  /\ mempool \subseteq UNION {Transactions(w) : w \in Wallet}
  /\ \A k \in 1 .. Len(deposits) : deposits[k] \in 1 .. O!TargetTotal

\* Deposits are made in order and once, whatever is lost, repeated or late; a
\* postfund signature means that the channel is funded on chain, and success
\* that everybody gave one: the detailed specification implements the abstract.
OpeningSpec == O!OpeningSpec

-------------------------------------------------------------------------------
(* Liveness.  Every process keeps running its handlers; the chain mines what it *)
(* got and reports it; the application approves; the messages of the first      *)
(* attempt may all be lost, but the synchronisation repeats itself until one     *)
(* arrives.                                                                      *)
Fairness ==
  /\ \A tx \in UNION {Transactions(w) : w \in Wallet} : WF_vars(MineDeposit(tx))
  /\ \A w \in Wallet :
       /\ WF_vars(ApproveObjective(w))
       /\ \A p \in Others(w) : WF_vars(SyncObjective(w, p)) /\ WF_vars(AnswerSync(w, p))
       /\ \A handler \in Handler : WF_vars(Crank(w, handler))
       /\ WF_vars(\E tx \in outbox[w] : SubmitTransaction(w, tx))
       /\ \A slot \in Slot :
            /\ WF_vars(\E k \in 0 .. Len(deposits) : InitialHoldings(w, slot, k))
            /\ WF_vars(\E k \in 1 .. Len(deposits) : Deposited(w, slot, k))
       /\ WF_vars(\E u \in updates[w] : UpdateFunding(w, u))
       /\ WF_vars(RequestTimeout(w))

FairSpec == Spec /\ Fairness

\* A channel that its creator began to open is opened by everybody, although the
\* first messages and an output are lost: wallets synchronise, and repeat a
\* deposit request that timed out.
ObjectivesAccomplished ==
  objective[Creator] = "approved" ~> \A w \in Wallet : objective[w] = "succeeded"
===============================================================================
