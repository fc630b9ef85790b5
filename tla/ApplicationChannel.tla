-------------------------- MODULE ApplicationChannel ---------------------------
(* The application workflow of the browser wallet: two wallets that propose,    *)
(* fund, update, challenge and conclude a directly funded channel, each running *)
(* a chart of nested state machines (application.ts, create-and-fund.ts,         *)
(* depositing.ts, conclude-channel.ts, challenge-channel.ts) over its store.    *)
EXTENDS Integers, Sequences, FiniteSets, ChannelStoreEntry, WalletRequests

CONSTANTS Amount,         \* what the opening outcome allocates to each wallet
          Outcomes,       \* outcomes of application states, "opening" among them
          MaxTurn,        \* bound: the highest turn that is updated or concluded
          Challengers,    \* wallets whose application may ask for a challenge, once
          Rejecters       \* wallets whose user may refuse the channel

VARIABLES at,             \* w -> the state of its chart
          entry,          \* w -> its stored states
          funding,        \* w -> the funding it has recorded for the channel
          submitting,     \* w -> the holdings it deposits on top of
          net,            \* signed states on their way: [to, state]
          notices,        \* w -> what its chain feed has not delivered, in order
          holdings, storage, \* the chain: what is held, whether it is finalized
          paid,           \* the state whose outcome was withdrawn
          challenged, overtaken \* history: who challenged; a message was overtaken

Wallet == {0, 1}
Creator == 0
chain == <<holdings, storage, paid>>
vars == <<at, entry, funding, submitting, net, notices, chain, challenged, overtaken>>

AfterOpening ==
  {"running", "challengeInit", "challengeSubmit", "challengeWait", "signFinalState",
   "waitForConclusionProof", "determineFundingType", "submitTransaction",
   "waitForWithdrawal", "done"}
\* The closing protocol threw, and nothing caught it.
IsBroken(w) == at[w] = "failure" /\ funding[w] = "Direct"

O == INSTANCE ChannelOpening WITH
       nWallets <- 2,
       holdings <- IF paid = {} THEN holdings ELSE Amount[0] + Amount[1],
       postfunded <- {w \in Wallet : \E s \in SignedBy(entry[w], w) : s.turn >= 3},
       opened <- {w \in Wallet : at[w] \in AfterOpening \/ IsBroken(w)}

-------------------------------------------------------------------------------
(* The store, and the observers that its updates reach.                         *)

SetupState(turn) == SignedState(turn, FALSE, "opening", {})

\* A mutant: the opening ends with the latest state, supported or not.
NotifyWhenSigned(e, turn) == e # {} /\ LatestOf(e).turn >= turn

\* support-state.ts: SUPPORTED is sent when the supported state is the one asked for.
NotifyWhenSupported(e, turn) == IsSupported(2, e) /\ Supported(2, e).turn = turn

\* Where the chart is when its observers have seen the entry.  Only "running" listens
\* for a final state, and then any, whoever signed it.
Settled(e, state) ==
  LET opened == CASE state = "preFundSetup" /\ NotifyWhenSupported(e, 0) -> "getDepositingInfo"
                  [] state = "postFundSetup" /\ NotifyWhenSupported(e, 3) -> "running"
                  [] OTHER -> state
  IN CASE opened = "running" /\ LatestOf(e).final -> "signFinalState"
       [] opened = "waitForConclusionProof" /\ HasConclusionProof(2, e) -> "determineFundingType"
       [] OTHER -> opened

\* A transaction on the channel of w has committed, its chart being in the given state.
Stored(w, e, state) ==
  /\ entry' = [entry EXCEPT ![w] = e]
  /\ at' = [at EXCEPT ![w] = Settled(e, state)]

\* Store.signAndAddStateWithinTx and the message that follows it.
SignAndAdd(w, state, next) ==
  LET signers == {w} \cup UNION {s.signers : s \in {t \in entry[w] : SameState(t, state)}}
      signed == SignedState(state.turn, state.final, state.outcome, signers)
  IN /\ MaySign(entry[w], w, state.turn)
     /\ \E e \in {AddState(2, entry[w], signed)} : InvariantsHold(e) /\ Stored(w, e, next)
     /\ net' = net \cup {[to |-> 1 - w, state |-> signed]}

\* Store.supportState: a state that is my latest already is not signed again.
SupportState(w, state, next) ==
  IF \E s \in SignedBy(entry[w], w) : SameState(s, state) /\ ~MaySign(entry[w], w, s.turn)
  THEN Stored(w, entry[w], next) /\ UNCHANGED net
  ELSE SignAndAdd(w, state, next)

\* The feed of the chain starts with what there is, and goes on with each update.
Watching(state) ==
  state \in {"idle", "submit", "challengeInit", "challengeSubmit", "challengeWait",
             "submitTransaction", "waitForWithdrawal"}
ChainInfo == [amount |-> holdings,
              storage |-> IF storage = "concluded" THEN "finalized" ELSE storage]
Watch(w) == notices' = [notices EXCEPT ![w] = <<ChainInfo>>]
Updated == notices' = [w \in Wallet |->
  IF Watching(at[w]) THEN Append(notices[w], [amount |-> holdings', storage |-> storage'])
  ELSE notices[w]]

Goto(w, state) == at' = [at EXCEPT ![w] = state]

-------------------------------------------------------------------------------
(* Proposing, joining and funding.                                              *)

Init ==
  /\ at = [w \in Wallet |-> IF w = Creator THEN "confirmingWithUser" ELSE "none"]
  /\ entry = [w \in Wallet |-> {}]
  /\ funding = [w \in Wallet |-> "none"]
  /\ submitting = [w \in Wallet |-> 0]
  /\ net = {} /\ notices = [w \in Wallet |-> <<>>]
  /\ holdings = 0 /\ storage = "open" /\ paid = {}
  /\ challenged = {} /\ overtaken = FALSE

\* A channel was proposed: the chart of the joiner starts, and the app is told.
ChannelProposed(w) ==
  /\ at[w] = "none" /\ entry[w] # {}
  /\ Goto(w, "joiningChannel")
  /\ UNCHANGED <<entry, funding, submitting, net, notices, chain, challenged, overtaken>>

\* JOIN_CHANNEL: setapplicationDomain, the first time.
JoinChannel(w) ==
  /\ at[w] = "joiningChannel" /\ Asks(JoinChannelRequest, EnabledView(w), "JOIN_CHANNEL")
  /\ Goto(w, "confirmingWithUser")
  /\ UNCHANGED <<entry, funding, submitting, net, notices, chain, challenged, overtaken>>

\* Store.createChannel: the channel is stored with its opening state, signed.
CreateChannel(w) == SignAndAdd(w, SetupState(0), "getPreFundSetup")

\* The user approves: the creator's wallet creates the channel, the joiner's goes on.
UserApproves(w) ==
  /\ at[w] = "confirmingWithUser"
  /\ IF w = Creator THEN CreateChannel(w)
     ELSE Goto(w, "getPreFundSetup") /\ UNCHANGED <<entry, net>>
  /\ UNCHANGED <<funding, submitting, notices, chain, challenged, overtaken>>

UserRejects(w) ==
  /\ at[w] = "confirmingWithUser" /\ w \in Rejecters
  /\ Goto(w, "failure")
  /\ UNCHANGED <<entry, funding, submitting, net, notices, chain, challenged, overtaken>>

HasOpeningState(w) == 0 \in Turns(entry[w])

PreFundSetup(w) ==
  /\ at[w] = "getPreFundSetup" /\ HasOpeningState(w)
  /\ SupportState(w, SetupState(0), "preFundSetup")
  /\ UNCHANGED <<funding, submitting, notices, chain, challenged, overtaken>>

\* The depositing machine starts, and asks for what is on chain.
GetDepositingInfo(w) ==
  /\ at[w] = "getDepositingInfo"
  /\ Goto(w, "idle") /\ Watch(w)
  /\ UNCHANGED <<entry, funding, submitting, net, chain, challenged, overtaken>>

\* FakeChain.deposit: the chain takes it when at least what is expected is held.
Deposit(expectedHeld, amount) ==
  IF holdings >= expectedHeld
  THEN holdings' = holdings + amount /\ UNCHANGED <<storage, paid>> /\ Updated
  ELSE UNCHANGED <<chain, notices>>

\* submitDepositTransaction: what is missing on top of the holdings it was told.
SubmitDeposit(w) ==
  LET amount == O!TargetAfter(w) - submitting[w]
  IN /\ at[w] = "submit"
     /\ Goto(w, "idle")
     /\ IF amount > 0 THEN Deposit(submitting[w], amount) ELSE UNCHANGED <<chain, notices>>
     /\ UNCHANGED <<entry, funding, submitting, net, challenged, overtaken>>

SetFundingToDirect(w) ==
  /\ at[w] = "updateFunding"
  /\ funding[w] = "none" /\ funding' = [funding EXCEPT ![w] = "Direct"]
  /\ Goto(w, "getPostFundSetup")
  /\ UNCHANGED <<entry, submitting, net, notices, chain, challenged, overtaken>>

PostFundSetup(w) ==
  /\ at[w] = "getPostFundSetup" /\ HasOpeningState(w)
  /\ SupportState(w, SetupState(3), "postFundSetup")
  /\ UNCHANGED <<funding, submitting, notices, chain, challenged, overtaken>>

-------------------------------------------------------------------------------
(* Running.                                                                     *)

\* A mutant: a conclusion goes through whoever's turn it is.
UpdateAnyTurn(w, outcome, final) ==
  \E existing \in {Supported(2, entry[w])} :
    /\ existing.turn < MaxTurn
    /\ MyTurn(2, entry[w], w) \/ final
    /\ SignAndAdd(w, SignedState(existing.turn + 1, existing.final \/ final, outcome, {}),
                  "running")

\* Store.updateChannel: _.merge keeps what the request does not name, a final flag
\* that is set included.
UpdateChannel(w, outcome, final) ==
  \E existing \in {Supported(2, entry[w])} :
    /\ existing.turn < MaxTurn /\ MyTurn(2, entry[w], w)
    /\ SignAndAdd(w, SignedState(existing.turn + 1, existing.final \/ final, outcome, {}),
                  "running")

\* The chart hears of the requests that are about its channel.
NotifyOnChannelRequest(w, request, type) ==
  /\ type \in {"PLAYER_STATE_UPDATE", "PLAYER_REQUEST_CONCLUDE", "PLAYER_REQUEST_CHALLENGE"}
  /\ Asks(request, EnabledView(w), type)

\* serializeChannelEntry: the status that the application is told, from the latest state,
\* supported or not.
ChannelStatus(w) ==
  LET turn == LatestOf(entry[w]).turn
  IN CASE turn = 0                                              -> "proposed"
       [] 0 < turn /\ turn < 3                                  -> "opening"
       [] turn >= 3 /\ HasConclusionProof(2, entry[w])           -> "closed"
       [] turn >= 3 /\ ~HasConclusionProof(2, entry[w])
            /\ IsSupported(2, entry[w]) /\ Supported(2, entry[w]).final -> "closing"
       [] OTHER                                                 -> "running"

\* PLAYER_STATE_UPDATE, of a request that allocates nothing but ETH.
PlayerStateUpdate(w) ==
  /\ at[w] = "running"
  /\ \E request \in UpdateChannelRequests : NotifyOnChannelRequest(w, request, "PLAYER_STATE_UPDATE")
  /\ \E outcome \in Outcomes : UpdateChannel(w, outcome, FALSE)
  /\ UNCHANGED <<funding, submitting, notices, chain, challenged, overtaken>>

\* PLAYER_REQUEST_CONCLUDE.  The delayed transition that is declared with it is not one
\* that XState knows of, so nothing is timed.
PlayerRequestConclude(w) ==
  /\ at[w] = "running"
  /\ NotifyOnChannelRequest(w, CloseChannelRequest, "PLAYER_REQUEST_CONCLUDE")
  /\ UpdateChannel(w, Supported(2, entry[w]).outcome, TRUE)
  /\ UNCHANGED <<funding, submitting, notices, chain, challenged, overtaken>>

\* PLAYER_REQUEST_CHALLENGE: the challenge machine starts.
PlayerRequestChallenge(w) ==
  /\ at[w] = "running" /\ w \in Challengers \ challenged
  /\ NotifyOnChannelRequest(w, ChallengeChannelRequest, "PLAYER_REQUEST_CHALLENGE")
  /\ challenged' = challenged \cup {w}
  /\ Goto(w, "challengeInit") /\ Watch(w)
  /\ UNCHANGED <<entry, funding, submitting, net, chain, overtaken>>

\* FakeChain.challenge: whatever there is, another challenge included, is overwritten.
ChallengeOnChain == storage' = "challenged" /\ UNCHANGED <<holdings, paid>> /\ Updated

SubmitChallengeTransaction(w) ==
  /\ at[w] = "challengeSubmit"
  /\ ChallengeOnChain
  /\ Goto(w, "challengeWait")
  /\ UNCHANGED <<entry, funding, submitting, net, challenged, overtaken>>

-------------------------------------------------------------------------------
(* Concluding and withdrawing.                                                  *)

\* A mutant: a final state counts as signed by me when somebody signed it.
SignFinalStateNever(w) ==
  /\ at[w] = "signFinalState"
  /\ Supported(2, entry[w]).final
  /\ Stored(w, entry[w], "waitForConclusionProof")
  /\ UNCHANGED <<net, funding, submitting, notices, chain, challenged, overtaken>>

\* signFinalState throws when the latest state is final and the supported one is not,
\* or when I have signed beyond it.
SignFinalState(w) ==
  /\ at[w] = "signFinalState"
  /\ \E supported \in {Supported(2, entry[w])} :
     \E signed \in {LatestOf(SignedBy(entry[w], w)).turn} :
       CASE supported.final /\ signed = supported.turn ->
              Stored(w, entry[w], "waitForConclusionProof") /\ UNCHANGED net
         [] supported.final /\ signed < supported.turn ->
              SignAndAdd(w, supported, "waitForConclusionProof")
         [] OTHER -> Goto(w, "failure") /\ UNCHANGED <<entry, net>>
  /\ UNCHANGED <<funding, submitting, notices, chain, challenged, overtaken>>

DetermineFundingType(w) ==
  /\ at[w] = "determineFundingType" /\ funding[w] = "Direct"
  /\ Goto(w, IF w = Creator THEN "submitTransaction" ELSE "waitForWithdrawal")
  /\ Watch(w)
  /\ UNCHANGED <<entry, funding, submitting, net, chain, challenged, overtaken>>

\* FakeChain.finalizeAndWithdraw: the channel is finalized at this block, and paid out.
FinalizeAndWithdraw(proof) ==
  /\ paid' = {LatestOf(proof)}
  /\ holdings' = 0
  /\ storage' = IF storage = "finalized" THEN "finalized" ELSE "concluded"
  /\ Updated

SubmitWithdrawTransaction(w) ==
  /\ at[w] = "submitTransaction" /\ HasConclusionProof(2, entry[w])
  /\ FinalizeAndWithdraw(Support(2, entry[w]))
  /\ Goto(w, "waitForWithdrawal")
  /\ UNCHANGED <<entry, funding, submitting, net, challenged, overtaken>>

-------------------------------------------------------------------------------
(* What arrives.                                                                *)

\* Store.pushMessage: the states of one sender have ascending turns.
PushMessage(w, message) ==
  /\ message.to = w
  /\ net' = net \ {message}
  /\ \E e \in {AddState(2, entry[w], message.state)} :
       IF InvariantsHold(e) THEN Stored(w, e, at[w]) ELSE UNCHANGED <<entry, at>>
  /\ overtaken' = (overtaken \/ \E m \in net : m.to = w /\ m.state.turn < message.state.turn)
  /\ UNCHANGED <<funding, submitting, notices, chain, challenged>>

\* depositing.ts: FUNDED is taken anywhere, SAFE_TO_DEPOSIT only when idle.
DepositEvent(w, state, amount) ==
  CASE amount >= O!TargetTotal -> "updateFunding"
    [] state = "idle" /\ O!TargetBefore(w) <= amount /\ amount < O!TargetTotal -> "submit"
    [] OTHER -> state

\* challenge-channel.ts: the chart goes back to running when the channel is finalized.
ChallengeEvent(state, seen) ==
  CASE seen = "open" -> IF state = "challengeInit" THEN "challengeSubmit" ELSE state
    [] seen \in {"challenged", "concluded"} -> "challengeWait"
    [] seen = "finalized" -> "running"

\* conclude-channel.ts: FUNDS_WITHDRAWN.
WithdrawalEvent(state, amount) == IF amount = 0 THEN "done" ELSE state

Observed(w, state, info) ==
  CASE state \in {"idle", "submit"} -> DepositEvent(w, state, info.amount)
    [] state \in {"submitTransaction", "waitForWithdrawal"} ->
         WithdrawalEvent(state, info.amount)
    [] OTHER -> ChallengeEvent(state, info.storage)

\* A challenge that is being submitted is not called back by what the feed brings, and
\* the chart is in the same state afterwards: it is submitted first.
ChainEvent(w) ==
  /\ Watching(at[w]) /\ at[w] # "challengeSubmit" /\ notices[w] # <<>>
  /\ \E info \in {Head(notices[w])} : \E state \in {Observed(w, at[w], info)} :
       /\ Goto(w, state)
       /\ submitting' = IF state = "submit" /\ at[w] = "idle"
                        THEN [submitting EXCEPT ![w] = info.amount] ELSE submitting
       /\ notices' = [notices EXCEPT ![w] = IF Watching(state) THEN Tail(@) ELSE <<>>]
  /\ UNCHANGED <<entry, funding, net, chain, challenged, overtaken>>

\* FakeChain.setBlockNumber: the challenge period is over.
SetBlockNumber ==
  /\ storage \in {"challenged", "concluded"}
  /\ storage' = "finalized" /\ UNCHANGED <<holdings, paid>>
  /\ Updated
  /\ UNCHANGED <<at, entry, funding, submitting, net, challenged, overtaken>>

Workflow(w) ==
  \/ ChannelProposed(w) \/ JoinChannel(w) \/ UserApproves(w) \/ PreFundSetup(w)
  \/ GetDepositingInfo(w) \/ SubmitDeposit(w) \/ SetFundingToDirect(w) \/ PostFundSetup(w)
  \/ SubmitChallengeTransaction(w) \/ SignFinalState(w) \/ DetermineFundingType(w)
  \/ SubmitWithdrawTransaction(w) \/ ChainEvent(w)

Next ==
  \/ \E w \in Wallet :
       \/ Workflow(w) \/ UserRejects(w)
       \/ PlayerStateUpdate(w) \/ PlayerRequestConclude(w) \/ PlayerRequestChallenge(w)
       \/ \E message \in net : PushMessage(w, message)
  \/ SetBlockNumber

Spec == Init /\ [][Next]_vars

-------------------------------------------------------------------------------
(* Safety.                                                                      *)

\* Type correctness: the states of the charts, the store's invariants, the money.
AppTypeOK ==
  /\ at \in [Wallet -> AfterOpening \cup
               {"none", "joiningChannel", "confirmingWithUser", "failure", "getPreFundSetup",
                "preFundSetup", "getDepositingInfo", "idle", "submit", "updateFunding",
                "getPostFundSetup", "postFundSetup"}]
  /\ \A w \in Wallet : InvariantsHold(entry[w]) /\ (notices[w] # <<>> => Watching(at[w]))
  /\ holdings \in 0 .. O!TargetTotal /\ submitting \in [Wallet -> 0 .. O!TargetTotal]

\* The two wallets never sign different states of one turn, wherever those are, although
\* updates, conclusions and challenges cross each other: a store that met both would
\* throw (checkInvariants), and the message would be lost.
OneStatePerTurn ==
  /\ AppTypeOK
  /\ LET all == entry[0] \cup entry[1] \cup {m.state : m \in net}
     IN \A s, t \in all : s.turn = t.turn => SameState(s, t)

\* An application is told that the channel runs, or that it closes, only when everything
\* was deposited, although the status looks at the latest state instead of the supported.
ToldOnceFunded ==
  \A w \in Wallet : entry[w] # {} /\ ChannelStatus(w) \notin {"proposed", "opening"} =>
    holdings = O!TargetTotal \/ paid # {}

\* What was withdrawn, or can be with a conclusion proof in a store, is what both agreed
\* on last: nobody has signed a later state that is not final or pays differently.
PaidAsAgreed ==
  /\ ToldOnceFunded
  /\ \A w \in Wallet :
       LET conclusions ==
             paid \cup IF HasConclusionProof(2, entry[w]) THEN {Supported(2, entry[w])} ELSE {}
       IN \A c \in conclusions : \A v \in Wallet : \A s \in SignedBy(entry[v], v) :
            s.turn > c.turn => s.final /\ s.outcome = c.outcome

\* So a final state can always be signed: the closing protocol fails, with nothing to
\* catch it, only in a wallet that was busy with a challenge when its peer concluded.
ClosingNeverFails ==
  /\ OneStatePerTurn
  /\ \A w \in Wallet : IsBroken(w) => w \in challenged

\* The charts open a channel as ChannelOpening demands.
AppOpeningSpec == O!OpeningSpec

-------------------------------------------------------------------------------
(* Liveness.  The page stays open, the app joins, the network delivers, blocks   *)
(* are mined.  Nothing is sent twice.                                           *)
Fairness ==
  /\ \A w \in Wallet :
       /\ WF_vars(Workflow(w))
       /\ WF_vars(\E message \in net : PushMessage(w, message))
  /\ WF_vars(SetBlockNumber)

FairSpec == Spec /\ Fairness

\* A channel that one wallet concludes is withdrawn by both, unless there was a challenge
\* (a final state that arrives while the challenge machine runs is not noticed) or a
\* message was overtaken.
AppConcludes == \A w \in Wallet :
  at[w] = "waitForConclusionProof" ~>
    overtaken \/ challenged # {} \/ \A v \in Wallet : at[v] = "done"

-------------------------------------------------------------------------------
\* A model value for TLC: two wallets with different amounts.
MCAmount == [w \in Wallet |-> w + 1]
================================================================================
