----------------------------- MODULE WalletRequests -----------------------------
(* What the browser wallet does with a request of its application (messaging.ts,     *)
(* channel-wallet.ts, client-api-schema): it answers at once, throws, or converts it  *)
(* to an event, which starts a workflow, goes to one that runs, or cranks an          *)
(* objective.  Pure operators of the request and of a view of the wallet:             *)
(* [address, destination, enabled, budget].                                           *)
EXTENDS Integers, Sequences, FiniteSets

NoDestination == "none"
HubParticipantId == "firebase:simple-hub"
AnotherHub == "hub"

-------------------------------------------------------------------------------
(* The requests.  Of allocations the assets are kept.                              *)

FundingStrategy == {"Direct", "Ledger", "Virtual", "Fake", "Unknown"}
Allocations == {<<>>, <<"eth">>, <<"token">>, <<"eth", "token">>}

CreateChannelRequests ==
  [method : {"CreateChannel"}, allocations : Allocations, fundingStrategy : FundingStrategy]
UpdateChannelRequests == [method : {"UpdateChannel"}, allocations : Allocations]
JoinChannelRequest == [method |-> "JoinChannel"]
CloseChannelRequest == [method |-> "CloseChannel"]
ChallengeChannelRequest == [method |-> "ChallengeChannel"]
EnableEthereumRequest == [method |-> "EnableEthereum"]
GetBudgetRequest == [method |-> "GetBudget"]
ApproveBudgetAndFundRequests(budgets) ==
  {[method |-> "ApproveBudgetAndFund", requestedSendCapacity |-> b.send,
    requestedReceiveCapacity |-> b.receive, hubParticipantId |-> id] :
     b \in budgets, id \in {HubParticipantId, AnotherHub}}
CloseAndWithdrawRequests ==
  [method : {"CloseAndWithdraw"}, hubParticipantId : {HubParticipantId, AnotherHub}]
PushMessageRequest(message, recipient) ==
  [method |-> "PushMessage", message |-> message, recipient |-> recipient]

-------------------------------------------------------------------------------
(* Converting a request to an event: the set of it, or nothing when it throws.      *)

\* deserializeAllocations throws for none; one is simple, more are mixed.
Deserialized(allocations) ==
  CASE allocations = <<>>   -> {}
    [] Len(allocations) = 1 -> {[type |-> "SimpleAllocation", assets |-> allocations]}
    [] OTHER                -> {[type |-> "MixedAllocation", assets |-> allocations]}
IsSimpleEthAllocation(outcome) == outcome.type = "SimpleAllocation" /\ outcome.assets = <<"eth">>
SupportedOutcomes(request) ==
  {o \in Deserialized(request.allocations) : IsSimpleEthAllocation(o)}

\* supportedFundingStrategyOrThrow
SupportedFundingStrategy(fundingStrategy) == fundingStrategy \notin {"Fake", "Unknown"}

\* deserializeBudgetRequest
DeserializeBudgetRequest(request) ==
  [send |-> request.requestedSendCapacity, receive |-> request.requestedReceiveCapacity]

\* The test on the hub refuses the very hub that its error message asks for.
MayClose(request) == request.hubParticipantId # HubParticipantId

ConvertToInternalEvent(request, view) ==
  CASE request.method = "ChallengeChannel" -> {[type |-> "PLAYER_REQUEST_CHALLENGE"]}
    [] request.method = "CloseChannel"     -> {[type |-> "PLAYER_REQUEST_CONCLUDE"]}
    [] request.method = "JoinChannel"      -> {[type |-> "JOIN_CHANNEL"]}
    [] request.method = "CloseAndWithdraw" ->
         {[type |-> "CLOSE_AND_WITHDRAW", hub |-> id] :
            id \in {id \in {request.hubParticipantId} :
                      view.destination # NoDestination /\ MayClose(request)}}
    [] request.method = "ApproveBudgetAndFund" ->
         {[type |-> "APPROVE_BUDGET_AND_FUND", hub |-> request.hubParticipantId, budget |-> b] :
            b \in {b \in {DeserializeBudgetRequest(request)} : view.destination # NoDestination}}
    [] request.method = "CreateChannel" ->
         {[type |-> "CREATE_CHANNEL", outcome |-> o] :
            o \in {o \in SupportedOutcomes(request) :
                     SupportedFundingStrategy(request.fundingStrategy)}}
    [] request.method = "UpdateChannel" ->
         {[type |-> "PLAYER_STATE_UPDATE", outcome |-> o] : o \in SupportedOutcomes(request)}

-------------------------------------------------------------------------------
(* receiveRequest: who gets what.                                                    *)

Converted == {"ChallengeChannel", "CreateChannel", "UpdateChannel", "CloseChannel",
              "JoinChannel", "ApproveBudgetAndFund", "CloseAndWithdraw"}

\* Was Ethereum enabled, and a destination set, before?
IsEnabled(view) == view.enabled /\ view.destination # NoDestination

\* The event that a request brings about.
AppRequest(request, view) ==
  CASE request.method \in Converted -> ConvertToInternalEvent(request, view)
    [] request.method = "EnableEthereum" ->
         IF IsEnabled(view) THEN {} ELSE {[type |-> "ENABLE_ETHEREUM"]}
    [] OTHER -> {}

\* Does the request bring about an event of this type?
Asks(request, view, type) == \E event \in AppRequest(request, view) : event.type = type

\* A wallet whose user has enabled Ethereum, for the application of a channel.
EnabledView(w) ==
  [address |-> w, enabled |-> TRUE, destination |-> "account", budget |-> {}]

\* What is answered at once.  A budget there is not is an empty object.
SendResponse(request, view) ==
  CASE request.method = "EnableEthereum" /\ IsEnabled(view) ->
         {[signingAddress |-> view.address, destinationAddress |-> view.destination]}
    [] request.method = "GetBudget" -> view.budget
    [] OTHER -> {}

\* PushMessage: a message to somebody else throws, and nothing is stored.
PushedMessage(request, view) ==
  IF request.recipient = view.address THEN {request.message} ELSE {}

-------------------------------------------------------------------------------
(* handleRequest.                                                                    *)

\* What an event does.  Those of a running application go to the workflow of it.
HandleRequest(event) ==
  CASE event.type = "CREATE_CHANNEL"          -> "createAndStoreOpenChannelObjective"
    [] event.type = "JOIN_CHANNEL"            -> "approveRichObjective"
    [] event.type = "APPROVE_BUDGET_AND_FUND" -> "ApproveBudgetAndFund"
    [] event.type = "CLOSE_AND_WITHDRAW"      -> "CloseLedgerAndWithdraw"
    [] event.type = "ENABLE_ETHEREUM"         -> "ethereumEnableWorkflow"
    [] OTHER                                  -> "nothing"

\* Two approvals of a player and a hub have one id; most workflows get a new one.
CalculateWorkflowId(event) ==
  CASE event.type = "APPROVE_BUDGET_AND_FUND" -> {<<event.type, event.hub>>}
    [] OTHER -> {}

\* A workflow whose id is in use is not started: startWorkflow throws.
IsWorkflowIdInUse(event, running) == CalculateWorkflowId(event) \cap running # {}

\* Does the request start a workflow of this machine, with this event?
Starts(request, view, running, machine) ==
  {event \in AppRequest(request, view) :
     HandleRequest(event) = machine /\ ~IsWorkflowIdInUse(event, running)}
===============================================================================
