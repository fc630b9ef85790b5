------------------------------ MODULE AppSession -------------------------------
(* Two server wallets open, use and close an application channel whose funding    *)
(* is not checked (fundingStrategy Fake).  Each call of the application and each   *)
(* message is an asynchronous handler: it stores something in one transaction,    *)
(* cranks the approved objectives of the channel one by one in transactions of    *)
(* their own, and at last emits events and sends messages.  Handlers of a wallet  *)
(* interleave; when one throws, or the process stops, what it has not sent yet is  *)
(* lost.  Messages are lost, repeated and reordered.                              *)
EXTENDS WireMessages

CONSTANTS Data,         \* what the application may set the channel to
          Settings      \* the settings of a behaviour, see SessionAssumption

\* creator: who creates the channel; earlyClose: whether it may be closed before it
\* is open; and two bounds: the handlers that run at a time, in both wallets, and
\* the restarts and time-outs there are.
ASSUME SessionAssumption ==
  /\ LastTurn \in Nat
  /\ Settings \subseteq [creator : Wallet, earlyClose : BOOLEAN,
                        maxHandlers : Nat \ {0}, maxFaults : Nat]

VARIABLES setting,     \* the setting of this behaviour
          states,      \* w -> the stored states of the channel
          objectives,  \* w -> the status of its objectives
          promises,    \* w -> what became of the done promise of a call
          handlers,    \* w -> the handlers that run
          messages,    \* every message sent
          faults

durable == <<states, objectives>>
vars == <<setting, durable, promises, handlers, messages, faults>>

Objective == {"OpenChannel", "CloseChannel"}
\* The calls that return a done promise, each of which is made once.
Call == {"createChannels", "approveObjectives", "closeChannels",
         "jumpStartOpen", "jumpStartClose"}
ObjectiveOf(call) ==
  IF call \in {"closeChannels", "jumpStartClose"} THEN "CloseChannel" ELSE "OpenChannel"
Other(w) == 1 - w

Message(to, signedStates, objs) ==
  SerializeMessage([signedStates |-> signedStates, objectives |-> objs], to, Other(to), ChannelId)

Init ==
  /\ setting \in Settings
  /\ states = [w \in Wallet |-> {}]
  /\ objectives = [w \in Wallet |-> [o \in Objective |-> "none"]]
  /\ promises = [w \in Wallet |-> [c \in Call |-> "none"]]
  /\ handlers = [w \in Wallet |-> {}]
  /\ messages = {} /\ faults = 0

\* Store.approveObjective, whatever the status was, and Store.markObjectiveStatus.
Approve(w, o) == [objectives EXCEPT ![w][o] = "approved"]
MarkSucceeded(w, o) == [objectives EXCEPT ![w][o] = "succeeded"]

Approved(objs) == {o \in Objective : objs[o] = "approved"}

-------------------------------------------------------------------------------
(* Handlers.                                                                     *)

\* What a handler has yet to do: whose promises it makes when it is done, the
\* objectives it will crank, the EngineResponse it builds up.
Handler(kind, calls, cranks, signedStates, objs) ==
  [kind |-> kind, calls |-> calls, cranks |-> cranks, states |-> signedStates,
   objectives |-> objs, succeeded |-> {}]

Room(w) == Cardinality(handlers[w]) + Cardinality(handlers[Other(w)]) < setting.maxHandlers
Start(w, h) ==
  /\ Room(w)
  /\ handlers' = [handlers EXCEPT ![w] = @ \cup {h}]

\* createObjectiveDoneResult, for each of the calls.
Promise(calls, proms) == [c \in Call |-> IF c \in calls THEN "waiting" ELSE proms[c]]

\* emitEvents: ObjectiveCompleted resolves the promises that wait for it.
Completed(objs, proms) ==
  [c \in Call |-> IF proms[c] = "waiting" /\ ObjectiveOf(c) \in objs THEN "Success"
                  ELSE proms[c]]

EmittedByMessagesOnly(w, h) == IF h.kind = "multiple" THEN h.succeeded ELSE {}
\* Which successes are emitted: those in the response of a message or a chain
\* event; those of the objectives asked for; none, in a SingleChannelOutput.
Emitted(w, h) ==
  CASE h.kind = "multiple" -> h.succeeded
    [] h.kind = "approve"  -> {o \in {"OpenChannel"} : objectives[w][o] = "succeeded"}
    [] h.kind = "single"   -> {}

\* handleEngineOutput
Finish(w, h) ==
  /\ h.cranks = {}
  /\ promises' = [promises EXCEPT ![w] = Completed(Emitted(w, h), Promise(h.calls, @))]
  /\ messages' = IF h.states = {} /\ h.objectives = {} THEN messages
                 ELSE messages \cup {Message(Other(w), h.states, h.objectives)}
  /\ handlers' = [handlers EXCEPT ![w] = @ \ {h}]
  /\ UNCHANGED <<setting, durable, faults>>

-------------------------------------------------------------------------------
(* The crankers.  A result has the states afterwards, those signed on the way,    *)
(* and whether the objective succeeded; there is none when the cranker throws.    *)

Result(store, signed, succeeded) == [states |-> store, signed |-> signed, succeeded |-> succeeded]

\* store.signState of w, after the result so far.
SignInStore(w, result, v) ==
  {[result EXCEPT !.states = store, !.signed = @ \cup {Signed(v, {w})}] :
     store \in SignState(w, result.states, v)}

LatestAt(store, turnNum) == [Latest(store).vars EXCEPT !.turnNum = turnNum]

\* ChannelOpener: sign the prefund state, and when everybody did the postfund state.
SignPrefund(w, r) ==
  IF PrefundSigned(w, r.states) THEN {r} ELSE SignInStore(w, r, LatestAt(r.states, 0))
SignPostfund(w, r) ==
  IF ~PreFundComplete(r.states) \/ PostfundSigned(w, r.states) THEN {r}
  ELSE SignInStore(w, r, LatestAt(r.states, PostfundTurn))

CrankOpen(w) ==
  {[r EXCEPT !.succeeded = PostFundComplete(r.states)] :
     r \in UNION {SignPostfund(w, q) : q \in SignPrefund(w, Result(states[w], {}, FALSE))}}

\* areAllFinalStatesSigned: whose turn it is makes the final state, or signs the
\* one there is.
FinalState(v) == [v EXCEPT !.isFinal = TRUE,
                           !.turnNum = IF v.isFinal THEN v.turnNum ELSE v.turnNum + 1]

SignFinalOnce(w, store) ==
  IF IsSupported(store) /\ ~Supported(store).isFinal /\ MyTurn(w, store)
  THEN SignInStore(w, Result(store, {}, FALSE), FinalState(Supported(store)))
  ELSE {Result(store, {}, FALSE)}
SignFinal(w, store) ==
  IF /\ IsSupported(store) /\ ~HasConclusionProof(store)
     /\ SignedBy(w, store) # {} /\ MyTurn(w, store)
  THEN SignInStore(w, Result(store, {}, FALSE), FinalState(Supported(store)))
  ELSE {Result(store, {}, FALSE)}

\* ChannelCloser, to whom a Fake channel is always defunded.
CrankClose(w) ==
  {[r EXCEPT !.succeeded = HasConclusionProof(r.states)] : r \in SignFinal(w, states[w])}

CrankResults(w, o) == IF o = "OpenChannel" THEN CrankOpen(w) ELSE CrankClose(w)

\* ObjectiveManager.crank
Crank(w, h, o) ==
  /\ o \in h.cranks
  /\ \E r \in CrankResults(w, o) :
       /\ states' = [states EXCEPT ![w] = r.states]
       /\ objectives' = IF r.succeeded THEN MarkSucceeded(w, o) ELSE objectives
       /\ handlers' = [handlers EXCEPT ![w] = (@ \ {h}) \cup
            {[h EXCEPT !.cranks = @ \ {o}, !.states = @ \cup r.signed,
                       !.succeeded = IF r.succeeded THEN @ \cup {o} ELSE @]}]
  /\ UNCHANGED <<setting, promises, messages, faults>>

\* The cranker throws: its transaction is rolled back, and the rest of the handler
\* with everything it would have sent is lost.
CrankThrows(w, h, o) ==
  /\ o \in h.cranks /\ CrankResults(w, o) = {}
  /\ handlers' = [handlers EXCEPT ![w] = @ \ {h}]
  /\ UNCHANGED <<setting, durable, promises, messages, faults>>

-------------------------------------------------------------------------------
(* The calls of the application.                                                 *)

\* Store.createChannel stores the first state and the approved objective together.
StoreChannel(w) ==
  /\ states[w] = {}
  /\ states' = [states EXCEPT ![w] = {Signed(Prefund, {w})}]
  /\ objectives' = Approve(w, "OpenChannel")

\* Wallet.createChannels: nothing is cranked.
CreateChannels ==
  LET w == setting.creator
  IN  /\ StoreChannel(w)
      /\ Start(w, Handler("single", {"createChannels"}, {}, {Signed(Prefund, {w})},
                          {"OpenChannel"}))
      /\ UNCHANGED <<setting, promises, messages, faults>>

\* Wallet.approveObjectives, which announces what it returns a promise for itself.
ApproveObjectives(w) ==
  /\ objectives[w]["OpenChannel"] = "pending"
  /\ objectives' = Approve(w, "OpenChannel")
  /\ Start(w, Handler("approve", {"approveObjectives"}, Approved(objectives'[w]), {}, {}))
  /\ UNCHANGED <<setting, states, promises, messages, faults>>

\* Engine.joinChannels approves the objective whatever its status is.
JoinChannels(w) ==
  /\ objectives[w]["OpenChannel"] = "pending"
  /\ objectives' = Approve(w, "OpenChannel")
  /\ Start(w, Handler("multiple", {}, Approved(objectives'[w]), {}, {}))
  /\ UNCHANGED <<setting, states, promises, messages, faults>>

\* Engine.joinChannel throws unless there is exactly one objective, and cranks it.
JoinChannel(w) ==
  /\ objectives[w]["OpenChannel"] = "pending" /\ objectives[w]["CloseChannel"] = "none"
  /\ objectives' = Approve(w, "OpenChannel")
  /\ Start(w, Handler("single", {}, Approved(objectives'[w]), {}, {}))
  /\ UNCHANGED <<setting, states, promises, messages, faults>>

\* Engine.closeChannel
CloseChannel(w) ==
  /\ objectives' = Approve(w, "CloseChannel")
  /\ Start(w, Handler("single", {}, Approved(objectives'[w]), {}, {"CloseChannel"}))

\* Wallet.closeChannels: the promise is there before anything else.
CloseChannels(w) ==
  /\ states[w] # {} /\ promises[w]["closeChannels"] = "none"
  /\ setting.earlyClose \/ objectives[w]["OpenChannel"] = "succeeded"
  /\ promises' = [promises EXCEPT ![w] = Promise({"closeChannels"}, @)]
  /\ CloseChannel(w)
  /\ UNCHANGED <<setting, states, messages, faults>>

\* Engine.updateChannel signs the next state of a running channel when it is my turn.
MayUpdate(w) ==
  /\ IsSupported(states[w])
  /\ Supported(states[w]).turnNum \in PostfundTurn .. LastTurn - 2
  /\ MyTurn(w, states[w])
SignUpdate(w, v) ==
  \E store \in SignState(w, states[w], v) : states' = [states EXCEPT ![w] = store]

\* Wallet.updateChannel
UpdateChannel(w, data) ==
  /\ MayUpdate(w)
  /\ \E v \in {Vars(Supported(states[w]).turnNum + 1, FALSE, data)} :
       /\ SignUpdate(w, v)
       /\ Start(w, Handler("single", {}, {}, {Signed(v, {w})}, {}))
  /\ UNCHANGED <<setting, objectives, promises, messages, faults>>

-------------------------------------------------------------------------------
(* Messages.                                                                     *)

\* The status of the objectives after those of a message were inserted: to open
\* has to be approved, to close is approved at once, again if need be.
Inserted(objs, new) ==
  [o \in Objective |->
     IF o \notin new THEN objs[o]
     ELSE IF o = "CloseChannel" THEN "approved"
     ELSE IF objs[o] = "none" THEN "pending" ELSE objs[o]]

\* An objective of a channel that the store does not have is refused.
Stores(w, signedStates) ==
  {store \in AddSignedStates(states[w], signedStates) : store # {}}

\* A message is told apart from none at all by what it stores or what its cranks
\* will do.
Matters(w, store, objs) ==
  \/ store # states[w] \/ objs # objectives[w]
  \/ \E o \in Approved(objs) : CrankResults(w, o) # {Result(states[w], {}, FALSE)}

CanPush(w, payload) ==
  \E store \in Stores(w, payload.signedStates) :
    Matters(w, store, Inserted(objectives[w], payload.objectives))

\* Engine._pushMessage up to takeActions.
PushPayload(w, payload) ==
  /\ Room(w)
  /\ UNCHANGED <<setting, promises, messages, faults>>
  /\ \E objs \in {Inserted(objectives[w], payload.objectives)} :
       /\ Start(w, Handler("multiple", {}, Approved(objs), {}, {}))
       /\ objectives' = [objectives EXCEPT ![w] = objs]
       /\ \E store \in Stores(w, payload.signedStates) :
            /\ Matters(w, store, objs)
            /\ states' = [states EXCEPT ![w] = store]

\* Wallet.pushMessage
PushMessage(w, m) ==
  /\ m.recipient = w /\ Room(w)
  /\ PushPayload(w, DeserializeMessage(m))

\* Engine.pushUpdate takes one state of a running channel and cranks nothing.
PushUpdate(w, m) ==
  /\ m.recipient = w /\ Cardinality(m.data.signedStates) = 1 /\ m.data.objectives = {}
  /\ \E store \in Stores(w, DeserializeMessage(m).signedStates) :
       /\ store # states[w] /\ IsRunning(store)
       /\ states' = [states EXCEPT ![w] = store]
  /\ UNCHANGED <<setting, objectives, promises, handlers, messages, faults>>

\* Wallet.syncObjectives sends the states and the stale ones among the approved
\* objectives, and asks for the channel; the other pushes that and answers with its
\* states.  An objective whose creation has not returned yet is not stale.
Stale(w) ==
  {o \in Approved(objectives[w]) : \A h \in handlers[w] : h.calls # {"createChannels"}}
SyncPayload(w) == DeserializeMessage(Message(Other(w), states[w], Stale(w)))
Answer(w) == DeserializeMessage(Message(w, states[Other(w)], {}))

SyncObjectives(w) == Stale(w) # {} /\ Room(w) /\ PushPayload(Other(w), SyncPayload(w))
AnswerSync(w) == Stale(w) # {} /\ Room(w) /\ PushPayload(w, Answer(w))

\* What has taken too long is announced: the promises give up, the objective does
\* not.
TimeOut(w) ==
  /\ faults < setting.maxFaults /\ faults' = faults + 1
  /\ promises' = [promises EXCEPT ![w] =
       [c \in Call |->
          IF @[c] = "waiting" /\ ObjectiveOf(c) \in Approved(objectives[w])
          THEN "ObjectiveTimedOutError" ELSE @[c]]]
  /\ promises' # promises
  /\ UNCHANGED <<setting, durable, handlers, messages>>

\* An event of the chain cranks the objectives of the channel.
ChainEvent(w) ==
  /\ states[w] # {} /\ Matters(w, states[w], objectives[w])
  /\ Start(w, Handler("multiple", {}, Approved(objectives[w]), {}, {}))
  /\ UNCHANGED <<setting, durable, promises, messages, faults>>

-------------------------------------------------------------------------------
(* Restart.                                                                      *)

Stop(w) ==
  /\ faults < setting.maxFaults /\ faults' = faults + 1
  /\ handlers[w] # {}
  /\ handlers' = [handlers EXCEPT ![w] = {}]
  /\ promises' = [promises EXCEPT ![w] =
                    [c \in Call |-> IF @[c] = "waiting" THEN "lost" ELSE @[c]]]
  /\ UNCHANGED <<setting, durable, messages>>

\* Wallet.jumpStartObjectives reads the approved objectives, prepares the messages
\* of a sync (SyncObjectives), and then makes the promises.
JumpStartCalls(objs) ==
  {c \in {"jumpStartOpen", "jumpStartClose"} : ObjectiveOf(c) \in objs}

JumpStartObjectives(w) ==
  /\ "lost" \in Range(promises[w]) /\ Approved(objectives[w]) # {}
  /\ \A c \in JumpStartCalls(Objective) : promises[w][c] = "none"
  /\ Start(w, Handler("single", JumpStartCalls(Approved(objectives[w])), {}, {}, {}))
  /\ UNCHANGED <<setting, durable, promises, messages, faults>>

-------------------------------------------------------------------------------
HandlerStep(w) ==
  \E h \in handlers[w] :
    Finish(w, h) \/ \E o \in Objective : Crank(w, h, o) \/ CrankThrows(w, h, o)

Next ==
  \/ CreateChannels
  \/ \E w \in Wallet :
       \/ ApproveObjectives(w) \/ JoinChannels(w) \/ JoinChannel(w) \/ CloseChannels(w)
       \/ \E data \in Data : UpdateChannel(w, data)
       \/ \E m \in messages : PushMessage(w, m) \/ PushUpdate(w, m)
       \/ SyncObjectives(w) \/ AnswerSync(w) \/ TimeOut(w) \/ ChainEvent(w)
       \/ Stop(w) \/ JumpStartObjectives(w)
       \/ HandlerStep(w)

Spec == Init /\ [][Next]_vars

CanSync(w) == Room(w) /\ Stale(w) # {} /\ CanPush(Other(w), SyncPayload(w))
CanAnswer(w) == Room(w) /\ Stale(w) # {} /\ CanPush(w, Answer(w))

\* Every handler ends, and a wallet is idle again and again.  It syncs an approved
\* objective at an interval for ever; what is sent again and again arrives, and so
\* does the answer: strong fairness, written out because TLC evaluates these
\* conditions much faster than ENABLED.
FairSpec ==
  /\ Spec
  /\ \A w \in Wallet :
       /\ []<>(handlers[w] = {})
       /\ <>[]~CanSync(w) \/ []<><<SyncObjectives(w)>>_vars
       /\ <>[]~CanAnswer(w) \/ []<><<AnswerSync(w)>>_vars
-------------------------------------------------------------------------------
\* Every signature that was stored or sent.
AllStates == UNION ({states[w] : w \in Wallet}
                      \union {DeserializeMessage(m).signedStates : m \in messages})

SignersOf(v) == UNION {s.signers : s \in {t \in AllStates : t.vars = v}}

\* Type invariant.
SessionTypeOK ==
  /\ \A s \in AllStates :
       /\ s.vars \in [turnNum : 0 .. LastTurn, isFinal : BOOLEAN, data : Data \cup {0}]
       /\ s.signers \in SUBSET Wallet \ {{}}
  /\ \A m \in messages : ValidMessage(m)
  /\ objectives \in [Wallet -> [Objective -> {"none", "pending", "approved", "succeeded"}]]
  /\ promises \in [Wallet -> [Call -> {"none", "waiting", "Success",
                                      "ObjectiveTimedOutError", "lost"}]]

\* Two wallets never sign different states with one turn number, and neither ever
\* refuses what the other has stored: a message that came too early, and was refused,
\* is made up for by any sync.  No signature is lost on the wire.
SyncAccepted ==
  /\ SessionTypeOK /\ SignaturesSurvive
  /\ \A s, t \in AllStates : s.vars.turnNum = t.vars.turnNum => s.vars = t.vars
  /\ \A w \in Wallet : AddSignedStates(states[w], states[Other(w)]) # {}

\* An application that is told Success can rely on it: both have signed the postfund
\* state or a later one; or a final state, after which nobody has signed anything.
\* The status of the channel that the application is shown says so, too, ever after.
Opened == \A v \in Wallet : \E s \in AllStates :
            v \in s.signers /\ s.vars.turnNum >= PostfundTurn
Closed == \E s \in AllStates :
            /\ s.vars.isFinal /\ SignersOf(s.vars) = Wallet
            /\ \A t \in AllStates : t.vars.turnNum <= s.vars.turnNum
SuccessIsTrue ==
  \A w \in Wallet, c \in Call :
    promises[w][c] = "Success" =>
      IF ObjectiveOf(c) = "OpenChannel"
      THEN Opened /\ Status(w, states[w]) \in {"running", "closing", "closed"}
      ELSE Closed /\ Status(w, states[w]) = "closed"

\* The adjudicator accepts what a wallet can put before it: a challenge with the
\* support it has, a conclusion with its proof, and to a challenge with what the
\* other supports, as a response, the state it has of the next turn.  Who hears of
\* the challenge learns the state that the contract has stored.
OnChain(w) ==
  LET support   == SupportArray(states[w])
      challenge == Challenge(support, w)
      event     == GetChallengeRegisteredEvent(ChallengeRegistered(challenge.args, challenge))
      record    == Contract!SupportedState(challenge.args)
  IN  /\ ChallengeAccepted(challenge, w)
      /\ record = ToNitroState(Supported(states[w]))
      /\ event[challenge.args.numStates - 1].state = record
      /\ FromNitroState(record) = Supported(states[w])
      /\ HasConclusionProof(states[w]) => ConcludeAccepted(ConcludeAndWithdraw(support))
      /\ \A s \in states[Other(w)] :
           s.vars.turnNum = record.turnNum + 1 /\ Mover(s.vars) \in s.signers =>
             LET response == [state |-> ToNitroState(s.vars),
                              signature |-> Sign(Mover(s.vars), ToNitroState(s.vars))]
             IN  RespondAccepted(RespondArgs(record, response), record)

TransactionsAccepted == \A w \in Wallet : IsSupported(states[w]) => OnChain(w)

\* What both wallets have approved succeeds on both.
BothApproved(o) == \A w \in Wallet : objectives[w][o] \in {"approved", "succeeded"}
ObjectivesSucceed ==
  \A o \in Objective :
    BothApproved("OpenChannel") /\ BothApproved(o) ~>
      \A w \in Wallet : objectives[w][o] = "succeeded"

\* A done promise resolves, if the process runs on, the channel is not closed before
\* it is open, and only one wallet asks to close it.
Undisturbed ==
  /\ ~setting.earlyClose /\ faults = 0
  /\ \E w \in Wallet : promises[w]["closeChannels"] = "none"
PromisesResolve ==
  \A w \in Wallet, c \in Call :
    promises[w][c] = "waiting" /\ BothApproved("OpenChannel") ~>
      promises[w][c] # "waiting" \/ ~Undisturbed
===============================================================================
