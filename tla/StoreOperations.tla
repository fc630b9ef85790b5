----------------------------- MODULE StoreOperations -----------------------------
(* Pure: the calls that change the browser wallet's store, each as one change of  *)
(* the object stores of its backend (store.ts, store/index.ts).  It is what the    *)
(* transactions of the backend promise, see WalletStore.  A channel is known by    *)
(* its nonce: the wallet is participant 0 of two and its peer is the same in all.  *)
EXTENDS Integers, FiniteSets, ChannelStoreEntry

CONSTANT Nonces         \* bound: the nonces of channels

n == 2
me == 0

\* Object stores, as the backend names them.
ObjectStores == {"channels", "nonces", "ledgers", "budgets", "privateKeys"}
NoChannel == [states |-> {}, funded |-> FALSE]
Empty ==
  [channels |-> [id \in Nonces |-> NoChannel], nonces |-> -1, ledgers |-> {},
   budgets |-> {}, privateKeys |-> {me}]

\* A result: the database, and what goes to the outbox.  A call that throws has none.
Result(db, signed) == [db |-> db, signed |-> signed]

Put(db, id, states) == [db EXCEPT !.channels[id].states = states]
Missing(db, id) == db.channels[id].states = {}
Unsigned(turn, final, outcome) == SignedState(turn, final, outcome, {})
Signed(entry, vars) == [vars EXCEPT !.signers = {me} \cup UNION {s.signers : s \in {t \in entry : SameState(t, vars)}}]

\* Store.setNonce throws unless the nonce is new.
MaySetNonce(db, nonce) == nonce > db.nonces

\* Store.initializeChannel
InitializeChannel(db, nonce, vars) ==
  Put([db EXCEPT !.nonces = nonce], nonce, {[vars EXCEPT !.signers = {}]})

\* Store.signAndAddStateWithinTx
SignAndAdd(db, id, vars) ==
  LET states == db.channels[id].states
      after == AddState(n, states, Signed(states, vars))
  IN {r \in {Result(Put(db, id, after), {[id |-> id, state |-> Signed(states, vars)]})} :
        states # {} /\ MaySign(states, me, vars.turn) /\ InvariantsHold(after)}

\* Store.createChannel
CreateChannel(db, outcome) ==
  LET vars == Unsigned(0, FALSE, outcome)
  IN IF db.nonces + 1 \in Nonces
     THEN SignAndAdd(InitializeChannel(db, db.nonces + 1, vars), db.nonces + 1, vars)
     ELSE {}

\* Store.addState, for a state of my own or of the peer; only those of a call with
\* notifyOutbox are sent, and none is.
AddSignedState(db, id, state) ==
  LET known == IF Missing(db, id) THEN InitializeChannel(db, id, state) ELSE db
      after == AddState(n, known.channels[id].states, state)
  IN {r \in {Result(Put(known, id, after), {})} :
        /\ Missing(db, id) => MaySetNonce(db, id)
        /\ InvariantsHold(after)}

\* Store.updateChannel: the state that follows the supported one.
NextVars(entry, outcome) ==
  {[Supported(n, entry) EXCEPT !.turn = @ + 1, !.outcome = outcome, !.signers = {}]}
UpdateVars(entry, outcome) ==
  IF IsSupported(n, entry) /\ MyTurn(n, entry, me) THEN NextVars(entry, outcome) ELSE {}

\* Store.signFinalState: the supported state if it is final and not the last I signed.
FinalVars(entry) ==
  {s \in {Supported(n, entry)} :
     s.final /\ LatestOf(SignedBy(entry, me)).turn # s.turn}
MaySignFinal(entry) == IsSupported(n, entry) /\ SignedBy(entry, me) # {}

UpdateChannel(db, id, outcome) ==
  UNION {SignAndAdd(db, id, vars) : vars \in UpdateVars(db.channels[id].states, outcome)}

SignFinalState(db, id) ==
  LET entry == db.channels[id].states IN
  IF ~MaySignFinal(entry) \/ ~Supported(n, entry).final THEN {}
  ELSE IF FinalVars(entry) = {} THEN {Result(db, {})}
  ELSE UNION {SignAndAdd(db, id, vars) : vars \in FinalVars(entry)}

\* Store.setFunding throws when the channel is funded.
SetFunding(db, id) ==
  {r \in {Result([db EXCEPT !.channels[id].funded = TRUE], {})} :
     ~Missing(db, id) /\ ~db.channels[id].funded}

\* Store.setLedger: the one ledger with the peer.
SetLedger(db, id) ==
  {r \in {Result([db EXCEPT !.ledgers = {id}], {})} : ~Missing(db, id)}

\* Store.createBudget, clearBudget and reserveFunds, of the one domain and asset there is.
CreateBudget(db, amount) ==
  IF db.budgets # {} THEN {}
  ELSE {Result([db EXCEPT !.budgets = {[available |-> amount, amounts |-> [id \in Nonces |-> 0]]}], {})}
ClearBudget(db) == {Result([db EXCEPT !.budgets = {}], {})}

Reserved(budget, id, amount) ==
  [available |-> budget.available - amount, amounts |-> [budget.amounts EXCEPT ![id] = amount]]
ReserveFunds(db, id, amount) ==
  {Result([db EXCEPT !.budgets = {Reserved(b, id, amount)}], {}) :
     b \in {budget \in db.budgets : ~Missing(db, id) /\ amount <= budget.available}}

\* A call: what it does, to which channel, with which state, outcome or amount.
Effect(db, call) ==
  CASE call.op = "createChannel"  -> CreateChannel(db, call.outcome)
    [] call.op = "addState"       -> AddSignedState(db, call.id, call.state)
    [] call.op = "updateChannel"  -> UpdateChannel(db, call.id, call.outcome)
    [] call.op = "signFinalState" -> SignFinalState(db, call.id)
    [] call.op = "setFunding"     -> SetFunding(db, call.id)
    [] call.op = "setLedger"      -> SetLedger(db, call.id)
    [] call.op = "createBudget"   -> CreateBudget(db, call.amount)
    [] call.op = "clearBudget"    -> ClearBudget(db)
    [] call.op = "reserveFunds"   -> ReserveFunds(db, call.id, call.amount)
===================================================================================
