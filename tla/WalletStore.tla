------------------------------- MODULE WalletStore -------------------------------
(* The store of the browser wallet over its backend.  Each call is a transaction   *)
(* of several asynchronous reads and writes (store.ts).  The IndexedDB backend runs *)
(* transactions at the same time unless they name a common object store, and rolls  *)
(* one back that throws (dexie-backend.ts); the page may be reloaded at any time.    *)
(* The backend in memory does neither (memory-backend.ts): there the calls are made *)
(* one after the other, as the tests make them.                                     *)
EXTENDS StoreOperations

CONSTANTS Backends,     \* "indexedDB", "memory"
          Initially,    \* what the store may hold at first
          Calls,        \* the calls there may be, see Effect
          Slots,        \* bound: the calls that run at a time,
          MaxCalls      \* bound: and in all

\* A state as an entry stores it, an entry, and what the object stores hold between two
\* transactions: nothing is stored for a nonce that was not used, and there is at most
\* one budget, that of the domain.
IsState(s) ==
  /\ s = SignedState(s.turn, s.final, s.outcome, s.signers)
  /\ s.turn \in Nat /\ s.signers \subseteq 0 .. n - 1
IsEntry(states) == IsFiniteSet(states) /\ \A s \in states : IsState(s)
IsStore(d) ==
  /\ DOMAIN d = ObjectStores /\ DOMAIN d.channels = Nonces
  /\ \A id \in Nonces : /\ DOMAIN d.channels[id] = DOMAIN NoChannel
                        /\ IsEntry(d.channels[id].states)
                        /\ Missing(d, id) \/ id <= d.nonces
  /\ d.nonces \in Nonces \cup {-1} /\ d.ledgers \subseteq Nonces
  /\ \A b, c \in d.budgets : b = c
  /\ \A b \in d.budgets : /\ DOMAIN b = {"available", "amounts"}
                          /\ b.available \in Nat /\ b.amounts \in [Nonces -> Nat]

\* A call has the arguments of its method, and a peer signs for itself.
IsCall(call) ==
  /\ call.op \in {"createChannel", "addState", "updateChannel", "signFinalState", "setFunding",
                  "setLedger", "createBudget", "clearBudget", "reserveFunds"}
  /\ "id" \in DOMAIN call <=> call.op \notin {"createChannel", "createBudget", "clearBudget"}
  /\ "id" \in DOMAIN call => call.id \in Nonces
  /\ call.op \in {"createBudget", "reserveFunds"} => call.amount \in Nat
  /\ call.op = "addState" => IsState(call.state) /\ me \notin call.state.signers

ASSUME StoreAssumption ==
  /\ Nonces \subseteq Nat /\ Backends \subseteq {"indexedDB", "memory"}
  /\ \A call \in Calls : IsCall(call)
  /\ \A d \in Initially : /\ IsStore(d) /\ d = [s \in ObjectStores |-> d[s]]
                         /\ \A id \in Nonces : InvariantsHold(d.channels[id].states)

VARIABLES backend,
          db,           \* the object stores, with what transactions have written
          tasks,        \* slot -> the call that runs in it
          outbox,       \* the signed states that were sent
          calls         \* how many calls were made

vars == <<backend, db, tasks, outbox, calls>>

\* A mutant: createChannel and addState forget the object store of the nonces.
StoresWithoutNonces(call) ==
  CASE call.op \in {"createChannel", "addState"} -> {"channels", "privateKeys"}
    [] call.op \in {"updateChannel", "signFinalState"} -> {"channels", "privateKeys"}
    [] call.op = "setFunding" -> {"channels"}
    [] call.op = "setLedger" -> {"ledgers", "channels", "privateKeys"}
    [] call.op \in {"createBudget", "clearBudget"} -> {"budgets"}
    [] call.op = "reserveFunds" -> {"budgets", "channels"}

\* The object stores that the transaction of a call names.
Stores(call) ==
  CASE call.op \in {"createChannel", "addState"} -> {"channels", "nonces", "privateKeys"}
    [] call.op \in {"updateChannel", "signFinalState"} -> {"channels", "privateKeys"}
    [] call.op = "setFunding" -> {"channels"}
    [] call.op = "setLedger" -> {"ledgers", "channels", "privateKeys"}
    [] call.op \in {"createBudget", "clearBudget"} -> {"budgets"}
    [] call.op = "reserveFunds" -> {"budgets", "channels"}

\* A task: its call, where it is, what it has read, what its object stores held before.
Idle == {}
Task(call) ==
  [call |-> call, at |-> "begin", id |-> IF "id" \in DOMAIN call THEN call.id ELSE -1,
   vars |-> {}, budget |-> {}, before |-> <<>>]
Running(i) == tasks[i] # Idle /\ (CHOOSE t \in tasks[i] : TRUE).at \notin {"begin", "emit"}

Init ==
  /\ backend \in Backends /\ db \in Initially
  /\ tasks = [i \in Slots |-> Idle] /\ outbox = {} /\ calls = 0

\* In memory a call is made when the one before has settled, and, as what comes then is
\* not modelled, not after a call has left two states of one turn (see Pushed).
Call(i, call) ==
  /\ calls < MaxCalls /\ calls' = calls + 1
  /\ tasks[i] = Idle
  /\ backend = "memory" =>
       /\ \A j \in Slots : tasks[j] = Idle
       /\ \A id \in Nonces : InvariantsHold(db.channels[id].states)
  /\ tasks' = [tasks EXCEPT ![i] = {Task(call)}]
  /\ UNCHANGED <<backend, db, outbox>>

Goto(i, t, at) == tasks' = [tasks EXCEPT ![i] = {[t EXCEPT !.at = at]}]

-------------------------------------------------------------------------------
(* Transactions.                                                                *)

\* A mutant: the transactions of the backend lock nothing.
LocksNothing(i, call) == TRUE

Exclusive(i, call) ==
  \A j \in Slots \ {i} : Running(j) => \A u \in tasks[j] : Stores(u.call) \cap Stores(call) = {}
FirstStep(call) ==
  CASE call.op = "createChannel" -> "getNonce"
    [] call.op = "addState" -> "getChannel"
    [] call.op \in {"createBudget"} -> "getBudget"
    [] call.op = "clearBudget" -> "deleteBudget"
    [] OTHER -> "getEntry"

\* Dexie waits until nobody holds one of the object stores.
Begin(i, t) ==
  /\ t.at = "begin" /\ Exclusive(i, t.call)
  /\ tasks' = [tasks EXCEPT ![i] = {[t EXCEPT !.at = FirstStep(t.call), !.before = db]}]
  /\ UNCHANGED db

RolledBack(t) ==
  [s \in ObjectStores |-> IF s \in Stores(t.call) THEN t.before[s] ELSE db[s]]

\* A call that throws settles at once.  In memory what it has written stays, left.
ThrowLeaving(i, t, left) ==
  /\ db' = IF backend = "indexedDB" THEN RolledBack(t) ELSE left
  /\ tasks' = [tasks EXCEPT ![i] = Idle]
Throw(i, t) == ThrowLeaving(i, t, db)

\* The transaction is complete; what it signed is sent after that.
Commit(i, t, new, signed) ==
  /\ db' = new
  /\ tasks' = [tasks EXCEPT ![i] =
       IF signed = {} THEN Idle ELSE {[t EXCEPT !.at = "emit", !.vars = signed, !.before = <<>>]}]

\* Store.emitChannelUpdatedEventAfterTX.  A page that is reloaded sends nothing.
Emit(i, t) ==
  /\ t.at = "emit"
  /\ outbox' = outbox \cup {[id |-> t.id, state |-> s] : s \in t.vars}
  /\ tasks' = [tasks EXCEPT ![i] = Idle]
  /\ UNCHANGED <<backend, db, calls>>

\* What the database holds when the transactions that run are rolled back.
Committed ==
  [s \in ObjectStores |->
     LET writers == {i \in Slots : Running(i) /\ \A t \in tasks[i] : s \in Stores(t.call)}
     IN IF writers = {} THEN db[s]
        ELSE (CHOOSE t \in tasks[CHOOSE i \in writers : TRUE] : TRUE).before[s]]

Reload ==
  /\ backend = "indexedDB"
  /\ \E i \in Slots : tasks[i] # Idle
  /\ db' = Committed
  /\ tasks' = [i \in Slots |-> Idle]
  /\ UNCHANGED <<backend, outbox, calls>>

-------------------------------------------------------------------------------
(* The steps of the calls, each up to the next access to the backend.            *)

Entry(t) == db.channels[t.id].states

GetNonce(i, t) ==
  /\ t.at = "getNonce"
  /\ IF db.nonces + 1 \in Nonces
     THEN /\ tasks' = [tasks EXCEPT ![i] =
                {[t EXCEPT !.at = "setNonce", !.id = db.nonces + 1,
                           !.vars = {Unsigned(0, FALSE, t.call.outcome)}]}]
          /\ UNCHANGED db
     ELSE Throw(i, t)

\* Store.addState finds the channel, or initializes it.
GetChannel(i, t) ==
  /\ t.at = "getChannel"
  /\ tasks' = [tasks EXCEPT ![i] =
       {[t EXCEPT !.at = IF Missing(db, t.id) THEN "setNonce" ELSE "addState",
                  !.vars = {t.call.state}]}]
  /\ UNCHANGED db

SetNonce(i, t) ==
  /\ t.at = "setNonce"
  /\ IF MaySetNonce(db, t.id)
     THEN db' = [db EXCEPT !.nonces = t.id] /\ Goto(i, t, "setChannel")
     ELSE Throw(i, t)

SetChannel(i, t) ==
  /\ t.at = "setChannel"
  /\ \E new \in t.vars : db' = Put(db, t.id, {[new EXCEPT !.signers = {}]})
  /\ Goto(i, t, IF t.call.op = "addState" THEN "addState" ELSE "signAndAdd")

\* ChannelStoreEntry.addState works on the very array that the backend in memory
\* holds: what it has added stays there when the invariants do not hold.
Pushed(states, state) ==
  {s \in states : ~SameState(s, state)} \cup
    {[state EXCEPT !.signers = @ \cup UNION {s.signers : s \in {u \in states : SameState(u, state)}}]}

AddState_(i, t) ==
  /\ t.at = "addState"
  /\ \E after \in {AddState(n, Entry(t), t.call.state)} :
       IF InvariantsHold(after)
       THEN Commit(i, t, Put(db, t.id, after), {})
       ELSE ThrowLeaving(i, t, Put(db, t.id, Pushed(Entry(t), t.call.state)))

\* Store.getEntry, and what the call makes of it.
GetEntry(i, t) ==
  /\ t.at = "getEntry"
  /\ CASE Missing(db, t.id) -> Throw(i, t)
       [] t.call.op = "updateChannel" /\ ~Missing(db, t.id) ->
            LET next == UpdateVars(Entry(t), t.call.outcome)
            IN IF next = {} THEN Throw(i, t)
               ELSE /\ tasks' = [tasks EXCEPT ![i] = {[t EXCEPT !.at = "signAndAdd", !.vars = next]}]
                    /\ UNCHANGED db
       [] t.call.op = "signFinalState" /\ ~Missing(db, t.id) ->
            IF ~MaySignFinal(Entry(t)) \/ ~Supported(n, Entry(t)).final THEN Throw(i, t)
            ELSE IF FinalVars(Entry(t)) = {} THEN Commit(i, t, db, {})
            ELSE /\ tasks' = [tasks EXCEPT ![i] =
                       {[t EXCEPT !.at = "signAndAdd", !.vars = FinalVars(Entry(t))]}]
                 /\ UNCHANGED db
       [] t.call.op = "setFunding" /\ ~Missing(db, t.id) ->
            IF db.channels[t.id].funded THEN Throw(i, t)
            ELSE Goto(i, t, "setFunding") /\ UNCHANGED db
       [] t.call.op = "setLedger" /\ ~Missing(db, t.id) -> Goto(i, t, "setLedger") /\ UNCHANGED db
       [] t.call.op = "reserveFunds" /\ ~Missing(db, t.id) -> Goto(i, t, "getBudget") /\ UNCHANGED db

SignAndAddState(i, t) ==
  /\ t.at = "signAndAdd"
  /\ \E new \in t.vars :
     \E signed \in {Signed(Entry(t), new)}, after \in {AddState(n, Entry(t), Signed(Entry(t), new))} :
       IF ~MaySign(Entry(t), me, new.turn) THEN Throw(i, t)
       ELSE IF ~InvariantsHold(after)
            THEN ThrowLeaving(i, t, Put(db, t.id, Pushed(Entry(t), signed)))
       ELSE Commit(i, t, Put(db, t.id, after), {signed})

SetFunding_(i, t) ==
  t.at = "setFunding" /\ Commit(i, t, [db EXCEPT !.channels[t.id].funded = TRUE], {})
SetLedger_(i, t) == t.at = "setLedger" /\ Commit(i, t, [db EXCEPT !.ledgers = {t.id}], {})

\* createBudget aborts its transaction when there is a budget, which the backend in
\* memory ignores; reserveFunds throws when there is none, or not enough.
GetBudget(i, t) ==
  /\ t.at = "getBudget"
  /\ LET budget == IF t.call.op = "createBudget"
                   THEN {[available |-> t.call.amount, amounts |-> [id \in Nonces |-> 0]]}
                   ELSE {Reserved(b, t.id, t.call.amount) :
                           b \in {c \in db.budgets : t.call.amount <= c.available}}
         aborted == t.call.op = "createBudget" /\ db.budgets # {} /\ backend = "indexedDB"
     IN IF budget = {} \/ aborted THEN Throw(i, t)
        ELSE /\ tasks' = [tasks EXCEPT ![i] = {[t EXCEPT !.at = "setBudget", !.budget = budget]}]
             /\ UNCHANGED db
SetBudget(i, t) == t.at = "setBudget" /\ Commit(i, t, [db EXCEPT !.budgets = t.budget], {})
DeleteBudget(i, t) == t.at = "deleteBudget" /\ Commit(i, t, [db EXCEPT !.budgets = {}], {})

Transaction(i, t) ==
  /\ \/ Begin(i, t) \/ GetNonce(i, t) \/ GetChannel(i, t) \/ SetNonce(i, t) \/ SetChannel(i, t)
     \/ AddState_(i, t) \/ GetEntry(i, t) \/ SignAndAddState(i, t) \/ SetFunding_(i, t)
     \/ SetLedger_(i, t) \/ GetBudget(i, t) \/ SetBudget(i, t) \/ DeleteBudget(i, t)
  /\ UNCHANGED <<backend, outbox, calls>>

Next ==
  \/ \E i \in Slots : \/ \E call \in Calls : Call(i, call)
                      \/ \E t \in tasks[i] : Transaction(i, t) \/ Emit(i, t)
  \/ Reload

Spec == Init /\ [][Next]_vars

-------------------------------------------------------------------------------
\* Type correctness, and in IndexedDB: at most one state for each turn of a channel.
StoreTypeOK ==
  /\ DOMAIN db = ObjectStores
  /\ db.nonces \in Nonces \cup {-1} /\ db.ledgers \in SUBSET Nonces
  /\ \A b \in db.budgets : b.available \in Nat /\ b.amounts \in [Nonces -> Nat]
  /\ backend = "indexedDB" => \A id \in Nonces : InvariantsHold(db.channels[id].states)

\* Whatever is called at a time, throws halfway or is cut off by a reload, and whatever
\* the peer sends: the wallet never sends two states of one turn of a channel, so no two
\* channels are created with one nonce; and it knows the last turn it has sent.
NeverSignsTwice ==
  /\ StoreTypeOK
  /\ \A m, o \in outbox :
       m.id = o.id /\ m.state.turn = o.state.turn => SameState(m.state, o.state)
  /\ \A m \in outbox : \E s \in SignedBy(Committed.channels[m.id].states, me) :
       m.state.turn <= s.turn

\* Each transaction of IndexedDB takes effect at once or not at all, with the effect its
\* call has on what was committed before.
TransactionsAreAtomic ==
  [][backend = "indexedDB" /\ Committed' # Committed =>
       \E call \in Calls : \E r \in Effect(Committed, call) : Committed' = r.db]_vars
===================================================================================
