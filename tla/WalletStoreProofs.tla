--------------------------- MODULE WalletStoreProofs ----------------------------
(* The browser wallet's store keeps its word for any calls in any number of slots: *)
(* transactions are atomic, and the wallet never sends two states of one turn.     *)
EXTENDS WalletStore, FiniteSums

------------------------------------------------------------------------------
(* Entries. *)

\* Among finitely many states there is a latest one.
LEMMA LatestIn ==
  ASSUME NEW S, IsEntry(S), S # {}
  PROVE  LatestOf(S) \in S /\ \A t \in S : t.turn <= LatestOf(S).turn
<1>. DEFINE P == {T \in SUBSET S : T = {} \/ \E s \in T : \A t \in T : t.turn <= s.turn}
<1>1. IsFiniteSet(S) /\ \A s \in S : s.turn \in Nat
  BY DEF IsEntry, IsState
<1>2. {} \in P
  OBVIOUS
<1>3. ASSUME NEW T \in SUBSET S, NEW x \in S \ T, T \in P PROVE T \union {x} \in P
  <2>1. CASE T = {}
    BY <1>1, <2>1
  <2>2. ASSUME NEW s \in T, \A t \in T : t.turn <= s.turn PROVE T \union {x} \in P
    <3>1. CASE x.turn <= s.turn
      BY <1>1, <2>2, <3>1
    <3>2. CASE s.turn <= x.turn
      BY <1>1, <2>2, <3>2
    <3>. QED  BY <1>1, <3>1, <3>2
  <2>. QED  BY <1>3, <2>1, <2>2
<1>4. SUBSET S \subseteq P
  <2>. HIDE DEF P
  <2>. QED  BY <1>1, <1>2, <1>3, SubsetInduction
<1>5. \E s \in S : \A t \in S : t.turn <= s.turn
  BY <1>4
<1>. QED  BY <1>5 DEF LatestOf

\* What differs from a state in its signers only is a state.
LEMMA OtherSigners ==
  ASSUME NEW s, IsState(s), NEW signers, signers \subseteq 0 .. n - 1
  PROVE  /\ IsState([s EXCEPT !.signers = signers])
         /\ [s EXCEPT !.signers = signers].signers = signers
         /\ SameState([s EXCEPT !.signers = signers], s)
<1>1. PICK other : other = [s EXCEPT !.signers = signers]
  OBVIOUS
<1>2. s = [turn |-> s.turn, final |-> s.final, outcome |-> s.outcome, signers |-> s.signers]
  BY DEF IsState, SignedState
<1>3. other = [turn |-> s.turn, final |-> s.final, outcome |-> s.outcome, signers |-> signers]
  BY <1>1, <1>2
<1>4. /\ other.turn = s.turn /\ other.final = s.final /\ other.outcome = s.outcome
      /\ other.signers = signers
  BY <1>3
<1>5. IsState(other)
  BY <1>3, <1>4 DEF IsState, SignedState
<1>. QED  BY <1>1, <1>4, <1>5 DEF SameState

\* A support is part of the entry, and somebody signed in it for the wallet: itself.
LEMMA SupportIn ==
  ASSUME NEW entry
  PROVE  /\ Support(n, entry) \subseteq entry
         /\ Support(n, entry) # {} => \E c \in Support(n, entry) : me \in c.signers
<1>. DEFINE Bottoms == {lo \in Turns(entry) : Complete(n, entry, lo)}
            Tops == {b \in Bottoms : \A turn \in Bottoms : turn <= b}
<1>1. Support(n, entry) = UNION {Chain(n, entry, lo) : lo \in Tops}
  BY DEF Support
<1>2. Support(n, entry) \subseteq entry
  BY <1>1 DEF Chain
<1>3. ASSUME Support(n, entry) # {} PROVE \E c \in Support(n, entry) : me \in c.signers
  <2>1. PICK lo \in Tops : Chain(n, entry, lo) # {}
    BY <1>1, <1>3
  <2>2. UNION {s.signers : s \in Chain(n, entry, lo)} = 0 .. n - 1
    BY <2>1 DEF Complete
  <2>3. me \in UNION {s.signers : s \in Chain(n, entry, lo)}
    BY <2>2 DEF n, me
  <2>4. PICK c \in Chain(n, entry, lo) : me \in c.signers
    BY <2>3
  <2>. QED  BY <1>1, <2>1, <2>4
<1>. QED  BY <1>2, <1>3

\* One entry knows of every state the wallet signed in another, or of a later one.
Remembers(after, before) ==
  \A s \in SignedBy(before, me) : \E t \in SignedBy(after, me) : s.turn <= t.turn

\* Clearing what is older than the support keeps the wallet's last signature.
LEMMA ClearRemembers ==
  ASSUME NEW entry, IsEntry(entry)
  PROVE  /\ IsEntry(ClearOldStates(n, entry))
         /\ Remembers(ClearOldStates(n, entry), entry)
<1>1. PICK after : after = ClearOldStates(n, entry)
  OBVIOUS
<1>2. after = {s \in entry : Support(n, entry) = {} \/ \E t \in Support(n, entry) : t.turn <= s.turn}
  BY <1>1 DEF ClearOldStates
<1>3. IsEntry(after)
  BY <1>2, FS_Subset DEF IsEntry
<1>4. \A s \in entry : s.turn \in Nat
  BY DEF IsEntry, IsState
<1>5. ASSUME NEW s \in SignedBy(entry, me) PROVE \E t \in SignedBy(after, me) : s.turn <= t.turn
  <2>1. s \in entry /\ me \in s.signers
    BY DEF SignedBy
  <2>2. CASE s \in after
    BY <1>4, <2>1, <2>2 DEF SignedBy
  <2>3. CASE s \notin after
    <3>1. /\ Support(n, entry) # {}
          /\ \A t \in Support(n, entry) : ~(t.turn <= s.turn)
      BY <1>2, <2>1, <2>3
    <3>2. PICK c \in Support(n, entry) : me \in c.signers
      BY <3>1, SupportIn
    <3>3. c \in entry
      BY SupportIn
    <3>4. c \in after /\ s.turn <= c.turn
      BY <1>2, <1>4, <2>1, <3>1, <3>3
    <3>. QED  BY <3>2, <3>4 DEF SignedBy
  <2>. QED  BY <2>2, <2>3
<1>. QED  BY <1>1, <1>3, <1>5 DEF Remembers

\* The wallet remembers what it signed, and what is added, whatever is cleared.
LEMMA AddStateRemembers ==
  ASSUME NEW entry, IsEntry(entry), NEW state, IsState(state)
  PROVE  /\ IsEntry(AddState(n, entry, state)) /\ IsEntry(Pushed(entry, state))
         /\ Remembers(AddState(n, entry, state), entry) /\ Remembers(Pushed(entry, state), entry)
         /\ me \in state.signers =>
              \E t \in SignedBy(AddState(n, entry, state), me) : state.turn <= t.turn
<1>1. PICK known : known = {s \in entry : SameState(s, state)}
  OBVIOUS
<1>2. PICK merged : merged = [state EXCEPT !.signers = @ \cup UNION {s.signers : s \in known}]
  OBVIOUS
<1>3. PICK all : all = (entry \ known) \cup {merged}
  OBVIOUS
<1>4. /\ IsState(merged) /\ SameState(merged, state)
      /\ merged.signers = state.signers \cup UNION {s.signers : s \in known}
  <2>1. PICK signers : signers = state.signers \cup UNION {s.signers : s \in known}
    OBVIOUS
  <2>2. signers \subseteq 0 .. n - 1
    BY <1>1, <2>1 DEF IsEntry, IsState
  <2>3. merged = [state EXCEPT !.signers = signers]
    BY <1>2, <2>1
  <2>. QED  BY <2>1, <2>2, <2>3, OtherSigners
<1>5. AddState(n, entry, state) = ClearOldStates(n, all)
  BY <1>1, <1>2, <1>3 DEF AddState
<1>6. Pushed(entry, state) = all
  <2>1. \A s : SameState(state, s) <=> SameState(s, state)
    BY DEF SameState
  <2>2. {s \in entry : ~SameState(s, state)} = entry \ known
    BY <1>1
  <2>. QED  BY <1>1, <1>2, <1>3, <2>2 DEF Pushed
<1>7. IsEntry(all)
  <2>1. IsFiniteSet(entry \ known)
    BY FS_Subset DEF IsEntry
  <2>2. IsFiniteSet(all)
    BY <1>3, <2>1, FS_AddElement
  <2>. QED  BY <1>3, <1>4, <2>2 DEF IsEntry
<1>8. Remembers(all, entry)
  <2>1. ASSUME NEW s \in entry, me \in s.signers
        PROVE  \E t \in all : me \in t.signers /\ s.turn <= t.turn
    <3>1. s.turn \in Nat
      BY DEF IsEntry, IsState
    <3>2. CASE s \in known
      <4>1. me \in merged.signers /\ merged.turn = s.turn
        BY <1>1, <1>4, <2>1, <3>2 DEF SameState
      <4>. QED  BY <1>3, <3>1, <4>1
    <3>3. CASE s \notin known
      BY <1>3, <2>1, <3>1, <3>3
    <3>. QED  BY <3>2, <3>3
  <2>. QED  BY <2>1 DEF Remembers, SignedBy
<1>9. IsEntry(ClearOldStates(n, all)) /\ Remembers(ClearOldStates(n, all), all)
  BY <1>7, ClearRemembers
<1>10. /\ \A s \in all : s.turn \in Nat
       /\ \A s \in entry : s.turn \in Nat
       /\ \A s \in ClearOldStates(n, all) : s.turn \in Nat
  BY <1>7, <1>9 DEF IsEntry, IsState
<1>11. Remembers(ClearOldStates(n, all), entry)
  <2>1. ASSUME NEW s \in SignedBy(entry, me)
        PROVE  \E t \in SignedBy(ClearOldStates(n, all), me) : s.turn <= t.turn
    <3>1. PICK t \in SignedBy(all, me) : s.turn <= t.turn
      BY <1>8 DEF Remembers
    <3>2. PICK u \in SignedBy(ClearOldStates(n, all), me) : t.turn <= u.turn
      BY <1>9 DEF Remembers
    <3>. QED  BY <1>10, <3>1, <3>2 DEF SignedBy
  <2>. QED  BY <2>1 DEF Remembers
<1>12. ASSUME me \in state.signers
       PROVE  \E t \in SignedBy(ClearOldStates(n, all), me) : state.turn <= t.turn
  <2>1. merged \in SignedBy(all, me) /\ merged.turn = state.turn
    BY <1>3, <1>4, <1>12 DEF SignedBy, SameState
  <2>. QED  BY <1>9, <2>1 DEF Remembers
<1>. QED  BY <1>5, <1>6, <1>7, <1>8, <1>9, <1>11, <1>12

------------------------------------------------------------------------------
(* The inductive invariant. *)

\* What has the object stores and nothing else.
Whole(d) == d = [s \in ObjectStores |-> d[s]]

\* A transaction that has begun and not ended.
Begun(t) == t.at \notin {"begin", "emit"}

IsTask(t) ==
  /\ t = [call |-> t.call, at |-> t.at, id |-> t.id, vars |-> t.vars, budget |-> t.budget,
          before |-> t.before]
  /\ t.call \in Calls
  /\ "id" \in DOMAIN t.call => t.id = t.call.id

Shapes ==
  /\ backend \in {"indexedDB", "memory"}
  /\ tasks = [i \in Slots |-> tasks[i]] /\ Whole(db)
  /\ \A i \in Slots : /\ \A t, u \in tasks[i] : t = u
                      /\ \A t \in tasks[i] : IsTask(t)

\* Transactions that run at a time have no object store in common, and in memory one
\* call is made at a time.
Locked ==
  \A i, j \in Slots : i # j =>
    \A t \in tasks[i], u \in tasks[j] :
      /\ backend = "indexedDB"
      /\ Begun(t) /\ Begun(u) => Stores(t.call) \cap Stores(u.call) = {}

\* What a transaction has written, in terms of what it found.
Wrote(t, d) == \A s \in Stores(t.call) : db[s] = d[s]

Creating(t) ==
  LET new == Unsigned(0, FALSE, t.call.outcome) IN
  /\ t.call.op = "createChannel"
  /\ \/ t.at = "getNonce" /\ Wrote(t, t.before)
     \/ /\ t.id = t.before.nonces + 1 /\ t.id \in Nonces /\ t.vars = {new}
        /\ \/ t.at = "setNonce" /\ Wrote(t, t.before)
           \/ t.at = "setChannel" /\ Wrote(t, [t.before EXCEPT !.nonces = t.id])
           \/ t.at = "signAndAdd" /\ Wrote(t, InitializeChannel(t.before, t.id, new))

Adding(t) ==
  /\ t.call.op = "addState"
  /\ \/ t.at = "getChannel" /\ Wrote(t, t.before)
     \/ t.at = "addState" /\ ~Missing(t.before, t.id) /\ Wrote(t, t.before)
     \/ /\ Missing(t.before, t.id) /\ t.vars = {t.call.state}
        /\ \/ t.at = "setNonce" /\ Wrote(t, t.before)
           \/ /\ MaySetNonce(t.before, t.id)
              /\ \/ t.at = "setChannel" /\ Wrote(t, [t.before EXCEPT !.nonces = t.id])
                 \/ t.at = "addState" /\ Wrote(t, InitializeChannel(t.before, t.id, t.call.state))

Signing(t) ==
  LET entry == t.before.channels[t.id].states IN
  /\ t.call.op \in {"updateChannel", "signFinalState"} /\ Wrote(t, t.before)
  /\ \/ t.at = "getEntry"
     \/ /\ t.at = "signAndAdd" /\ ~Missing(t.before, t.id)
        /\ \/ /\ t.call.op = "updateChannel" /\ t.vars = UpdateVars(entry, t.call.outcome)
           \/ /\ t.call.op = "signFinalState" /\ MaySignFinal(entry)
              /\ Supported(n, entry).final /\ t.vars = FinalVars(entry)

Setting(t) ==
  /\ t.call.op \in {"setFunding", "setLedger"} /\ Wrote(t, t.before)
  /\ \/ t.at = "getEntry"
     \/ /\ t.at = t.call.op /\ ~Missing(t.before, t.id)
        /\ t.at = "setFunding" => ~t.before.channels[t.id].funded

Budgeting(t) ==
  /\ t.call.op \in {"createBudget", "clearBudget", "reserveFunds"} /\ Wrote(t, t.before)
  /\ \/ t.call.op = "createBudget" /\ t.at = "getBudget"
     \/ /\ t.call.op = "createBudget" /\ t.at = "setBudget"
        /\ t.budget = {[available |-> t.call.amount, amounts |-> [id \in Nonces |-> 0]]}
        /\ backend = "indexedDB" => t.before.budgets = {}
     \/ t.call.op = "clearBudget" /\ t.at = "deleteBudget"
     \/ t.call.op = "reserveFunds" /\ t.at = "getEntry"
     \/ /\ t.call.op = "reserveFunds" /\ ~Missing(t.before, t.id)
        /\ \/ t.at = "getBudget"
           \/ /\ t.at = "setBudget" /\ t.budget # {}
              /\ t.budget = {Reserved(b, t.id, t.call.amount) :
                               b \in {c \in t.before.budgets : t.call.amount <= c.available}}

Progress(t) ==
  /\ Whole(t.before)
  /\ Creating(t) \/ Adding(t) \/ Signing(t) \/ Setting(t) \/ Budgeting(t)

\* What was sent, and what is going to be, of one slot and of all.
Messages(t) == IF t.at = "emit" THEN {[id |-> t.id, state |-> s] : s \in t.vars} ELSE {}
Sent == outbox \cup UNION {UNION {Messages(t) : t \in tasks[i]} : i \in Slots}

\* No two of them are for one turn, and the store knows of the last.
Known(sent, d) ==
  /\ \A m \in sent : /\ m.id \in Nonces /\ m.state.turn \in Nat
                     /\ \E s \in SignedBy(d.channels[m.id].states, me) : m.state.turn <= s.turn
  /\ \A m, o \in sent :
       m.id = o.id /\ m.state.turn = o.state.turn => SameState(m.state, o.state)

Sound(d) == IsStore(d) /\ (backend = "indexedDB" =>
                             \A id \in Nonces : InvariantsHold(d.channels[id].states))

StoreInv ==
  /\ Shapes
  /\ Locked
  /\ \A i \in Slots : \A t \in tasks[i] : Begun(t) => Progress(t)
  /\ Sound(Committed)
  /\ Known(Sent, Committed)

------------------------------------------------------------------------------
(* What is committed. *)

\* A call names the object stores of its method.
LEMMA StoresIn ==
  ASSUME NEW call, IsCall(call)
  PROVE  /\ Stores(call) \subseteq ObjectStores
         /\ call.op \in {"createChannel", "addState"} <=> "nonces" \in Stores(call)
         /\ call.op \notin {"createBudget", "clearBudget"} <=> "channels" \in Stores(call)
         /\ call.op = "setLedger" <=> "ledgers" \in Stores(call)
         /\ call.op \in {"createBudget", "clearBudget", "reserveFunds"} <=> "budgets" \in Stores(call)
BY DEF IsCall, Stores, ObjectStores

\* Committed is what the transactions that run have found, and what there is elsewhere.
CommittedIsBefore ==
  /\ Whole(Committed)
  /\ \A i \in Slots : \A t \in tasks[i] : Begun(t) =>
       \A s \in Stores(t.call) : Committed[s] = t.before[s]
  /\ \A s \in ObjectStores :
       (\A i \in Slots : \A t \in tasks[i] : Begun(t) => s \notin Stores(t.call)) =>
         Committed[s] = db[s]

LEMMA CommittedFacts == Shapes /\ Locked => CommittedIsBefore
<1>. SUFFICES ASSUME Shapes, Locked PROVE CommittedIsBefore
  OBVIOUS
<1>. DEFINE Writers(s) == {i \in Slots : Running(i) /\ \A t \in tasks[i] : s \in Stores(t.call)}
<1>1. ASSUME NEW i \in Slots, NEW t \in tasks[i]
      PROVE  (CHOOSE u \in tasks[i] : TRUE) = t /\ (Running(i) <=> Begun(t))
  <2>1. (CHOOSE u \in tasks[i] : TRUE) \in tasks[i]
    OBVIOUS
  <2>2. (CHOOSE u \in tasks[i] : TRUE) = t
    BY <2>1 DEF Shapes
  <2>. QED  BY <2>2 DEF Running, Begun, Idle
<1>2. ASSUME NEW i \in Slots, Running(i) PROVE \E t \in tasks[i] : Begun(t)
  BY <1>1, <1>2 DEF Running, Idle
<1>3. Committed = [s \in ObjectStores |->
          IF Writers(s) = {} THEN db[s]
          ELSE (CHOOSE t \in tasks[CHOOSE i \in Writers(s) : TRUE] : TRUE).before[s]]
  BY DEF Committed
<1>4. ASSUME NEW i \in Slots, NEW t \in tasks[i], Begun(t), NEW s \in Stores(t.call)
      PROVE  Committed[s] = t.before[s]
  <2>1. s \in ObjectStores
    BY StoresIn, StoreAssumption DEF Shapes, IsTask
  <2>2. i \in Writers(s)
    BY <1>1, <1>4 DEF Shapes
  <2>3. ASSUME NEW j \in Writers(s) PROVE j = i
    <3>1. SUFFICES ASSUME j # i PROVE FALSE
      OBVIOUS
    <3>2. PICK u \in tasks[j] : Begun(u) /\ s \in Stores(u.call)
      BY <1>2
    <3>. QED  BY <1>4, <3>1, <3>2 DEF Locked
  <2>4. (CHOOSE j \in Writers(s) : TRUE) = i
    BY <2>2, <2>3
  <2>5. Committed[s] = (CHOOSE u \in tasks[i] : TRUE).before[s]
    <3>. HIDE DEF Writers
    <3>. QED  BY <1>3, <2>1, <2>2, <2>4
  <2>. QED  BY <1>1, <2>5
<1>5. ASSUME NEW s \in ObjectStores,
             \A i \in Slots : \A t \in tasks[i] : Begun(t) => s \notin Stores(t.call)
      PROVE  Committed[s] = db[s]
  <2>1. Writers(s) = {}
    BY <1>2, <1>5
  <2>. QED  BY <1>3, <2>1
<1>6. Whole(Committed)
  BY DEF Committed, Whole
<1>. QED  BY <1>4, <1>5, <1>6, Zenon DEF CommittedIsBefore

\* What a transaction has written is its own until it ends.
LEMMA ProgressKept ==
  ASSUME NEW t, Progress(t), UNCHANGED backend, \A s \in Stores(t.call) : db'[s] = db[s]
  PROVE  Progress(t)'
<1>1. ASSUME NEW d, Wrote(t, d) PROVE Wrote(t, d)'
  BY <1>1 DEF Wrote
<1>2. Creating(t) => Creating(t)'
  BY <1>1 DEF Creating
<1>3. Adding(t) => Adding(t)'
  BY <1>1 DEF Adding
<1>4. Signing(t) => Signing(t)'
  BY <1>1 DEF Signing
<1>5. Setting(t) => Setting(t)'
  BY <1>1 DEF Setting
<1>6. Budgeting(t) => Budgeting(t)'
  BY <1>1 DEF Budgeting
<1>. QED  BY <1>2, <1>3, <1>4, <1>5, <1>6 DEF Progress
------------------------------------------------------------------------------
(* What the calls do to what is committed. *)

\* Nothing that the wallet signed is forgotten.
Grows(before, after) ==
  /\ IsStore(after)
  /\ \A id \in Nonces : Remembers(after.channels[id].states, before.channels[id].states)

AllHold(d) == \A id \in Nonces : InvariantsHold(d.channels[id].states)

\* What is sent is later than anything the wallet signed, and it is remembered.
News(before, after, signed) ==
  /\ \A m, o \in signed : m = o
  /\ \A m \in signed :
       /\ m.id \in Nonces /\ m.state.turn \in Nat
       /\ \A s \in SignedBy(before.channels[m.id].states, me) : s.turn < m.state.turn
       /\ \E s \in SignedBy(after.channels[m.id].states, me) : m.state.turn <= s.turn

Extends(before, r) ==
  /\ Grows(before, r.db) /\ News(before, r.db, r.signed)
  /\ AllHold(before) => AllHold(r.db)

\* An entry that remembers the one before may take its place.
LEMMA PutGrows ==
  ASSUME NEW d, IsStore(d), NEW id \in Nonces, id <= d.nonces,
         NEW states, IsEntry(states), Remembers(states, d.channels[id].states)
  PROVE  /\ Grows(d, Put(d, id, states)) /\ Put(d, id, states).channels[id].states = states
         /\ AllHold(d) /\ InvariantsHold(states) => AllHold(Put(d, id, states))
<1>1. PICK after : after = Put(d, id, states)
  OBVIOUS
<1>2. /\ DOMAIN after = ObjectStores /\ DOMAIN after.channels = Nonces
      /\ after.nonces = d.nonces /\ after.ledgers = d.ledgers /\ after.budgets = d.budgets
      /\ after.channels[id].states = states /\ DOMAIN after.channels[id] = DOMAIN NoChannel
      /\ \A other \in Nonces \ {id} : after.channels[other] = d.channels[other]
  BY <1>1 DEF Put, IsStore, ObjectStores, NoChannel
<1>3. \A other \in Nonces : \A s \in d.channels[other].states : s.turn \in Nat
  BY DEF IsStore, IsEntry, IsState
<1>4. ASSUME NEW other \in Nonces
      PROVE  /\ DOMAIN after.channels[other] = DOMAIN NoChannel
             /\ IsEntry(after.channels[other].states)
             /\ Missing(after, other) \/ other <= after.nonces
             /\ Remembers(after.channels[other].states, d.channels[other].states)
  <2>1. CASE other = id
    BY <1>2, <2>1 DEF Missing
  <2>2. CASE other # id
    BY <1>2, <1>3, <2>2 DEF IsStore, Missing, Remembers, SignedBy
  <2>. QED  BY <2>1, <2>2
<1>5. IsStore(after)
  BY <1>2, <1>4 DEF IsStore
<1>6. AllHold(d) /\ InvariantsHold(states) => AllHold(after)
  BY <1>2 DEF AllHold
<1>. QED  BY <1>1, <1>2, <1>4, <1>5, <1>6 DEF Grows

\* A channel with a new nonce, nobody has signed its state.
LEMMA InitializeGrows ==
  ASSUME NEW d, IsStore(d), NEW id \in Nonces, Missing(d, id), MaySetNonce(d, id),
         NEW state, IsState(state)
  PROVE  /\ Grows(d, InitializeChannel(d, id, state))
         /\ InitializeChannel(d, id, state).nonces = id
         /\ ~Missing(InitializeChannel(d, id, state), id)
         /\ AllHold(d) => AllHold(InitializeChannel(d, id, state))
<1>1. PICK named : named = [d EXCEPT !.nonces = id]
  OBVIOUS
<1>2. PICK states : states = {[state EXCEPT !.signers = {}]}
  OBVIOUS
<1>3. /\ DOMAIN named = ObjectStores /\ named.channels = d.channels /\ named.nonces = id
      /\ named.ledgers = d.ledgers /\ named.budgets = d.budgets
  BY <1>1 DEF IsStore, ObjectStores
<1>4. IsStore(named)
  <2>1. d.nonces \in Nonces \cup {-1} /\ d.nonces < id /\ Nonces \subseteq Nat
    BY StoreAssumption DEF IsStore, MaySetNonce
  <2>2. d.nonces \in Nat \/ d.nonces = -1
    BY <2>1
  <2>3. d.nonces \in Int /\ id \in Int
    BY <2>1, <2>2
  <2>4. ASSUME NEW other \in Nonces PROVE Missing(d, other) \/ other <= id
    <3>1. Missing(d, other) \/ other <= d.nonces
      BY DEF IsStore
    <3>. QED  BY <2>1, <2>3, <3>1
  <2>. QED  BY <1>3, <2>4 DEF IsStore, Missing
<1>5. IsEntry(states) /\ InvariantsHold(states)
  <2>1. IsState([state EXCEPT !.signers = {}])
    BY OtherSigners
  <2>2. IsFiniteSet(states)
    BY <1>2, FS_Singleton
  <2>. QED  BY <1>2, <2>1, <2>2 DEF IsEntry, InvariantsHold
<1>6. Remembers(states, named.channels[id].states)
  BY <1>3 DEF Missing, Remembers, SignedBy
<1>7. id <= named.nonces
  BY <1>3, StoreAssumption
<1>8. /\ Grows(named, Put(named, id, states)) /\ Put(named, id, states).channels[id].states = states
      /\ AllHold(named) => AllHold(Put(named, id, states))
  BY <1>4, <1>5, <1>6, <1>7, PutGrows
<1>9. InitializeChannel(d, id, state) = Put(named, id, states)
  BY <1>1, <1>2 DEF InitializeChannel
<1>10. Put(named, id, states).nonces = id
  BY <1>3 DEF Put, ObjectStores
<1>11. ~Missing(Put(named, id, states), id)
  BY <1>2, <1>8 DEF Missing
<1>. QED  BY <1>3, <1>8, <1>9, <1>10, <1>11 DEF Grows, AllHold

\* What one step remembers of another, a third remembers of the first.
LEMMA GrowsOn ==
  ASSUME NEW c, NEW d, NEW e, IsStore(c), Grows(c, d), Grows(d, e)
  PROVE  Grows(c, e)
<1>1. ASSUME NEW id \in Nonces
      PROVE  Remembers(e.channels[id].states, c.channels[id].states)
  <2>1. /\ Remembers(d.channels[id].states, c.channels[id].states)
        /\ Remembers(e.channels[id].states, d.channels[id].states)
    BY DEF Grows
  <2>2. /\ \A s \in c.channels[id].states : s.turn \in Nat
        /\ \A s \in d.channels[id].states : s.turn \in Nat
        /\ \A s \in e.channels[id].states : s.turn \in Nat
    BY DEF Grows, IsStore, IsEntry, IsState
  <2>3. ASSUME NEW s \in SignedBy(c.channels[id].states, me)
        PROVE  \E u \in SignedBy(e.channels[id].states, me) : s.turn <= u.turn
    <3>1. PICK t \in SignedBy(d.channels[id].states, me) : s.turn <= t.turn
      BY <2>1 DEF Remembers
    <3>2. PICK u \in SignedBy(e.channels[id].states, me) : t.turn <= u.turn
      BY <2>1 DEF Remembers
    <3>. QED  BY <2>2, <3>1, <3>2 DEF SignedBy
  <2>. QED  BY <2>3 DEF Remembers
<1>. QED  BY <1>1 DEF Grows

\* What the wallet signs.
LEMMA SignedIsState ==
  ASSUME NEW entry, IsEntry(entry), NEW state, IsState(state)
  PROVE  /\ IsState(Signed(entry, state)) /\ me \in Signed(entry, state).signers
         /\ Signed(entry, state).turn = state.turn
<1>1. PICK signers : signers = {me} \cup UNION {s.signers : s \in {t \in entry : SameState(t, state)}}
  OBVIOUS
<1>2. signers \subseteq 0 .. n - 1
  BY <1>1 DEF IsEntry, IsState, me, n
<1>3. /\ IsState([state EXCEPT !.signers = signers])
      /\ [state EXCEPT !.signers = signers].signers = signers
      /\ SameState([state EXCEPT !.signers = signers], state)
  BY <1>2, OtherSigners
<1>4. Signed(entry, state) = [state EXCEPT !.signers = signers]
  BY <1>1 DEF Signed
<1>. QED  BY <1>1, <1>3, <1>4 DEF SameState

\* Signing a state, if it throws nothing, extends what there is.
LEMMA SignAndAddExtends ==
  ASSUME NEW d, IsStore(d), NEW id \in Nonces, NEW state, IsState(state),
         NEW r \in SignAndAdd(d, id, state)
  PROVE  Extends(d, r) /\ \A m \in r.signed : m.id = id
<1>1. PICK entry : entry = d.channels[id].states
  OBVIOUS
<1>2. PICK signed : signed = Signed(entry, state)
  OBVIOUS
<1>3. PICK after : after = AddState(n, entry, signed)
  OBVIOUS
<1>4. /\ r = Result(Put(d, id, after), {[id |-> id, state |-> signed]})
      /\ entry # {} /\ MaySign(entry, me, state.turn) /\ InvariantsHold(after)
  BY <1>1, <1>2, <1>3 DEF SignAndAdd
<1>5. IsEntry(entry) /\ id <= d.nonces
  BY <1>1, <1>4 DEF IsStore, Missing
<1>6. IsState(signed) /\ me \in signed.signers /\ signed.turn = state.turn
  BY <1>2, <1>5, SignedIsState
<1>7. /\ IsEntry(after) /\ Remembers(after, entry)
      /\ \E t \in SignedBy(after, me) : signed.turn <= t.turn
  BY <1>3, <1>5, <1>6, AddStateRemembers
<1>8. /\ Grows(d, Put(d, id, after)) /\ Put(d, id, after).channels[id].states = after
      /\ AllHold(d) => AllHold(Put(d, id, after))
  BY <1>1, <1>4, <1>5, <1>7, PutGrows
<1>9. r.db = Put(d, id, after) /\ r.signed = {[id |-> id, state |-> signed]}
  BY <1>4 DEF Result
<1>10. News(d, r.db, r.signed)
  <2>1. ASSUME NEW m \in r.signed PROVE m.id = id /\ m.state = signed
    BY <1>9, <2>1
  <2>2. \A s \in SignedBy(entry, me) : s.turn < signed.turn
    BY <1>4, <1>6 DEF MaySign
  <2>3. signed.turn \in Nat
    BY <1>6 DEF IsState
  <2>4. \A m, o \in r.signed : m = o
    BY <1>9
  <2>. QED  BY <1>1, <1>7, <1>8, <1>9, <2>1, <2>2, <2>3, <2>4 DEF News
<1>. QED  BY <1>8, <1>9, <1>10 DEF Extends

\* What updateChannel and signFinalState sign is a state.
LEMMA NextIsState ==
  ASSUME NEW entry, IsEntry(entry), IsSupported(n, entry)
  PROVE  /\ \A outcome : \A v \in UpdateVars(entry, outcome) : IsState(v)
         /\ \A v \in FinalVars(entry) : IsState(v)
<1>1. PICK last : last = Supported(n, entry)
  OBVIOUS
<1>2. IsEntry(Support(n, entry)) /\ Support(n, entry) # {}
  BY SupportIn, FS_Subset DEF IsEntry, IsSupported
<1>3. last \in Support(n, entry)
  BY <1>1, <1>2, LatestIn DEF Supported
<1>4. IsState(last)
  BY <1>2, <1>3 DEF IsEntry
<1>5. last = [turn |-> last.turn, final |-> last.final, outcome |-> last.outcome,
              signers |-> last.signers]
  BY <1>4 DEF IsState, SignedState
<1>6. ASSUME NEW outcome, NEW v \in UpdateVars(entry, outcome) PROVE IsState(v)
  <2>1. v = [last EXCEPT !.turn = @ + 1, !.outcome = outcome, !.signers = {}]
    BY <1>1, <1>6 DEF UpdateVars, NextVars
  <2>2. v = [turn |-> last.turn + 1, final |-> last.final, outcome |-> outcome, signers |-> {}]
    BY <1>5, <2>1
  <2>3. last.turn + 1 \in Nat
    BY <1>4 DEF IsState
  <2>. QED  BY <2>2, <2>3 DEF IsState, SignedState
<1>7. \A v \in FinalVars(entry) : IsState(v)
  BY <1>1, <1>4 DEF FinalVars
<1>. QED  BY <1>6, <1>7

\* Nothing is stored for the nonce that comes next.
LEMMA NewNonce ==
  ASSUME NEW d, IsStore(d), NEW id \in Nonces, id = d.nonces + 1
  PROVE  MaySetNonce(d, id) /\ Missing(d, id)
<1>1. d.nonces \in Nonces \cup {-1} /\ Nonces \subseteq Nat
  BY StoreAssumption DEF IsStore
<1>2. d.nonces \in Nat \/ d.nonces = -1
  BY <1>1
<1>3. d.nonces \in Int
  BY <1>2
<1>4. id > d.nonces /\ ~(id <= d.nonces)
  BY <1>3
<1>. QED  BY <1>4 DEF MaySetNonce, IsStore

\* The store that a call of the wallet leaves, for a channel it creates
LEMMA CreateExtends ==
  ASSUME NEW d, IsStore(d), NEW outcome, NEW r \in CreateChannel(d, outcome)
  PROVE  Extends(d, r)
<1>1. PICK id : id = d.nonces + 1
  OBVIOUS
<1>2. PICK state : state = Unsigned(0, FALSE, outcome)
  OBVIOUS
<1>3. PICK e : e = InitializeChannel(d, id, state)
  OBVIOUS
<1>4. id \in Nonces /\ r \in SignAndAdd(e, id, state)
  BY <1>1, <1>2, <1>3 DEF CreateChannel
<1>5. IsState(state)
  BY <1>2 DEF Unsigned, SignedState, IsState
<1>7. MaySetNonce(d, id) /\ Missing(d, id)
  BY <1>1, <1>4, NewNonce
<1>8. Grows(d, e) /\ (AllHold(d) => AllHold(e))
  BY <1>3, <1>4, <1>5, <1>7, InitializeGrows
<1>9. Extends(e, r) /\ \A m \in r.signed : m.id = id
  BY <1>4, <1>5, <1>8, SignAndAddExtends DEF Grows
<1>10. Grows(d, r.db)
  BY <1>8, <1>9, GrowsOn DEF Extends
<1>11. SignedBy(d.channels[id].states, me) = {}
  BY <1>7 DEF Missing, SignedBy
<1>12. News(d, r.db, r.signed)
  BY <1>9, <1>11 DEF Extends, News
<1>. QED  BY <1>8, <1>9, <1>10, <1>12 DEF Extends

\* or for a state that is added.
LEMMA AddSignedExtends ==
  ASSUME NEW d, IsStore(d), NEW id \in Nonces, NEW state, IsState(state),
         NEW r \in AddSignedState(d, id, state)
  PROVE  Extends(d, r)
<1>1. PICK known : known = IF Missing(d, id) THEN InitializeChannel(d, id, state) ELSE d
  OBVIOUS
<1>2. PICK entry : entry = known.channels[id].states
  OBVIOUS
<1>3. PICK after : after = AddState(n, entry, state)
  OBVIOUS
<1>4. /\ r = Result(Put(known, id, after), {})
      /\ Missing(d, id) => MaySetNonce(d, id)
      /\ InvariantsHold(after)
  BY <1>1, <1>2, <1>3 DEF AddSignedState
<1>5. Grows(d, known) /\ id <= known.nonces /\ (AllHold(d) => AllHold(known))
  <2>1. CASE Missing(d, id)
    <3>1. id <= id
      BY StoreAssumption
    <3>. QED  BY <1>1, <1>4, <2>1, <3>1, InitializeGrows
  <2>2. CASE ~Missing(d, id)
    <3>1. \A other \in Nonces : \A s \in d.channels[other].states : s.turn <= s.turn
      BY DEF IsStore, IsEntry, IsState
    <3>2. Grows(d, d)
      BY <3>1 DEF Grows, Remembers, SignedBy
    <3>. QED  BY <1>1, <2>2, <3>2 DEF IsStore
  <2>. QED  BY <2>1, <2>2
<1>6. IsEntry(entry)
  BY <1>2, <1>5 DEF Grows, IsStore
<1>7. IsEntry(after) /\ Remembers(after, entry)
  BY <1>3, <1>6, AddStateRemembers
<1>8. /\ Grows(known, Put(known, id, after))
      /\ AllHold(known) => AllHold(Put(known, id, after))
  BY <1>2, <1>4, <1>5, <1>7, PutGrows DEF Grows
<1>9. r.db = Put(known, id, after) /\ r.signed = {}
  BY <1>4 DEF Result
<1>10. Grows(d, r.db)
  BY <1>5, <1>8, <1>9, GrowsOn
<1>. QED  BY <1>5, <1>8, <1>9, <1>10 DEF Extends, News

\* A call that leaves the states alone extends what there is.
LEMMA StatesKeptExtends ==
  ASSUME NEW d, IsStore(d), NEW e, IsStore(e),
         \A id \in Nonces : e.channels[id].states = d.channels[id].states
  PROVE  Extends(d, Result(e, {}))
<1>1. \A id \in Nonces : \A s \in d.channels[id].states : s.turn <= s.turn
  BY DEF IsStore, IsEntry, IsState
<1>2. Grows(d, e)
  BY <1>1 DEF Grows, Remembers, SignedBy
<1>3. Result(e, {}).db = e /\ Result(e, {}).signed = {}
  BY DEF Result
<1>. QED  BY <1>2, <1>3 DEF Extends, News, AllHold

\* And a budget is one, whatever is reserved of it.
LEMMA BudgetExtends ==
  ASSUME NEW d, IsStore(d), NEW budgets, \A b, c \in budgets : b = c,
         \A b \in budgets : /\ DOMAIN b = {"available", "amounts"}
                            /\ b.available \in Nat /\ b.amounts \in [Nonces -> Nat]
  PROVE  Extends(d, Result([d EXCEPT !.budgets = budgets], {}))
<1>1. PICK e : e = [d EXCEPT !.budgets = budgets]
  OBVIOUS
<1>2. /\ DOMAIN e = ObjectStores /\ e.channels = d.channels /\ e.nonces = d.nonces
      /\ e.ledgers = d.ledgers /\ e.budgets = budgets
  BY <1>1 DEF IsStore, ObjectStores
<1>3. IsStore(e)
  BY <1>2 DEF IsStore, Missing
<1>. QED  BY <1>1, <1>2, <1>3, StatesKeptExtends

LEMMA SettingExtends ==
  ASSUME NEW d, IsStore(d), NEW id \in Nonces, NEW r \in SetFunding(d, id) \cup SetLedger(d, id)
  PROVE  Extends(d, r)
<1>1. \/ r = Result([d EXCEPT !.channels[id].funded = TRUE], {})
      \/ r = Result([d EXCEPT !.ledgers = {id}], {})
  BY DEF SetFunding, SetLedger
<1>2. PICK e : /\ e = [d EXCEPT !.channels[id].funded = TRUE] \/ e = [d EXCEPT !.ledgers = {id}]
               /\ r = Result(e, {})
  BY <1>1
<1>3. r = Result(e, {})
  BY <1>2
<1>4. CASE e = [d EXCEPT !.channels[id].funded = TRUE]
  <2>1. /\ DOMAIN e = ObjectStores /\ DOMAIN e.channels = Nonces
        /\ e.nonces = d.nonces /\ e.ledgers = d.ledgers /\ e.budgets = d.budgets
        /\ \A o \in Nonces : /\ e.channels[o].states = d.channels[o].states
                             /\ DOMAIN e.channels[o] = DOMAIN d.channels[o]
    BY <1>4 DEF IsStore, ObjectStores, NoChannel
  <2>2. IsStore(e)
    BY <2>1 DEF IsStore, Missing
  <2>. QED  BY <1>3, <2>1, <2>2, StatesKeptExtends
<1>5. CASE e = [d EXCEPT !.ledgers = {id}]
  <2>1. /\ DOMAIN e = ObjectStores /\ e.channels = d.channels /\ e.nonces = d.nonces
        /\ e.ledgers = {id} /\ e.budgets = d.budgets
    BY <1>5 DEF IsStore, ObjectStores
  <2>2. IsStore(e)
    BY <2>1 DEF IsStore, Missing
  <2>. QED  BY <1>3, <2>1, <2>2, StatesKeptExtends
<1>. QED  BY <1>2, <1>4, <1>5

\* The store after any call.
LEMMA EffectExtends ==
  ASSUME NEW d, IsStore(d), NEW call, IsCall(call), NEW r \in Effect(d, call)
  PROVE  Extends(d, r)
<1>1. CASE call.op = "createChannel"
  BY <1>1, CreateExtends DEF Effect
<1>2. CASE call.op = "addState"
  BY <1>2, AddSignedExtends DEF Effect, IsCall
<1>3. CASE call.op = "updateChannel"
  <2>1. call.id \in Nonces /\ IsEntry(d.channels[call.id].states)
    BY <1>3 DEF IsCall, IsStore
  <2>2. PICK v \in UpdateVars(d.channels[call.id].states, call.outcome) : r \in SignAndAdd(d, call.id, v)
    BY <1>3 DEF Effect, UpdateChannel
  <2>3. IsSupported(n, d.channels[call.id].states)
    BY <2>2 DEF UpdateVars
  <2>. QED  BY <2>1, <2>2, <2>3, NextIsState, SignAndAddExtends
<1>4. CASE call.op = "signFinalState"
  <2>1. call.id \in Nonces /\ IsEntry(d.channels[call.id].states)
    BY <1>4 DEF IsCall, IsStore
  <2>2. r \in SignFinalState(d, call.id)
    BY <1>4 DEF Effect
  <2>3. CASE r = Result(d, {})
    BY <2>3, StatesKeptExtends
  <2>4. CASE r # Result(d, {})
    <3>1. /\ IsSupported(n, d.channels[call.id].states)
          /\ \E v \in FinalVars(d.channels[call.id].states) : r \in SignAndAdd(d, call.id, v)
      BY <2>2, <2>4 DEF SignFinalState, MaySignFinal
    <3>. QED  BY <2>1, <3>1, NextIsState, SignAndAddExtends
  <2>. QED  BY <2>3, <2>4
<1>5. CASE call.op \in {"setFunding", "setLedger"}
  BY <1>5, SettingExtends DEF Effect, IsCall
<1>6. CASE call.op = "createBudget"
  <2>1. PICK b : b = [available |-> call.amount, amounts |-> [id \in Nonces |-> 0]]
    OBVIOUS
  <2>2. r = Result([d EXCEPT !.budgets = {b}], {})
    BY <1>6, <2>1 DEF Effect, CreateBudget
  <2>3. call.amount \in Nat
    BY <1>6 DEF IsCall
  <2>4. /\ DOMAIN b = {"available", "amounts"}
        /\ b.available \in Nat /\ b.amounts \in [Nonces -> Nat]
    BY <2>1, <2>3
  <2>. QED  BY <2>2, <2>4, BudgetExtends
<1>7. CASE call.op = "clearBudget"
  <2>1. r = Result([d EXCEPT !.budgets = {}], {})
    BY <1>7 DEF Effect, ClearBudget
  <2>. QED  BY <2>1, BudgetExtends
<1>8. CASE call.op = "reserveFunds"
  <2>1. call.amount \in Nat /\ call.id \in Nonces
    BY <1>8 DEF IsCall
  <2>2. PICK c \in d.budgets : /\ call.amount <= c.available
                               /\ r = Result([d EXCEPT !.budgets = {Reserved(c, call.id, call.amount)}], {})
    BY <1>8 DEF Effect, ReserveFunds
  <2>3. PICK b : b = Reserved(c, call.id, call.amount)
    OBVIOUS
  <2>4. c.available \in Nat /\ c.amounts \in [Nonces -> Nat]
    BY DEF IsStore
  <2>5. /\ DOMAIN b = {"available", "amounts"}
        /\ b.available \in Nat /\ b.amounts \in [Nonces -> Nat]
    BY <2>1, <2>2, <2>3, <2>4 DEF Reserved
  <2>. QED  BY <2>2, <2>3, <2>5, BudgetExtends
<1>. QED  BY <1>1, <1>2, <1>3, <1>4, <1>5, <1>6, <1>7, <1>8 DEF IsCall

\* The messages that were sent, and what comes to them.
LEMMA KnownGrows ==
  ASSUME NEW sent, NEW d, IsStore(d), Known(sent, d), NEW e, Grows(d, e)
  PROVE  Known(sent, e)
<1>1. ASSUME NEW m \in sent
      PROVE  \E s \in SignedBy(e.channels[m.id].states, me) : m.state.turn <= s.turn
  <2>1. m.id \in Nonces /\ m.state.turn \in Nat
    BY DEF Known
  <2>2. PICK s \in SignedBy(d.channels[m.id].states, me) : m.state.turn <= s.turn
    BY DEF Known
  <2>3. PICK t \in SignedBy(e.channels[m.id].states, me) : s.turn <= t.turn
    BY <2>1, <2>2 DEF Grows, Remembers
  <2>4. s.turn \in Nat /\ t.turn \in Nat
    BY <2>1, <2>2, <2>3 DEF Grows, IsStore, IsEntry, IsState, SignedBy
  <2>. QED  BY <2>1, <2>2, <2>3, <2>4
<1>. QED  BY <1>1 DEF Known

LEMMA KnownExtends ==
  ASSUME NEW sent, NEW d, IsStore(d), Known(sent, d), NEW r, Extends(d, r)
  PROVE  Known(sent \cup r.signed, r.db)
<1>1. Known(sent, r.db)
  BY KnownGrows DEF Extends
<1>2. ASSUME NEW m \in sent, NEW o \in r.signed, m.id = o.id PROVE m.state.turn # o.state.turn
  <2>1. PICK s \in SignedBy(d.channels[m.id].states, me) : m.state.turn <= s.turn
    BY DEF Known
  <2>2. s.turn < o.state.turn
    BY <1>2, <2>1 DEF Extends, News
  <2>3. m.id \in Nonces /\ m.state.turn \in Nat /\ o.state.turn \in Nat
    BY DEF Known, Extends, News
  <2>4. s.turn \in Nat
    BY <2>1, <2>3 DEF IsStore, IsEntry, IsState, SignedBy
  <2>. QED  BY <2>1, <2>2, <2>3, <2>4
<1>3. ASSUME NEW m \in sent \cup r.signed, NEW o \in sent \cup r.signed,
             m.id = o.id, m.state.turn = o.state.turn
      PROVE  SameState(m.state, o.state)
  <2>1. CASE m \in sent /\ o \in sent
    BY <1>3, <2>1 DEF Known
  <2>2. CASE m \in r.signed /\ o \in r.signed
    BY <2>2 DEF Extends, News, SameState
  <2>3. CASE (m \in sent /\ o \in r.signed) \/ (o \in sent /\ m \in r.signed)
    BY <1>2, <1>3, <2>3
  <2>. QED  BY <2>1, <2>2, <2>3
<1>4. ASSUME NEW m \in sent \cup r.signed
      PROVE  /\ m.id \in Nonces /\ m.state.turn \in Nat
             /\ \E s \in SignedBy(r.db.channels[m.id].states, me) : m.state.turn <= s.turn
  BY <1>1 DEF Known, Extends, News
<1>. QED  BY <1>3, <1>4 DEF Known

------------------------------------------------------------------------------
(* Steps of one slot. *)

\* The slot of a step, before and after: the others are as they were.
LEMMA OtherSlots ==
  ASSUME Shapes, NEW i \in Slots, NEW X, tasks' = [tasks EXCEPT ![i] = X]
  PROVE  /\ tasks' = [j \in Slots |-> tasks'[j]] /\ tasks'[i] = X
         /\ \A j \in Slots \ {i} : tasks'[j] = tasks[j]
BY DEF Shapes

\* Which object stores a call has to itself.
LEMMA OwnStores ==
  ASSUME Locked, NEW i \in Slots, NEW t \in tasks[i], Begun(t),
         NEW j \in Slots \ {i}, NEW u \in tasks[j], Begun(u)
  PROVE  Stores(t.call) \cap Stores(u.call) = {}
BY DEF Locked

\* The messages of a slot that becomes X.
LEMMA SentAfter ==
  ASSUME Shapes, NEW i \in Slots, NEW X, tasks' = [tasks EXCEPT ![i] = X], UNCHANGED outbox
  PROVE  Sent' \subseteq Sent \cup UNION {Messages(u) : u \in X}
<1>1. /\ tasks'[i] = X
      /\ \A j \in Slots \ {i} : tasks'[j] = tasks[j]
  BY OtherSlots
<1>2. ASSUME NEW j \in Slots, NEW u \in tasks'[j], NEW m \in Messages(u)
      PROVE  m \in Sent \cup UNION {Messages(v) : v \in X}
  BY <1>1, <1>2 DEF Sent
<1>3. Sent' = outbox \cup UNION {UNION {Messages(u) : u \in tasks'[j]} : j \in Slots}
  BY DEF Sent, Messages
<1>. QED  BY <1>2, <1>3 DEF Sent

\* A step of a transaction leaves X in its slot and d committed: it goes on, and nothing
\* is committed, or it ends, and d has what its object stores hold.
Moves(i, t, X, d) ==
  /\ \A u, v \in X : u = v
  /\ \A u \in X : IsTask(u) /\ u.at # "begin"
  /\ \A u \in X : Begun(u) => u.call = t.call /\ u.before = t.before /\ Progress(u)'
  /\ tasks' = [tasks EXCEPT ![i] = X] /\ UNCHANGED <<backend, outbox>>
  /\ Whole(db)'
  /\ \A s \in ObjectStores \ Stores(t.call) : db'[s] = db[s]
  /\ d = [s \in ObjectStores |->
            IF s \in Stores(t.call) /\ (\A u \in X : ~Begun(u)) THEN db'[s] ELSE Committed[s]]

LEMMA SlotStep ==
  ASSUME StoreInv, NEW i \in Slots, NEW t \in tasks[i], Begun(t),
         NEW X, NEW d, Moves(i, t, X, d),
         Sound(d), Known(Sent \cup UNION {Messages(u) : u \in X}, d)
  PROVE  StoreInv' /\ Committed' = d
<1>. USE DEF Moves
<1>1. Shapes /\ Locked /\ CommittedIsBefore
  BY CommittedFacts DEF StoreInv
<1>2. /\ tasks' = [j \in Slots |-> tasks'[j]] /\ tasks'[i] = X
      /\ \A j \in Slots \ {i} : tasks'[j] = tasks[j]
  BY <1>1, OtherSlots
<1>3. Shapes'
  <2>1. ASSUME NEW j \in Slots
        PROVE  /\ \A v, w \in tasks'[j] : v = w
               /\ \A v \in tasks'[j] : IsTask(v)
    BY <1>1, <1>2 DEF Shapes
  <2>. QED  BY <1>1, <1>2, <2>1 DEF Shapes
<1>4. Locked'
  <2>1. ASSUME NEW j \in Slots, NEW k \in Slots, j # k, NEW v \in tasks'[j], NEW w \in tasks'[k]
        PROVE  /\ backend = "indexedDB"
               /\ Begun(v) /\ Begun(w) => Stores(v.call) \cap Stores(w.call) = {}
    <3>1. CASE j = i
      BY <1>1, <1>2, <2>1, <3>1 DEF Locked
    <3>2. CASE k = i
      BY <1>1, <1>2, <2>1, <3>2 DEF Locked
    <3>3. CASE j # i /\ k # i
      BY <1>1, <1>2, <2>1, <3>3 DEF Locked
    <3>. QED  BY <3>1, <3>2, <3>3
  <2>. QED  BY <2>1 DEF Locked, Begun
<1>5. CommittedIsBefore'
  BY <1>3, <1>4, CommittedFacts, PTL
<1>6. Committed' = d
  <2>1. ASSUME NEW s \in ObjectStores PROVE Committed'[s] = d[s]
    <3>1. CASE s \in Stores(t.call) /\ \A u \in X : ~Begun(u)
      <4>1. \A j \in Slots : \A v \in tasks'[j] : Begun(v) => s \notin Stores(v.call)
        BY <1>1, <1>2, <3>1 DEF Locked
      <4>2. Committed'[s] = db'[s]
        BY <1>5, <4>1 DEF CommittedIsBefore, Begun
      <4>. QED  BY <3>1, <4>2
    <3>2. ASSUME NEW u \in X, Begun(u), s \in Stores(t.call) PROVE Committed'[s] = d[s]
      <4>1. Committed[s] = t.before[s]
        BY <1>1, <3>2 DEF CommittedIsBefore
      <4>2. Committed'[s] = u.before[s]
        BY <1>2, <1>5, <3>2 DEF CommittedIsBefore, Begun
      <4>. QED  BY <3>2, <4>1, <4>2
    <3>3. ASSUME NEW j \in Slots \ {i}, NEW v \in tasks[j], Begun(v), s \in Stores(v.call)
          PROVE  Committed'[s] = d[s]
      <4>1. Committed[s] = v.before[s]
        BY <1>1, <3>3 DEF CommittedIsBefore
      <4>2. Committed'[s] = v.before[s]
        BY <1>2, <1>5, <3>3 DEF CommittedIsBefore, Begun
      <4>3. s \notin Stores(t.call)
        BY <1>1, <3>3, OwnStores
      <4>. QED  BY <4>1, <4>2, <4>3
    <3>4. CASE /\ s \notin Stores(t.call)
               /\ \A j \in Slots \ {i} : \A v \in tasks[j] : Begun(v) => s \notin Stores(v.call)
      <4>1. \A j \in Slots : \A v \in tasks[j] : Begun(v) => s \notin Stores(v.call)
        BY <1>1, <3>4 DEF Shapes
      <4>2. \A j \in Slots : \A v \in tasks'[j] : Begun(v) => s \notin Stores(v.call)
        BY <1>2, <3>4
      <4>3. Committed[s] = db[s]
        BY <1>1, <4>1 DEF CommittedIsBefore
      <4>4. Committed'[s] = db'[s]
        BY <1>5, <4>2 DEF CommittedIsBefore, Begun
      <4>. QED  BY <3>4, <4>3, <4>4
    <3>. QED  BY <3>1, <3>2, <3>3, <3>4
  <2>. QED  BY <1>5, <2>1 DEF CommittedIsBefore, Whole
<1>7. \A j \in Slots : \A v \in tasks'[j] : Begun(v) => Progress(v)'
  <2>1. ASSUME NEW j \in Slots \ {i}, NEW v \in tasks[j], Begun(v) PROVE Progress(v)'
    <3>1. Stores(t.call) \cap Stores(v.call) = {}
      BY <1>1, <2>1, OwnStores
    <3>2. Stores(v.call) \subseteq ObjectStores
      BY <1>1, StoresIn, StoreAssumption DEF Shapes, IsTask
    <3>3. \A s \in Stores(v.call) : db'[s] = db[s]
      BY <3>1, <3>2
    <3>4. Progress(v)
      BY <2>1 DEF StoreInv
    <3>. QED  BY <3>3, <3>4, ProgressKept
  <2>. QED  BY <1>2, <2>1
<1>8. Sent' \subseteq Sent \cup UNION {Messages(u) : u \in X}
  BY <1>1, SentAfter
<1>9. Known(Sent', Committed') /\ Sound(Committed)'
  BY <1>6, <1>8 DEF Known, Sound
<1>. QED  BY <1>3, <1>4, <1>6, <1>7, <1>9 DEF StoreInv, Begun
\* What is known of a call that runs.
LEMMA TaskFacts ==
  ASSUME StoreInv, NEW i \in Slots, NEW t \in tasks[i]
  PROVE  /\ IsTask(t) /\ IsCall(t.call) /\ Stores(t.call) \subseteq ObjectStores
         /\ "id" \in DOMAIN t.call => t.id = t.call.id /\ t.id \in Nonces
         /\ Whole(Committed) /\ IsStore(Committed)
         /\ Whole(db)
         /\ Begun(t) => Progress(t) /\ \A s \in Stores(t.call) : Committed[s] = t.before[s]
<1>1. CommittedIsBefore
  BY CommittedFacts DEF StoreInv
<1>2. IsTask(t) /\ IsCall(t.call)
  BY StoreAssumption DEF StoreInv, Shapes, IsTask
<1>3. "id" \in DOMAIN t.call => t.id = t.call.id /\ t.id \in Nonces
  BY <1>2 DEF IsTask, IsCall
<1>4. Begun(t) => Progress(t)
  BY DEF StoreInv
<1>5. Whole(db) /\ IsStore(Committed)
  BY DEF StoreInv, Shapes, Sound
<1>. QED  BY <1>1, <1>2, <1>3, <1>4, <1>5, StoresIn DEF CommittedIsBefore

\* A step keeps the invariant, and commits nothing but the effect of the call.
Kept(call) ==
  /\ StoreInv'
  /\ backend = "indexedDB" /\ Committed' # Committed =>
       \E r \in Effect(Committed, call) : Committed' = r.db

\* The transaction goes on.
LEMMA GoesOn ==
  ASSUME StoreInv, NEW i \in Slots, NEW t \in tasks[i], Begun(t),
         NEW u, IsTask(u), Begun(u), u.call = t.call, u.before = t.before,
         tasks' = [tasks EXCEPT ![i] = {u}], UNCHANGED <<backend, outbox>>,
         Whole(db)',
         \A s \in ObjectStores \ Stores(t.call) : db'[s] = db[s],
         Progress(u)'
  PROVE  Kept(t.call)
<1>1. PICK X : X = {u}
  OBVIOUS
<1>2. PICK d : d = [s \in ObjectStores |->
                      IF s \in Stores(t.call) /\ (\A v \in X : ~Begun(v)) THEN db'[s]
                      ELSE Committed[s]]
  OBVIOUS
<1>3. d = Committed
  BY <1>1, <1>2, TaskFacts DEF Whole
<1>4. UNION {Messages(v) : v \in X} = {}
  BY <1>1 DEF Messages, Begun
<1>5. Sound(d) /\ Known(Sent \cup UNION {Messages(v) : v \in X}, d)
  BY <1>3, <1>4 DEF StoreInv
<1>6. \A v, w \in X : v = w
  BY <1>1
<1>7. \A v \in X : IsTask(v) /\ v.at # "begin"
  BY <1>1 DEF Begun
<1>8. \A v \in X : Begun(v) => v.call = t.call /\ v.before = t.before /\ Progress(v)'
  BY <1>1
<1>9. tasks' = [tasks EXCEPT ![i] = X]
  BY <1>1
<1>10. Moves(i, t, X, d)
  BY <1>2, <1>6, <1>7, <1>8, <1>9 DEF Moves
<1>11. StoreInv' /\ Committed' = d
  BY <1>5, <1>10, SlotStep
<1>. QED  BY <1>3, <1>11 DEF Kept

\* The transaction is complete.
LEMMA Completes ==
  ASSUME StoreInv, NEW i \in Slots, NEW t \in tasks[i], Begun(t),
         NEW new, NEW signed, Commit(i, t, new, signed), UNCHANGED <<backend, outbox>>,
         Whole(new),
         \A s \in ObjectStores \ Stores(t.call) : new[s] = db[s],
         NEW r, Extends(Committed, r),
         backend = "indexedDB" => r \in Effect(Committed, t.call),
         Whole(r.db),
         \A s \in Stores(t.call) : new[s] = r.db[s],
         \A s \in ObjectStores \ Stores(t.call) : r.db[s] = Committed[s],
         r.signed = {[id |-> t.id, state |-> s] : s \in signed}
  PROVE  Kept(t.call)
<1>1. PICK X : X = IF signed = {} THEN Idle
                   ELSE {[t EXCEPT !.at = "emit", !.vars = signed, !.before = <<>>]}
  OBVIOUS
<1>2. db' = new /\ tasks' = [tasks EXCEPT ![i] = X]
  BY <1>1 DEF Commit
<1>3. IsTask(t)
  BY TaskFacts
<1>4. ASSUME NEW u \in X
      PROVE  IsTask(u) /\ u.at = "emit" /\ Messages(u) = r.signed
  <2>1. u = [t EXCEPT !.at = "emit", !.vars = signed, !.before = <<>>]
    BY <1>1, <1>4 DEF Idle
  <2>2. u = [call |-> t.call, at |-> "emit", id |-> t.id, vars |-> signed, budget |-> t.budget,
             before |-> <<>>]
    BY <1>3, <2>1 DEF IsTask
  <2>3. /\ u.call = t.call /\ u.at = "emit" /\ u.id = t.id /\ u.vars = signed
        /\ u.budget = t.budget /\ u.before = <<>>
    BY <2>2
  <2>4. IsTask(u)
    BY <1>3, <2>2, <2>3 DEF IsTask
  <2>. QED  BY <2>3, <2>4 DEF Messages
<1>5. \A u, v \in X : u = v
  BY <1>1 DEF Idle
<1>6. UNION {Messages(u) : u \in X} \subseteq r.signed
  BY <1>4
<1>7. PICK d : d = [s \in ObjectStores |->
                      IF s \in Stores(t.call) /\ (\A u \in X : ~Begun(u)) THEN db'[s]
                      ELSE Committed[s]]
  OBVIOUS
<1>8. d = r.db
  BY <1>2, <1>4, <1>7 DEF Begun, Whole
<1>9. IsStore(Committed) /\ Known(Sent, Committed)
  BY DEF StoreInv, Sound
<1>11. Sound(d)
  BY <1>8 DEF StoreInv, Sound, Extends, Grows, AllHold
<1>12. Known(Sent \cup r.signed, d)
  BY <1>8, <1>9, KnownExtends
<1>13. Known(Sent \cup UNION {Messages(u) : u \in X}, d)
  BY <1>6, <1>12 DEF Known
<1>14. \A u \in X : IsTask(u) /\ u.at # "begin"
  BY <1>4
<1>15. \A u \in X : Begun(u) => u.call = t.call /\ u.before = t.before /\ Progress(u)'
  BY <1>4 DEF Begun
<1>16. /\ Whole(db)'
       /\ \A s \in ObjectStores \ Stores(t.call) : db'[s] = db[s]
  BY <1>2
<1>17. Moves(i, t, X, d)
  BY <1>2, <1>5, <1>7, <1>14, <1>15, <1>16 DEF Moves
<1>18. StoreInv' /\ Committed' = d
  BY <1>11, <1>13, <1>17, SlotStep
<1>. QED  BY <1>8, <1>18 DEF Kept

\* The call throws: the transaction is rolled back, or, in memory, what it has written stays.
LEMMA Throws ==
  ASSUME StoreInv, NEW i \in Slots, NEW t \in tasks[i], Begun(t),
         NEW left, ThrowLeaving(i, t, left), UNCHANGED <<backend, outbox>>,
         Whole(left),
         \A s \in ObjectStores \ Stores(t.call) : left[s] = db[s],
         NEW e, Grows(Committed, e), Whole(e),
         \A s \in Stores(t.call) : left[s] = e[s],
         \A s \in ObjectStores \ Stores(t.call) : e[s] = Committed[s]
  PROVE  Kept(t.call)
<1>1. PICK X : X = Idle
  OBVIOUS
<1>2. X = {} /\ tasks' = [tasks EXCEPT ![i] = X]
  BY <1>1 DEF ThrowLeaving, Idle
<1>3. PICK d : d = [s \in ObjectStores |->
                      IF s \in Stores(t.call) /\ (\A u \in X : ~Begun(u)) THEN db'[s]
                      ELSE Committed[s]]
  OBVIOUS
<1>4. /\ Whole(db)'
      /\ \A s \in ObjectStores \ Stores(t.call) : db'[s] = db[s]
      /\ backend = "indexedDB" => \A s \in Stores(t.call) : db'[s] = t.before[s]
      /\ backend # "indexedDB" => \A s \in Stores(t.call) : db'[s] = e[s]
  <2>1. CASE backend = "indexedDB"
    <3>1. db' = RolledBack(t)
      BY <2>1 DEF ThrowLeaving
    <3>2. Stores(t.call) \subseteq ObjectStores
      BY TaskFacts
    <3>. QED  BY <2>1, <3>1, <3>2 DEF RolledBack, Whole
  <2>2. CASE backend # "indexedDB"
    <3>1. db' = left
      BY <2>2 DEF ThrowLeaving
    <3>. QED  BY <2>2, <3>1
  <2>. QED  BY <2>1, <2>2
<1>5. backend = "indexedDB" => d = Committed
  BY <1>2, <1>3, <1>4, TaskFacts DEF Whole
<1>6. backend # "indexedDB" => d = e
  BY <1>2, <1>3, <1>4 DEF Whole
<1>7. IsStore(Committed) /\ Known(Sent, Committed) /\ Sound(Committed)
  BY DEF StoreInv, Sound
<1>8. Sound(d)
  BY <1>5, <1>6, <1>7 DEF Sound, Grows
<1>9. Known(Sent, d)
  BY <1>5, <1>6, <1>7, KnownGrows
<1>10. Sent \cup UNION {Messages(u) : u \in X} = Sent
  BY <1>2
<1>11. \A u, v \in X : u = v
  BY <1>2
<1>12. /\ \A u \in X : IsTask(u) /\ u.at # "begin"
       /\ \A u \in X : Begun(u) => u.call = t.call /\ u.before = t.before /\ Progress(u)'
  BY <1>2
<1>13. Moves(i, t, X, d)
  BY <1>2, <1>3, <1>4, <1>11, <1>12 DEF Moves
<1>14. StoreInv' /\ Committed' = d
  BY <1>8, <1>9, <1>10, <1>13, SlotStep
<1>. QED  BY <1>5, <1>14 DEF Kept
------------------------------------------------------------------------------
(* The steps of the calls. *)

\* The object stores that Put and initializeChannel change.
With(channels, id, states) == [channels EXCEPT ![id].states = states]
Nobodys(state) == {[state EXCEPT !.signers = {}]}

LEMMA Fields ==
  ASSUME NEW d, Whole(d), NEW id, NEW states
  PROVE  /\ Whole(Put(d, id, states))
         /\ Put(d, id, states).channels = With(d.channels, id, states)
         /\ \A s \in ObjectStores \ {"channels"} : Put(d, id, states)[s] = d[s]
<1>1. Put(d, id, states) =
        [s \in ObjectStores |-> IF s = "channels" THEN With(d.channels, id, states)
                                ELSE d[s]]
  BY DEF Put, Whole, With
<1>2. "channels" \in ObjectStores
  BY DEF ObjectStores
<1>. QED  BY <1>1, <1>2 DEF Whole

LEMMA InitializeFields ==
  ASSUME NEW d, Whole(d), NEW id, NEW state,
         NEW e, e = InitializeChannel(d, id, state)
  PROVE  /\ Whole(e) /\ e.nonces = id
         /\ e.channels = With(d.channels, id, Nobodys(state))
         /\ \A s \in ObjectStores \ {"channels", "nonces"} : e[s] = d[s]
<1>1. PICK named : named = [d EXCEPT !.nonces = id]
  OBVIOUS
<1>2. /\ Whole(named) /\ named.nonces = id
      /\ named.channels = d.channels
      /\ \A s \in ObjectStores \ {"nonces"} : named[s] = d[s]
  BY <1>1 DEF ObjectStores, Whole
<1>3. PICK states : states = Nobodys(state)
  OBVIOUS
<1>4. e = Put(named, id, states)
  BY <1>1, <1>3 DEF InitializeChannel, Nobodys
<1>5. /\ Whole(Put(named, id, states))
      /\ Put(named, id, states).channels = With(named.channels, id, states)
      /\ \A s \in ObjectStores \ {"channels"} : Put(named, id, states)[s] = named[s]
  BY <1>2, Fields
<1>6. "nonces" \in ObjectStores
  BY DEF ObjectStores
<1>. QED  BY <1>2, <1>3, <1>4, <1>5, <1>6

\* The store as a call sees it that runs: nobody else writes to its object stores.
Sees(t, e) ==
  /\ Grows(Committed, e) /\ Whole(e)
  /\ \A s \in Stores(t.call) : db[s] = e[s]
  /\ \A s \in ObjectStores \ Stores(t.call) : e[s] = Committed[s]

\* Before it writes it sees what is committed
LEMMA SeesCommitted ==
  ASSUME StoreInv, NEW i \in Slots, NEW t \in tasks[i], Begun(t), Wrote(t, t.before)
  PROVE  Sees(t, Committed)
<1>1. /\ Whole(Committed) /\ IsStore(Committed)
      /\ \A s \in Stores(t.call) : Committed[s] = t.before[s]
  BY TaskFacts
<1>2. \A id \in Nonces : \A s \in Committed.channels[id].states : s.turn <= s.turn
  BY <1>1 DEF IsStore, IsEntry, IsState
<1>3. Grows(Committed, Committed)
  BY <1>1, <1>2 DEF Grows, Remembers, SignedBy
<1>. QED  BY <1>1, <1>3 DEF Sees, Wrote

\* and then the channel that it has initialized.
LEMMA SeesInitialized ==
  ASSUME StoreInv, NEW i \in Slots, NEW t \in tasks[i], Begun(t),
         t.call.op \in {"createChannel", "addState"}, t.id \in Nonces,
         NEW state, IsState(state), Missing(t.before, t.id), MaySetNonce(t.before, t.id),
         Wrote(t, InitializeChannel(t.before, t.id, state))
  PROVE  /\ Sees(t, InitializeChannel(Committed, t.id, state))
         /\ Missing(Committed, t.id) /\ MaySetNonce(Committed, t.id)
<1>1. /\ Whole(Committed) /\ IsStore(Committed)
      /\ \A s \in Stores(t.call) : Committed[s] = t.before[s]
      /\ IsCall(t.call) /\ Stores(t.call) \subseteq ObjectStores
      /\ Whole(t.before)
  BY TaskFacts DEF Progress
<1>2. "channels" \in Stores(t.call) /\ "nonces" \in Stores(t.call)
  BY <1>1, StoresIn
<1>3. Committed.channels = t.before.channels /\ Committed.nonces = t.before.nonces
  BY <1>1, <1>2
<1>4. Missing(Committed, t.id) /\ MaySetNonce(Committed, t.id)
  BY <1>3 DEF Missing, MaySetNonce
<1>5. PICK e : e = InitializeChannel(Committed, t.id, state)
  OBVIOUS
<1>6. PICK w : w = InitializeChannel(t.before, t.id, state)
  OBVIOUS
<1>7. Grows(Committed, e)
  BY <1>1, <1>4, <1>5, InitializeGrows
<1>8. /\ Whole(e) /\ e.nonces = t.id
      /\ e.channels = With(Committed.channels, t.id, Nobodys(state))
      /\ \A s \in ObjectStores \ {"channels", "nonces"} : e[s] = Committed[s]
  BY <1>1, <1>5, InitializeFields
<1>9. /\ w.nonces = t.id
      /\ w.channels = With(t.before.channels, t.id, Nobodys(state))
      /\ \A s \in ObjectStores \ {"channels", "nonces"} : w[s] = t.before[s]
  BY <1>1, <1>6, InitializeFields
<1>10. \A s \in Stores(t.call) : db[s] = w[s]
  BY <1>6 DEF Wrote
<1>11. ASSUME NEW s \in Stores(t.call) PROVE w[s] = e[s]
  <2>1. CASE s = "channels"
    BY <1>3, <1>8, <1>9, <2>1
  <2>2. CASE s = "nonces"
    BY <1>8, <1>9, <2>2
  <2>3. CASE s \notin {"channels", "nonces"}
    BY <1>1, <1>8, <1>9, <2>3
  <2>. QED  BY <2>1, <2>2, <2>3
<1>12. \A s \in ObjectStores \ Stores(t.call) : e[s] = Committed[s]
  BY <1>2, <1>8
<1>. QED  BY <1>4, <1>5, <1>7, <1>8, <1>10, <1>11, <1>12 DEF Sees

\* A call that throws leaves in memory what it sees.
LEMMA ThrowsSeeing ==
  ASSUME StoreInv, NEW i \in Slots, NEW t \in tasks[i], Begun(t),
         NEW e, Sees(t, e), Throw(i, t), UNCHANGED <<backend, outbox>>
  PROVE  Kept(t.call)
<1>1. /\ ThrowLeaving(i, t, db) /\ Whole(db)
      /\ \A s \in ObjectStores \ Stores(t.call) : db[s] = db[s]
  BY TaskFacts DEF Throw
<1>2. /\ Grows(Committed, e) /\ Whole(e)
      /\ \A s \in Stores(t.call) : db[s] = e[s]
      /\ \A s \in ObjectStores \ Stores(t.call) : e[s] = Committed[s]
  BY DEF Sees
<1>. QED  BY <1>1, <1>2, Throws
\* A call that puts an entry in its store puts it in what it sees.
LEMMA PutsSeeing ==
  ASSUME StoreInv, NEW i \in Slots, NEW t \in tasks[i], NEW e, Sees(t, e),
         "channels" \in Stores(t.call), NEW id, NEW states
  PROVE  /\ Whole(Put(db, id, states)) /\ Whole(Put(e, id, states))
         /\ db.channels = e.channels
         /\ \A s \in ObjectStores \ Stores(t.call) : /\ Put(db, id, states)[s] = db[s]
                                                     /\ Put(e, id, states)[s] = Committed[s]
         /\ \A s \in Stores(t.call) : Put(db, id, states)[s] = Put(e, id, states)[s]
<1>1. /\ Whole(db) /\ Whole(e) /\ Stores(t.call) \subseteq ObjectStores
      /\ \A s \in Stores(t.call) : db[s] = e[s]
      /\ \A s \in ObjectStores \ Stores(t.call) : e[s] = Committed[s]
  BY TaskFacts DEF Sees
<1>2. /\ Whole(Put(db, id, states))
      /\ Put(db, id, states).channels = With(db.channels, id, states)
      /\ \A s \in ObjectStores \ {"channels"} : Put(db, id, states)[s] = db[s]
  BY <1>1, Fields
<1>3. /\ Whole(Put(e, id, states))
      /\ Put(e, id, states).channels = With(e.channels, id, states)
      /\ \A s \in ObjectStores \ {"channels"} : Put(e, id, states)[s] = e[s]
  BY <1>1, Fields
<1>. QED  BY <1>1, <1>2, <1>3

\* A call that signs.
LEMMA SignsSeeing ==
  ASSUME StoreInv, NEW i \in Slots, NEW t \in tasks[i], Begun(t),
         NEW e, Sees(t, e), "channels" \in Stores(t.call), t.id \in Nonces, ~Missing(e, t.id),
         NEW state, IsState(state), SignAndAdd(e, t.id, state) \subseteq Effect(Committed, t.call),
         t.vars = {state}, SignAndAddState(i, t), UNCHANGED <<backend, outbox>>
  PROVE  Kept(t.call)
<1>1. PICK entry : entry = e.channels[t.id].states
  OBVIOUS
<1>2. Entry(t) = entry
  BY <1>1, PutsSeeing DEF Entry
<1>3. PICK signed : signed = Signed(entry, state)
  OBVIOUS
<1>4. PICK after : after = AddState(n, entry, signed)
  OBVIOUS
<1>5. IF ~MaySign(entry, me, state.turn) THEN Throw(i, t)
      ELSE IF ~InvariantsHold(after)
           THEN ThrowLeaving(i, t, Put(db, t.id, Pushed(entry, signed)))
      ELSE Commit(i, t, Put(db, t.id, after), {signed})
  BY <1>2, <1>3, <1>4 DEF SignAndAddState
<1>6. Grows(Committed, e) /\ IsStore(e) /\ IsStore(Committed)
  BY TaskFacts DEF Sees, Grows
<1>7. IsEntry(entry) /\ t.id <= e.nonces
  BY <1>1, <1>6 DEF IsStore
<1>8. IsState(signed) /\ me \in signed.signers
  BY <1>3, <1>7, SignedIsState
<1>9. CASE ~MaySign(entry, me, state.turn)
  BY <1>5, <1>9, ThrowsSeeing
<1>10. CASE MaySign(entry, me, state.turn) /\ ~InvariantsHold(after)
  <2>1. PICK pushed : pushed = Pushed(entry, signed)
    OBVIOUS
  <2>2. IsEntry(pushed) /\ Remembers(pushed, entry)
    BY <1>7, <1>8, <2>1, AddStateRemembers
  <2>3. Grows(e, Put(e, t.id, pushed))
    BY <1>1, <1>6, <1>7, <2>2, PutGrows
  <2>4. Grows(Committed, Put(e, t.id, pushed))
    BY <1>6, <2>3, GrowsOn
  <2>5. ThrowLeaving(i, t, Put(db, t.id, pushed))
    BY <1>5, <1>10, <2>1
  <2>6. /\ Whole(Put(db, t.id, pushed)) /\ Whole(Put(e, t.id, pushed))
        /\ \A s \in ObjectStores \ Stores(t.call) : /\ Put(db, t.id, pushed)[s] = db[s]
                                                    /\ Put(e, t.id, pushed)[s] = Committed[s]
        /\ \A s \in Stores(t.call) : Put(db, t.id, pushed)[s] = Put(e, t.id, pushed)[s]
    BY PutsSeeing
  <2>. QED  BY <2>4, <2>5, <2>6, Throws
<1>11. CASE MaySign(entry, me, state.turn) /\ InvariantsHold(after)
  <2>1. PICK r : r = Result(Put(e, t.id, after), {[id |-> t.id, state |-> signed]})
    OBVIOUS
  <2>2. r \in SignAndAdd(e, t.id, state)
    BY <1>1, <1>3, <1>4, <1>11, <2>1 DEF SignAndAdd, Missing
  <2>3. r \in Effect(Committed, t.call) /\ Extends(Committed, r)
    BY <1>6, <2>2, TaskFacts, EffectExtends
  <2>4. Commit(i, t, Put(db, t.id, after), {signed})
    BY <1>5, <1>11
  <2>5. r.db = Put(e, t.id, after) /\ r.signed = {[id |-> t.id, state |-> s] : s \in {signed}}
    BY <2>1 DEF Result
  <2>6. /\ Whole(Put(db, t.id, after)) /\ Whole(r.db)
        /\ \A s \in ObjectStores \ Stores(t.call) : /\ Put(db, t.id, after)[s] = db[s]
                                                    /\ r.db[s] = Committed[s]
        /\ \A s \in Stores(t.call) : Put(db, t.id, after)[s] = r.db[s]
    BY <2>5, PutsSeeing
  <2>. QED  BY <2>3, <2>4, <2>5, <2>6, Completes
<1>. QED  BY <1>9, <1>10, <1>11

\* A call that adds a state.
LEMMA AddsSeeing ==
  ASSUME StoreInv, NEW i \in Slots, NEW t \in tasks[i], Begun(t), t.call.op = "addState",
         NEW e, Sees(t, e), ~Missing(e, t.id),
         \A after : /\ after = AddState(n, e.channels[t.id].states, t.call.state)
                    /\ InvariantsHold(after)
                    => Result(Put(e, t.id, after), {}) \in Effect(Committed, t.call),
         AddState_(i, t), UNCHANGED <<backend, outbox>>
  PROVE  Kept(t.call)
<1>1. /\ t.id \in Nonces /\ IsState(t.call.state) /\ "channels" \in Stores(t.call)
      /\ IsCall(t.call)
  BY TaskFacts, StoresIn DEF IsCall
<1>2. PICK entry : entry = e.channels[t.id].states
  OBVIOUS
<1>3. Entry(t) = entry
  BY <1>1, <1>2, PutsSeeing DEF Entry
<1>4. PICK after : after = AddState(n, entry, t.call.state)
  OBVIOUS
<1>5. IF InvariantsHold(after)
      THEN Commit(i, t, Put(db, t.id, after), {})
      ELSE ThrowLeaving(i, t, Put(db, t.id, Pushed(entry, t.call.state)))
  BY <1>3, <1>4 DEF AddState_
<1>6. Grows(Committed, e) /\ IsStore(e) /\ IsStore(Committed)
  BY TaskFacts DEF Sees, Grows
<1>7. IsEntry(entry) /\ t.id <= e.nonces
  BY <1>1, <1>2, <1>6 DEF IsStore
<1>8. CASE ~InvariantsHold(after)
  <2>1. PICK pushed : pushed = Pushed(entry, t.call.state)
    OBVIOUS
  <2>2. IsEntry(pushed) /\ Remembers(pushed, entry)
    BY <1>1, <1>7, <2>1, AddStateRemembers
  <2>3. Grows(e, Put(e, t.id, pushed))
    BY <1>1, <1>2, <1>6, <1>7, <2>2, PutGrows
  <2>4. Grows(Committed, Put(e, t.id, pushed))
    BY <1>6, <2>3, GrowsOn
  <2>5. ThrowLeaving(i, t, Put(db, t.id, pushed))
    BY <1>5, <1>8, <2>1
  <2>6. /\ Whole(Put(db, t.id, pushed)) /\ Whole(Put(e, t.id, pushed))
        /\ \A s \in ObjectStores \ Stores(t.call) : /\ Put(db, t.id, pushed)[s] = db[s]
                                                    /\ Put(e, t.id, pushed)[s] = Committed[s]
        /\ \A s \in Stores(t.call) : Put(db, t.id, pushed)[s] = Put(e, t.id, pushed)[s]
    BY <1>1, PutsSeeing
  <2>. QED  BY <2>4, <2>5, <2>6, Throws
<1>9. CASE InvariantsHold(after)
  <2>1. PICK r : r = Result(Put(e, t.id, after), {})
    OBVIOUS
  <2>2. r \in Effect(Committed, t.call)
    BY <1>2, <1>4, <1>9, <2>1
  <2>3. Extends(Committed, r)
    BY <1>1, <1>6, <2>2, EffectExtends
  <2>4. Commit(i, t, Put(db, t.id, after), {})
    BY <1>5, <1>9
  <2>5. r.db = Put(e, t.id, after) /\ r.signed = {[id |-> t.id, state |-> s] : s \in {}}
    BY <2>1 DEF Result
  <2>6. /\ Whole(Put(db, t.id, after)) /\ Whole(r.db)
        /\ \A s \in ObjectStores \ Stores(t.call) : /\ Put(db, t.id, after)[s] = db[s]
                                                    /\ r.db[s] = Committed[s]
        /\ \A s \in Stores(t.call) : Put(db, t.id, after)[s] = r.db[s]
    BY <1>1, <2>5, PutsSeeing
  <2>. QED  BY <2>2, <2>3, <2>4, <2>5, <2>6, Completes
<1>. QED  BY <1>8, <1>9
\* Store.createChannel reads the nonce that was used last,
LEMMA GetNonceKept ==
  ASSUME StoreInv, NEW i \in Slots, NEW t \in tasks[i], GetNonce(i, t),
         UNCHANGED <<backend, outbox>>
  PROVE  Kept(t.call)
<1>1. t.at = "getNonce" /\ Begun(t)
  BY DEF GetNonce, Begun
<1>2. t.call.op = "createChannel" /\ Wrote(t, t.before) /\ Whole(t.before)
  BY <1>1, TaskFacts DEF Progress, Creating, Adding, Signing, Setting, Budgeting
<1>3. IsTask(t) /\ IsCall(t.call) /\ Whole(db)
  BY TaskFacts
<1>4. db.nonces = t.before.nonces
  BY <1>2, <1>3, StoresIn DEF Wrote
<1>5. CASE db.nonces + 1 \in Nonces
  <2>1. PICK id : id = db.nonces + 1
    OBVIOUS
  <2>2. PICK new : new = Unsigned(0, FALSE, t.call.outcome)
    OBVIOUS
  <2>3. PICK u : u = [t EXCEPT !.at = "setNonce", !.id = id, !.vars = {new}]
    OBVIOUS
  <2>4. tasks' = [tasks EXCEPT ![i] = {u}] /\ UNCHANGED db
    BY <1>5, <2>1, <2>2, <2>3 DEF GetNonce
  <2>5. u = [call |-> t.call, at |-> "setNonce", id |-> id, vars |-> {new}, budget |-> t.budget,
             before |-> t.before]
    BY <1>3, <2>3 DEF IsTask
  <2>6. /\ u.call = t.call /\ u.at = "setNonce" /\ u.id = id /\ u.vars = {new}
        /\ u.budget = t.budget /\ u.before = t.before
    BY <2>5
  <2>7. IsTask(u) /\ Begun(u)
    <3>1. "id" \notin DOMAIN t.call
      BY <1>2, <1>3 DEF IsCall
    <3>. QED  BY <1>3, <2>5, <2>6, <3>1 DEF IsTask, Begun
  <2>8. Progress(u)
    <3>1. Wrote(u, u.before) /\ u.id = u.before.nonces + 1 /\ u.id \in Nonces
      BY <1>2, <1>4, <1>5, <2>1, <2>6 DEF Wrote
    <3>2. Creating(u)
      BY <1>2, <2>2, <2>6, <3>1 DEF Creating
    <3>. QED  BY <1>2, <2>6, <3>2 DEF Progress
  <2>9. Progress(u)' /\ Whole(db)'
    BY <1>3, <2>4, <2>8, ProgressKept DEF Whole
  <2>. QED  BY <1>1, <2>4, <2>6, <2>7, <2>9, GoesOn
<1>6. CASE db.nonces + 1 \notin Nonces
  <2>1. Throw(i, t)
    BY <1>6 DEF GetNonce
  <2>. QED  BY <1>1, <1>2, <2>1, SeesCommitted, ThrowsSeeing
<1>. QED  BY <1>5, <1>6

\* and Store.addState whether the channel is there.
LEMMA GetChannelKept ==
  ASSUME StoreInv, NEW i \in Slots, NEW t \in tasks[i], GetChannel(i, t),
         UNCHANGED <<backend, outbox>>
  PROVE  Kept(t.call)
<1>1. t.at = "getChannel" /\ Begun(t)
  BY DEF GetChannel, Begun
<1>2. t.call.op = "addState" /\ Wrote(t, t.before) /\ Whole(t.before)
  BY <1>1, TaskFacts DEF Progress, Creating, Adding, Signing, Setting, Budgeting
<1>3. IsTask(t) /\ IsCall(t.call) /\ Whole(db)
  BY TaskFacts
<1>4. Missing(db, t.id) <=> Missing(t.before, t.id)
  BY <1>2, <1>3, StoresIn DEF Wrote, Missing
<1>5. PICK at : at = IF Missing(db, t.id) THEN "setNonce" ELSE "addState"
  OBVIOUS
<1>6. PICK u : u = [t EXCEPT !.at = at, !.vars = {t.call.state}]
  OBVIOUS
<1>7. tasks' = [tasks EXCEPT ![i] = {u}] /\ UNCHANGED db
  BY <1>5, <1>6 DEF GetChannel
<1>8. u = [call |-> t.call, at |-> at, id |-> t.id, vars |-> {t.call.state}, budget |-> t.budget,
           before |-> t.before]
  BY <1>3, <1>6 DEF IsTask
<1>9. /\ u.call = t.call /\ u.at = at /\ u.id = t.id /\ u.vars = {t.call.state}
      /\ u.budget = t.budget /\ u.before = t.before
  BY <1>8
<1>10. IsTask(u) /\ Begun(u)
  BY <1>3, <1>5, <1>8, <1>9 DEF IsTask, Begun
<1>11. Progress(u)
  <2>1. Wrote(u, u.before)
    BY <1>2, <1>9 DEF Wrote
  <2>2. Adding(u)
    BY <1>2, <1>4, <1>5, <1>9, <2>1 DEF Adding
  <2>. QED  BY <1>2, <1>9, <2>2 DEF Progress
<1>12. Progress(u)' /\ Whole(db)'
  BY <1>3, <1>7, <1>11, ProgressKept DEF Whole
<1>. QED  BY <1>1, <1>7, <1>9, <1>10, <1>12, GoesOn

\* Store.setNonce, of either.
LEMMA SetNonceKept ==
  ASSUME StoreInv, NEW i \in Slots, NEW t \in tasks[i], SetNonce(i, t),
         UNCHANGED <<backend, outbox>>
  PROVE  Kept(t.call)
<1>1. t.at = "setNonce" /\ Begun(t)
  BY DEF SetNonce, Begun
<1>2. /\ t.call.op \in {"createChannel", "addState"} /\ Wrote(t, t.before) /\ Whole(t.before)
      /\ t.call.op = "createChannel" =>
           /\ t.id = t.before.nonces + 1 /\ t.id \in Nonces
           /\ t.vars = {Unsigned(0, FALSE, t.call.outcome)}
      /\ t.call.op = "addState" => Missing(t.before, t.id) /\ t.vars = {t.call.state}
  BY <1>1, TaskFacts DEF Progress, Creating, Adding, Signing, Setting, Budgeting
<1>3. IsTask(t) /\ IsCall(t.call) /\ Whole(db) /\ Stores(t.call) \subseteq ObjectStores
  BY TaskFacts
<1>4. "nonces" \in Stores(t.call)
  BY <1>2, <1>3, StoresIn
<1>5. MaySetNonce(db, t.id) <=> MaySetNonce(t.before, t.id)
  BY <1>2, <1>4 DEF Wrote, MaySetNonce
<1>6. CASE MaySetNonce(db, t.id)
  <2>1. PICK u : u = [t EXCEPT !.at = "setChannel"]
    OBVIOUS
  <2>2. tasks' = [tasks EXCEPT ![i] = {u}] /\ db' = [db EXCEPT !.nonces = t.id]
    BY <1>6, <2>1 DEF SetNonce, Goto
  <2>3. u = [call |-> t.call, at |-> "setChannel", id |-> t.id, vars |-> t.vars,
             budget |-> t.budget, before |-> t.before]
    BY <1>3, <2>1 DEF IsTask
  <2>4. /\ u.call = t.call /\ u.at = "setChannel" /\ u.id = t.id /\ u.vars = t.vars
        /\ u.budget = t.budget /\ u.before = t.before
    BY <2>3
  <2>5. IsTask(u) /\ Begun(u)
    BY <1>3, <2>3, <2>4 DEF IsTask, Begun
  <2>6. /\ Whole(db)' /\ \A s \in ObjectStores \ {"nonces"} : db'[s] = db[s]
        /\ db'["nonces"] = t.id
    BY <1>3, <1>4, <2>2 DEF Whole
  <2>7. PICK w : w = [t.before EXCEPT !.nonces = t.id]
    OBVIOUS
  <2>8. /\ \A s \in ObjectStores \ {"nonces"} : w[s] = t.before[s]
        /\ w["nonces"] = t.id
    BY <1>2, <1>3, <1>4, <2>7 DEF Whole
  <2>9. \A s \in Stores(t.call) : db'[s] = w[s]
    BY <1>2, <1>3, <2>6, <2>8 DEF Wrote
  <2>10. Wrote(u, [u.before EXCEPT !.nonces = u.id])'
    BY <2>4, <2>7, <2>9 DEF Wrote
  <2>11. Creating(u)' \/ Adding(u)'
    BY <1>2, <1>5, <1>6, <2>4, <2>10 DEF Creating, Adding
  <2>12. Progress(u)'
    BY <1>2, <2>4, <2>11 DEF Progress
  <2>13. \A s \in ObjectStores \ Stores(t.call) : db'[s] = db[s]
    BY <1>4, <2>6
  <2>. QED  BY <1>1, <2>2, <2>4, <2>5, <2>6, <2>12, <2>13, GoesOn
<1>7. CASE ~MaySetNonce(db, t.id)
  <2>1. Throw(i, t)
    BY <1>7 DEF SetNonce
  <2>. QED  BY <1>1, <1>2, <2>1, SeesCommitted, ThrowsSeeing
<1>. QED  BY <1>6, <1>7
\* Store.initializeChannel, of either.
LEMMA SetChannelKept ==
  ASSUME StoreInv, NEW i \in Slots, NEW t \in tasks[i], SetChannel(i, t),
         UNCHANGED <<backend, outbox>>
  PROVE  Kept(t.call)
<1>1. t.at = "setChannel" /\ Begun(t)
  BY DEF SetChannel, Begun
<1>2. /\ t.call.op \in {"createChannel", "addState"} /\ Whole(t.before)
      /\ Wrote(t, [t.before EXCEPT !.nonces = t.id])
      /\ t.call.op = "createChannel" =>
           /\ t.id = t.before.nonces + 1 /\ t.id \in Nonces
           /\ t.vars = {Unsigned(0, FALSE, t.call.outcome)}
      /\ t.call.op = "addState" =>
           /\ Missing(t.before, t.id) /\ MaySetNonce(t.before, t.id)
           /\ t.vars = {t.call.state}
  BY <1>1, TaskFacts DEF Progress, Creating, Adding, Signing, Setting, Budgeting
<1>3. IsTask(t) /\ IsCall(t.call) /\ Whole(db) /\ Stores(t.call) \subseteq ObjectStores
  BY TaskFacts
<1>4. "nonces" \in Stores(t.call) /\ "channels" \in Stores(t.call)
  BY <1>2, <1>3, StoresIn
<1>5. PICK state \in t.vars : db' = Put(db, t.id, {[state EXCEPT !.signers = {}]})
  BY DEF SetChannel
<1>6. /\ t.vars = {state}
      /\ t.call.op = "createChannel" => state = Unsigned(0, FALSE, t.call.outcome)
      /\ t.call.op = "addState" => state = t.call.state
  BY <1>2, <1>5
<1>7. PICK states : states = Nobodys(state)
  OBVIOUS
<1>8. db' = Put(db, t.id, states)
  BY <1>5, <1>7 DEF Nobodys
<1>9. /\ Whole(db)' /\ \A s \in ObjectStores \ {"channels"} : db'[s] = db[s]
      /\ db'["channels"] = With(db.channels, t.id, states)
  <2>1. /\ Whole(Put(db, t.id, states))
        /\ Put(db, t.id, states).channels = With(db.channels, t.id, states)
        /\ \A s \in ObjectStores \ {"channels"} : Put(db, t.id, states)[s] = db[s]
    BY <1>3, Fields
  <2>. QED  BY <1>8, <2>1 DEF Whole
<1>10. PICK w : w = InitializeChannel(t.before, t.id, state)
  OBVIOUS
<1>11. /\ w.nonces = t.id /\ w.channels = With(t.before.channels, t.id, states)
       /\ \A s \in ObjectStores \ {"channels", "nonces"} : w[s] = t.before[s]
  BY <1>2, <1>7, <1>10, InitializeFields
<1>12. /\ db["nonces"] = t.id /\ db["channels"] = t.before["channels"]
       /\ \A s \in Stores(t.call) \ {"nonces"} : db[s] = t.before[s]
  <2>1. PICK named : named = [t.before EXCEPT !.nonces = t.id]
    OBVIOUS
  <2>2. /\ \A s \in ObjectStores \ {"nonces"} : named[s] = t.before[s]
        /\ named["nonces"] = t.id
    BY <1>2, <1>3, <1>4, <2>1 DEF Whole
  <2>3. \A s \in Stores(t.call) : db[s] = named[s]
    BY <1>2, <2>1 DEF Wrote
  <2>. QED  BY <1>3, <1>4, <2>2, <2>3
<1>13. ASSUME NEW s \in Stores(t.call) PROVE db'[s] = w[s]
  <2>1. CASE s = "channels"
    BY <1>9, <1>11, <1>12, <2>1
  <2>2. CASE s = "nonces"
    BY <1>3, <1>9, <1>11, <1>12, <2>2
  <2>3. CASE s \notin {"channels", "nonces"}
    BY <1>3, <1>9, <1>11, <1>12, <2>3
  <2>. QED  BY <2>1, <2>2, <2>3
<1>14. PICK at : at = IF t.call.op = "addState" THEN "addState" ELSE "signAndAdd"
  OBVIOUS
<1>15. PICK u : u = [t EXCEPT !.at = at]
  OBVIOUS
<1>16. tasks' = [tasks EXCEPT ![i] = {u}]
  BY <1>14, <1>15 DEF SetChannel, Goto
<1>17. u = [call |-> t.call, at |-> at, id |-> t.id, vars |-> t.vars, budget |-> t.budget,
            before |-> t.before]
  BY <1>3, <1>15 DEF IsTask
<1>18. /\ u.call = t.call /\ u.at = at /\ u.id = t.id /\ u.vars = t.vars
       /\ u.budget = t.budget /\ u.before = t.before
  BY <1>17
<1>19. IsTask(u) /\ Begun(u)
  BY <1>3, <1>14, <1>17, <1>18 DEF IsTask, Begun
<1>20. Wrote(u, InitializeChannel(u.before, u.id, state))'
  BY <1>10, <1>13, <1>18 DEF Wrote
<1>21. Creating(u)' \/ Adding(u)'
  <2>1. CASE t.call.op = "createChannel"
    BY <1>2, <1>6, <1>14, <1>18, <1>20, <2>1 DEF Creating
  <2>2. CASE t.call.op = "addState"
    BY <1>2, <1>6, <1>14, <1>18, <1>20, <2>2 DEF Adding
  <2>. QED  BY <1>2, <2>1, <2>2
<1>22. Progress(u)'
  BY <1>2, <1>18, <1>21 DEF Progress
<1>23. \A s \in ObjectStores \ Stores(t.call) : db'[s] = db[s]
  BY <1>4, <1>9
<1>. QED  BY <1>1, <1>9, <1>16, <1>18, <1>19, <1>22, <1>23, GoesOn

\* The last step of Store.addState.
LEMMA AddStateKept ==
  ASSUME StoreInv, NEW i \in Slots, NEW t \in tasks[i], AddState_(i, t),
         UNCHANGED <<backend, outbox>>
  PROVE  Kept(t.call)
<1>1. t.at = "addState" /\ Begun(t)
  BY DEF AddState_, Begun
<1>2. /\ t.call.op = "addState" /\ Whole(t.before)
      /\ \/ ~Missing(t.before, t.id) /\ Wrote(t, t.before)
         \/ /\ Missing(t.before, t.id) /\ MaySetNonce(t.before, t.id)
            /\ Wrote(t, InitializeChannel(t.before, t.id, t.call.state))
  BY <1>1, TaskFacts DEF Progress, Creating, Adding, Signing, Setting, Budgeting
<1>3. /\ IsCall(t.call) /\ t.id \in Nonces /\ IsState(t.call.state) /\ t.id = t.call.id
      /\ IsStore(Committed)
  BY <1>2, TaskFacts DEF IsCall
<1>4. CASE ~Missing(t.before, t.id) /\ Wrote(t, t.before)
  <2>1. Sees(t, Committed)
    BY <1>1, <1>4, SeesCommitted
  <2>2. ~Missing(Committed, t.id)
    BY <1>1, <1>2, <1>3, <1>4, TaskFacts, StoresIn DEF Missing
  <2>3. ASSUME NEW after, after = AddState(n, Committed.channels[t.id].states, t.call.state),
               InvariantsHold(after)
        PROVE  Result(Put(Committed, t.id, after), {}) \in Effect(Committed, t.call)
    BY <1>2, <1>3, <2>2, <2>3 DEF Effect, AddSignedState
  <2>. QED  BY <1>1, <1>2, <2>1, <2>2, <2>3, AddsSeeing
<1>5. CASE /\ Missing(t.before, t.id) /\ MaySetNonce(t.before, t.id)
           /\ Wrote(t, InitializeChannel(t.before, t.id, t.call.state))
  <2>1. PICK e : e = InitializeChannel(Committed, t.id, t.call.state)
    OBVIOUS
  <2>2. Sees(t, e) /\ Missing(Committed, t.id) /\ MaySetNonce(Committed, t.id)
    BY <1>1, <1>2, <1>3, <1>5, <2>1, SeesInitialized
  <2>3. ~Missing(e, t.id)
    BY <1>3, <2>1, <2>2, InitializeGrows
  <2>4. ASSUME NEW after, after = AddState(n, e.channels[t.id].states, t.call.state),
               InvariantsHold(after)
        PROVE  Result(Put(e, t.id, after), {}) \in Effect(Committed, t.call)
    BY <1>2, <1>3, <2>1, <2>2, <2>4 DEF Effect, AddSignedState
  <2>. QED  BY <1>1, <1>2, <2>2, <2>3, <2>4, AddsSeeing
<1>. QED  BY <1>2, <1>4, <1>5

\* The last step of the calls that sign: Store.signAndAddStateWithinTx.
LEMMA SignAndAddKept ==
  ASSUME StoreInv, NEW i \in Slots, NEW t \in tasks[i], SignAndAddState(i, t),
         UNCHANGED <<backend, outbox>>
  PROVE  Kept(t.call)
<1>. DEFINE before == t.before.channels[t.id].states
            entry == Committed.channels[t.id].states
<1>1. t.at = "signAndAdd" /\ Begun(t)
  BY DEF SignAndAddState, Begun
<1>2. /\ Whole(t.before)
      /\ \/ /\ t.call.op = "createChannel" /\ t.id = t.before.nonces + 1 /\ t.id \in Nonces
            /\ t.vars = {Unsigned(0, FALSE, t.call.outcome)}
            /\ Wrote(t, InitializeChannel(t.before, t.id, Unsigned(0, FALSE, t.call.outcome)))
         \/ /\ t.call.op = "updateChannel" /\ ~Missing(t.before, t.id) /\ Wrote(t, t.before)
            /\ t.vars = UpdateVars(before, t.call.outcome)
         \/ /\ t.call.op = "signFinalState" /\ ~Missing(t.before, t.id) /\ Wrote(t, t.before)
            /\ MaySignFinal(before) /\ Supported(n, before).final /\ t.vars = FinalVars(before)
  BY <1>1, TaskFacts DEF Progress, Creating, Adding, Signing, Setting, Budgeting
<1>3. /\ IsCall(t.call) /\ IsStore(Committed) /\ Whole(Committed)
      /\ \A s \in Stores(t.call) : Committed[s] = t.before[s]
      /\ "id" \in DOMAIN t.call => t.id = t.call.id /\ t.id \in Nonces
  BY <1>1, TaskFacts
<1>4. "channels" \in Stores(t.call)
  BY <1>2, <1>3, StoresIn
<1>5. entry = before /\ (Missing(Committed, t.id) <=> Missing(t.before, t.id))
  BY <1>3, <1>4 DEF Missing
<1>6. PICK state : state \in t.vars
  BY DEF SignAndAddState
<1>7. CASE t.call.op = "createChannel"
  <2>1. state = Unsigned(0, FALSE, t.call.outcome) /\ t.vars = {state} /\ IsState(state)
    <3>1. state = Unsigned(0, FALSE, t.call.outcome) /\ t.vars = {state}
      BY <1>2, <1>6, <1>7
    <3>2. state = [turn |-> 0, final |-> FALSE, outcome |-> t.call.outcome, signers |-> {}]
      BY <3>1 DEF Unsigned, SignedState
    <3>3. state.turn = 0 /\ state.signers = {}
      BY <3>2
    <3>4. IsState(state)
      BY <3>2, <3>3 DEF SignedState, IsState
    <3>. QED  BY <3>1, <3>4
  <2>2. /\ t.id = t.before.nonces + 1 /\ t.id \in Nonces
        /\ Wrote(t, InitializeChannel(t.before, t.id, state))
    BY <1>2, <1>7, <2>1
  <2>3. "nonces" \in Stores(t.call)
    BY <1>3, <1>7, StoresIn
  <2>4. Committed.nonces = t.before.nonces
    BY <1>3, <2>3
  <2>5. MaySetNonce(Committed, t.id) /\ Missing(Committed, t.id)
    BY <1>3, <2>2, <2>4, NewNonce
  <2>6. MaySetNonce(t.before, t.id) /\ Missing(t.before, t.id)
    BY <1>5, <2>4, <2>5 DEF MaySetNonce
  <2>7. PICK e : e = InitializeChannel(Committed, t.id, state)
    OBVIOUS
  <2>8. Sees(t, e) /\ Missing(Committed, t.id) /\ MaySetNonce(Committed, t.id)
    BY <1>1, <1>7, <2>1, <2>2, <2>6, <2>7, SeesInitialized
  <2>9. ~Missing(e, t.id)
    BY <1>3, <2>1, <2>2, <2>7, <2>8, InitializeGrows
  <2>10. SignAndAdd(e, t.id, state) \subseteq Effect(Committed, t.call)
    BY <1>7, <2>1, <2>2, <2>4, <2>7 DEF Effect, CreateChannel
  <2>. QED  BY <1>1, <1>4, <2>1, <2>2, <2>8, <2>9, <2>10, SignsSeeing
<1>8. CASE t.call.op \in {"updateChannel", "signFinalState"}
  <2>1. t.id = t.call.id /\ t.id \in Nonces
    BY <1>3, <1>8 DEF IsCall
  <2>2. Sees(t, Committed) /\ ~Missing(Committed, t.id)
    BY <1>1, <1>2, <1>5, <1>8, SeesCommitted
  <2>3. IsEntry(entry)
    BY <1>3, <2>1 DEF IsStore
  <2>4. CASE t.call.op = "updateChannel"
    <3>1. t.vars = UpdateVars(entry, t.call.outcome)
      BY <1>2, <1>5, <2>4
    <3>2. IsSupported(n, entry) /\ t.vars = {state}
      BY <1>6, <3>1 DEF UpdateVars, NextVars
    <3>3. IsState(state)
      BY <1>6, <2>3, <3>1, <3>2, NextIsState
    <3>4. SignAndAdd(Committed, t.id, state) \subseteq Effect(Committed, t.call)
      BY <1>6, <2>1, <2>4, <3>1 DEF Effect, UpdateChannel
    <3>. QED  BY <1>1, <1>4, <2>1, <2>2, <3>2, <3>3, <3>4, SignsSeeing
  <2>5. CASE t.call.op = "signFinalState"
    <3>1. t.vars = FinalVars(entry) /\ MaySignFinal(entry) /\ Supported(n, entry).final
      BY <1>2, <1>5, <2>5
    <3>2. IsSupported(n, entry) /\ t.vars = {state}
      BY <1>6, <3>1 DEF MaySignFinal, FinalVars
    <3>3. IsState(state)
      BY <1>6, <2>3, <3>1, <3>2, NextIsState
    <3>4. SignAndAdd(Committed, t.id, state) \subseteq Effect(Committed, t.call)
      BY <1>6, <2>1, <2>5, <3>1 DEF Effect, SignFinalState
    <3>. QED  BY <1>1, <1>4, <2>1, <2>2, <3>2, <3>3, <3>4, SignsSeeing
  <2>. QED  BY <1>8, <2>4, <2>5
<1>. QED  BY <1>2, <1>7, <1>8
\* A call that has only read goes on,
LEMMA ReadsOn ==
  ASSUME StoreInv, NEW i \in Slots, NEW t \in tasks[i], Begun(t),
         NEW u, IsTask(u), Begun(u), u.call = t.call, u.before = t.before, Progress(u),
         tasks' = [tasks EXCEPT ![i] = {u}], UNCHANGED <<backend, outbox, db>>
  PROVE  Kept(t.call)
<1>1. Whole(db)' /\ \A s \in ObjectStores : db'[s] = db[s]
  BY TaskFacts DEF Whole
<1>2. Progress(u)'
  <2>1. Stores(u.call) \subseteq ObjectStores
    BY TaskFacts
  <2>. QED  BY <1>1, <2>1, ProgressKept
<1>. QED  BY <1>1, <1>2, GoesOn

\* and completes with one write.
LEMMA WritesOne ==
  ASSUME StoreInv, NEW i \in Slots, NEW t \in tasks[i], Begun(t), Wrote(t, t.before),
         NEW k \in Stores(t.call),
         NEW new, Whole(new), \A s \in ObjectStores \ {k} : new[s] = db[s],
         NEW e, Whole(e), \A s \in ObjectStores \ {k} : e[s] = Committed[s], new[k] = e[k],
         Commit(i, t, new, {}), UNCHANGED <<backend, outbox>>,
         Extends(Committed, Result(e, {})),
         backend = "indexedDB" => Result(e, {}) \in Effect(Committed, t.call)
  PROVE  Kept(t.call)
<1>1. PICK r : r = Result(e, {})
  OBVIOUS
<1>2. r.db = e /\ r.signed = {[id |-> t.id, state |-> s] : s \in {}}
  BY <1>1 DEF Result
<1>3. /\ Stores(t.call) \subseteq ObjectStores
      /\ \A s \in Stores(t.call) : db[s] = Committed[s]
  BY TaskFacts DEF Wrote
<1>4. /\ Whole(r.db)
      /\ \A s \in ObjectStores \ Stores(t.call) : new[s] = db[s] /\ r.db[s] = Committed[s]
      /\ \A s \in Stores(t.call) : new[s] = r.db[s]
  BY <1>2, <1>3
<1>. QED  BY <1>1, <1>2, <1>4, Completes

\* Store.getEntry and what updateChannel, signFinalState, setFunding, setLedger and
\* reserveFunds make of it.
LEMMA GetEntryKept ==
  ASSUME StoreInv, NEW i \in Slots, NEW t \in tasks[i], GetEntry(i, t),
         UNCHANGED <<backend, outbox>>
  PROVE  Kept(t.call)
<1>. DEFINE entry == Committed.channels[t.id].states
            before == t.before.channels[t.id].states
<1>1. t.at = "getEntry" /\ Begun(t)
  BY DEF GetEntry, Begun
<1>2. /\ t.call.op \in {"updateChannel", "signFinalState", "setFunding", "setLedger", "reserveFunds"}
      /\ Whole(t.before) /\ Wrote(t, t.before)
  BY <1>1, TaskFacts DEF Progress, Creating, Adding, Signing, Setting, Budgeting
<1>3. /\ IsTask(t) /\ IsCall(t.call) /\ Whole(db) /\ Whole(Committed) /\ IsStore(Committed)
      /\ \A s \in Stores(t.call) : Committed[s] = t.before[s]
      /\ t.id = t.call.id
  BY <1>1, <1>2, TaskFacts DEF IsCall
<1>4. /\ "channels" \in Stores(t.call) /\ db.channels = t.before.channels
      /\ Committed.channels = t.before.channels
  BY <1>2, <1>3, StoresIn DEF Wrote
<1>5. Sees(t, Committed)
  BY <1>1, <1>2, SeesCommitted
<1>6. Throw(i, t) => Kept(t.call)
  BY <1>1, <1>5, ThrowsSeeing
<1>7. ASSUME NEW at, at \notin {"begin", "emit"}, NEW v,
             tasks' = [tasks EXCEPT ![i] = {[t EXCEPT !.at = at, !.vars = v]}], UNCHANGED db,
             \A u : /\ u.call = t.call /\ u.at = at /\ u.id = t.id /\ u.vars = v
                    /\ u.before = t.before /\ Wrote(u, u.before)
                    => Progress(u)
      PROVE  Kept(t.call)
  <2>1. PICK u : u = [t EXCEPT !.at = at, !.vars = v]
    OBVIOUS
  <2>2. u = [call |-> t.call, at |-> at, id |-> t.id, vars |-> v, budget |-> t.budget,
             before |-> t.before]
    BY <1>3, <2>1 DEF IsTask
  <2>3. /\ u.call = t.call /\ u.at = at /\ u.id = t.id /\ u.vars = v
        /\ u.budget = t.budget /\ u.before = t.before
    BY <2>2
  <2>4. IsTask(u) /\ Begun(u)
    BY <1>3, <1>7, <2>2, <2>3 DEF IsTask, Begun
  <2>5. Wrote(u, u.before)
    BY <1>2, <2>3 DEF Wrote
  <2>6. Progress(u)
    BY <1>7, <2>3, <2>5
  <2>. QED  BY <1>1, <1>7, <2>1, <2>3, <2>4, <2>6, ReadsOn
<1>8. ASSUME NEW at, at \notin {"begin", "emit"}, Goto(i, t, at), UNCHANGED db,
             \A u : /\ u.call = t.call /\ u.at = at /\ u.id = t.id
                    /\ u.before = t.before /\ Wrote(u, u.before)
                    => Progress(u)
      PROVE  Kept(t.call)
  <2>1. [t EXCEPT !.at = at] = [t EXCEPT !.at = at, !.vars = t.vars]
    BY <1>3 DEF IsTask
  <2>2. tasks' = [tasks EXCEPT ![i] = {[t EXCEPT !.at = at, !.vars = t.vars]}]
    BY <1>8, <2>1 DEF Goto
  <2>. QED  BY <1>7, <1>8, <2>2
<1>9. CASE Missing(db, t.id)
  BY <1>6, <1>9 DEF GetEntry
<1>10. CASE t.call.op = "updateChannel" /\ ~Missing(db, t.id)
  <2>1. Entry(t) = before /\ ~Missing(t.before, t.id)
    BY <1>4, <1>10 DEF Entry, Missing
  <2>2. PICK next : next = UpdateVars(before, t.call.outcome)
    OBVIOUS
  <2>3. CASE next = {}
    BY <1>6, <1>10, <2>1, <2>2, <2>3 DEF GetEntry
  <2>4. CASE next # {}
    <3>1. tasks' = [tasks EXCEPT ![i] = {[t EXCEPT !.at = "signAndAdd", !.vars = next]}] /\ UNCHANGED db
      BY <1>10, <2>1, <2>2, <2>4 DEF GetEntry
    <3>2. ASSUME NEW u, u.call = t.call, u.at = "signAndAdd", u.id = t.id, u.vars = next,
                 u.before = t.before, Wrote(u, u.before)
          PROVE  Progress(u)
      <4>1. Signing(u)
        BY <1>10, <2>1, <2>2, <3>2 DEF Signing
      <4>. QED  BY <1>2, <3>2, <4>1 DEF Progress
    <3>. QED  BY <1>7, <3>1, <3>2
  <2>. QED  BY <2>3, <2>4
<1>11. CASE t.call.op = "signFinalState" /\ ~Missing(db, t.id)
  <2>1. Entry(t) = before /\ entry = before /\ ~Missing(t.before, t.id)
    BY <1>4, <1>11 DEF Entry, Missing
  <2>2. PICK next : next = FinalVars(before)
    OBVIOUS
  <2>3. CASE ~MaySignFinal(before) \/ ~Supported(n, before).final
    BY <1>6, <1>11, <2>1, <2>3 DEF GetEntry
  <2>4. CASE MaySignFinal(before) /\ Supported(n, before).final /\ next = {}
    <3>1. Commit(i, t, db, {})
      BY <1>11, <2>1, <2>2, <2>4 DEF GetEntry
    <3>2. Result(Committed, {}) \in Effect(Committed, t.call)
      BY <1>3, <1>11, <2>1, <2>2, <2>4 DEF Effect, SignFinalState
    <3>3. Extends(Committed, Result(Committed, {}))
      BY <1>3, <3>2, EffectExtends
    <3>4. db["channels"] = Committed["channels"]
      BY <1>4
    <3>. QED  BY <1>1, <1>2, <1>3, <1>4, <3>1, <3>2, <3>3, <3>4, WritesOne
  <2>5. CASE MaySignFinal(before) /\ Supported(n, before).final /\ next # {}
    <3>1. tasks' = [tasks EXCEPT ![i] = {[t EXCEPT !.at = "signAndAdd", !.vars = next]}] /\ UNCHANGED db
      BY <1>11, <2>1, <2>2, <2>5 DEF GetEntry
    <3>2. ASSUME NEW u, u.call = t.call, u.at = "signAndAdd", u.id = t.id, u.vars = next,
                 u.before = t.before, Wrote(u, u.before)
          PROVE  Progress(u)
      <4>1. Signing(u)
        BY <1>11, <2>1, <2>2, <2>5, <3>2 DEF Signing
      <4>. QED  BY <1>2, <3>2, <4>1 DEF Progress
    <3>. QED  BY <1>7, <3>1, <3>2
  <2>. QED  BY <2>3, <2>4, <2>5
<1>12. CASE t.call.op = "setFunding" /\ ~Missing(db, t.id)
  <2>1. CASE db.channels[t.id].funded
    BY <1>6, <1>12, <2>1 DEF GetEntry
  <2>2. CASE ~db.channels[t.id].funded
    <3>1. Goto(i, t, "setFunding") /\ UNCHANGED db
      BY <1>12, <2>2 DEF GetEntry
    <3>2. ASSUME NEW u, u.call = t.call, u.at = "setFunding", u.id = t.id,
                 u.before = t.before, Wrote(u, u.before)
          PROVE  Progress(u)
      <4>1. Setting(u)
        BY <1>4, <1>12, <2>2, <3>2 DEF Setting, Missing
      <4>. QED  BY <1>2, <3>2, <4>1 DEF Progress
    <3>. QED  BY <1>8, <3>1, <3>2
  <2>. QED  BY <2>1, <2>2
<1>13. CASE t.call.op = "setLedger" /\ ~Missing(db, t.id)
  <2>1. Goto(i, t, "setLedger") /\ UNCHANGED db
    BY <1>13 DEF GetEntry
  <2>2. ASSUME NEW u, u.call = t.call, u.at = "setLedger", u.id = t.id,
               u.before = t.before, Wrote(u, u.before)
        PROVE  Progress(u)
    <3>1. Setting(u)
      BY <1>4, <1>13, <2>2 DEF Setting, Missing
    <3>. QED  BY <1>2, <2>2, <3>1 DEF Progress
  <2>. QED  BY <1>8, <2>1, <2>2
<1>14. CASE t.call.op = "reserveFunds" /\ ~Missing(db, t.id)
  <2>1. Goto(i, t, "getBudget") /\ UNCHANGED db
    BY <1>14 DEF GetEntry
  <2>2. ASSUME NEW u, u.call = t.call, u.at = "getBudget", u.id = t.id,
               u.before = t.before, Wrote(u, u.before)
        PROVE  Progress(u)
    <3>1. Budgeting(u)
      BY <1>4, <1>14, <2>2 DEF Budgeting, Missing
    <3>. QED  BY <1>2, <2>2, <3>1 DEF Progress
  <2>. QED  BY <1>8, <2>1, <2>2
<1>. QED  BY <1>2, <1>9, <1>10, <1>11, <1>12, <1>13, <1>14
\* The last step of setFunding and of setLedger.
LEMMA SetFundingKept ==
  ASSUME StoreInv, NEW i \in Slots, NEW t \in tasks[i], SetFunding_(i, t),
         UNCHANGED <<backend, outbox>>
  PROVE  Kept(t.call)
<1>1. t.at = "setFunding" /\ Begun(t)
  BY DEF SetFunding_, Begun
<1>2. /\ t.call.op = "setFunding" /\ Wrote(t, t.before)
      /\ ~Missing(t.before, t.id) /\ ~t.before.channels[t.id].funded
  BY <1>1, TaskFacts DEF Progress, Creating, Adding, Signing, Setting, Budgeting
<1>3. /\ IsCall(t.call) /\ Whole(db) /\ Whole(Committed) /\ IsStore(Committed)
      /\ \A s \in Stores(t.call) : Committed[s] = t.before[s]
      /\ t.id = t.call.id /\ Stores(t.call) \subseteq ObjectStores
  BY <1>1, <1>2, TaskFacts DEF IsCall
<1>4. /\ "channels" \in Stores(t.call) /\ "channels" \in ObjectStores
      /\ db.channels = t.before.channels /\ Committed.channels = t.before.channels
  BY <1>2, <1>3, StoresIn DEF Wrote
<1>5. PICK channels : channels = [t.before.channels EXCEPT ![t.id].funded = TRUE]
  OBVIOUS
<1>6. PICK new : new = [db EXCEPT !.channels[t.id].funded = TRUE]
  OBVIOUS
<1>7. PICK e : e = [Committed EXCEPT !.channels[t.id].funded = TRUE]
  OBVIOUS
<1>8. /\ Whole(new) /\ \A s \in ObjectStores \ {"channels"} : new[s] = db[s]
      /\ new["channels"] = channels
  BY <1>3, <1>4, <1>5, <1>6 DEF Whole
<1>9. /\ Whole(e) /\ \A s \in ObjectStores \ {"channels"} : e[s] = Committed[s]
      /\ e["channels"] = channels
  BY <1>3, <1>4, <1>5, <1>7 DEF Whole
<1>10. Commit(i, t, new, {})
  BY <1>6 DEF SetFunding_
<1>11. Result(e, {}) \in Effect(Committed, t.call)
  <2>1. ~Missing(Committed, t.call.id) /\ ~Committed.channels[t.call.id].funded
    BY <1>2, <1>3, <1>4 DEF Missing
  <2>2. Result(e, {}) \in SetFunding(Committed, t.call.id)
    BY <1>3, <1>7, <2>1 DEF SetFunding
  <2>. QED  BY <1>2, <2>2 DEF Effect
<1>12. Extends(Committed, Result(e, {}))
  BY <1>3, <1>11, EffectExtends
<1>. QED  BY <1>1, <1>2, <1>4, <1>8, <1>9, <1>10, <1>11, <1>12, WritesOne

LEMMA SetLedgerKept ==
  ASSUME StoreInv, NEW i \in Slots, NEW t \in tasks[i], SetLedger_(i, t),
         UNCHANGED <<backend, outbox>>
  PROVE  Kept(t.call)
<1>1. t.at = "setLedger" /\ Begun(t)
  BY DEF SetLedger_, Begun
<1>2. t.call.op = "setLedger" /\ Wrote(t, t.before) /\ ~Missing(t.before, t.id)
  BY <1>1, TaskFacts DEF Progress, Creating, Adding, Signing, Setting, Budgeting
<1>3. /\ IsCall(t.call) /\ Whole(db) /\ Whole(Committed) /\ IsStore(Committed)
      /\ \A s \in Stores(t.call) : Committed[s] = t.before[s]
      /\ t.id = t.call.id /\ Stores(t.call) \subseteq ObjectStores
  BY <1>1, <1>2, TaskFacts DEF IsCall
<1>4. /\ "channels" \in Stores(t.call) /\ "ledgers" \in Stores(t.call) /\ "ledgers" \in ObjectStores
      /\ Committed.channels = t.before.channels
  BY <1>2, <1>3, StoresIn
<1>5. PICK new : new = [db EXCEPT !.ledgers = {t.id}]
  OBVIOUS
<1>6. PICK e : e = [Committed EXCEPT !.ledgers = {t.id}]
  OBVIOUS
<1>7. /\ Whole(new) /\ \A s \in ObjectStores \ {"ledgers"} : new[s] = db[s]
      /\ new["ledgers"] = {t.id}
  BY <1>3, <1>4, <1>5 DEF Whole
<1>8. /\ Whole(e) /\ \A s \in ObjectStores \ {"ledgers"} : e[s] = Committed[s]
      /\ e["ledgers"] = {t.id}
  BY <1>3, <1>4, <1>6 DEF Whole
<1>9. Commit(i, t, new, {})
  BY <1>5 DEF SetLedger_
<1>10. Result(e, {}) \in Effect(Committed, t.call)
  <2>1. ~Missing(Committed, t.call.id)
    BY <1>2, <1>3, <1>4 DEF Missing
  <2>2. Result(e, {}) \in SetLedger(Committed, t.call.id)
    BY <1>3, <1>6, <2>1 DEF SetLedger
  <2>. QED  BY <1>2, <2>2 DEF Effect
<1>11. Extends(Committed, Result(e, {}))
  BY <1>3, <1>10, EffectExtends
<1>. QED  BY <1>1, <1>2, <1>4, <1>7, <1>8, <1>9, <1>10, <1>11, WritesOne

\* createBudget and reserveFunds read the budget,
LEMMA GetBudgetKept ==
  ASSUME StoreInv, NEW i \in Slots, NEW t \in tasks[i], GetBudget(i, t),
         UNCHANGED <<backend, outbox>>
  PROVE  Kept(t.call)
<1>1. t.at = "getBudget" /\ Begun(t)
  BY DEF GetBudget, Begun
<1>2. /\ t.call.op \in {"createBudget", "reserveFunds"} /\ Whole(t.before) /\ Wrote(t, t.before)
      /\ t.call.op = "reserveFunds" => ~Missing(t.before, t.id)
  BY <1>1, TaskFacts DEF Progress, Creating, Adding, Signing, Setting, Budgeting
<1>3. IsTask(t) /\ IsCall(t.call) /\ Whole(db)
  BY TaskFacts
<1>4. db.budgets = t.before.budgets
  BY <1>2, <1>3, StoresIn DEF Wrote
<1>5. PICK budget :
        budget = IF t.call.op = "createBudget"
                 THEN {[available |-> t.call.amount, amounts |-> [id \in Nonces |-> 0]]}
                 ELSE {Reserved(b, t.id, t.call.amount) :
                         b \in {c \in t.before.budgets : t.call.amount <= c.available}}
  OBVIOUS
<1>6. PICK aborted :
        aborted = (t.call.op = "createBudget" /\ t.before.budgets # {} /\ backend = "indexedDB")
  OBVIOUS
<1>7. IF budget = {} \/ aborted THEN Throw(i, t)
      ELSE /\ tasks' = [tasks EXCEPT ![i] = {[t EXCEPT !.at = "setBudget", !.budget = budget]}]
           /\ UNCHANGED db
  BY <1>4, <1>5, <1>6, Zenon DEF GetBudget
<1>8. CASE budget = {} \/ aborted
  <2>1. Throw(i, t)
    BY <1>7, <1>8
  <2>. QED  BY <1>1, <1>2, <2>1, SeesCommitted, ThrowsSeeing
<1>9. CASE budget # {} /\ ~aborted
  <2>1. PICK u : u = [t EXCEPT !.at = "setBudget", !.budget = budget]
    OBVIOUS
  <2>2. tasks' = [tasks EXCEPT ![i] = {u}] /\ UNCHANGED db
    BY <1>7, <1>9, <2>1
  <2>3. u = [call |-> t.call, at |-> "setBudget", id |-> t.id, vars |-> t.vars,
             budget |-> budget, before |-> t.before]
    BY <1>3, <2>1 DEF IsTask
  <2>4. /\ u.call = t.call /\ u.at = "setBudget" /\ u.id = t.id /\ u.vars = t.vars
        /\ u.budget = budget /\ u.before = t.before
    BY <2>3
  <2>5. IsTask(u) /\ Begun(u)
    BY <1>3, <2>3, <2>4 DEF IsTask, Begun
  <2>6. Wrote(u, u.before)
    BY <1>2, <2>4 DEF Wrote
  <2>7. Budgeting(u)
    <3>1. CASE t.call.op = "createBudget"
      <4>1. /\ u.budget = {[available |-> u.call.amount, amounts |-> [id \in Nonces |-> 0]]}
            /\ backend = "indexedDB" => u.before.budgets = {}
        BY <1>5, <1>6, <1>9, <2>4, <3>1
      <4>. QED  BY <2>4, <2>6, <3>1, <4>1 DEF Budgeting
    <3>2. CASE t.call.op = "reserveFunds"
      <4>1. u.budget = {Reserved(b, u.id, u.call.amount) :
                          b \in {c \in u.before.budgets : u.call.amount <= c.available}}
        BY <1>5, <2>4, <3>2
      <4>. QED  BY <1>2, <1>9, <2>4, <2>6, <3>2, <4>1 DEF Budgeting
    <3>. QED  BY <1>2, <3>1, <3>2
  <2>8. Progress(u)
    BY <1>2, <2>4, <2>7 DEF Progress
  <2>. QED  BY <1>1, <2>2, <2>4, <2>5, <2>8, ReadsOn
<1>. QED  BY <1>8, <1>9

\* and write it.
LEMMA SetBudgetKept ==
  ASSUME StoreInv, NEW i \in Slots, NEW t \in tasks[i], SetBudget(i, t),
         UNCHANGED <<backend, outbox>>
  PROVE  Kept(t.call)
<1>1. t.at = "setBudget" /\ Begun(t)
  BY DEF SetBudget, Begun
<1>2. /\ t.call.op \in {"createBudget", "reserveFunds"} /\ Wrote(t, t.before)
      /\ t.call.op = "createBudget" =>
           /\ t.budget = {[available |-> t.call.amount, amounts |-> [id \in Nonces |-> 0]]}
           /\ backend = "indexedDB" => t.before.budgets = {}
      /\ t.call.op = "reserveFunds" =>
           /\ ~Missing(t.before, t.id) /\ t.budget # {}
           /\ t.budget = {Reserved(b, t.id, t.call.amount) :
                            b \in {c \in t.before.budgets : t.call.amount <= c.available}}
  BY <1>1, TaskFacts DEF Progress, Creating, Adding, Signing, Setting, Budgeting
<1>3. /\ IsCall(t.call) /\ Whole(db) /\ Whole(Committed) /\ IsStore(Committed)
      /\ \A s \in Stores(t.call) : Committed[s] = t.before[s]
      /\ "id" \in DOMAIN t.call => t.id = t.call.id
      /\ Stores(t.call) \subseteq ObjectStores
  BY <1>1, TaskFacts
<1>4. /\ "budgets" \in Stores(t.call) /\ "budgets" \in ObjectStores
      /\ Committed.budgets = t.before.budgets
  BY <1>2, <1>3, StoresIn
<1>5. PICK new : new = [db EXCEPT !.budgets = t.budget]
  OBVIOUS
<1>6. PICK e : e = [Committed EXCEPT !.budgets = t.budget]
  OBVIOUS
<1>7. /\ Whole(new) /\ \A s \in ObjectStores \ {"budgets"} : new[s] = db[s]
      /\ new["budgets"] = t.budget
  BY <1>3, <1>4, <1>5 DEF Whole
<1>8. /\ Whole(e) /\ \A s \in ObjectStores \ {"budgets"} : e[s] = Committed[s]
      /\ e["budgets"] = t.budget
  BY <1>3, <1>4, <1>6 DEF Whole
<1>9. Commit(i, t, new, {})
  BY <1>5 DEF SetBudget
<1>10. CASE t.call.op = "createBudget"
  <2>1. PICK b : b = [available |-> t.call.amount, amounts |-> [id \in Nonces |-> 0]]
    OBVIOUS
  <2>2. t.budget = {b} /\ t.call.amount \in Nat
    BY <1>2, <1>3, <1>10, <2>1 DEF IsCall
  <2>3. /\ DOMAIN b = {"available", "amounts"}
        /\ b.available \in Nat /\ b.amounts \in [Nonces -> Nat]
    BY <2>1, <2>2
  <2>4. Extends(Committed, Result(e, {}))
    BY <1>3, <1>6, <2>2, <2>3, BudgetExtends
  <2>5. backend = "indexedDB" => Result(e, {}) \in Effect(Committed, t.call)
    <3>1. e = [Committed EXCEPT !.budgets =
                 {[available |-> t.call.amount, amounts |-> [id \in Nonces |-> 0]]}]
      BY <1>2, <1>6, <1>10
    <3>2. backend = "indexedDB" => Committed.budgets = {}
      BY <1>2, <1>4, <1>10
    <3>. QED  BY <1>10, <3>1, <3>2 DEF Effect, CreateBudget
  <2>. QED  BY <1>1, <1>2, <1>4, <1>7, <1>8, <1>9, <2>4, <2>5, WritesOne
<1>11. CASE t.call.op = "reserveFunds"
  <2>1. PICK c \in t.before.budgets : t.call.amount <= c.available
    BY <1>2, <1>11
  <2>2. \A b \in t.before.budgets : b = c
    BY <1>3, <1>4 DEF IsStore
  <2>3. t.budget = {Reserved(c, t.id, t.call.amount)}
    BY <1>2, <1>11, <2>1, <2>2
  <2>4. t.id = t.call.id /\ ~Missing(Committed, t.call.id)
    <3>1. "channels" \in Stores(t.call)
      BY <1>3, <1>11, StoresIn
    <3>. QED  BY <1>2, <1>3, <1>11, <3>1 DEF IsCall, Missing
  <2>5. Result(e, {}) \in ReserveFunds(Committed, t.call.id, t.call.amount)
    BY <1>4, <1>6, <2>1, <2>3, <2>4 DEF ReserveFunds
  <2>6. Result(e, {}) \in Effect(Committed, t.call)
    BY <1>11, <2>5 DEF Effect
  <2>7. Extends(Committed, Result(e, {}))
    BY <1>3, <2>6, EffectExtends
  <2>. QED  BY <1>1, <1>2, <1>4, <1>7, <1>8, <1>9, <2>6, <2>7, WritesOne
<1>. QED  BY <1>2, <1>10, <1>11

\* Store.clearBudget
LEMMA DeleteBudgetKept ==
  ASSUME StoreInv, NEW i \in Slots, NEW t \in tasks[i], DeleteBudget(i, t),
         UNCHANGED <<backend, outbox>>
  PROVE  Kept(t.call)
<1>1. t.at = "deleteBudget" /\ Begun(t)
  BY DEF DeleteBudget, Begun
<1>2. t.call.op = "clearBudget" /\ Wrote(t, t.before)
  BY <1>1, TaskFacts DEF Progress, Creating, Adding, Signing, Setting, Budgeting
<1>3. /\ IsCall(t.call) /\ Whole(db) /\ Whole(Committed) /\ IsStore(Committed)
      /\ Stores(t.call) \subseteq ObjectStores
  BY <1>1, TaskFacts
<1>4. "budgets" \in Stores(t.call) /\ "budgets" \in ObjectStores
  BY <1>2, <1>3, StoresIn
<1>5. PICK new : new = [db EXCEPT !.budgets = {}]
  OBVIOUS
<1>6. PICK e : e = [Committed EXCEPT !.budgets = {}]
  OBVIOUS
<1>7. /\ Whole(new) /\ \A s \in ObjectStores \ {"budgets"} : new[s] = db[s]
      /\ new["budgets"] = {}
  BY <1>3, <1>4, <1>5 DEF Whole
<1>8. /\ Whole(e) /\ \A s \in ObjectStores \ {"budgets"} : e[s] = Committed[s]
      /\ e["budgets"] = {}
  BY <1>3, <1>4, <1>6 DEF Whole
<1>9. Commit(i, t, new, {})
  BY <1>5 DEF DeleteBudget
<1>10. Result(e, {}) \in Effect(Committed, t.call)
  BY <1>2, <1>6 DEF Effect, ClearBudget
<1>11. Extends(Committed, Result(e, {}))
  BY <1>3, <1>10, EffectExtends
<1>. QED  BY <1>1, <1>2, <1>4, <1>7, <1>8, <1>9, <1>10, <1>11, WritesOne
------------------------------------------------------------------------------
(* The other steps: none of them commits anything. *)

\* A slot changes in which no transaction runs.
LEMMA QuietStep ==
  ASSUME StoreInv, NEW i \in Slots, NEW X, \A t \in tasks[i] : ~Begun(t),
         \A u, v \in X : u = v, \A u \in X : IsTask(u) /\ ~Begun(u),
         X # {} /\ backend = "memory" => \A j \in Slots \ {i} : tasks[j] = {},
         tasks' = [tasks EXCEPT ![i] = X], UNCHANGED <<backend, db>>, Sent' \subseteq Sent
  PROVE  StoreInv' /\ Committed' = Committed
<1>1. Shapes /\ Locked /\ CommittedIsBefore
  BY CommittedFacts DEF StoreInv
<1>2. /\ tasks' = [j \in Slots |-> tasks'[j]] /\ tasks'[i] = X
      /\ \A j \in Slots \ {i} : tasks'[j] = tasks[j]
  BY <1>1, OtherSlots
<1>3. Shapes'
  <2>1. ASSUME NEW j \in Slots
        PROVE  /\ \A v, w \in tasks'[j] : v = w
               /\ \A v \in tasks'[j] : IsTask(v)
    BY <1>1, <1>2 DEF Shapes
  <2>. QED  BY <1>1, <1>2, <2>1 DEF Shapes, Whole
<1>4. Locked'
  <2>1. ASSUME NEW j \in Slots, NEW k \in Slots, j # k, NEW v \in tasks'[j], NEW w \in tasks'[k]
        PROVE  /\ backend = "indexedDB"
               /\ Begun(v) /\ Begun(w) => Stores(v.call) \cap Stores(w.call) = {}
    <3>1. CASE j = i
      BY <1>1, <1>2, <2>1, <3>1 DEF Shapes
    <3>2. CASE k = i
      BY <1>1, <1>2, <2>1, <3>2 DEF Shapes
    <3>3. CASE j # i /\ k # i
      BY <1>1, <1>2, <2>1, <3>3 DEF Locked
    <3>. QED  BY <3>1, <3>2, <3>3
  <2>. QED  BY <2>1 DEF Locked, Begun
<1>5. CommittedIsBefore'
  BY <1>3, <1>4, CommittedFacts, PTL
<1>6. Committed' = Committed
  <2>1. ASSUME NEW s \in ObjectStores PROVE Committed'[s] = Committed[s]
    <3>1. ASSUME NEW j \in Slots \ {i}, NEW v \in tasks[j], Begun(v), s \in Stores(v.call)
          PROVE  Committed'[s] = Committed[s]
      <4>1. Committed[s] = v.before[s]
        BY <1>1, <3>1 DEF CommittedIsBefore
      <4>2. Committed'[s] = v.before[s]
        BY <1>2, <1>5, <3>1 DEF CommittedIsBefore, Begun
      <4>. QED  BY <4>1, <4>2
    <3>2. CASE \A j \in Slots \ {i} : \A v \in tasks[j] : Begun(v) => s \notin Stores(v.call)
      <4>1. \A j \in Slots : \A v \in tasks[j] : Begun(v) => s \notin Stores(v.call)
        BY <3>2
      <4>2. \A j \in Slots : \A v \in tasks'[j] : Begun(v) => s \notin Stores(v.call)
        BY <1>2, <3>2
      <4>3. Committed[s] = db[s]
        BY <1>1, <4>1 DEF CommittedIsBefore
      <4>4. Committed'[s] = db'[s]
        BY <1>5, <4>2 DEF CommittedIsBefore, Begun
      <4>. QED  BY <4>3, <4>4
    <3>. QED  BY <3>1, <3>2
  <2>. QED  BY <1>1, <1>5, <2>1 DEF CommittedIsBefore, Whole
<1>7. \A j \in Slots : \A v \in tasks'[j] : Begun(v) => Progress(v)'
  <2>1. ASSUME NEW j \in Slots \ {i}, NEW v \in tasks[j], Begun(v) PROVE Progress(v)'
    BY <2>1, ProgressKept DEF StoreInv
  <2>. QED  BY <1>2, <2>1
<1>8. Known(Sent', Committed') /\ Sound(Committed)'
  BY <1>6 DEF StoreInv, Known, Sound
<1>. QED  BY <1>3, <1>4, <1>6, <1>7, <1>8 DEF StoreInv, Begun

\* A call is made.
LEMMA CallKept ==
  ASSUME StoreInv, NEW i \in Slots, NEW call \in Calls, Call(i, call)
  PROVE  StoreInv' /\ Committed' = Committed
<1>1. PICK t : t = Task(call)
  OBVIOUS
<1>2. PICK X : X = {t}
  OBVIOUS
<1>3. /\ tasks[i] = {} /\ tasks' = [tasks EXCEPT ![i] = X] /\ UNCHANGED <<backend, db, outbox>>
      /\ backend = "memory" => \A j \in Slots : tasks[j] = {}
  BY <1>1, <1>2 DEF Call, Idle
<1>4. /\ t = [call |-> call, at |-> "begin", id |-> t.id, vars |-> {}, budget |-> {},
              before |-> <<>>]
      /\ "id" \in DOMAIN call => t.id = call.id
  BY <1>1 DEF Task
<1>5. t.call = call /\ t.at = "begin" /\ t.vars = {} /\ t.budget = {} /\ t.before = <<>>
  BY <1>4
<1>6. IsTask(t) /\ ~Begun(t)
  BY <1>4, <1>5 DEF IsTask, Begun
<1>7. Sent' \subseteq Sent
  <2>1. UNION {Messages(u) : u \in X} = {}
    BY <1>2, <1>5 DEF Messages
  <2>. QED  BY <1>3, <2>1, SentAfter DEF StoreInv
<1>8. \A u, v \in X : u = v
  BY <1>2
<1>9. \A u \in X : IsTask(u) /\ ~Begun(u)
  BY <1>2, <1>6
<1>. QED  BY <1>3, <1>7, <1>8, <1>9, QuietStep

\* Messages are sent.
LEMMA EmitKept ==
  ASSUME StoreInv, NEW i \in Slots, NEW t \in tasks[i], Emit(i, t)
  PROVE  StoreInv' /\ Committed' = Committed
<1>1. PICK X : X = Idle
  OBVIOUS
<1>2. /\ X = {} /\ t.at = "emit" /\ tasks' = [tasks EXCEPT ![i] = X] /\ UNCHANGED <<backend, db>>
      /\ outbox' = outbox \cup Messages(t)
  BY <1>1 DEF Emit, Idle, Messages
<1>3. Shapes
  BY DEF StoreInv
<1>4. \A u \in tasks[i] : ~Begun(u)
  BY <1>2, <1>3 DEF Shapes, Begun
<1>5. Sent' \subseteq Sent
  <2>1. /\ tasks'[i] = X
        /\ \A j \in Slots \ {i} : tasks'[j] = tasks[j]
    BY <1>2, <1>3, OtherSlots
  <2>2. ASSUME NEW j \in Slots, NEW u \in tasks'[j], NEW m \in Messages(u) PROVE m \in Sent
    BY <1>2, <2>1, <2>2 DEF Sent
  <2>3. Sent' = outbox' \cup UNION {UNION {Messages(u) : u \in tasks'[j]} : j \in Slots}
    BY DEF Sent, Messages
  <2>4. outbox' \subseteq Sent
    BY <1>2 DEF Sent
  <2>. QED  BY <2>2, <2>3, <2>4
<1>6. /\ \A u, v \in X : u = v
      /\ \A u \in X : IsTask(u) /\ ~Begun(u)
  BY <1>2
<1>. QED  BY <1>2, <1>4, <1>5, <1>6, QuietStep
\* A transaction begins, when nobody holds one of its object stores.
LEMMA BeginKept ==
  ASSUME StoreInv, NEW i \in Slots, NEW t \in tasks[i], Begin(i, t),
         UNCHANGED <<backend, outbox>>
  PROVE  StoreInv' /\ Committed' = Committed
<1>1. Shapes /\ Locked /\ CommittedIsBefore
  BY CommittedFacts DEF StoreInv
<1>2. IsTask(t) /\ IsCall(t.call) /\ Whole(db) /\ ~Begun(t)
  BY TaskFacts DEF Begin, Begun
<1>3. PICK u : u = [t EXCEPT !.at = FirstStep(t.call), !.before = db]
  OBVIOUS
<1>4. PICK X : X = {u}
  OBVIOUS
<1>5. tasks' = [tasks EXCEPT ![i] = X] /\ UNCHANGED db /\ Exclusive(i, t.call)
  BY <1>3, <1>4 DEF Begin
<1>6. u = [call |-> t.call, at |-> FirstStep(t.call), id |-> t.id, vars |-> t.vars,
           budget |-> t.budget, before |-> db]
  BY <1>2, <1>3 DEF IsTask
<1>7. /\ u.call = t.call /\ u.at = FirstStep(t.call) /\ u.id = t.id /\ u.vars = t.vars
      /\ u.budget = t.budget /\ u.before = db
  BY <1>6
<1>8. \/ u.at = "getNonce" /\ t.call.op = "createChannel"
      \/ u.at = "getChannel" /\ t.call.op = "addState"
      \/ u.at = "getBudget" /\ t.call.op = "createBudget"
      \/ u.at = "deleteBudget" /\ t.call.op = "clearBudget"
      \/ /\ u.at = "getEntry"
         /\ t.call.op \in {"updateChannel", "signFinalState", "setFunding", "setLedger",
                           "reserveFunds"}
  BY <1>2, <1>7 DEF FirstStep, IsCall
<1>9. IsTask(u) /\ Begun(u)
  <2>1. Begun(u)
    BY <1>8 DEF Begun
  <2>2. IsTask(u)
    BY <1>2, <1>6, <1>7 DEF IsTask
  <2>. QED  BY <2>1, <2>2
<1>10. Progress(u)
  <2>1. Wrote(u, u.before) /\ Whole(u.before)
    BY <1>2, <1>7 DEF Wrote
  <2>2. Creating(u) \/ Adding(u) \/ Signing(u) \/ Setting(u) \/ Budgeting(u)
    BY <1>7, <1>8, <2>1 DEF Creating, Adding, Signing, Setting, Budgeting
  <2>. QED  BY <2>1, <2>2 DEF Progress
<1>11. /\ tasks' = [j \in Slots |-> tasks'[j]] /\ tasks'[i] = X
       /\ \A j \in Slots \ {i} : tasks'[j] = tasks[j]
  BY <1>1, <1>5, OtherSlots
<1>12. \A j \in Slots \ {i} : \A v \in tasks[j] :
         /\ backend = "indexedDB"
         /\ Begun(v) => Stores(v.call) \cap Stores(u.call) = {}
  <2>1. ASSUME NEW j \in Slots \ {i}, NEW v \in tasks[j]
        PROVE  /\ backend = "indexedDB"
               /\ Begun(v) => Stores(v.call) \cap Stores(u.call) = {}
    <3>1. backend = "indexedDB"
      BY <1>1 DEF Locked
    <3>2. ASSUME Begun(v) PROVE Stores(v.call) \cap Stores(u.call) = {}
      <4>1. (CHOOSE w \in tasks[j] : TRUE) \in tasks[j]
        OBVIOUS
      <4>2. (CHOOSE w \in tasks[j] : TRUE) = v
        BY <1>1, <4>1 DEF Shapes
      <4>3. Running(j)
        BY <3>2, <4>2 DEF Running, Begun, Idle
      <4>. QED  BY <1>5, <1>7, <4>3 DEF Exclusive
    <3>. QED  BY <3>1, <3>2
  <2>. QED  BY <2>1
<1>13. Shapes'
  <2>1. ASSUME NEW j \in Slots
        PROVE  /\ \A v, w \in tasks'[j] : v = w
               /\ \A v \in tasks'[j] : IsTask(v)
    BY <1>1, <1>4, <1>9, <1>11 DEF Shapes
  <2>. QED  BY <1>1, <1>5, <1>11, <2>1 DEF Shapes, Whole
<1>14. Locked'
  <2>1. ASSUME NEW j \in Slots, NEW k \in Slots, j # k, NEW v \in tasks'[j], NEW w \in tasks'[k]
        PROVE  /\ backend = "indexedDB"
               /\ Begun(v) /\ Begun(w) => Stores(v.call) \cap Stores(w.call) = {}
    <3>1. CASE j = i
      BY <1>4, <1>11, <1>12, <2>1, <3>1
    <3>2. CASE k = i
      BY <1>4, <1>11, <1>12, <2>1, <3>2
    <3>3. CASE j # i /\ k # i
      BY <1>1, <1>11, <2>1, <3>3 DEF Locked
    <3>. QED  BY <3>1, <3>2, <3>3
  <2>. QED  BY <2>1 DEF Locked, Begun
<1>15. CommittedIsBefore'
  BY <1>13, <1>14, CommittedFacts, PTL
<1>16. Committed' = Committed
  <2>1. ASSUME NEW s \in ObjectStores PROVE Committed'[s] = Committed[s]
    <3>1. ASSUME NEW j \in Slots \ {i}, NEW v \in tasks[j], Begun(v), s \in Stores(v.call)
          PROVE  Committed'[s] = Committed[s]
      <4>1. Committed[s] = v.before[s]
        BY <1>1, <3>1 DEF CommittedIsBefore
      <4>2. Committed'[s] = v.before[s]
        BY <1>11, <1>15, <3>1 DEF CommittedIsBefore, Begun
      <4>. QED  BY <4>1, <4>2
    <3>2. CASE \A j \in Slots \ {i} : \A v \in tasks[j] : Begun(v) => s \notin Stores(v.call)
      <4>1. \A v \in tasks[i] : ~Begun(v)
        BY <1>1, <1>2 DEF Shapes
      <4>2. \A j \in Slots : \A v \in tasks[j] : Begun(v) => s \notin Stores(v.call)
        BY <3>2, <4>1
      <4>3. Committed[s] = db[s]
        BY <1>1, <4>2 DEF CommittedIsBefore
      <4>4. CASE s \in Stores(u.call)
        <5>1. Committed'[s] = u.before[s]
          BY <1>4, <1>9, <1>11, <1>15, <4>4 DEF CommittedIsBefore, Begun
        <5>. QED  BY <1>7, <4>3, <5>1
      <4>5. CASE s \notin Stores(u.call)
        <5>1. \A j \in Slots : \A v \in tasks'[j] : Begun(v) => s \notin Stores(v.call)
          BY <1>4, <1>11, <3>2, <4>5
        <5>2. Committed'[s] = db'[s]
          BY <1>15, <5>1 DEF CommittedIsBefore, Begun
        <5>. QED  BY <1>5, <4>3, <5>2
      <4>. QED  BY <4>4, <4>5
    <3>. QED  BY <3>1, <3>2
  <2>. QED  BY <1>1, <1>15, <2>1 DEF CommittedIsBefore, Whole
<1>17. \A j \in Slots : \A v \in tasks'[j] : Begun(v) => Progress(v)'
  <2>1. ASSUME NEW j \in Slots \ {i}, NEW v \in tasks[j], Begun(v) PROVE Progress(v)'
    BY <1>5, <2>1, ProgressKept DEF StoreInv
  <2>2. Progress(u)'
    BY <1>5, <1>10, ProgressKept
  <2>. QED  BY <1>4, <1>11, <2>1, <2>2
<1>18. Sent' \subseteq Sent
  <2>1. UNION {Messages(v) : v \in X} = {}
    BY <1>4, <1>9 DEF Messages, Begun
  <2>. QED  BY <1>1, <1>5, <2>1, SentAfter
<1>19. Known(Sent', Committed') /\ Sound(Committed)'
  BY <1>16, <1>18 DEF StoreInv, Known, Sound
<1>. QED  BY <1>13, <1>14, <1>16, <1>17, <1>19 DEF StoreInv, Begun

\* With no call in any slot, all that is in the store is committed.
AtRest == tasks = [i \in Slots |-> {}] /\ Whole(db) /\ backend \in {"indexedDB", "memory"}
AllCommitted == Shapes /\ Locked /\ Committed = db /\ Sent = outbox

LEMMA RestFacts == AtRest => AllCommitted
<1>. SUFFICES ASSUME AtRest PROVE AllCommitted
  OBVIOUS
<1>1. Shapes /\ Locked
  BY DEF AtRest, Shapes, Locked
<1>2. CommittedIsBefore
  BY <1>1, CommittedFacts
<1>3. \A s \in ObjectStores : Committed[s] = db[s]
  BY <1>2 DEF AtRest, CommittedIsBefore
<1>4. Committed = db
  BY <1>2, <1>3 DEF AtRest, CommittedIsBefore, Whole
<1>5. Sent = outbox
  BY DEF AtRest, Sent
<1>. QED  BY <1>1, <1>4, <1>5 DEF AllCommitted

\* The page is reloaded.
LEMMA ReloadKept ==
  ASSUME StoreInv, Reload
  PROVE  StoreInv' /\ Committed' = Committed
<1>1. CommittedIsBefore
  BY CommittedFacts DEF StoreInv
<1>2. /\ backend = "indexedDB" /\ UNCHANGED <<backend, outbox>>
      /\ tasks' = [i \in Slots |-> {}] /\ db' = Committed
  BY DEF Reload, Idle
<1>3. Whole(db)'
  BY <1>1, <1>2 DEF CommittedIsBefore, Whole
<1>4. AtRest'
  BY <1>2, <1>3 DEF AtRest
<1>5. AllCommitted'
  BY <1>4, RestFacts, PTL
<1>6. Committed' = Committed
  BY <1>2, <1>5 DEF AllCommitted
<1>7. Sent' \subseteq Sent
  BY <1>2, <1>5 DEF AllCommitted, Sent
<1>8. Known(Sent', Committed') /\ Sound(Committed)'
  BY <1>2, <1>6, <1>7 DEF StoreInv, Known, Sound
<1>. QED  BY <1>2, <1>5, <1>6, <1>8 DEF AllCommitted, StoreInv, Begun

LEMMA InitStore == Init => StoreInv
<1>. SUFFICES ASSUME Init PROVE StoreInv
  OBVIOUS
<1>1. /\ tasks = [i \in Slots |-> {}] /\ outbox = {} /\ db \in Initially
      /\ backend \in {"indexedDB", "memory"}
  BY StoreAssumption DEF Init, Idle
<1>2. Whole(db) /\ Sound(db)
  BY <1>1, StoreAssumption DEF Whole, Sound
<1>3. Shapes /\ Locked /\ Committed = db /\ Sent = {}
  BY <1>1, <1>2, RestFacts DEF AtRest, AllCommitted
<1>. QED  BY <1>1, <1>2, <1>3 DEF StoreInv, Known

------------------------------------------------------------------------------
(* Every step, and what follows. *)

\* A step keeps the invariant, and what it commits is the effect of one call.
LEMMA NextStore ==
  ASSUME StoreInv, [Next]_vars
  PROVE  /\ StoreInv'
         /\ backend = "indexedDB" /\ Committed' # Committed =>
              \E call \in Calls : \E r \in Effect(Committed, call) : Committed' = r.db
<1>1. CASE UNCHANGED vars
  <2>1. UNCHANGED <<backend, db, tasks, outbox>>
    BY <1>1 DEF vars
  <2>2. Committed' = Committed
    BY <2>1 DEF Committed, Running
  <2>3. Shapes' /\ Locked'
    BY <2>1 DEF StoreInv, Shapes, Locked, Whole, Begun
  <2>4. Known(Sent', Committed') /\ Sound(Committed)'
    <3>1. Sent' = Sent
      BY <2>1 DEF Sent, Messages
    <3>. QED  BY <2>1, <2>2, <3>1 DEF StoreInv, Known, Sound
  <2>5. ASSUME NEW j \in Slots, NEW v \in tasks[j], Begun(v) PROVE Progress(v)'
    BY <2>1, <2>5, ProgressKept DEF StoreInv
  <2>. QED  BY <2>1, <2>2, <2>3, <2>4, <2>5 DEF StoreInv, Begun
<1>2. ASSUME NEW i \in Slots, NEW call \in Calls, Call(i, call)
      PROVE  StoreInv' /\ Committed' = Committed
  BY <1>2, CallKept
<1>3. ASSUME NEW i \in Slots, NEW t \in tasks[i], Emit(i, t)
      PROVE  StoreInv' /\ Committed' = Committed
  BY <1>3, EmitKept
<1>4. ASSUME NEW i \in Slots, NEW t \in tasks[i], Begin(i, t), UNCHANGED <<backend, outbox>>
      PROVE  StoreInv' /\ Committed' = Committed
  BY <1>4, BeginKept
<1>5. ASSUME NEW i \in Slots, NEW t \in tasks[i], UNCHANGED <<backend, outbox>>,
             \/ GetNonce(i, t) \/ GetChannel(i, t) \/ SetNonce(i, t) \/ SetChannel(i, t)
             \/ AddState_(i, t) \/ GetEntry(i, t) \/ SignAndAddState(i, t) \/ SetFunding_(i, t)
             \/ SetLedger_(i, t) \/ GetBudget(i, t) \/ SetBudget(i, t) \/ DeleteBudget(i, t)
      PROVE  Kept(t.call) /\ t.call \in Calls
  <2>1. t.call \in Calls
    BY DEF StoreInv, Shapes, IsTask
  <2>2. Kept(t.call)
    BY <1>5, GetNonceKept, GetChannelKept, SetNonceKept, SetChannelKept, AddStateKept,
       GetEntryKept, SignAndAddKept, SetFundingKept, SetLedgerKept, GetBudgetKept,
       SetBudgetKept, DeleteBudgetKept
  <2>. QED  BY <2>1, <2>2
<1>6. CASE Reload
  BY <1>6, ReloadKept
<1>. QED  BY <1>1, <1>2, <1>3, <1>4, <1>5, <1>6, Zenon DEF Next, Transaction, Kept

\* The invariant holds always.
LEMMA StoreInvAlways == Spec => []StoreInv
<1>1. StoreInv /\ [Next]_vars => StoreInv'
  BY NextStore
<1>. QED  BY InitStore, <1>1, PTL DEF Spec

\* Each transaction of IndexedDB takes effect at once or not at all, with the effect its
\* call has: whatever other calls run at that time, throw halfway or are cut off.
THEOREM TransactionsTakeEffectAtOnce == Spec => TransactionsAreAtomic
<1>1. StoreInv /\ [Next]_vars =>
        [backend = "indexedDB" /\ Committed' # Committed =>
           \E call \in Calls : \E r \in Effect(Committed, call) : Committed' = r.db]_vars
  BY NextStore
<1>. QED  BY StoreInvAlways, <1>1, PTL DEF Spec, TransactionsAreAtomic
\* Whatever a transaction has written of an object store, a store might hold.
LEMMA WrittenIsSound ==
  ASSUME StoreInv, NEW i \in Slots, NEW t \in tasks[i], Begun(t), NEW s \in Stores(t.call)
  PROVE  \E e : Sound(e) /\ db[s] = e[s]
<1>1. /\ Progress(t) /\ Whole(t.before) /\ IsCall(t.call) /\ Stores(t.call) \subseteq ObjectStores
      /\ \A k \in Stores(t.call) : Committed[k] = t.before[k]
      /\ "id" \in DOMAIN t.call => t.id = t.call.id /\ t.id \in Nonces
  BY TaskFacts DEF Progress
<1>2. Sound(Committed) /\ IsStore(Committed)
  BY DEF StoreInv, Sound
<1>3. CASE Wrote(t, t.before)
  BY <1>1, <1>2, <1>3 DEF Wrote
<1>4. CASE \E state : /\ t.call.op \in {"createChannel", "addState"} /\ t.id \in Nonces /\ IsState(state)
                      /\ Missing(t.before, t.id) /\ MaySetNonce(t.before, t.id)
                      /\ \/ Wrote(t, [t.before EXCEPT !.nonces = t.id])
                         \/ Wrote(t, InitializeChannel(t.before, t.id, state))
  <2>1. PICK state : /\ t.call.op \in {"createChannel", "addState"} /\ t.id \in Nonces /\ IsState(state)
                     /\ Missing(t.before, t.id) /\ MaySetNonce(t.before, t.id)
                     /\ \/ Wrote(t, [t.before EXCEPT !.nonces = t.id])
                        \/ Wrote(t, InitializeChannel(t.before, t.id, state))
    BY <1>4
  <2>2. PICK e : e = InitializeChannel(Committed, t.id, state)
    OBVIOUS
  <2>3. "nonces" \in Stores(t.call) /\ "channels" \in Stores(t.call)
    BY <1>1, <2>1, StoresIn
  <2>4. Missing(Committed, t.id) /\ MaySetNonce(Committed, t.id)
    BY <1>1, <2>1, <2>3 DEF Missing, MaySetNonce
  <2>5. Grows(Committed, e) /\ (AllHold(Committed) => AllHold(e)) /\ e.nonces = t.id
    BY <1>2, <2>1, <2>2, <2>4, InitializeGrows
  <2>6. Sound(e)
    BY <1>2, <2>5 DEF Sound, Grows, AllHold
  <2>7. CASE Wrote(t, [t.before EXCEPT !.nonces = t.id])
    <3>1. PICK named : named = [t.before EXCEPT !.nonces = t.id]
      OBVIOUS
    <3>2. /\ \A k \in ObjectStores \ {"nonces"} : named[k] = t.before[k]
          /\ named["nonces"] = t.id
      BY <1>1, <2>3, <3>1 DEF Whole
    <3>3. db[s] = named[s]
      BY <2>7, <3>1 DEF Wrote
    <3>4. CASE s = "nonces"
      BY <2>5, <2>6, <3>2, <3>3, <3>4
    <3>5. CASE s # "nonces"
      BY <1>1, <1>2, <3>2, <3>3, <3>5
    <3>. QED  BY <3>4, <3>5
  <2>8. CASE Wrote(t, InitializeChannel(t.before, t.id, state))
    <3>1. Sees(t, e)
      BY <2>1, <2>2, <2>8, SeesInitialized
    <3>. QED  BY <2>6, <3>1 DEF Sees
  <2>. QED  BY <2>1, <2>7, <2>8
<1>5. CASE Creating(t)
  <2>1. PICK state : state = Unsigned(0, FALSE, t.call.outcome)
    OBVIOUS
  <2>2. IsState(state)
    BY <2>1 DEF Unsigned, SignedState, IsState
  <2>3. CASE ~Wrote(t, t.before)
    <3>1. /\ t.call.op = "createChannel" /\ t.id = t.before.nonces + 1 /\ t.id \in Nonces
          /\ \/ Wrote(t, [t.before EXCEPT !.nonces = t.id])
             \/ Wrote(t, InitializeChannel(t.before, t.id, state))
      BY <1>5, <2>1, <2>3 DEF Creating
    <3>2. "nonces" \in Stores(t.call) /\ "channels" \in Stores(t.call)
      BY <1>1, <3>1, StoresIn
    <3>3. Committed.nonces = t.before.nonces /\ Committed.channels = t.before.channels
      BY <1>1, <3>2
    <3>4. Missing(Committed, t.id) /\ MaySetNonce(Committed, t.id)
      BY <1>2, <3>1, <3>3, NewNonce
    <3>5. Missing(t.before, t.id) /\ MaySetNonce(t.before, t.id)
      BY <3>3, <3>4 DEF Missing, MaySetNonce
    <3>. QED  BY <1>4, <2>2, <3>1, <3>5
  <2>. QED  BY <1>3, <2>3
<1>6. CASE Adding(t)
  <2>1. t.call.op = "addState" /\ IsState(t.call.state) /\ t.id \in Nonces
    BY <1>1, <1>6 DEF Adding, IsCall
  <2>2. CASE ~Wrote(t, t.before)
    <3>1. /\ Missing(t.before, t.id) /\ MaySetNonce(t.before, t.id)
          /\ \/ Wrote(t, [t.before EXCEPT !.nonces = t.id])
             \/ Wrote(t, InitializeChannel(t.before, t.id, t.call.state))
      BY <1>6, <2>2 DEF Adding
    <3>. QED  BY <1>4, <2>1, <3>1
  <2>. QED  BY <1>3, <2>2
<1>7. CASE Signing(t) \/ Setting(t) \/ Budgeting(t)
  BY <1>3, <1>7 DEF Signing, Setting, Budgeting
<1>. QED  BY <1>1, <1>5, <1>6, <1>7 DEF Progress

\* So each object store holds what it may.
LEMMA StoresAreSound ==
  ASSUME StoreInv, NEW s \in ObjectStores
  PROVE  \E e : Sound(e) /\ db[s] = e[s]
<1>1. CASE \E i \in Slots : \E t \in tasks[i] : Begun(t) /\ s \in Stores(t.call)
  <2>1. PICK i \in Slots : \E t \in tasks[i] : Begun(t) /\ s \in Stores(t.call)
    BY <1>1
  <2>2. PICK t \in tasks[i] : Begun(t) /\ s \in Stores(t.call)
    BY <2>1
  <2>. QED  BY <2>2, WrittenIsSound
<1>2. CASE \A i \in Slots : \A t \in tasks[i] : Begun(t) => s \notin Stores(t.call)
  <2>1. CommittedIsBefore
    BY CommittedFacts DEF StoreInv
  <2>2. db[s] = Committed[s]
    BY <1>2, <2>1 DEF CommittedIsBefore
  <2>. QED  BY <2>2 DEF StoreInv
<1>. QED  BY <1>1, <1>2

\* Whatever is called at a time, throws halfway or is cut off, and whatever the peer sends:
\* the wallet never sends two states of one turn, and it knows the last it has sent.
THEOREM WalletNeverSignsTwice == Spec => []NeverSignsTwice
<1>1. ASSUME StoreInv PROVE NeverSignsTwice
  <2>1. StoreTypeOK
    <3>1. DOMAIN db = ObjectStores
      <4>1. Whole(db)
        BY <1>1 DEF StoreInv, Shapes
      <4>. QED  BY <4>1 DEF Whole
    <3>2. /\ "nonces" \in ObjectStores /\ "ledgers" \in ObjectStores
          /\ "budgets" \in ObjectStores /\ "channels" \in ObjectStores
      BY DEF ObjectStores
    <3>3. PICK e : Sound(e) /\ db.nonces = e.nonces
      BY <1>1, <3>2, StoresAreSound
    <3>4. PICK f : Sound(f) /\ db.ledgers = f.ledgers
      BY <1>1, <3>2, StoresAreSound
    <3>5. PICK g : Sound(g) /\ db.budgets = g.budgets
      BY <1>1, <3>2, StoresAreSound
    <3>6. PICK h : Sound(h) /\ db.channels = h.channels
      BY <1>1, <3>2, StoresAreSound
    <3>7. db.nonces \in Nonces \cup {-1}
      BY <3>3 DEF Sound, IsStore
    <3>8. db.ledgers \in SUBSET Nonces
      BY <3>4 DEF Sound, IsStore
    <3>9. \A b \in db.budgets : b.available \in Nat /\ b.amounts \in [Nonces -> Nat]
      BY <3>5 DEF Sound, IsStore
    <3>10. backend = "indexedDB" => \A id \in Nonces : InvariantsHold(db.channels[id].states)
      BY <3>6 DEF Sound
    <3>. QED  BY <3>1, <3>7, <3>8, <3>9, <3>10 DEF StoreTypeOK
  <2>2. Known(outbox, Committed)
    BY <1>1 DEF StoreInv, Sent, Known
  <2>. QED  BY <2>1, <2>2 DEF NeverSignsTwice, Known
<1>. QED  BY StoreInvAlways, <1>1, PTL
==================================================================================
