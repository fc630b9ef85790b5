----------------------------- MODULE VirtualChannel -----------------------------
(* Channels between two leaves that are funded through a hub, by the workflows  *)
(* of the browser wallet: each leaf guarantees its part of the joint channel in *)
(* its ledger with the hub, and takes it back when the target channel is closed *)
(* (create-and-fund.ts, virtual-funding-as-leaf.ts, ledger-funding.ts,           *)
(* virtual-defunding-as-leaf.ts).  The hub is the one the tests run them with:   *)
(* it signs whatever it receives (tests/simple-hub.ts).                          *)
EXTENDS Integers, Sequences, FiniteSets, ChannelStoreEntry
LOCAL INSTANCE SequencesExt
LOCAL INSTANCE FiniteSetsExt

CONSTANTS Channels,       \* the target channels, all between the same two leaves
          Stories,        \* how far the channels may be when the story begins
          Closing,        \* those whose applications may conclude
          Opening, Latest,\* c -> leaf -> what the target allocates, first and last
          LedgerFunds,    \* what a ledger allocates to the hub and to its leaf at first
          LedgerTurn,     \* leaf -> the turn of its ledger when the story begins
          Finalizable     \* leaves whose ledger may be finalized on chain

Leaf == {0, 1}
Hub == 2
Name(w) == IF w = 0 THEN "A" ELSE "B"

ASSUME VirtualAssumption ==
  /\ Stories \subseteq [Channels -> {"none", "new", "prepared", "closed"}]
  /\ Closing \subseteq Channels
  /\ \A c \in Channels : /\ {Opening[c], Latest[c]} \subseteq [Leaf -> Nat]
                         /\ Opening[c][0] + Opening[c][1] = Latest[c][0] + Latest[c][1]

VARIABLES story,          \* how far each channel was at first
          at,             \* w -> c -> where its workflow is
          entry,          \* w -> id -> the stored states of a channel
          funding,        \* w -> the channels whose funding it has recorded
          lock,           \* w -> the channel whose workflow holds the lock of its ledger
          capacity,       \* w -> what its budget has left to send and to receive
          reserved,       \* w -> the channels its budget lists
          net,            \* signed states on their way: [to, id, state]
          finalized       \* the leaves whose ledger is finalized on chain

vars == <<story, at, entry, funding, lock, capacity, reserved, net, finalized>>

-------------------------------------------------------------------------------
(* Channels and outcomes.                                                       *)

Ledger(w) == <<"ledger", w>>
Guarantor(w, c) == <<"guarantor", w, c>>
Target(c) == <<"target", c>>
Joint(c) == <<"joint", c>>
Ids(w) == {Ledger(w)} \cup UNION {{Guarantor(w, c), Target(c), Joint(c)} : c \in Channels}

Participants(id) ==
  CASE id[1] = "target" -> <<0, 1>>
    [] id[1] = "joint"  -> <<0, 1, Hub>>
    [] OTHER            -> <<id[2], Hub>>
Size(id) == Len(Participants(id))
Index(who, id) == (CHOOSE i \in 1 .. Size(id) : Participants(id)[i] = who) - 1

Item(to, amount) == [to |-> to, amount |-> amount]
Sum(items) == FoldSeq(LAMBDA i, sum : i.amount + sum, 0, items)
AmountOf(items, to) == Sum(SelectSeq(items, LAMBDA i : i.to = to))

TargetOutcome(shares) == <<Item("A", shares[0]), Item("B", shares[1])>>
\* OutcomeIdx: where the item of a leaf is in the joint channel, and that of its peer.
OutcomeIdx(w) == IF w = 0 THEN 1 ELSE 3
HubIdx == 2

\* triggerObjective: the hub backs what both leaves put in.
JointOutcome(target) ==
  <<target[1], Item("hub", target[1].amount + target[2].amount), target[2]>>

\* finalJointChannelUpdate: the hub's item stays where it is.
SharesOut(target, joint) == <<target[1], joint[HubIdx], target[2]>>

\* waitForFirstJointState throws otherwise.
Acceptable(joint) ==
  /\ Len(joint) = 3
  /\ joint[OutcomeIdx(0)].to = "A" /\ joint[HubIdx].to = "hub" /\ joint[OutcomeIdx(1)].to = "B"
  /\ joint[OutcomeIdx(0)].amount + joint[OutcomeIdx(1)].amount = joint[HubIdx].amount

\* A mutant: both pay alike.
DeductionsAlike(w, joint) == [to \in {"hub", Name(w)} |-> joint[1].amount]

\* getDeductions, by what I signed last.
Deductions(w, joint) ==
  [to \in {"hub", Name(w)} |->
     joint[IF to = "hub" THEN 4 - OutcomeIdx(w) ELSE OutcomeIdx(w)].amount]

\* allocateToTarget: what it takes from whom, and what is left of empty items: nothing.
Affordable(items, deductions) ==
  \A to \in DOMAIN deductions : deductions[to] > 0 => AmountOf(items, to) >= deductions[to]

AllocateToTarget(items, deductions, c) ==
  LET deducted == [i \in DOMAIN items |->
        IF items[i].to \in DOMAIN deductions
        THEN Item(items[i].to, items[i].amount - deductions[items[i].to]) ELSE items[i]]
      total == deductions[CHOOSE to \in DOMAIN deductions : to = "hub"]
                 + deductions[CHOOSE to \in DOMAIN deductions : to # "hub"]
  IN SelectSeq(Append(deducted, Item(c, total)), LAMBDA i : i.amount > 0)

\* defundGuarantorInLedger throws BadOutcome, or a TypeError, unless the first two items
\* that are left are the hub's and the leaf's.
WithoutGuarantor(items, c) == SelectSeq(items, LAMBDA i : i.to # c)
MayDefund(w, items, c) ==
  LET left == WithoutGuarantor(items, c)
  IN Len(left) >= 2 /\ left[1].to = "hub" /\ left[2].to = Name(w)

\* A mutant: the shares go the wrong way round.
DefundSwapped(w, items, joint, c) ==
  LET left == WithoutGuarantor(items, c)
  IN <<Item("hub", left[1].amount + joint[OutcomeIdx(w)].amount),
       Item(Name(w), left[2].amount + joint[4 - OutcomeIdx(w)].amount)>>
     \o SubSeq(left, 3, Len(left))

Defund(w, items, joint, c) ==
  LET left == WithoutGuarantor(items, c)
  IN <<Item("hub", left[1].amount + joint[4 - OutcomeIdx(w)].amount),
       Item(Name(w), left[2].amount + joint[OutcomeIdx(w)].amount)>>
     \o SubSeq(left, 3, Len(left))

-------------------------------------------------------------------------------
(* The store, and the observers that its updates reach.                         *)

SupportedIn(w, id) == Supported(Size(id), entry[w][id])
Mine(w, id) == LatestOf(SignedBy(entry[w][id], Index(w, id)))

\* A mutant: my signature is enough.
NotifyWhenSigned(w, id, e) == SignedBy(e, Index(w, id)) # {}

\* support-state.ts: the supported state is the one I was asked to support, which is
\* the last one I signed.
NotifyWhenSupported(w, id, e) ==
  LET mine == SignedBy(e, Index(w, id))
  IN mine # {} /\ IsSupported(Size(id), e) /\ SameState(Supported(Size(id), e), LatestOf(mine))

WaitForSupportedGuarantorState(w, c, id, e) == id = Guarantor(w, c) /\ IsSupported(2, e)

\* Where the workflow of c goes when its observers have seen the entry e of id.
Settled(w, c, loc, id, e) ==
  LET wanted == NotifyWhenSupported(w, id, e) IN
  CASE loc = "setupJointChannel" /\ id = Joint(c) /\ wanted -> "fundGuarantor"
    [] loc = "preparingGuarantorChannel" /\ WaitForSupportedGuarantorState(w, c, id, e) ->
         "acquiringLock"
    [] loc = "fundingTarget" /\ id = Ledger(w) /\ wanted -> "updatingFunding"
    [] loc = "fundTargetChannel" /\ id = Joint(c) /\ wanted -> "updateFunding"
    [] loc = "closeTarget" /\ id = Target(c) /\ wanted -> "finalJointChannelUpdate"
    [] loc = "defundTarget" /\ id = Joint(c) /\ wanted -> "acquireLock"
    [] loc = "ledgerUpdate" /\ id = Ledger(w) /\ wanted -> "releaseLock"
    [] OTHER -> loc

Goto(w, c, loc) == at' = [at EXCEPT ![w][c] = loc]

\* What a leaf signs goes to the others, and the hub, which keeps nothing, sends what it
\* gets on to everybody else with its signature.
Outbox(w, id, state) ==
  LET leaves == {v \in Leaf : \E i \in 1 .. Size(id) : Participants(id)[i] = v}
      countersigned == [state EXCEPT !.signers = @ \cup {Size(id) - 1}]
  IN {[to |-> v, id |-> id, state |-> state] : v \in leaves \ {w}}
     \cup IF id[1] = "target" THEN {}
          ELSE {[to |-> v, id |-> id, state |-> countersigned] : v \in leaves}

\* A message whose signatures are all known changes nothing when it comes.
StillNews(messages, store) ==
  {m \in messages : AddState(Size(m.id), store[m.to][m.id], m.state) # store[m.to][m.id]}

\* Store.signAndAddState, for the workflow of c, which goes to loc.
SignAndAdd(w, c, id, state, loc) ==
  LET known == {s \in entry[w][id] : SameState(s, state)}
      signed == [state EXCEPT !.signers = {Index(w, id)} \cup UNION {s.signers : s \in known}]
  IN /\ MaySign(entry[w][id], Index(w, id), state.turn)
     /\ \E e \in {AddState(Size(id), entry[w][id], signed)} :
        \E store \in {[entry EXCEPT ![w][id] = e]} :
          /\ InvariantsHold(e)
          /\ entry' = store
          /\ net' = StillNews(net \cup Outbox(w, id, signed), store)
          /\ Goto(w, c, Settled(w, c, loc, id, e))

\* Store.supportState: the last state I signed is not signed again.
SupportState(w, c, id, state, loc) ==
  IF SignedBy(entry[w][id], Index(w, id)) # {} /\ SameState(Mine(w, id), state)
  THEN Goto(w, c, Settled(w, c, loc, id, entry[w][id])) /\ UNCHANGED <<entry, net>>
  ELSE SignAndAdd(w, c, id, state, loc)

NextState(state, outcome) == [state EXCEPT !.turn = @ + 1, !.outcome = outcome]

\* The workflows of one ledger take turns.
AcquireLock(w, c) == lock[w] = {} /\ lock' = [lock EXCEPT ![w] = {c}]
\* A mutant: it is never given back.
ReleaseNever(w, c) == UNCHANGED lock
Release(w, c) == lock' = [lock EXCEPT ![w] = @ \ {c}]

-------------------------------------------------------------------------------
(* The story begins with ledgers that both signed.  A channel is new, or its     *)
(* workflows wait for the lock: to fund it, or to take back what is left of it.  *)
(* The signatures before and after the funding of a target are in RichOpening;   *)
(* the target holds from the first what its application makes of it.            *)

Those(c, phases) == story[c] \in phases
Funded == {c \in Channels : Those(c, {"closed"})}
OpeningJoint(c) == JointOutcome(TargetOutcome(Opening[c]))
FundedJoint(c, joint) == <<Item(c, joint[HubIdx].amount), Item("hub", joint[HubIdx].amount)>>

LedgerAtStart(w) ==
  FoldSeq(LAMBDA c, items : AllocateToTarget(items, Deductions(w, OpeningJoint(c)), c),
          <<Item("hub", LedgerFunds.hub), Item(Name(w), LedgerFunds.leaf)>>, SetToSeq(Funded))

EntryAtStart(w, id) ==
  CASE id[1] = "ledger" -> {SignedState(LedgerTurn[w], FALSE, LedgerAtStart(w), {0, 1})}
    [] id[1] = "target" -> {SignedState(IF Those(id[2], {"closed"}) THEN 4 ELSE 3,
                                        Those(id[2], {"closed"}), TargetOutcome(Latest[id[2]]), {0, 1})}
    [] id[1] = "joint" /\ Those(id[2], {"prepared"}) ->
         {SignedState(0, FALSE, OpeningJoint(id[2]), {0, 1, 2})}
    [] id[1] = "joint" /\ Those(id[2], {"closed"}) ->
         {SignedState(2, FALSE, SharesOut(TargetOutcome(Latest[id[2]]), OpeningJoint(id[2])), {0, 1, 2})}
    [] id[1] = "guarantor" /\ Those(id[3], {"prepared", "closed"}) ->
         {SignedState(0, FALSE, "guarantee", {0, 1})}
    [] OTHER -> {}

\* What a budget has left when the funds of some channels are taken off it.
Left(w, channels) ==
  [send |-> LedgerFunds.leaf - FoldSet(LAMBDA c, sum : Opening[c][w] + sum, 0, channels),
   receive |-> LedgerFunds.hub - FoldSet(LAMBDA c, sum : Opening[c][1 - w] + sum, 0, channels)]

Init ==
  /\ story \in Stories
  /\ at = [w \in Leaf |-> [c \in Channels |->
             CASE story[c] = "new" -> "reserveFunds" [] story[c] = "prepared" -> "acquiringLock"
               [] story[c] = "closed" -> "acquireLock" [] OTHER -> "none"]]
  /\ entry = [w \in Leaf |-> [id \in Ids(w) |-> EntryAtStart(w, id)]]
  /\ funding = [w \in Leaf |-> UNION {{Guarantor(w, c), Joint(c), Target(c)} : c \in Funded}]
  /\ lock = [w \in Leaf |-> {}]
  /\ reserved = [w \in Leaf |-> {c \in Channels : Those(c, {"prepared", "closed"})}]
  /\ capacity = [w \in Leaf |-> Left(w, reserved[w])]
  /\ net = {} /\ finalized = {}

-------------------------------------------------------------------------------
(* Funding.                                                                     *)

\* create-and-fund.ts: the first participant creates the joint channel.  (The objective
\* that tells the peer of it is not sent, store.ts:412; as in the tests, both workflows
\* know the channels they are for.)
TriggerObjective(w, c) ==
  /\ w = 0 /\ Those(c, {"new"}) /\ entry[w][Joint(c)] = {}
  /\ SignAndAdd(w, c, Joint(c), SignedState(0, FALSE, OpeningJoint(c), {}), at[w][c])
  /\ UNCHANGED <<funding, lock, capacity, reserved, finalized>>

\* Store.reserveFunds throws otherwise, and nothing catches it.
ReserveFunds(w, c) ==
  /\ at[w][c] = "reserveFunds"
  /\ capacity[w].send >= Opening[c][w] /\ capacity[w].receive >= Opening[c][1 - w]
  /\ capacity' = [capacity EXCEPT ![w].send = @ - Opening[c][w],
                                  ![w].receive = @ - Opening[c][1 - w]]
  /\ reserved' = [reserved EXCEPT ![w] = @ \cup {c}]
  /\ Goto(w, c, "waitForFirstJointState")
  /\ UNCHANGED <<entry, funding, lock, net, finalized>>

WaitForFirstJointState(w, c) ==
  /\ at[w][c] = "waitForFirstJointState"
  /\ \E first \in entry[w][Joint(c)] :
       /\ first.turn = 0
       /\ IF Acceptable(first.outcome)
          THEN SupportState(w, c, Joint(c), first, "setupJointChannel")
          ELSE Goto(w, c, "failure") /\ UNCHANGED <<entry, net>>
  /\ UNCHANGED <<funding, lock, capacity, reserved, finalized>>

FundGuarantor(w, c) ==
  /\ at[w][c] = "fundGuarantor"
  /\ SignAndAdd(w, c, Guarantor(w, c), SignedState(0, FALSE, "guarantee", {}),
                "preparingGuarantorChannel")
  /\ UNCHANGED <<funding, lock, capacity, reserved, finalized>>

AcquiringLock(w, c) ==
  /\ at[w][c] = "acquiringLock"
  /\ AcquireLock(w, c)
  /\ Goto(w, c, "getTargetOutcome")
  /\ UNCHANGED <<entry, funding, capacity, reserved, net, finalized>>

CheckTarget(w, c) == IsSupported(2, entry[w][Guarantor(w, c)])

\* getTargetOutcome throws when the ledger is finalized or cannot afford it; the failed
\* workflow gives its lock back.
GetTargetOutcome(w, c) ==
  /\ at[w][c] = "getTargetOutcome"
  /\ \E ledger \in {SupportedIn(w, Ledger(w))} :
     \E deductions \in {Deductions(w, Mine(w, Joint(c)).outcome)} :
       IF CheckTarget(w, c) /\ w \notin finalized /\ Affordable(ledger.outcome, deductions)
       THEN /\ SupportState(w, c, Ledger(w),
                 NextState(ledger, AllocateToTarget(ledger.outcome, deductions, c)),
                 "fundingTarget")
            /\ UNCHANGED lock
       ELSE Goto(w, c, "failure") /\ Release(w, c) /\ UNCHANGED <<entry, net>>
  /\ UNCHANGED <<funding, capacity, reserved, finalized>>

SetFunding(w, c, from, id, loc) ==
  /\ at[w][c] = from
  /\ id \notin funding[w] /\ funding' = [funding EXCEPT ![w] = @ \cup {id}]
  /\ Goto(w, c, loc)
  /\ UNCHANGED <<entry, capacity, reserved, net, finalized>>

UpdatingFunding(w, c) ==
  SetFunding(w, c, "updatingFunding", Guarantor(w, c), "updateJointChannelFunding")
    /\ Release(w, c)
UpdateJointChannelFunding(w, c) ==
  SetFunding(w, c, "updateJointChannelFunding", Joint(c), "jointChannelUpdate") /\ UNCHANGED lock

\* The workflow waits for the very first joint state.
JointChannelUpdate(w, c) ==
  /\ at[w][c] = "jointChannelUpdate"
  /\ IsSupported(3, entry[w][Joint(c)])
  /\ \E joint \in {SupportedIn(w, Joint(c))} :
       /\ joint.turn = 0
       /\ SupportState(w, c, Joint(c), NextState(joint, FundedJoint(c, joint.outcome)),
                       "fundTargetChannel")
  /\ UNCHANGED <<funding, lock, capacity, reserved, finalized>>

SetFundingToVirtual(w, c) ==
  SetFunding(w, c, "updateFunding", Target(c), "open") /\ UNCHANGED lock

-------------------------------------------------------------------------------
(* Defunding.                                                                   *)

\* The application concludes; its peer follows when it sees the final state.
FinalTargetState(w, c) ==
  /\ at[w][c] = "open" /\ c \in Closing
  /\ \E target \in {SupportedIn(w, Target(c))} :
       SupportState(w, c, Target(c),
                    [NextState(target, target.outcome) EXCEPT !.final = TRUE], "closeTarget")
  /\ UNCHANGED <<story, funding, lock, capacity, reserved, finalized>>

FinalJointChannelUpdate(w, c) ==
  /\ at[w][c] = "finalJointChannelUpdate"
  /\ \E target \in {SupportedIn(w, Target(c))}, joint \in {SupportedIn(w, Joint(c))} :
       /\ target.final
       /\ SupportState(w, c, Joint(c),
                       NextState(joint, SharesOut(target.outcome, joint.outcome)), "defundTarget")
  /\ UNCHANGED <<funding, lock, capacity, reserved, finalized>>

AcquireLockAgain(w, c) ==
  /\ at[w][c] = "acquireLock"
  /\ AcquireLock(w, c)
  /\ Goto(w, c, "defundGuarantorInLedger")
  /\ UNCHANGED <<entry, funding, capacity, reserved, net, finalized>>

\* It throws when the ledger is finalized, and nothing catches it: the lock stays taken.
DefundGuarantorInLedger(w, c) ==
  /\ at[w][c] = "defundGuarantorInLedger" /\ w \notin finalized
  /\ \E ledger \in {SupportedIn(w, Ledger(w))}, joint \in {SupportedIn(w, Joint(c))} :
       /\ MayDefund(w, ledger.outcome, c)
       /\ SupportState(w, c, Ledger(w),
                       NextState(ledger, Defund(w, ledger.outcome, joint.outcome, c)),
                       "ledgerUpdate")
  /\ UNCHANGED <<funding, lock, capacity, reserved, finalized>>

ReleaseLock(w, c) ==
  /\ at[w][c] = "releaseLock"
  /\ Release(w, c)
  /\ Goto(w, c, "releaseFundsFromBudget")
  /\ UNCHANGED <<entry, funding, capacity, reserved, net, finalized>>

\* Store.releaseFunds sets the budget to the current ledger outcome, and throws when that
\* has no item for one of the two.
ReleaseFunds(w, c) ==
  /\ at[w][c] = "releaseFundsFromBudget"
  /\ \E items \in {SupportedIn(w, Ledger(w)).outcome} :
       /\ {"hub", Name(w)} \subseteq {items[i].to : i \in DOMAIN items}
       /\ capacity' = [capacity EXCEPT ![w] = [send |-> AmountOf(items, Name(w)),
                                               receive |-> AmountOf(items, "hub")]]
  /\ c \in reserved[w] /\ reserved' = [reserved EXCEPT ![w] = @ \ {c}]
  /\ Goto(w, c, "success")
  /\ UNCHANGED <<entry, funding, lock, net, finalized>>

-------------------------------------------------------------------------------
(* What happens to a leaf.                                                      *)

\* Store.pushMessage.
PushMessage(w, m) ==
  /\ m \in net /\ m.to = w
  /\ \E e \in {AddState(Size(m.id), entry[w][m.id], m.state)} :
     \E store \in {IF InvariantsHold(e) THEN [entry EXCEPT ![w][m.id] = e] ELSE entry} :
       /\ entry' = store
       /\ net' = StillNews(net \ {m}, store)
       /\ at' = [at EXCEPT ![w] = [c \in Channels |-> Settled(w, c, @[c], m.id, store[w][m.id])]]
  /\ UNCHANGED <<story, funding, lock, capacity, reserved, finalized>>

\* The ledger is challenged or concluded on chain.
LedgerFinalized(w) ==
  /\ w \in Finalizable \ finalized
  /\ finalized' = finalized \cup {w}
  /\ UNCHANGED <<story, at, entry, funding, lock, capacity, reserved, net>>

Funding(w, c) ==
  /\ UNCHANGED story
  /\ \/ TriggerObjective(w, c) \/ ReserveFunds(w, c) \/ WaitForFirstJointState(w, c)
     \/ FundGuarantor(w, c) \/ AcquiringLock(w, c) \/ GetTargetOutcome(w, c)
     \/ UpdatingFunding(w, c) \/ UpdateJointChannelFunding(w, c) \/ JointChannelUpdate(w, c)
     \/ SetFundingToVirtual(w, c)

Defunding(w, c) ==
  /\ UNCHANGED story
  /\ \/ FinalJointChannelUpdate(w, c) \/ AcquireLockAgain(w, c) \/ DefundGuarantorInLedger(w, c)
     \/ ReleaseLock(w, c) \/ ReleaseFunds(w, c)

Next ==
  \E w \in Leaf :
    \/ \E c \in Channels : Funding(w, c) \/ FinalTargetState(w, c) \/ Defunding(w, c)
    \/ \E m \in net : PushMessage(w, m)
    \/ LedgerFinalized(w)

Spec == Init /\ [][Next]_vars

-------------------------------------------------------------------------------
(* Safety.                                                                      *)

\* Type correctness: the store's invariants, a budget that is never overdrawn, and a lock
\* that one workflow holds at a time.
VirtualTypeOK ==
  /\ \A w \in Leaf : \A id \in Ids(w) : InvariantsHold(entry[w][id])
  /\ capacity \in [Leaf -> [send : Nat, receive : Nat]]
  /\ reserved \in [Leaf -> SUBSET Channels]
  /\ \A w \in Leaf : lock[w] \subseteq Channels /\ Cardinality(lock[w]) <= 1

\* Every state of a ledger that anybody signed, wherever it is, pays out what the ledger
\* holds, and gives each guarantee what both sides put in, whatever the order in which
\* workflows of several channels update it.
LedgerStates(w) == entry[w][Ledger(w)] \cup {m.state : m \in {n \in net : n.id = Ledger(w)}}

LedgerSound ==
  /\ VirtualTypeOK
  /\ \A w \in Leaf : \A s \in LedgerStates(w) :
    /\ Sum(s.outcome) = LedgerFunds.hub + LedgerFunds.leaf
    /\ \A i \in DOMAIN s.outcome : s.outcome[i].amount >= 0
    /\ \A c \in Channels : AmountOf(s.outcome, c) \in {0, Opening[c][0] + Opening[c][1]}

\* The money of a leaf: when the target is closed and nothing else is under way, its
\* ledger has changed by what the target gave it, and the hub has lost nothing by it.
Quiet(w) == \A c \in Channels : at[w][c] \in {"none", "reserveFunds", "success"}
Gain(w) == LET closed == SetToSeq({c \in Channels : at[w][c] = "success"})
           IN FoldSeq(LAMBDA c, sum : Latest[c][w] - Opening[c][w] + sum, 0, closed)

PaidOut ==
  \A w \in Leaf : Quiet(w) =>
    LET items == SupportedIn(w, Ledger(w)).outcome
    IN /\ AmountOf(items, Name(w)) = LedgerFunds.leaf + Gain(w)
       /\ AmountOf(items, "hub") = LedgerFunds.hub - Gain(w)

\* Each channel keeps what VirtualGuarantee promises, whatever the workflows of the other
\* channels do to the two ledgers.
AllSigned(c) ==
  {s \in UNION {entry[w][Joint(c)] : w \in Leaf} \cup {m.state : m \in {n \in net : n.id = Joint(c)}} :
     s.signers = {0, 1, Hub}}
Guarantees(c) == {w \in Leaf : AmountOf(SupportedIn(w, Ledger(w)).outcome, c) > 0}
JointPays(c) ==
  IF AllSigned(c) = {} THEN "nobody"
  ELSE LET turn == LatestOf(AllSigned(c)).turn
       IN IF turn = 0 THEN "leaves" ELSE IF turn = 1 THEN "target" ELSE "shares"

Promise(c) == INSTANCE VirtualGuarantee WITH
  Leaves <- Leaf, guaranteed <- Guarantees(c), joint <- JointPays(c)
KeepsGuarantee ==
  /\ \A c \in Channels : Promise(c)!Init
  /\ [][\A c \in Channels : Promise(c)!Step]_vars

\* Nobody is stuck: once every message has come, either a workflow can go on or all of
\* them are where they should be, whatever the order in which those of the two leaves took
\* the locks of their ledgers.  (No step can be taken twice, so each channel gets there.)
SeesFinal(w, c) == \E s \in entry[w][Target(c)] : s.final
Waits(w, c) ==
  \/ at[w][c] \in {"none", "success", "failure", "setupJointChannel", "fundTargetChannel",
                  "preparingGuarantorChannel", "fundingTarget", "closeTarget", "defundTarget",
                  "ledgerUpdate"}
  \/ at[w][c] = "open" /\ ~SeesFinal(w, c)
  \/ at[w][c] \in {"acquiringLock", "acquireLock"} /\ lock[w] # {}
  \/ at[w][c] = "waitForFirstJointState" /\ entry[w][Joint(c)] = {} /\ entry[0][Joint(c)] # {}

NobodyStuck ==
  net = {} /\ finalized = {} /\ (\A w \in Leaf, c \in Channels : Waits(w, c)) =>
    \A w \in Leaf, c \in Channels : at[w][c] \in {"none", "open", "success"}
===============================================================================
