-------------------------- MODULE DirectFundingProofs --------------------------
(* Opening and funding a channel keeps its promise for any number of wallets    *)
(* and any amounts, however many processes stop and outputs are lost.           *)
EXTENDS DirectFunding, FiniteSums

------------------------------------------------------------------------------
(* The inductive invariant. *)

Milestone == {O!TargetBefore(v) : v \in 0 .. nWallets}

\* Who signed the postfund state, and stored the signature before it was sent.
Postfunded == {w \in Wallet : w \in stored[w].postfund}

\* Who reported the channel open.
Opened == {w \in Wallet : objective[w] = "succeeded"}

Shapes ==
  /\ FundingTypeOK
  /\ outbox \in [Wallet -> SUBSET (UNION {Transactions(w) : w \in Wallet})]
  /\ updates = [w \in Wallet |-> updates[w]]
  /\ trackers = [w \in Wallet |-> trackers[w]]
  /\ \A m \in net : m.to \in Wallet /\ m.prefund \subseteq Wallet

\* The holdings grow from milestone to milestone.
DepositsGrow ==
  /\ deposits \in Seq(Milestone)
  /\ \A k \in 1 .. Len(deposits) : deposits[k] <= Holdings

\* What a wallet knows of the chain was so, perhaps before other deposits.
KnownFunding ==
  \A w \in Wallet :
    /\ CurrentAmount(w) \in Milestone /\ CurrentAmount(w) <= Holdings
    /\ \A u \in updates[w] : u.event.amount \in Milestone /\ u.event.amount <= Holdings

\* A wallet asks for its own deposit, on top of those before it, and nothing else.
OwnDeposit(tx) ==
  /\ tx.by \in Wallet
  /\ tx.expectedHeld = O!TargetBefore(tx.by)
  /\ tx.amount = Amount[tx.by]
  /\ Amount[tx.by] > 0

DepositsAsked ==
  /\ \A w \in Wallet : \A tx \in outbox[w] : OwnDeposit(tx)
  /\ \A tx \in mempool : OwnDeposit(tx)

\* A signature that is stored or under way was made.
SignaturesMade ==
  /\ \A w \in Wallet : stored[w].postfund \subseteq Postfunded
  /\ \A m \in net : m.postfund \subseteq Postfunded

FundedWhenSigned == Postfunded # {} => Holdings = O!TargetTotal

OpenWhenSigned ==
  \A w \in Wallet : objective[w] = "succeeded" => stored[w].postfund = Wallet

FundingInv ==
  /\ Shapes
  /\ DepositsGrow
  /\ KnownFunding
  /\ DepositsAsked
  /\ SignaturesMade
  /\ FundedWhenSigned
  /\ OpenWhenSigned

------------------------------------------------------------------------------
(* The milestones. *)

\* They begin with nothing and end with everything, in the order of the allocation,
\* and none lies between what there is before a deposit and after it.
LEMMA Milestones ==
  /\ Wallet = 0 .. nWallets - 1 /\ Amount \in [Wallet -> Nat]
  /\ 0 \in Milestone /\ O!TargetTotal \in Milestone
  /\ \A m \in Milestone : m \in Nat /\ m <= O!TargetTotal
  /\ \A w \in Wallet : /\ O!TargetBefore(w) \in Milestone /\ O!TargetAfter(w) \in Milestone
                       /\ O!TargetAfter(w) = O!TargetBefore(w) + Amount[w]
  /\ \A w \in Wallet : \A m \in Milestone :
       m >= O!TargetBefore(w) /\ m < O!TargetAfter(w) => m = O!TargetBefore(w)
<1>1. Wallet = 0 .. nWallets - 1 /\ Amount \in [0 .. nWallets - 1 -> Nat] /\ nWallets \in Nat \ {0}
  BY AmountAssumption DEF Wallet, O!Wallet
<1>2. \A v : O!TargetBefore(v) = RunningSum(Amount, v)
  BY DEF O!TargetBefore, O!FoldFunction, O!FoldFunctionOnSet, O!MapThenFoldSet,
         RunningSum, SumAll, FoldFunction, FoldFunctionOnSet, MapThenFoldSet
<1>3. /\ O!TargetBefore(0) = 0
      /\ \A v \in 0 .. nWallets : O!TargetBefore(v) \in Nat
      /\ \A v \in 0 .. nWallets - 1 : O!TargetBefore(v + 1) = O!TargetBefore(v) + Amount[v]
      /\ \A v, u \in 0 .. nWallets : v <= u => O!TargetBefore(v) <= O!TargetBefore(u)
  BY <1>1, <1>2, RunningSums
<1>4. O!TargetTotal = O!TargetBefore(nWallets)
  BY DEF O!TargetTotal
<1>5. \A w \in Wallet : O!TargetAfter(w) = O!TargetBefore(w) + Amount[w]
  BY DEF O!TargetAfter
<1>6. 0 \in Milestone /\ O!TargetTotal \in Milestone
  BY <1>1, <1>3, <1>4 DEF Milestone
<1>7. \A m \in Milestone : m \in Nat /\ m <= O!TargetTotal
  BY <1>1, <1>3, <1>4 DEF Milestone
<1>8. \A w \in Wallet : O!TargetBefore(w) \in Milestone /\ O!TargetAfter(w) \in Milestone
  BY <1>1, <1>3, <1>5 DEF Milestone
<1>9. ASSUME NEW w \in Wallet, NEW m \in Milestone,
             m >= O!TargetBefore(w), m < O!TargetAfter(w)
      PROVE  m = O!TargetBefore(w)
  <2>1. PICK v \in 0 .. nWallets : m = O!TargetBefore(v)
    BY DEF Milestone
  <2>2. O!TargetAfter(w) = O!TargetBefore(w + 1) /\ w + 1 \in 0 .. nWallets
    BY <1>1, <1>3, <1>5
  <2>3. v < w + 1
    BY <1>1, <1>3, <1>9, <2>1, <2>2
  <2>4. O!TargetBefore(v) <= O!TargetBefore(w)
    BY <1>1, <1>3, <2>3
  <2>. QED  BY <1>1, <1>3, <1>9, <2>1, <2>4
<1>. QED  BY <1>1, <1>5, <1>6, <1>7, <1>8, <1>9

\* A deposit of a wallet's own is one it can ask for.
LEMMA OwnDepositFacts ==
  ASSUME NEW tx, OwnDeposit(tx)
  PROVE  /\ tx.expectedHeld + tx.amount = O!TargetAfter(tx.by)
         /\ tx.expectedHeld \in 0 .. O!TargetTotal /\ tx.amount \in 1 .. O!TargetTotal
<1>. PICK w \in Wallet : w = tx.by
  BY DEF OwnDeposit
<1>1. tx.expectedHeld = O!TargetBefore(w) /\ tx.amount = Amount[w] /\ Amount[w] > 0
  BY DEF OwnDeposit
<1>. QED  BY <1>1, Milestones

------------------------------------------------------------------------------
(* Every step keeps the invariant. *)

\* What the channel holds is a milestone.
LEMMA HoldingsFacts ==
  ASSUME DepositsGrow
  PROVE  /\ Holdings \in Milestone /\ Holdings \in Nat
         /\ \A k \in 0 .. Len(deposits) : Held(k) \in Milestone /\ Held(k) <= Holdings
         /\ Holdings = IF deposits = <<>> THEN 0 ELSE deposits[Len(deposits)]
BY Milestones DEF DepositsGrow, Holdings, Held

LEMMA InitFunding == ASSUME Init PROVE FundingInv
<1>1. Shapes
  BY Milestones DEF Init, Shapes, FundingTypeOK, NoStates, NoRow, Retries
<1>2. DepositsGrow /\ Holdings = 0
  BY Milestones DEF Init, DepositsGrow, Holdings, Held
<1>3. KnownFunding
  BY <1>2, Milestones DEF Init, KnownFunding, CurrentAmount, NoRow
<1>4. DepositsAsked /\ SignaturesMade /\ Postfunded = {} /\ OpenWhenSigned
  BY DEF Init, DepositsAsked, SignaturesMade, Postfunded, OpenWhenSigned, NoStates
<1>. QED  BY <1>1, <1>2, <1>3, <1>4 DEF FundingInv, FundedWhenSigned

\* Signatures that are added were made, and none is lost but those of the prefund state.
LEMMA AddStatesFacts ==
  ASSUME NEW s \in [prefund : SUBSET Wallet, postfund : SUBSET Wallet],
         NEW prefund \in SUBSET Wallet, NEW postfund \in SUBSET Wallet
  PROVE  /\ AddStates(s, prefund, postfund) \in [prefund : SUBSET Wallet, postfund : SUBSET Wallet]
         /\ AddStates(s, prefund, postfund).postfund = s.postfund \cup postfund
BY DEF AddStates

\* A message, or the answer of a sync, tells a wallet what others signed.
LEMMA PushMessageInv ==
  ASSUME FundingInv, NEW w \in Wallet, NEW m, PushMessage(w, m),
         m.prefund \subseteq Wallet, m.postfund \subseteq Postfunded
  PROVE  FundingInv' /\ Postfunded' = Postfunded /\ Opened' = Opened /\ UNCHANGED deposits
<1>1. /\ stored' = [stored EXCEPT ![w] = AddStates(@, m.prefund, m.postfund)]
      /\ objective' = [objective EXCEPT ![w] = IF @ = "none" /\ m.objective THEN "pending" ELSE @]
      /\ UNCHANGED <<funding, request, outbox, trackers, updates, world, faults>>
      /\ Touch(w)
  BY DEF PushMessage
<1>2. m.prefund \in SUBSET Wallet /\ m.postfund \in SUBSET Wallet
  BY DEF Postfunded
<1>3. /\ stored \in [Wallet -> [prefund : SUBSET Wallet, postfund : SUBSET Wallet]]
      /\ stored' \in [Wallet -> [prefund : SUBSET Wallet, postfund : SUBSET Wallet]]
      /\ stored'[w].postfund = stored[w].postfund \cup m.postfund
      /\ \A x \in Wallet \ {w} : stored'[x] = stored[x]
  <2>1. stored \in [Wallet -> [prefund : SUBSET Wallet, postfund : SUBSET Wallet]]
    BY DEF FundingInv, Shapes, FundingTypeOK
  <2>2. stored[w] \in [prefund : SUBSET Wallet, postfund : SUBSET Wallet]
    BY <2>1
  <2>3. /\ AddStates(stored[w], m.prefund, m.postfund) \in [prefund : SUBSET Wallet, postfund : SUBSET Wallet]
        /\ AddStates(stored[w], m.prefund, m.postfund).postfund = stored[w].postfund \cup m.postfund
    BY <1>2, <2>2, AddStatesFacts
  <2>. QED  BY <1>1, <2>1, <2>3
<1>4. Postfunded' = Postfunded
  BY <1>3 DEF Postfunded
<1>5. Shapes'
  BY <1>1, <1>3 DEF FundingInv, Shapes, FundingTypeOK, Touch, world, Handler
<1>6. DepositsGrow' /\ Holdings' = Holdings /\ DepositsAsked' /\ KnownFunding'
  BY <1>1 DEF FundingInv, DepositsGrow, Holdings, Held, DepositsAsked, KnownFunding, CurrentAmount, world
<1>7. SignaturesMade'
  BY <1>1, <1>3, <1>4 DEF FundingInv, SignaturesMade, world
<1>8. OpenWhenSigned'
  <2>1. ASSUME NEW x \in Wallet, objective'[x] = "succeeded" PROVE stored'[x].postfund = Wallet
    <3>1. objective[x] = "succeeded"
      BY <1>1, <2>1 DEF FundingInv, Shapes, FundingTypeOK
    <3>2. stored[x].postfund = Wallet
      BY <3>1 DEF FundingInv, OpenWhenSigned
    <3>. QED  BY <1>2, <1>3, <3>2
  <2>. QED  BY <2>1 DEF OpenWhenSigned
<1>9. Opened' = Opened
  BY <1>1 DEF Opened, FundingInv, Shapes, FundingTypeOK
<1>10. UNCHANGED deposits
  BY <1>1 DEF world
<1>. QED  BY <1>4, <1>5, <1>6, <1>7, <1>8, <1>9, <1>10 DEF FundingInv, FundedWhenSigned


\* The creator begins with its prefund state and sends it to the others.
LEMMA CreateLedgerChannelInv ==
  ASSUME FundingInv, CreateLedgerChannel
  PROVE  FundingInv' /\ Postfunded' = Postfunded /\ Opened' = Opened /\ UNCHANGED deposits
<1>1. Creator \in Wallet
  BY Milestones, AmountAssumption DEF Creator
<1>2. /\ stored' = [stored EXCEPT ![Creator] = AddStates(@, {Creator}, {})]
      /\ objective' = [objective EXCEPT ![Creator] = "approved"]
      /\ handlers' = [handlers EXCEPT ![Creator] = @ \cup {"opening"}]
      /\ net' = net \cup {Message(p, TRUE, {Creator}, {}) : p \in Others(Creator)}
      /\ UNCHANGED <<funding, request, outbox, trackers, updates, mempool, deposits, faults>>
  BY DEF CreateLedgerChannel
<1>3. /\ stored \in [Wallet -> [prefund : SUBSET Wallet, postfund : SUBSET Wallet]]
      /\ stored' \in [Wallet -> [prefund : SUBSET Wallet, postfund : SUBSET Wallet]]
      /\ \A x \in Wallet : stored'[x].postfund = stored[x].postfund
  <2>1. stored \in [Wallet -> [prefund : SUBSET Wallet, postfund : SUBSET Wallet]]
    BY DEF FundingInv, Shapes, FundingTypeOK
  <2>2. stored[Creator] \in [prefund : SUBSET Wallet, postfund : SUBSET Wallet] /\ {Creator} \in SUBSET Wallet
    BY <1>1, <2>1
  <2>3. /\ AddStates(stored[Creator], {Creator}, {}) \in [prefund : SUBSET Wallet, postfund : SUBSET Wallet]
        /\ AddStates(stored[Creator], {Creator}, {}).postfund = stored[Creator].postfund
    BY <2>2, AddStatesFacts
  <2>. QED  BY <1>1, <1>2, <2>1, <2>3
<1>4. Postfunded' = Postfunded
  BY <1>3 DEF Postfunded
<1>5. \A m \in net' \ net : m.to \in Wallet /\ m.prefund \subseteq Wallet /\ m.postfund = {}
  BY <1>1, <1>2 DEF Others, Message
<1>6. Shapes'
  BY <1>1, <1>2, <1>3, <1>5 DEF FundingInv, Shapes, FundingTypeOK, Handler
<1>7. DepositsGrow' /\ Holdings' = Holdings /\ DepositsAsked' /\ KnownFunding'
  BY <1>2 DEF FundingInv, DepositsGrow, Holdings, Held, DepositsAsked, KnownFunding, CurrentAmount
<1>8. SignaturesMade'
  BY <1>3, <1>4, <1>5 DEF FundingInv, SignaturesMade
<1>9. OpenWhenSigned'
  BY <1>1, <1>2, <1>3 DEF FundingInv, OpenWhenSigned, Shapes, FundingTypeOK
<1>10. Opened' = Opened
  BY <1>1, <1>2 DEF Opened, CreateLedgerChannel, FundingInv, Shapes, FundingTypeOK
<1>. QED  BY <1>2, <1>4, <1>6, <1>7, <1>8, <1>9, <1>10 DEF FundingInv, FundedWhenSigned

\* Who cranks signs the prefund state, asks for its deposit when it is its turn, and
\* signs the postfund state when the channel holds everything.
OpeningStates(w) ==
  LET prefund == SignPrefundSetup(w, stored[w])
  IN  IF PreFundComplete(prefund) /\ CurrentAmount(w) >= O!TargetTotal
        THEN SignPostfundSetup(w, prefund) ELSE prefund

LEMMA OpeningStatesFacts ==
  ASSUME FundingInv, NEW w \in Wallet
  PROVE  /\ OpeningStates(w) \in [prefund : SUBSET Wallet, postfund : SUBSET Wallet]
         /\ \/ OpeningStates(w).postfund = stored[w].postfund
            \/ /\ Holdings = O!TargetTotal
               /\ OpeningStates(w).postfund = stored[w].postfund \cup {w}
<1>1. stored[w] \in [prefund : SUBSET Wallet, postfund : SUBSET Wallet]
  BY DEF FundingInv, Shapes, FundingTypeOK
<1>2. PICK prefund : prefund = SignPrefundSetup(w, stored[w])
  OBVIOUS
<1>3. /\ prefund \in [prefund : SUBSET Wallet, postfund : SUBSET Wallet]
      /\ prefund.postfund = stored[w].postfund
  <2>1. {w} \in SUBSET Wallet /\ {} \in SUBSET Wallet
    OBVIOUS
  <2>2. /\ AddStates(stored[w], {w}, {}) \in [prefund : SUBSET Wallet, postfund : SUBSET Wallet]
        /\ AddStates(stored[w], {w}, {}).postfund = stored[w].postfund \cup {}
    BY <1>1, <2>1, AddStatesFacts
  <2>. QED  BY <1>1, <1>2, <2>2 DEF SignPrefundSetup
<1>4. CASE PreFundComplete(prefund) /\ CurrentAmount(w) >= O!TargetTotal
  <2>1. OpeningStates(w) = SignPostfundSetup(w, prefund)
    BY <1>2, <1>4 DEF OpeningStates
  <2>2. Holdings = O!TargetTotal
    <3>1. CurrentAmount(w) \in Milestone /\ CurrentAmount(w) <= Holdings
      BY DEF FundingInv, KnownFunding
    <3>2. Holdings \in Milestone
      BY HoldingsFacts DEF FundingInv
    <3>. QED  BY <1>4, <3>1, <3>2, Milestones
  <2>3. /\ SignPostfundSetup(w, prefund) \in [prefund : SUBSET Wallet, postfund : SUBSET Wallet]
        /\ SignPostfundSetup(w, prefund).postfund = prefund.postfund \cup {w}
    <3>1. {w} \in SUBSET Wallet /\ {} \in SUBSET Wallet
      OBVIOUS
    <3>2. /\ AddStates(prefund, {}, {w}) \in [prefund : SUBSET Wallet, postfund : SUBSET Wallet]
          /\ AddStates(prefund, {}, {w}).postfund = prefund.postfund \cup {w}
      BY <1>3, <3>1, AddStatesFacts
    <3>. QED  BY <1>3, <3>2 DEF SignPostfundSetup, PostfundSigned
  <2>. QED  BY <1>3, <2>1, <2>2, <2>3
<1>5. CASE ~(PreFundComplete(prefund) /\ CurrentAmount(w) >= O!TargetTotal)
  BY <1>2, <1>3, <1>5 DEF OpeningStates
<1>. QED  BY <1>4, <1>5

\* A deposit is asked for when it is due, and then it is the wallet's own.
LEMMA ShouldDepositFacts ==
  ASSUME FundingInv, NEW w \in Wallet, ShouldDeposit(w)
  PROVE  /\ CurrentAmount(w) = O!TargetBefore(w) /\ Amount[w] > 0
         /\ O!TargetAfter(w) - CurrentAmount(w) = Amount[w]
         /\ request[w].attempts + 1 \in 1 .. Retries
<1>1. CurrentAmount(w) \in Milestone
  BY DEF FundingInv, KnownFunding
<1>2. CurrentAmount(w) >= O!TargetBefore(w) /\ CurrentAmount(w) < O!TargetAfter(w)
  BY DEF ShouldDeposit
<1>3. CurrentAmount(w) = O!TargetBefore(w)
  BY <1>1, <1>2, Milestones
<1>4. O!TargetAfter(w) = O!TargetBefore(w) + Amount[w] /\ O!TargetBefore(w) \in Nat /\ Amount[w] \in Nat
  BY Milestones
<1>5. request[w].attempts \in 0 .. Retries /\ ~(request[w].attempts >= Retries)
  BY DEF FundingInv, Shapes, FundingTypeOK, ShouldDeposit, IsValid
<1>. QED  BY <1>2, <1>3, <1>4, <1>5 DEF Retries

\* The crank of an objective.
LEMMA CrankInv ==
  ASSUME FundingInv, NEW w \in Wallet, NEW handler, Crank(w, handler)
  PROVE  /\ FundingInv'
         /\ \/ Postfunded' = Postfunded
            \/ Holdings = O!TargetTotal /\ Postfunded' = Postfunded \cup {w}
         /\ \/ Opened' = Opened
            \/ Postfunded' = Wallet /\ Opened' = Opened \cup {w}
         /\ UNCHANGED deposits
<1>1. stored \in [Wallet -> [prefund : SUBSET Wallet, postfund : SUBSET Wallet]]
  BY DEF FundingInv, Shapes, FundingTypeOK
<1>2. /\ UNCHANGED <<funding, updates, mempool, deposits, faults>>
      /\ handlers' = [handlers EXCEPT ![w] = @ \ {handler}]
      /\ trackers' = IF handler # "opening" THEN trackers
                     ELSE [trackers EXCEPT ![w] =
                             [slot \in DOMAIN @ \cup {"handler"} |->
                                IF slot = "handler" THEN Registered ELSE @[slot]]]
  BY DEF Crank
<1>3. \/ UNCHANGED <<stored, net, objective, request, outbox>>
      \/ objective[w] = "approved" /\ OpenChannel(w)
  BY DEF Crank
<1>4. /\ \/ stored' = stored
         \/ stored' = [stored EXCEPT ![w] = OpeningStates(w)]
      /\ \A m \in net' \ net : /\ m.to \in Wallet /\ m.prefund \subseteq {w}
                               /\ \/ m.postfund = {}
                                  \/ m.postfund = {w} /\ w \in stored'[w].postfund
      /\ \/ objective' = objective
         \/ /\ objective' = [objective EXCEPT ![w] = "succeeded"]
            /\ stored'[w].postfund = Wallet
  <2>1. CASE UNCHANGED <<stored, net, objective, request, outbox>>
    BY <2>1
  <2>2. CASE OpenChannel(w)
    <3>1. PICK prefund : prefund = SignPrefundSetup(w, stored[w])
      OBVIOUS
    <3>2. PICK states : states = OpeningStates(w)
      OBVIOUS
    <3>3. stored' = [stored EXCEPT ![w] = states] /\ stored'[w] = states
      BY <1>1, <2>2, <3>2 DEF OpenChannel, OpeningStates
    <3>4. states = prefund \/ states = SignPostfundSetup(w, prefund)
      BY <3>1, <3>2 DEF OpeningStates
    <3>5. states # prefund => w \in states.postfund
      <4>1. SUFFICES ASSUME states = AddStates(prefund, {}, {w})
                     PROVE  w \in states.postfund
        BY <3>4 DEF SignPostfundSetup
      <4>. QED  BY <4>1 DEF AddStates
    <3>6. PICK signed : signed = [prefund |-> IF PrefundSigned(w, stored[w]) THEN {} ELSE {w},
                                  postfund |-> IF states = prefund THEN {} ELSE {w}]
      OBVIOUS
    <3>7. net' = net \cup (IF signed = NoStates THEN {}
                           ELSE {Message(p, FALSE, signed.prefund, signed.postfund) : p \in Others(w)})
      BY <2>2, <3>1, <3>2, <3>6 DEF OpenChannel, OpeningStates
    <3>8. /\ signed.prefund \subseteq {w}
          /\ \/ signed.postfund = {}
             \/ signed.postfund = {w} /\ w \in stored'[w].postfund
      BY <3>3, <3>5, <3>6
    <3>9. \A m \in net' \ net : /\ m.to \in Wallet /\ m.prefund \subseteq {w}
                                /\ \/ m.postfund = {}
                                   \/ m.postfund = {w} /\ w \in stored'[w].postfund
      BY <3>7, <3>8 DEF Message, Others
    <3>10. \/ objective' = objective
           \/ /\ objective' = [objective EXCEPT ![w] = "succeeded"]
              /\ states.postfund = Wallet
      BY <2>2, <3>1, <3>2 DEF OpenChannel, OpeningStates, PostFundComplete, FundingInv, Shapes, FundingTypeOK
    <3>. QED  BY <3>2, <3>3, <3>9, <3>10
  <2>. QED  BY <1>3, <2>1, <2>2
<1>5. /\ stored' \in [Wallet -> [prefund : SUBSET Wallet, postfund : SUBSET Wallet]]
      /\ \A x \in Wallet \ {w} : stored'[x] = stored[x]
      /\ \/ stored'[w].postfund = stored[w].postfund
         \/ Holdings = O!TargetTotal /\ stored'[w].postfund = stored[w].postfund \cup {w}
  BY <1>1, <1>4, OpeningStatesFacts
<1>6. \/ Postfunded' = Postfunded
      \/ Holdings = O!TargetTotal /\ Postfunded' = Postfunded \cup {w}
  <2>1. CASE stored'[w].postfund = stored[w].postfund
    BY <1>5, <2>1 DEF Postfunded
  <2>2. CASE Holdings = O!TargetTotal /\ stored'[w].postfund = stored[w].postfund \cup {w}
    BY <1>5, <2>2 DEF Postfunded
  <2>. QED  BY <1>5, <2>1, <2>2
<1>7. /\ request' \in [Wallet -> [attempts : 0 .. Retries, recent : BOOLEAN]]
      /\ outbox' \in [Wallet -> SUBSET (UNION {Transactions(x) : x \in Wallet})]
      /\ \A x \in Wallet : outbox'[x] \subseteq Transactions(x)
      /\ \A x \in Wallet : \A tx \in outbox'[x] : OwnDeposit(tx)
  <2>1. CASE UNCHANGED <<request, outbox>>
    BY <2>1 DEF FundingInv, Shapes, FundingTypeOK, DepositsAsked
  <2>2. CASE ShouldDeposit(w) /\ RequestDeposit(w)
    <3>1. PICK attempt : attempt = request[w].attempts + 1
      OBVIOUS
    <3>2. PICK tx : tx = [by |-> w, attempt |-> attempt, expectedHeld |-> CurrentAmount(w),
                          amount |-> O!TargetAfter(w) - CurrentAmount(w)]
      OBVIOUS
    <3>3. /\ request' = [request EXCEPT ![w] = [attempts |-> attempt, recent |-> attempt < Retries]]
          /\ outbox' = [outbox EXCEPT ![w] = @ \cup {tx}]
      BY <2>2, <3>1, <3>2 DEF RequestDeposit
    <3>4. OwnDeposit(tx) /\ attempt \in 1 .. Retries
      BY <2>2, <3>1, <3>2, ShouldDepositFacts DEF OwnDeposit
    <3>5. tx \in Transactions(w)
      BY <3>2, <3>4, OwnDepositFacts DEF Transactions
    <3>6. request' \in [Wallet -> [attempts : 0 .. Retries, recent : BOOLEAN]]
      BY <3>3, <3>4 DEF FundingInv, Shapes, FundingTypeOK, Retries
    <3>. QED  BY <3>3, <3>4, <3>5, <3>6 DEF FundingInv, Shapes, FundingTypeOK, DepositsAsked
  <2>. QED  BY <1>3, <2>1, <2>2 DEF OpenChannel
<1>8. Shapes'
  <2>1. handlers' \in [Wallet -> SUBSET Handler]
    BY <1>2 DEF FundingInv, Shapes, FundingTypeOK
  <2>2. trackers' = [x \in Wallet |-> trackers'[x]] /\ \A x \in Wallet : DOMAIN trackers'[x] \subseteq Slot
    BY <1>2 DEF FundingInv, Shapes, FundingTypeOK, Slot
  <2>3. objective' \in [Wallet -> {"none", "pending", "approved", "succeeded"}]
    BY <1>4 DEF FundingInv, Shapes, FundingTypeOK
  <2>4. \A m \in net' : m.to \in Wallet /\ m.prefund \subseteq Wallet
    BY <1>4 DEF FundingInv, Shapes
  <2>. QED  BY <1>2, <1>5, <1>7, <2>1, <2>2, <2>3, <2>4 DEF FundingInv, Shapes, FundingTypeOK
<1>9. DepositsGrow' /\ Holdings' = Holdings /\ DepositsAsked' /\ KnownFunding'
  BY <1>2, <1>7 DEF FundingInv, DepositsGrow, Holdings, Held, DepositsAsked, KnownFunding, CurrentAmount
<1>10. SignaturesMade'
  <2>1. Postfunded \subseteq Postfunded' /\ (w \in stored'[w].postfund => w \in Postfunded')
    BY <1>5 DEF Postfunded
  <2>2. \A x \in Wallet : stored'[x].postfund \subseteq Postfunded'
    BY <1>5, <2>1 DEF FundingInv, SignaturesMade
  <2>3. \A m \in net' : m.postfund \subseteq Postfunded'
    BY <1>4, <2>1 DEF FundingInv, SignaturesMade
  <2>. QED  BY <2>2, <2>3 DEF SignaturesMade
<1>11. OpenWhenSigned'
  <2>1. stored[w].postfund = Wallet => stored'[w].postfund = Wallet
    BY <1>5
  <2>. QED  BY <1>4, <1>5, <2>1 DEF FundingInv, OpenWhenSigned, Shapes, FundingTypeOK
<1>12. FundedWhenSigned'
  BY <1>6, <1>9 DEF FundingInv, FundedWhenSigned
<1>13. \/ Opened' = Opened
       \/ Postfunded' = Wallet /\ Opened' = Opened \cup {w}
  <2>1. CASE objective' = objective
    BY <2>1 DEF Opened
  <2>2. CASE /\ objective' = [objective EXCEPT ![w] = "succeeded"]
             /\ stored'[w].postfund = Wallet
    <3>1. Opened' = Opened \cup {w}
      BY <2>2 DEF Opened, FundingInv, Shapes, FundingTypeOK
    <3>2. Postfunded' = Wallet
      BY <1>10, <2>2 DEF SignaturesMade, Postfunded
    <3>. QED  BY <3>1, <3>2
  <2>. QED  BY <1>4, <2>1, <2>2
<1>. QED  BY <1>2, <1>6, <1>8, <1>9, <1>10, <1>11, <1>12, <1>13 DEF FundingInv


\* A deposit that is mined brings the channel to the next milestone, or changes nothing.
LEMMA MineDepositInv ==
  ASSUME FundingInv, NEW tx \in mempool, MineDeposit(tx)
  PROVE  /\ FundingInv' /\ UNCHANGED <<stored, objective>>
         /\ \/ Holdings' = Holdings
            \/ \E w \in Wallet : /\ Amount[w] > 0
                                 /\ Holdings = O!TargetBefore(w)
                                 /\ Holdings' = O!TargetAfter(w)
<1>1. /\ mempool' = mempool \ {tx} /\ UNCHANGED <<durable, volatile, net, faults>>
      /\ deposits' = IF Holdings >= tx.expectedHeld /\ ~Sufficient(Holdings, tx)
                       THEN Append(deposits, tx.expectedHeld + tx.amount) ELSE deposits
  BY DEF MineDeposit
<1>2. /\ UNCHANGED <<stored, objective, funding, request, handlers, outbox, trackers, updates, net, faults>>
  BY <1>1 DEF durable, volatile
<1>3. CASE deposits' = deposits
  <2>1. Shapes' /\ DepositsAsked'
    BY <1>1, <1>2, <1>3 DEF FundingInv, Shapes, FundingTypeOK, DepositsAsked
  <2>2. DepositsGrow' /\ Holdings' = Holdings /\ KnownFunding' /\ Postfunded' = Postfunded
    BY <1>2, <1>3 DEF FundingInv, DepositsGrow, Holdings, Held, KnownFunding, CurrentAmount, Postfunded
  <2>3. SignaturesMade' /\ OpenWhenSigned'
    BY <1>2, <2>2 DEF FundingInv, SignaturesMade, OpenWhenSigned
  <2>. QED  BY <1>2, <2>1, <2>2, <2>3 DEF FundingInv, FundedWhenSigned
<1>4. CASE deposits' # deposits
  <2>1. PICK w \in Wallet : w = tx.by
    BY DEF FundingInv, DepositsAsked, OwnDeposit
  <2>2. /\ tx.expectedHeld = O!TargetBefore(w) /\ tx.amount = Amount[w] /\ Amount[w] > 0
        /\ tx.expectedHeld + tx.amount = O!TargetAfter(w)
    BY <2>1, OwnDepositFacts DEF FundingInv, DepositsAsked, OwnDeposit
  <2>3. /\ Holdings >= tx.expectedHeld /\ ~(Holdings >= tx.expectedHeld + tx.amount)
        /\ deposits' = Append(deposits, O!TargetAfter(w))
    BY <1>1, <1>4, <2>2 DEF Sufficient
  <2>4. Holdings \in Milestone /\ Holdings \in Nat
    BY HoldingsFacts DEF FundingInv
  <2>5. O!TargetAfter(w) \in Milestone /\ O!TargetAfter(w) \in 1 .. O!TargetTotal
    BY <2>2, Milestones
  <2>6. Holdings < O!TargetAfter(w) /\ Holdings = O!TargetBefore(w)
    BY <2>2, <2>3, <2>4, <2>5, Milestones
  <2>7. /\ deposits \in Seq(Milestone) /\ deposits' \in Seq(Milestone)
        /\ Len(deposits') = Len(deposits) + 1 /\ deposits'[Len(deposits')] = O!TargetAfter(w)
        /\ \A k \in 1 .. Len(deposits) : deposits'[k] = deposits[k]
    BY <2>3, <2>5 DEF FundingInv, DepositsGrow
  <2>8. Holdings' = O!TargetAfter(w)
    BY <2>7 DEF Holdings, Held
  <2>9. DepositsGrow'
    <3>1. ASSUME NEW k \in 1 .. Len(deposits') PROVE deposits'[k] <= Holdings'
      <4>1. CASE k = Len(deposits')
        BY <2>5, <2>7, <2>8, <4>1
      <4>2. CASE k \in 1 .. Len(deposits)
        <5>1. deposits[k] <= Holdings /\ deposits[k] \in Nat
          BY <2>7, <4>2, Milestones DEF FundingInv, DepositsGrow
        <5>. QED  BY <2>4, <2>5, <2>6, <2>7, <2>8, <4>2, <5>1
      <4>. QED  BY <2>7, <4>1, <4>2
    <3>. QED  BY <2>7, <3>1 DEF DepositsGrow
  <2>10. KnownFunding'
    <3>1. ASSUME NEW m \in Milestone, m <= Holdings PROVE m <= Holdings'
      BY <2>4, <2>5, <2>6, <2>8, <3>1, Milestones
    <3>. QED  BY <1>2, <3>1 DEF FundingInv, KnownFunding, CurrentAmount
  <2>11. Shapes'
    <3>1. \A k \in 1 .. Len(deposits') : deposits'[k] \in 1 .. O!TargetTotal
      <4>1. \A k \in 1 .. Len(deposits) : deposits[k] \in 1 .. O!TargetTotal
        BY DEF FundingInv, Shapes, FundingTypeOK
      <4>2. \A k \in 1 .. Len(deposits') : k = Len(deposits') \/ k \in 1 .. Len(deposits)
        BY <2>7
      <4>. QED  BY <2>5, <2>7, <4>1, <4>2
    <3>. QED  BY <1>1, <1>2, <3>1 DEF FundingInv, Shapes, FundingTypeOK
  <2>12. DepositsAsked' /\ Postfunded' = Postfunded /\ SignaturesMade' /\ OpenWhenSigned'
    BY <1>1, <1>2 DEF FundingInv, DepositsAsked, Postfunded, SignaturesMade, OpenWhenSigned
  <2>13. Postfunded = {}
    BY <2>4, <2>5, <2>6 DEF FundingInv, FundedWhenSigned
  <2>. QED  BY <1>2, <2>2, <2>6, <2>8, <2>9, <2>10, <2>11, <2>12, <2>13 DEF FundingInv, FundedWhenSigned
<1>. QED  BY <1>3, <1>4

\* What a tracker reports were the holdings at some time.
LEMMA TrackInv ==
  ASSUME FundingInv, NEW w \in Wallet, NEW slot \in DOMAIN trackers[w],
         NEW k \in 0 .. Len(deposits), NEW isNew, NEW initial, Track(w, slot, k, isNew, initial)
  PROVE  FundingInv' /\ UNCHANGED <<stored, objective, deposits>>
<1>1. /\ trackers' = [trackers EXCEPT ![w][slot] =
                        [seen |-> IF isNew THEN k ELSE @.seen, initial |-> initial]]
      /\ updates' = [updates EXCEPT ![w] =
                       IF isNew THEN @ \cup {[event |-> GetDepositedEvent(k),
                                              inserts |-> funding[w] = NoRow]} ELSE @]
      /\ UNCHANGED <<durable, handlers, outbox, world, faults>>
  BY DEF Track
<1>2. UNCHANGED <<stored, objective, funding, request, handlers, outbox, net, mempool, deposits, faults>>
  BY <1>1 DEF durable, world
<1>3. /\ trackers' = [x \in Wallet |-> trackers'[x]]
      /\ \A x \in Wallet : DOMAIN trackers'[x] \subseteq Slot
  BY <1>1 DEF FundingInv, Shapes, FundingTypeOK
<1>4. /\ updates' = [x \in Wallet |-> updates'[x]]
      /\ \A x \in Wallet : \A u \in updates'[x] : u \in updates[x] \/ u.event.amount = Held(k)
  <2>1. PICK u : u = [event |-> GetDepositedEvent(k), inserts |-> funding[w] = NoRow]
    OBVIOUS
  <2>2. u.event.amount = Held(k)
    BY <2>1 DEF GetDepositedEvent
  <2>3. updates' = [updates EXCEPT ![w] = IF isNew THEN @ \cup {u} ELSE @]
    BY <1>1, <2>1
  <2>. QED  BY <2>2, <2>3 DEF FundingInv, Shapes
<1>5. Held(k) \in Milestone /\ Held(k) <= Holdings
  BY HoldingsFacts DEF FundingInv
<1>6. Shapes'
  BY <1>2, <1>3, <1>4 DEF FundingInv, Shapes, FundingTypeOK
<1>7. DepositsGrow' /\ Holdings' = Holdings /\ DepositsAsked' /\ Postfunded' = Postfunded
  BY <1>2 DEF FundingInv, DepositsGrow, Holdings, Held, DepositsAsked, Postfunded
<1>8. KnownFunding'
  BY <1>2, <1>4, <1>5, <1>7 DEF FundingInv, KnownFunding, CurrentAmount
<1>9. SignaturesMade' /\ OpenWhenSigned'
  BY <1>2, <1>7 DEF FundingInv, SignaturesMade, OpenWhenSigned
<1>. QED  BY <1>2, <1>6, <1>7, <1>8, <1>9 DEF FundingInv, FundedWhenSigned

\* The row of a wallet is one of the amounts that were reported.
LEMMA UpdateFundingInv ==
  ASSUME FundingInv, NEW w \in Wallet, NEW u, UpdateFunding(w, u)
  PROVE  FundingInv' /\ UNCHANGED <<stored, objective, deposits>>
<1>1. /\ u \in updates[w] /\ updates' = [updates EXCEPT ![w] = @ \ {u}]
      /\ UNCHANGED <<stored, objective, request, outbox, trackers, net, mempool, deposits, faults>>
      /\ \/ UNCHANGED <<funding, handlers>>
         \/ funding' = [funding EXCEPT ![w] = u.event.amount] /\ Touch(w)
  BY DEF UpdateFunding, world
<1>2. u.event.amount \in Milestone /\ u.event.amount <= Holdings
  BY <1>1 DEF FundingInv, KnownFunding
<1>3. u.event.amount \in 0 .. O!TargetTotal
  BY <1>2, Milestones
<1>4. handlers' \in [Wallet -> SUBSET Handler] /\ funding' \in [Wallet -> {NoRow} \cup 0 .. O!TargetTotal]
  <2>1. handlers' \in [Wallet -> SUBSET Handler]
    <3>1. \/ handlers' = handlers
          \/ handlers' = [handlers EXCEPT ![w] = @ \cup {"event"}]
      BY <1>1 DEF FundingInv, Shapes, FundingTypeOK, Touch
    <3>. QED  BY <3>1 DEF FundingInv, Shapes, FundingTypeOK, Handler
  <2>2. funding' \in [Wallet -> {NoRow} \cup 0 .. O!TargetTotal]
    BY <1>1, <1>3 DEF FundingInv, Shapes, FundingTypeOK
  <2>. QED  BY <2>1, <2>2
<1>5. Shapes'
  BY <1>1, <1>4 DEF FundingInv, Shapes, FundingTypeOK
<1>6. DepositsGrow' /\ Holdings' = Holdings /\ DepositsAsked' /\ Postfunded' = Postfunded
  BY <1>1 DEF FundingInv, DepositsGrow, Holdings, Held, DepositsAsked, Postfunded
<1>7. KnownFunding'
  <2>1. \A x \in Wallet : updates'[x] \subseteq updates[x]
    BY <1>1 DEF FundingInv, Shapes
  <2>2. \A x \in Wallet : CurrentAmount(x)' = CurrentAmount(x) \/ CurrentAmount(x)' = u.event.amount
    BY <1>1, <1>3 DEF CurrentAmount, FundingInv, Shapes, FundingTypeOK, NoRow
  <2>3. \A x \in Wallet : CurrentAmount(x)' \in Milestone /\ CurrentAmount(x)' <= Holdings'
    BY <1>2, <1>6, <2>2 DEF FundingInv, KnownFunding
  <2>. QED  BY <1>6, <2>1, <2>3 DEF FundingInv, KnownFunding
<1>8. SignaturesMade' /\ OpenWhenSigned'
  BY <1>1, <1>6 DEF FundingInv, SignaturesMade, OpenWhenSigned
<1>. QED  BY <1>1, <1>5, <1>6, <1>7, <1>8 DEF FundingInv, FundedWhenSigned

\* What else a process does or loses leaves the states, the objective and the chain alone.
ProcessStep(w) ==
  \/ ApproveObjective(w) \/ RequestTimeout(w) \/ LoseOutput(w) \/ Restart(w)
  \/ \E tx \in outbox[w] : SubmitTransaction(w, tx)

LEMMA ProcessInv ==
  ASSUME FundingInv, NEW w \in Wallet, ProcessStep(w)
  PROVE  /\ FundingInv' /\ UNCHANGED <<stored, deposits>>
         /\ \A x \in Wallet : objective'[x] = "succeeded" <=> objective[x] = "succeeded"
<1>0. /\ objective \in [Wallet -> {"none", "pending", "approved", "succeeded"}]
      /\ request \in [Wallet -> [attempts : 0 .. Retries, recent : BOOLEAN]]
      /\ handlers \in [Wallet -> SUBSET Handler]
      /\ outbox \in [Wallet -> SUBSET (UNION {Transactions(x) : x \in Wallet})]
      /\ updates = [x \in Wallet |-> updates[x]]
      /\ trackers = [x \in Wallet |-> trackers[x]]
      /\ \A x \in Wallet : DOMAIN trackers[x] \subseteq Slot
  BY DEF FundingInv, Shapes, FundingTypeOK
<1>1. UNCHANGED <<stored, funding, net, deposits>>
  BY DEF ProcessStep, ApproveObjective, RequestTimeout, LoseOutput, Restart, SubmitTransaction,
         world, durable, volatile
<1>2. /\ objective' \in [Wallet -> {"none", "pending", "approved", "succeeded"}]
      /\ \A x \in Wallet : objective'[x] = "succeeded" <=> objective[x] = "succeeded"
  BY <1>0 DEF ProcessStep, ApproveObjective, RequestTimeout, LoseOutput, Restart, SubmitTransaction, durable
<1>3. request' \in [Wallet -> [attempts : 0 .. Retries, recent : BOOLEAN]]
  <2>1. request' = request \/ request' = [request EXCEPT ![w].recent = FALSE]
    BY DEF ProcessStep, ApproveObjective, RequestTimeout, LoseOutput, Restart, SubmitTransaction, durable
  <2>. QED  BY <1>0, <2>1
<1>4. handlers' \in [Wallet -> SUBSET Handler]
  <2>1. \/ handlers' = handlers
        \/ handlers' = [handlers EXCEPT ![w] = @ \cup {"opening"}]
        \/ handlers' = [handlers EXCEPT ![w] = {}]
    BY DEF ProcessStep, ApproveObjective, RequestTimeout, LoseOutput, Restart, SubmitTransaction,
           volatile
  <2>. QED  BY <1>0, <2>1 DEF Handler
<1>5. /\ outbox' \in [Wallet -> SUBSET (UNION {Transactions(x) : x \in Wallet})]
      /\ \A x \in Wallet : outbox'[x] \subseteq outbox[x]
  <2>1. \E left \in SUBSET outbox[w] : outbox' = outbox \/ outbox' = [outbox EXCEPT ![w] = left]
    BY DEF ProcessStep, ApproveObjective, RequestTimeout, LoseOutput, Restart, SubmitTransaction, volatile
  <2>. QED  BY <1>0, <2>1
<1>6. mempool' \subseteq mempool \cup outbox[w]
  BY DEF ProcessStep, ApproveObjective, RequestTimeout, LoseOutput, Restart, SubmitTransaction, world
<1>7. /\ updates' = [x \in Wallet |-> updates'[x]]
      /\ \A x \in Wallet : updates'[x] \subseteq updates[x]
  BY <1>0 DEF ProcessStep, ApproveObjective, RequestTimeout, LoseOutput, Restart, SubmitTransaction, volatile
<1>8. /\ trackers' = [x \in Wallet |-> trackers'[x]]
      /\ \A x \in Wallet : DOMAIN trackers'[x] \subseteq Slot
  <2>1. PICK started : started = [slot \in (IF objective[w] = "none" THEN {} ELSE {"startup"}) |-> Registered]
    OBVIOUS
  <2>2. trackers' = trackers \/ trackers' = [trackers EXCEPT ![w] = started]
    BY <2>1 DEF ProcessStep, ApproveObjective, RequestTimeout, LoseOutput, Restart, SubmitTransaction,
           volatile
  <2>3. DOMAIN started \subseteq Slot
    BY <2>1 DEF Slot
  <2>. QED  BY <1>0, <2>2, <2>3
<1>9. DepositsAsked'
  BY <1>5, <1>6 DEF FundingInv, DepositsAsked
<1>10. DepositsGrow' /\ Holdings' = Holdings /\ Postfunded' = Postfunded
  BY <1>1 DEF FundingInv, DepositsGrow, Holdings, Held, Postfunded
<1>11. KnownFunding'
  BY <1>1, <1>7, <1>10 DEF FundingInv, KnownFunding, CurrentAmount
<1>12. SignaturesMade' /\ OpenWhenSigned'
  BY <1>1, <1>2, <1>10 DEF FundingInv, SignaturesMade, OpenWhenSigned
<1>13. Shapes'
  BY <1>1, <1>2, <1>3, <1>4, <1>5, <1>6, <1>7, <1>8 DEF FundingInv, Shapes, FundingTypeOK
<1>. QED  BY <1>1, <1>2, <1>9, <1>10, <1>11, <1>12, <1>13 DEF FundingInv, FundedWhenSigned


\* What a step does that others see: a deposit, or a signature and a report of one
\* wallet, or nothing.
Promised ==
  \/ \E w \in Wallet : /\ Amount[w] > 0
                       /\ Holdings = O!TargetBefore(w) /\ Holdings' = O!TargetAfter(w)
                       /\ Postfunded' = Postfunded /\ Opened' = Opened
  \/ \E w \in Wallet : /\ Holdings' = Holdings
                       /\ \/ Postfunded' = Postfunded
                          \/ Holdings = O!TargetTotal /\ Postfunded' = Postfunded \cup {w}
                       /\ \/ Opened' = Opened
                          \/ Postfunded' = Wallet /\ Opened' = Opened \cup {w}

\* The invariant is inductive, and every step does what is promised.
LEMMA NextFunding ==
  ASSUME FundingInv, [Next]_vars
  PROVE  FundingInv' /\ Promised
<1>0. ASSUME UNCHANGED deposits PROVE Holdings' = Holdings
  BY <1>0 DEF Holdings, Held
<1>1. CASE CreateLedgerChannel
  <2>1. Creator \in Wallet
    BY Milestones, AmountAssumption DEF Creator
  <2>. QED  BY <1>0, <1>1, <2>1, CreateLedgerChannelInv DEF Promised
<1>2. CASE \E m \in net : PushMessage(m.to, m)
  <2>1. PICK m \in net : PushMessage(m.to, m)
    BY <1>2
  <2>2. m.to \in Wallet /\ m.prefund \subseteq Wallet /\ m.postfund \subseteq Postfunded
    BY DEF FundingInv, Shapes, SignaturesMade
  <2>. QED  BY <1>0, <2>1, <2>2, PushMessageInv DEF Promised
<1>3. CASE \E tx \in mempool : MineDeposit(tx)
  <2>1. /\ FundingInv' /\ UNCHANGED <<stored, objective>>
        /\ \/ Holdings' = Holdings
           \/ \E w \in Wallet : /\ Amount[w] > 0
                                /\ Holdings = O!TargetBefore(w)
                                /\ Holdings' = O!TargetAfter(w)
    BY <1>3, MineDepositInv
  <2>2. Postfunded' = Postfunded /\ Opened' = Opened /\ 0 \in Wallet
    BY <2>1, AmountAssumption, Milestones DEF Postfunded, Opened
  <2>. QED  BY <2>1, <2>2 DEF Promised
<1>4. CASE \E w \in Wallet : ProcessStep(w)
  <2>1. PICK w \in Wallet : ProcessStep(w)
    BY <1>4
  <2>2. /\ FundingInv' /\ UNCHANGED <<stored, deposits>>
        /\ \A x \in Wallet : objective'[x] = "succeeded" <=> objective[x] = "succeeded"
    BY <2>1, ProcessInv
  <2>3. Postfunded' = Postfunded /\ Opened' = Opened
    BY <2>2 DEF Postfunded, Opened
  <2>. QED  BY <1>0, <2>2, <2>3 DEF Promised
<1>5. CASE \E w \in Wallet : \E p \in Others(w) : SyncObjective(w, p) \/ AnswerSync(w, p)
  <2>1. PICK w \in Wallet, p \in Wallet : SyncObjective(w, p) \/ AnswerSync(w, p)
    BY <1>5 DEF Others
  <2>2. \A x \in Wallet : stored[x].prefund \subseteq Wallet /\ stored[x].postfund \subseteq Postfunded
    BY DEF FundingInv, Shapes, FundingTypeOK, SignaturesMade
  <2>3. CASE SyncObjective(w, p)
    <3>1. PICK m : m = Message(p, TRUE, stored[w].prefund, stored[w].postfund)
      OBVIOUS
    <3>2. m.prefund \subseteq Wallet /\ m.postfund \subseteq Postfunded
      BY <2>2, <3>1 DEF Message
    <3>3. PushMessage(p, m)
      BY <2>3, <3>1 DEF SyncObjective
    <3>. QED  BY <1>0, <3>2, <3>3, PushMessageInv DEF Promised
  <2>4. CASE AnswerSync(w, p)
    <3>1. PICK m : m = Message(w, FALSE, stored[p].prefund, stored[p].postfund)
      OBVIOUS
    <3>2. m.prefund \subseteq Wallet /\ m.postfund \subseteq Postfunded
      BY <2>2, <3>1 DEF Message
    <3>3. PushMessage(w, m)
      BY <2>4, <3>1 DEF AnswerSync
    <3>. QED  BY <1>0, <3>2, <3>3, PushMessageInv DEF Promised
  <2>. QED  BY <2>1, <2>3, <2>4
<1>6. CASE \E w \in Wallet : \E handler \in handlers[w] : Crank(w, handler)
  BY <1>0, <1>6, CrankInv DEF Promised
<1>7. CASE \E w \in Wallet : \E slot \in Slot :
             \/ \E k \in 0 .. Len(deposits) : InitialHoldings(w, slot, k)
             \/ \E k \in 1 .. Len(deposits) : Deposited(w, slot, k)
  <2>1. PICK w \in Wallet, slot \in Slot, k \in 0 .. Len(deposits) :
          /\ slot \in DOMAIN trackers[w]
          /\ \E isNew, initial : Track(w, slot, k, isNew, initial)
    <3>1. PICK w \in Wallet, slot \in Slot :
            \/ \E k \in 0 .. Len(deposits) : InitialHoldings(w, slot, k)
            \/ \E k \in 1 .. Len(deposits) : Deposited(w, slot, k)
      BY <1>7
    <3>2. ASSUME NEW k \in 0 .. Len(deposits), InitialHoldings(w, slot, k)
          PROVE  slot \in DOMAIN trackers[w] /\ \E isNew, initial : Track(w, slot, k, isNew, initial)
      BY <3>2 DEF InitialHoldings
    <3>3. ASSUME NEW k \in 1 .. Len(deposits), Deposited(w, slot, k)
          PROVE  /\ k \in 0 .. Len(deposits) /\ slot \in DOMAIN trackers[w]
                 /\ \E isNew, initial : Track(w, slot, k, isNew, initial)
      <4>1. k \in 0 .. Len(deposits)
        BY DEF FundingInv, DepositsGrow
      <4>2. slot \in DOMAIN trackers[w] /\ Track(w, slot, k, TRUE, trackers[w][slot].initial)
        BY <3>3 DEF Deposited
      <4>. QED  BY <4>1, <4>2
    <3>. QED  BY <3>1, <3>2, <3>3
  <2>2. FundingInv' /\ UNCHANGED <<stored, objective, deposits>>
    BY <2>1, TrackInv
  <2>3. Postfunded' = Postfunded /\ Opened' = Opened
    BY <2>2 DEF Postfunded, Opened
  <2>. QED  BY <1>0, <2>2, <2>3 DEF Promised
<1>8. CASE \E w \in Wallet : \E u \in updates[w] : UpdateFunding(w, u)
  <2>1. PICK w \in Wallet : \E u \in updates[w] : UpdateFunding(w, u)
    BY <1>8
  <2>2. FundingInv' /\ UNCHANGED <<stored, objective, deposits>>
    BY <2>1, UpdateFundingInv
  <2>3. Postfunded' = Postfunded /\ Opened' = Opened
    BY <2>2 DEF Postfunded, Opened
  <2>. QED  BY <1>0, <2>2, <2>3 DEF Promised
<1>9. CASE UNCHANGED vars
  <2>. USE <1>9 DEF vars, durable, volatile, world
  <2>1. Shapes' /\ DepositsGrow' /\ Holdings' = Holdings /\ Postfunded' = Postfunded /\ Opened' = Opened
    BY DEF FundingInv, Shapes, FundingTypeOK, DepositsGrow, Holdings, Held, Postfunded, Opened
  <2>2. KnownFunding' /\ DepositsAsked' /\ SignaturesMade' /\ OpenWhenSigned'
    BY <2>1 DEF FundingInv, KnownFunding, CurrentAmount, DepositsAsked, SignaturesMade, OpenWhenSigned
  <2>3. 0 \in Wallet
    BY AmountAssumption, Milestones
  <2>. QED  BY <2>1, <2>2, <2>3 DEF FundingInv, FundedWhenSigned, Promised
<1>. QED
  BY <1>1, <1>2, <1>3, <1>4, <1>5, <1>6, <1>7, <1>8, <1>9, FaultAssumption, Milestones
  DEF Next, ProcessStep

------------------------------------------------------------------------------
(* The theorems. *)

\* The tables, what a process holds and the chain are always of their types.
THEOREM FundingTypeCorrect == Spec => []FundingTypeOK
<1>1. Init => FundingInv
  BY InitFunding
<1>2. FundingInv /\ [Next]_vars => FundingInv'
  BY NextFunding
<1>3. FundingInv => FundingTypeOK
  BY DEF FundingInv, Shapes
<1>. QED  BY <1>1, <1>2, <1>3, PTL DEF Spec

\* However many wallets there are, and whatever is lost, repeated, late or stopped
\* midway, the channel is opened as promised: deposits in order and once each, no
\* postfund signature before everything is there, no report before all signatures.
THEOREM OpensAsPromised == Spec => OpeningSpec
<1>1. ASSUME FundingInv, FundingInv', Promised
      PROVE  [O!OpeningNext]_(O!openingVars)
  <2>1. /\ Holdings = IF deposits = <<>> THEN 0 ELSE deposits[Len(deposits)]
        /\ Holdings' = IF deposits' = <<>> THEN 0 ELSE deposits'[Len(deposits')]
    BY <1>1 DEF Holdings, Held, FundingInv, DepositsGrow
  <2>2. /\ Postfunded = {w \in 0 .. nWallets - 1 : w \in stored[w].postfund}
        /\ Opened = {w \in 0 .. nWallets - 1 : objective[w] = "succeeded"}
        /\ Postfunded' = {w \in 0 .. nWallets - 1 : w \in stored'[w].postfund}
        /\ Opened' = {w \in 0 .. nWallets - 1 : objective'[w] = "succeeded"}
    BY Milestones DEF Postfunded, Opened
  <2>3. O!Wallet = Wallet
    BY DEF Wallet
  <2>4. CASE \E w \in Wallet : /\ Amount[w] > 0
                       /\ Holdings = O!TargetBefore(w) /\ Holdings' = O!TargetAfter(w)
                       /\ Postfunded' = Postfunded /\ Opened' = Opened
    BY <2>1, <2>2, <2>3, <2>4 DEF O!OpeningNext, O!MakeDeposit
  <2>5. ASSUME NEW w \in Wallet, Holdings' = Holdings,
               \/ Postfunded' = Postfunded
               \/ Holdings = O!TargetTotal /\ Postfunded' = Postfunded \cup {w},
               \/ Opened' = Opened
               \/ Postfunded' = Wallet /\ Opened' = Opened \cup {w}
        PROVE  [O!OpeningNext]_(O!openingVars)
    BY <2>1, <2>2, <2>3, <2>5 DEF O!OpeningNext, O!SignPostfund, O!ReportOpen, O!openingVars
  <2>. QED  BY <1>1, <2>4, <2>5 DEF Promised
<1>2. Init => O!OpeningInit
  BY DEF Init, O!OpeningInit, NoStates, Wallet, O!Wallet
<1>3. Init => FundingInv
  BY InitFunding
<1>4. FundingInv /\ [Next]_vars => FundingInv' /\ Promised
  BY NextFunding
<1>5. FundingInv /\ FundingInv' /\ Promised => [O!OpeningNext]_(O!openingVars)
  BY <1>1
<1>. QED  BY <1>2, <1>3, <1>4, <1>5, PTL DEF Spec, OpeningSpec, O!OpeningSpec

===============================================================================
