--------------------------- MODULE LedgerBudgetProofs ---------------------------
(* A player can always get back what it has paid into a ledger with the hub, and *)
(* the budget its application is told of is backed by that ledger: for any        *)
(* budgets, whatever the hub deposits, and any number of ledgers and closings.   *)
EXTENDS LedgerBudget, FiniteSetTheorems, SequenceTheorems, TLAPS

-------------------------------------------------------------------------------
(* What is signed: of each ledger an opening state and a final one.              *)

StateOf(b) ==
  {SignedState(turn, turn = 1, b, signers) : turn \in {0, 1}, signers \in SUBSET {0, 1}}
LedgerState == UNION {StateOf(b) : b \in Budgets}

Sent(l) == {m.state : m \in {n \in net : n.ledger = l}}
StatesOf(l) == entry["player"][l] \cup entry["hub"][l] \cup Sent(l)

\* What the player has proposed for a ledger: nothing, or one budget.
Terms(l) == {s.outcome : s \in entry["player"][l]}

\* The player has signed that a ledger ends.
Ended(l) == \E s \in StatesOf(l) : s.final /\ 0 \in s.signers

-------------------------------------------------------------------------------
(* The inductive invariant.                                                      *)

BeforeLedger == {"waitForUserApproval", "waitForSufficientFunds", "createLedger"}
MayPay == {"waitForPreFS", "init", "waitTurn"}
OnLedger == MayPay \cup {"waitMining", "createBudget"}
FundingAt == {"none", "supportPreFundState", "depositing", "done"}
OnChain == {"submitTransaction", "waitMining"}
HasLedger == {"constructFinalState", "supportState", "clearBudget"} \cup OnChain
ClosingAt == {"none", "waitForUserApproval", "createObjective", "done"} \cup HasLedger

ApprovalFlow == [at : {"none"} \cup BeforeLedger \cup OnLedger,
                 budget : Budgets \cup {NoBudget}, ledger : 0 .. MaxLedgers, seen : Nat]
FundingFlow == [at : FundingAt, turn : {0, 1}, seen : Nat]
ClosingFlow ==
  [at : ClosingAt, ledger : 0 .. MaxLedgers, of : 0 .. MaxLedgers, turn : {0, 1}, seen : Nat]
Session == [at : {"none", "explainToUser", "enabling", "settingDestinationAddress"},
            address : BOOLEAN, destination : BOOLEAN]

Shapes ==
  /\ policy \in {"all", "share"} /\ hasty \in BOOLEAN
  /\ budget \in Budgets \cup {NoBudget}
  /\ session.destination \/ session.at = "settingDestinationAddress" => session.address
  /\ session \in Session
  /\ approving \in ApprovalFlow
  /\ funding \in [Ledgers -> FundingFlow]
  /\ closing \in [Wallet -> [1 .. MaxClosings -> ClosingFlow]]
  /\ entry \in [Wallet -> [Ledgers -> SUBSET LedgerState]]
  /\ net \subseteq [to : Wallet, ledger : Ledgers, state : LedgerState]
  /\ ledger \in [Wallet -> 0 .. MaxLedgers]
  /\ amounts \in [Ledgers -> Seq(Nat)]
  /\ concluded \subseteq Ledgers
  /\ paidIn \in [Ledgers -> [Wallet -> Nat]]

\* The stores: everybody signs what the player proposed; the ledgers come in order.
OnTerms(l) ==
  /\ \A b, c \in Terms(l) : b = c
  /\ \A s \in StatesOf(l) : \E b \in Terms(l) : s \in StateOf(b)
  /\ \A w \in Wallet : InvariantsHold(entry[w][l])
Signs(w, l) == SignedBy(entry[w][l], Index(w)) # {}
StoresSound ==
  /\ \A l \in Ledgers : OnTerms(l)
  /\ \E n \in 0 .. MaxLedgers : Approved = 1 .. n
  /\ \A w \in Wallet : ledger[w] # NoLedger => Signs(w, ledger[w])
  /\ concluded \subseteq Approved

\* The approval: it is about the ledger the player has now, and pays once.
ApprovalSound ==
  /\ approving.at = "none" => approving = NoApproval
  /\ approving.at # "none" => approving.budget \in Budgets
  /\ approving.at \in BeforeLedger =>
       approving.ledger = NoLedger /\ Cardinality(Approved) < MaxLedgers
  /\ approving.at \in OnLedger =>
       /\ approving.ledger \in Ledgers /\ approving.ledger = ledger["player"]
       /\ Terms(approving.ledger) = {approving.budget}
  /\ approving.at \in MayPay => paidIn[approving.ledger]["player"] = 0
  /\ approving.at = "createBudget" =>
       approving.ledger \in concluded \/ Holdings(approving.ledger) >= 2 * approving.budget.send

\* The money of a ledger: it grows until the ledger is concluded, and covers what the
\* player has paid.
Money(l) ==
  /\ Len(amounts[l]) >= 1 /\ amounts[l][1] = 0
  /\ paidIn[l]["player"] > 0 => Terms(l) # {}
  /\ l \notin concluded =>
       /\ \A i, j \in 1 .. Len(amounts[l]) : i <= j => amounts[l][i] <= amounts[l][j]
       /\ \A j \in 2 .. Len(amounts[l]) : amounts[l][j] > 0
       /\ \A b \in Terms(l) : Modest(b) /\ paidIn[l]["player"] > 0 =>
            paidIn[l]["player"] <= b.send /\ Holdings(l) >= b.receive + paidIn[l]["player"]

\* The hub deposits first, and looks at every amount, until it has seen all there should be.
HubSound(l) ==
  /\ funding[l].at = "depositing" =>
       /\ IsSupported(2, entry["hub"][l])
       /\ funding[l].seen <= Len(amounts[l])
       /\ funding[l].seen = Len(amounts[l]) => \A b \in Terms(l) : Holdings(l) < Sum(b)
  /\ l \notin concluded /\ Len(amounts[l]) > 1 =>
       /\ funding[l].at \in {"depositing", "done"}
       /\ funding[l].at = "depositing" => funding[l].seen >= 1

LedgersSound == \A l \in Ledgers : Money(l) /\ HubSound(l)

\* Who closes a ledger has one.
ClosersKnow ==
  \A w \in Wallet, k \in 1 .. MaxClosings : closing[w][k].at \in HasLedger =>
    closing[w][k].ledger # NoLedger /\ ledger[w] # NoLedger

\* With an application that waits for its answers: one thing at a time ...
InTurn ==
  /\ approving.at # "none" =>
       budget = NoBudget /\ \A k \in 1 .. MaxClosings : closing["player"][k].at \in {"none", "done"}
  /\ approving.ledger # NoLedger => approving.ledger \notin concluded /\ ~Ended(approving.ledger)
  /\ budget # NoBudget =>
       /\ ledger["player"] # NoLedger /\ Terms(ledger["player"]) = {budget}
       /\ ledger["player"] \in concluded \/ Holdings(ledger["player"]) >= 2 * budget.send
  /\ \A k \in 1 .. MaxClosings : closing["player"][k].at \notin {"none", "done"} =>
       /\ budget # NoBudget
       /\ \A j \in 1 .. MaxClosings : closing["player"][j].at \in {"none", "done"} \/ j = k

\* ... a workflow that closes is about the ledger the player has now, and ends it ...
ClosingSound(flow) ==
  /\ flow.at \in HasLedger => flow.ledger = ledger["player"]
  /\ flow.at \in OnChain => \/ flow.ledger \in concluded
                            \/ \A i \in flow.seen + 1 .. Len(amounts[flow.ledger]) :
                                 amounts[flow.ledger][i] > 0
  /\ flow.at = "clearBudget" => flow.ledger \in concluded

\* ... and a ledger the player has paid into is the one it has now, or it is empty and
\* stays so: the hub sees that it was full before it sees that it is empty.
StaysEmpty(l) ==
  /\ l \in concluded /\ Holdings(l) = 0
  /\ \/ funding[l].at = "done"
     \/ /\ funding[l].at = "depositing"
        /\ \E i \in funding[l].seen + 1 .. Len(amounts[l]) :
             /\ \A b \in Terms(l) : amounts[l][i] >= Sum(b)
             /\ \A j \in funding[l].seen + 1 .. i : amounts[l][j] > 0
IsCurrent(l) ==
  /\ l \notin concluded /\ l = ledger["player"]
  /\ budget # NoBudget \/ approving.ledger = l
PaidInto(l) == paidIn[l]["player"] > 0 /\ \A b \in Terms(l) : Modest(b)

Orderly ==
  /\ InTurn
  /\ \A k \in 1 .. MaxClosings : ClosingSound(closing["player"][k])
  /\ \A l \in Ledgers : PaidInto(l) => StaysEmpty(l) \/ IsCurrent(l)

BudgetInv ==
  /\ Shapes /\ StoresSound /\ ApprovalSound /\ LedgersSound /\ ClosersKnow
  /\ ~hasty => Orderly

-------------------------------------------------------------------------------
(* What is kept of a ledger (ChannelStoreEntry, for two participants).           *)

LEMMA States ==
  ASSUME NEW b, NEW s \in StateOf(b)
  PROVE  /\ s.turn \in {0, 1} /\ s.final = (s.turn = 1) /\ s.outcome = b
         /\ s.signers \in SUBSET {0, 1} /\ s = SignedState(s.turn, s.turn = 1, b, s.signers)
<1>1. PICK turn \in {0, 1}, signers \in SUBSET {0, 1} : s = SignedState(turn, turn = 1, b, signers)
  BY DEF StateOf
<1>. QED  BY <1>1 DEF SignedState

LEMMA MakeState ==
  ASSUME NEW b, NEW turn \in {0, 1}, NEW signers \in SUBSET {0, 1},
         NEW s, s = SignedState(turn, turn = 1, b, signers)
  PROVE  /\ s \in StateOf(b) /\ s.turn = turn /\ s.final = (turn = 1)
         /\ s.outcome = b /\ s.signers = signers
<1>1. s \in StateOf(b)
  BY DEF StateOf
<1>. QED  BY <1>1 DEF SignedState

LEMMA SameTurn ==
  ASSUME NEW b, NEW s \in StateOf(b), NEW t \in StateOf(b)
  PROVE  SameState(s, t) <=> s.turn = t.turn
BY States DEF SameState

\* With more signatures it is another of these states.
LEMMA MoreSigners ==
  ASSUME NEW b, NEW s \in StateOf(b), NEW signers \in SUBSET {0, 1},
         NEW t, t = [s EXCEPT !.signers = signers]
  PROVE  /\ t \in StateOf(b) /\ t.turn = s.turn /\ t.final = s.final /\ t.signers = signers
<1>1. s.turn \in {0, 1} /\ s = SignedState(s.turn, s.turn = 1, b, s.signers)
  BY States
<1>2. t = SignedState(s.turn, s.turn = 1, b, signers)
  BY <1>1 DEF SignedState
<1>3. t \in StateOf(b) /\ t.turn = s.turn /\ t.signers = signers
  BY <1>1, <1>2, MakeState
<1>. QED  BY <1>3, States

Both(e, turn) == \E s \in e : s.turn = turn /\ s.signers = {0, 1}
Supports(e) ==
  \/ Both(e, 0) \/ Both(e, 1)
  \/ \E z, o \in e : z.turn = 0 /\ o.turn = 1 /\ 0 \in z.signers /\ 1 \in o.signers

LEMMA Chains ==
  ASSUME NEW b, NEW e \in SUBSET StateOf(b)
  PROVE  /\ Chain(2, e, 1) = {s \in e : s.turn = 1 /\ 1 \in s.signers}
         /\ Chain(2, e, 0) = {s \in e : s.turn = 0 /\ 0 \in s.signers}
              \cup {s \in e : s.turn = 1 /\ 1 \in s.signers /\ \E z \in e : z.turn = 0}
<1>1. \A s \in e : s.turn \in {0, 1} /\ s.outcome = b
  BY States
<1>2. 0 % 2 = 0 /\ 1 % 2 = 1
  OBVIOUS
<1>3. Connected(2, e, 1, 1) /\ Connected(2, e, 0, 0)
  BY DEF Connected
<1>4. Connected(2, e, 0, 1) <=> \E first, second \in e : first.turn = 0 /\ second.turn = 1
  <2>1. 0 + 1 .. 1 = {1} /\ 1 - 1 = 0 /\ 0 + 1 = 1
    OBVIOUS
  <2>2. Connected(2, e, 0, 1) <=>
          \E first, second \in e : first.turn = 0 /\ second.turn = 1 /\ ValidChain(2, first, second)
    BY <2>1 DEF Connected
  <2>3. \A first, second \in e : first.turn = 0 /\ second.turn = 1 => ValidChain(2, first, second)
    BY <1>1, <2>1 DEF ValidChain
  <2>. QED  BY <2>2, <2>3
<1>5. Chain(2, e, 1) = {s \in e : s.turn = 1 /\ 1 \in s.signers}
  BY <1>1, <1>2, <1>3 DEF Chain
<1>6. ASSUME NEW s \in e
      PROVE  s \in Chain(2, e, 0) <=> \/ s.turn = 0 /\ 0 \in s.signers
                                      \/ s.turn = 1 /\ 1 \in s.signers /\ \E z \in e : z.turn = 0
  <2>1. CASE s.turn = 0
    BY <1>2, <1>3, <2>1 DEF Chain
  <2>2. CASE s.turn = 1
    BY <1>2, <1>4, <2>2 DEF Chain
  <2>. QED  BY <1>1, <2>1, <2>2
<1>7. Chain(2, e, 0) \subseteq e
  BY DEF Chain
<1>. QED  BY <1>5, <1>6, <1>7

LEMMA SupportFacts ==
  ASSUME NEW b, NEW e \in SUBSET StateOf(b), InvariantsHold(e)
  PROVE  /\ Support(2, e) \subseteq e
         /\ IsSupported(2, e) <=> Supports(e)
         /\ Both(e, 1) => /\ Support(2, e) # {}
                          /\ \A s \in Support(2, e) : s.turn = 1 /\ s.signers = {0, 1}
         /\ Supports(e) /\ ~Both(e, 1) => \E z \in Support(2, e) : z.turn = 0 /\ 0 \in z.signers
<1>1. \A s \in e : s.turn \in {0, 1} /\ s.signers \in SUBSET {0, 1}
  BY States
<1>2. \A s, t \in e : s.turn = t.turn => s = t
  BY DEF InvariantsHold
<1>3. 0 .. 2 - 1 = {0, 1}
  OBVIOUS
<1>4. 1 \in Turns(e) /\ Complete(2, e, 1) <=> Both(e, 1)
  <2>1. Complete(2, e, 1) <=> UNION {s.signers : s \in {s \in e : s.turn = 1 /\ 1 \in s.signers}} = {0, 1}
    BY <1>3, Chains DEF Complete
  <2>2. ASSUME Both(e, 1) PROVE 1 \in Turns(e) /\ Complete(2, e, 1)
    <3>1. PICK o \in e : o.turn = 1 /\ o.signers = {0, 1}
      BY <2>2 DEF Both
    <3>2. {s \in e : s.turn = 1 /\ 1 \in s.signers} = {o}
      BY <3>1, <1>2
    <3>. QED  BY <3>1, <3>2, <2>1 DEF Turns
  <2>3. ASSUME Complete(2, e, 1) PROVE Both(e, 1)
    <3>1. PICK o \in {s \in e : s.turn = 1 /\ 1 \in s.signers} : 0 \in o.signers
      BY <2>1, <2>3
    <3>2. o \in e /\ o.turn = 1 /\ 1 \in o.signers
      BY <3>1
    <3>3. o.signers = {0, 1}
      BY <3>1, <3>2, <1>1
    <3>. QED  BY <3>2, <3>3 DEF Both
  <2>. QED  BY <2>2, <2>3
<1>5. Complete(2, e, 0) /\ 0 \in Turns(e) => Supports(e)
  <2>1. SUFFICES ASSUME Complete(2, e, 0) PROVE Supports(e)
    OBVIOUS
  <2>2. PICK s \in Chain(2, e, 0) : 0 \in s.signers
    BY <1>3, <2>1 DEF Complete
  <2>3. PICK t \in Chain(2, e, 0) : 1 \in t.signers
    BY <1>3, <2>1 DEF Complete
  <2>4. s \in e /\ t \in e
    BY <2>2, <2>3 DEF Chain
  <2>5. CASE s.turn = 0 /\ t.turn = 0
    <3>1. s.signers = {0, 1}
      BY <2>2, <2>3, <2>4, <2>5, <1>1, <1>2
    <3>. QED  BY <3>1, <2>4, <2>5 DEF Supports, Both
  <2>6. CASE s.turn = 0 /\ t.turn = 1
    BY <2>2, <2>3, <2>4, <2>6 DEF Supports
  <2>7. CASE s.turn = 1
    <3>1. 1 \in s.signers
      BY <2>2, <2>4, <2>7, Chains
    <3>2. s.signers = {0, 1}
      BY <3>1, <2>2, <2>4, <1>1
    <3>. QED  BY <3>2, <2>4, <2>7 DEF Supports, Both
  <2>. QED  BY <2>4, <2>5, <2>6, <2>7, <1>1
<1>6. Supports(e) /\ ~Both(e, 1) => Complete(2, e, 0) /\ \E z \in Chain(2, e, 0) : z.turn = 0 /\ 0 \in z.signers
  <2>1. SUFFICES ASSUME Supports(e), ~Both(e, 1)
                 PROVE  Complete(2, e, 0) /\ \E z \in Chain(2, e, 0) : z.turn = 0 /\ 0 \in z.signers
    OBVIOUS
  <2>2. \A s \in Chain(2, e, 0) : s.signers \in SUBSET {0, 1}
    BY <1>1 DEF Chain
  <2>3. CASE Both(e, 0)
    <3>1. PICK z \in e : z.turn = 0 /\ z.signers = {0, 1}
      BY <2>3 DEF Both
    <3>2. z \in Chain(2, e, 0)
      BY <3>1, Chains
    <3>. QED  BY <3>1, <3>2, <2>2, <1>3 DEF Complete
  <2>4. CASE \E z, o \in e : z.turn = 0 /\ o.turn = 1 /\ 0 \in z.signers /\ 1 \in o.signers
    <3>1. PICK z, o \in e : z.turn = 0 /\ o.turn = 1 /\ 0 \in z.signers /\ 1 \in o.signers
      BY <2>4
    <3>2. z \in Chain(2, e, 0) /\ o \in Chain(2, e, 0)
      BY <3>1, Chains
    <3>. QED  BY <3>1, <3>2, <2>2, <1>3 DEF Complete
  <2>. QED  BY <2>1, <2>3, <2>4 DEF Supports
<1>7. Support(2, e) \subseteq e
  BY DEF Support, Chain
<1>8. ASSUME Both(e, 1)
      PROVE  Support(2, e) # {} /\ \A s \in Support(2, e) : s.turn = 1 /\ s.signers = {0, 1}
  <2>1. PICK o \in e : o.turn = 1 /\ o.signers = {0, 1}
    BY <1>8 DEF Both
  <2>2. Chain(2, e, 1) = {o}
    BY <2>1, <1>2, Chains
  <2>3. PICK bottoms : bottoms = {lo \in Turns(e) : Complete(2, e, lo)}
    OBVIOUS
  <2>4. bottoms \subseteq {0, 1} /\ 1 \in bottoms
    BY <2>3, <1>1, <1>4, <1>8 DEF Turns
  <2>5. {x \in bottoms : \A turn \in bottoms : turn <= x} = {1}
    <3>1. \A turn \in bottoms : turn = 0 \/ turn = 1
      BY <2>4
    <3>2. ~(1 <= 0) /\ 1 <= 1 /\ 0 <= 1
      OBVIOUS
    <3>. QED  BY <2>4, <3>1, <3>2, Zenon
  <2>6. Support(2, e) = UNION {Chain(2, e, lo) : lo \in {1}}
    BY <2>3, <2>5 DEF Support
  <2>7. Support(2, e) = {o}
    BY <2>6, <2>2
  <2>. QED  BY <2>1, <2>7
<1>9. ASSUME Supports(e), ~Both(e, 1)
      PROVE  Support(2, e) = Chain(2, e, 0)
  <2>1. PICK bottoms : bottoms = {lo \in Turns(e) : Complete(2, e, lo)}
    OBVIOUS
  <2>2. \E z \in e : z.turn = 0
    BY <1>6, <1>9 DEF Chain
  <2>3. bottoms = {0}
    BY <2>1, <2>2, <1>1, <1>4, <1>6, <1>9 DEF Turns
  <2>4. {x \in bottoms : \A turn \in bottoms : turn <= x} = {0}
    BY <2>3
  <2>5. Support(2, e) = UNION {Chain(2, e, lo) : lo \in {0}}
    BY <2>1, <2>4 DEF Support
  <2>. QED  BY <2>5
<1>10. ASSUME IsSupported(2, e) PROVE Supports(e)
  <2>1. PICK lo \in Turns(e) : Complete(2, e, lo)
    BY <1>10 DEF IsSupported, Support
  <2>2. lo \in {0, 1}
    BY <1>1, <2>1 DEF Turns
  <2>3. Both(e, 1) => Supports(e)
    BY DEF Supports
  <2>. QED  BY <2>1, <2>2, <2>3, <1>4, <1>5
<1>11. Supports(e) => IsSupported(2, e)
  BY <1>6, <1>8, <1>9 DEF IsSupported
<1>. QED  BY <1>6, <1>7, <1>8, <1>9, <1>10, <1>11

\* What the workflows take from a store is in it.
LEMMA Latest ==
  ASSUME NEW b, NEW X \in SUBSET StateOf(b), X # {}
  PROVE  LatestOf(X) \in X /\ \A t \in X : t.turn <= LatestOf(X).turn
<1>1. \A s \in X : s.turn \in {0, 1}
  BY States
<1>2. \E s \in X : \A t \in X : t.turn <= s.turn
  <2>1. CASE \E s \in X : s.turn = 1
    BY <1>1, <2>1
  <2>2. CASE ~ \E s \in X : s.turn = 1
    BY <1>1, <2>2
  <2>. QED  BY <2>1, <2>2
<1>. QED  BY <1>2 DEF LatestOf

LEMMA SupportedIsKept ==
  ASSUME NEW b, NEW e \in SUBSET StateOf(b), InvariantsHold(e), IsSupported(2, e)
  PROVE  Supported(2, e) \in e
<1>1. PICK X : X = Support(2, e)
  OBVIOUS
<1>2. X \subseteq e /\ X # {}
  BY <1>1, SupportFacts DEF IsSupported
<1>3. LatestOf(X) \in X
  BY <1>2, Latest
<1>. QED  BY <1>1, <1>2, <1>3 DEF Supported

LEMMA ConclusionIsSigned ==
  ASSUME NEW b, NEW e \in SUBSET StateOf(b), InvariantsHold(e), HasConclusionProof(2, e)
  PROVE  \E s \in e : s.final /\ 0 \in s.signers
<1>1. Supports(e) /\ \A s \in Support(2, e) : s.final
  BY SupportFacts DEF HasConclusionProof
<1>2. Both(e, 1)
  <2>1. SUFFICES ASSUME ~Both(e, 1) PROVE FALSE
    OBVIOUS
  <2>2. PICK z \in Support(2, e) : z.turn = 0
    BY <1>1, <2>1, SupportFacts
  <2>3. z \in StateOf(b) /\ z.final
    BY <1>1, <2>2, SupportFacts
  <2>4. z.final = (z.turn = 1)
    BY <2>3, States
  <2>5. z.turn # 1
    BY <2>2
  <2>. QED  BY <2>3, <2>4, <2>5
<1>3. PICK s \in e : s.turn = 1 /\ s.signers = {0, 1}
  BY <1>2 DEF Both
<1>4. s.final
  BY <1>3, States
<1>. QED  BY <1>3, <1>4

\* Signatures are added to a state, and nobody who has signed is forgotten.
LEMMA Adding ==
  ASSUME NEW b, NEW e \in SUBSET StateOf(b), InvariantsHold(e), NEW s \in StateOf(b),
         NEW g, g = AddState(2, e, s)
  PROVE  /\ g \in SUBSET StateOf(b) /\ g # {} /\ InvariantsHold(g)
         /\ \A t \in g, v \in {0, 1} : v \in t.signers =>
              \/ t.turn = s.turn /\ v \in s.signers
              \/ \E u \in e : u.turn = t.turn /\ v \in u.signers
         /\ \A v \in {0, 1} : v \in s.signers \/ SignedBy(e, v) # {} => SignedBy(g, v) # {}
         /\ IsSupported(2, e) => IsSupported(2, g)
<1>1. PICK known : known = {x \in e : SameState(x, s)}
  OBVIOUS
<1>2. PICK signers : signers = s.signers \cup UNION {x.signers : x \in known}
  OBVIOUS
<1>3. PICK merged : merged = [s EXCEPT !.signers = signers]
  OBVIOUS
<1>4. PICK f : f = (e \ known) \cup {merged}
  OBVIOUS
<1>5. g = ClearOldStates(2, f)
  BY <1>1, <1>2, <1>3, <1>4 DEF AddState
<1>6. known = {x \in e : x.turn = s.turn}
  BY <1>1, SameTurn
<1>7. signers \in SUBSET {0, 1}
  BY <1>2, <1>6, States
<1>8. merged \in StateOf(b) /\ merged.turn = s.turn /\ merged.signers = signers
  BY <1>3, <1>7, MoreSigners
<1>9. f \in SUBSET StateOf(b) /\ f # {} /\ merged \in f
  BY <1>4, <1>8
<1>10. InvariantsHold(f)
  <2>1. \A x, y \in e : x.turn = y.turn => x = y
    BY DEF InvariantsHold
  <2>2. \A x \in f : x = merged \/ (x \in e /\ x.turn # s.turn)
    BY <1>4, <1>6
  <2>. QED  BY <2>1, <2>2, <1>8 DEF InvariantsHold
<1>11. \A x \in e : \E y \in f : y.turn = x.turn /\ x.signers \subseteq y.signers
  <2>1. SUFFICES ASSUME NEW x \in e PROVE \E y \in f : y.turn = x.turn /\ x.signers \subseteq y.signers
    OBVIOUS
  <2>2. CASE x \in known
    BY <2>2, <1>2, <1>6, <1>8, <1>9
  <2>3. CASE x \notin known
    BY <2>3, <1>4
  <2>. QED  BY <2>2, <2>3
<1>12. Supports(e) => Supports(f)
  <2>1. \A y \in f : y.signers \in SUBSET {0, 1}
    BY <1>9, States
  <2>2. \A turn : Both(e, turn) => Both(f, turn)
    <3>1. SUFFICES ASSUME NEW turn, NEW x \in e, x.turn = turn, x.signers = {0, 1} PROVE Both(f, turn)
      BY DEF Both
    <3>2. PICK y \in f : y.turn = x.turn /\ x.signers \subseteq y.signers
      BY <1>11
    <3>3. y.signers = {0, 1}
      BY <3>1, <3>2, <2>1
    <3>. QED  BY <3>1, <3>2, <3>3 DEF Both
  <2>3. ASSUME NEW z \in e, NEW o \in e, z.turn = 0, o.turn = 1, 0 \in z.signers, 1 \in o.signers
        PROVE  Supports(f)
    <3>1. PICK z1 \in f : z1.turn = z.turn /\ z.signers \subseteq z1.signers
      BY <1>11
    <3>2. PICK o1 \in f : o1.turn = o.turn /\ o.signers \subseteq o1.signers
      BY <1>11
    <3>. QED  BY <2>3, <3>1, <3>2 DEF Supports
  <2>. QED  BY <2>2, <2>3 DEF Supports
<1>13. g = {x \in f : Support(2, f) = {} \/ \E t \in Support(2, f) : t.turn <= x.turn}
  BY <1>5 DEF ClearOldStates
<1>14. g \subseteq f
  BY <1>13
<1>15. g \in SUBSET StateOf(b) /\ InvariantsHold(g)
  BY <1>9, <1>10, <1>14 DEF InvariantsHold
<1>16. CASE Both(f, 1)
  <2>1. PICK o \in f : o.turn = 1 /\ o.signers = {0, 1}
    BY <1>16 DEF Both
  <2>2. \E t \in Support(2, f) : t.turn = 1
    BY <1>9, <1>10, <1>16, SupportFacts
  <2>3. o \in g
    BY <2>1, <2>2, <1>13
  <2>. QED
    <3>1. Supports(g)
      BY <2>1, <2>3 DEF Supports, Both
    <3>2. IsSupported(2, g)
      BY <3>1, <1>15, SupportFacts
    <3>3. \A v \in {0, 1} : SignedBy(g, v) # {}
      BY <2>1, <2>3 DEF SignedBy
    <3>4. \A t \in g, v \in {0, 1} : v \in t.signers =>
              \/ t.turn = s.turn /\ v \in s.signers
              \/ \E u \in e : u.turn = t.turn /\ v \in u.signers
      BY <1>14, <1>2, <1>4, <1>6, <1>8
    <3>. QED  BY <1>15, <2>3, <3>2, <3>3, <3>4
<1>17. CASE ~Both(f, 1)
  <2>1. g = f
    <3>1. CASE Supports(f)
      <4>1. PICK z \in Support(2, f) : z.turn = 0
        BY <3>1, <1>9, <1>10, <1>17, SupportFacts
      <4>2. \A x \in f : x.turn \in {0, 1}
        BY <1>9, States
      <4>3. \A x \in f : z.turn <= x.turn
        BY <4>1, <4>2
      <4>. QED  BY <4>1, <4>3, <1>13
    <3>2. CASE ~Supports(f)
      BY <3>2, <1>9, <1>10, <1>13, SupportFacts DEF IsSupported
    <3>. QED  BY <3>1, <3>2
  <2>2. IsSupported(2, e) => IsSupported(2, g)
    BY <2>1, <1>9, <1>10, <1>12, SupportFacts
  <2>3. \A v \in {0, 1} : v \in s.signers \/ SignedBy(e, v) # {} => SignedBy(g, v) # {}
    BY <2>1, <1>2, <1>8, <1>9, <1>11 DEF SignedBy
  <2>4. \A t \in g, v \in {0, 1} : v \in t.signers =>
            \/ t.turn = s.turn /\ v \in s.signers
            \/ \E u \in e : u.turn = t.turn /\ v \in u.signers
    BY <1>14, <1>2, <1>4, <1>6, <1>8
  <2>. QED  BY <2>1, <2>2, <2>3, <2>4, <1>9, <1>15
<1>. QED  BY <1>16, <1>17

-------------------------------------------------------------------------------
(* What a transaction of a store does.                                           *)

\* Nothing that was signed is forgotten, and nothing new is proposed but for ledger l.
Grows(l) ==
  /\ entry' \in [Wallet -> [Ledgers -> SUBSET LedgerState]]
  /\ net' \subseteq [to : Wallet, ledger : Ledgers, state : LedgerState]
  /\ \A k \in Ledgers : OnTerms(k)' /\ (k # l => Terms(k)' = Terms(k))
  /\ \A v \in Wallet, k \in Ledgers :
       /\ IsSupported(2, entry[v][k]) => IsSupported(2, entry'[v][k])
       /\ Signs(v, k) => Signs(v, k)'

EndsOnly(l) == \A k \in Ledgers : Ended(k)' => Ended(k) \/ k = l

LEMMA Wallets ==
  /\ Wallet = {"player", "hub"} /\ Index("player") = 0 /\ Index("hub") = 1
  /\ \A w \in Wallet : Index(w) \in {0, 1} /\ Peer(w) \in Wallet
BY DEF Wallet, Index, Peer

LEMMA TermsFacts ==
  ASSUME Shapes, NEW l \in Ledgers, OnTerms(l)
  PROVE  /\ Terms(l) \subseteq Budgets
         /\ Terms(l) = {} => StatesOf(l) = {}
         /\ \A b \in Terms(l) : Terms(l) = {b} /\ StatesOf(l) \subseteq StateOf(b)
         /\ \A w \in Wallet : /\ entry[w][l] \subseteq StatesOf(l)
                              /\ InvariantsHold(entry[w][l])
<1>1. "player" \in Wallet /\ "hub" \in Wallet
  BY Wallets
<1>2. entry["player"][l] \subseteq LedgerState
  BY <1>1 DEF Shapes
<1>3. Terms(l) \subseteq Budgets
  <2>1. SUFFICES ASSUME NEW s \in entry["player"][l] PROVE s.outcome \in Budgets
    BY DEF Terms
  <2>2. PICK b \in Budgets : s \in StateOf(b)
    BY <1>2 DEF LedgerState
  <2>. QED  BY <2>2, States
<1>4. Terms(l) = {} => StatesOf(l) = {}
  BY DEF OnTerms
<1>5. ASSUME NEW b \in Terms(l) PROVE Terms(l) = {b} /\ StatesOf(l) \subseteq StateOf(b)
  BY DEF OnTerms
<1>6. \A w \in Wallet : entry[w][l] \subseteq StatesOf(l)
  BY Wallets DEF StatesOf
<1>. QED  BY <1>3, <1>4, <1>5, <1>6 DEF OnTerms

LEMMA StoreStep ==
  ASSUME Shapes, \A k \in Ledgers : OnTerms(k), NEW w \in Wallet, NEW l \in Ledgers,
         NEW b \in Budgets, Terms(l) = {b} \/ (Terms(l) = {} /\ w = "player"),
         NEW s \in StateOf(b),
         entry' = [entry EXCEPT ![w][l] = AddState(2, entry[w][l], s)],
         net' \subseteq net \cup [to : Wallet, ledger : {l}, state : {s}]
  PROVE  /\ Grows(l) /\ Terms(l)' = {b}
         /\ Index(w) \in s.signers => Signs(w, l)'
         /\ s.final /\ 0 \in s.signers => EndsOnly(l)
         /\ ~(s.final /\ 0 \in s.signers) => EndsOnly(NoLedger)
<1>1. StatesOf(l) \subseteq StateOf(b)
  BY TermsFacts
<1>2. PICK e : e = entry[w][l]
  OBVIOUS
<1>3. PICK g : g = AddState(2, e, s)
  OBVIOUS
<1>4. e \in SUBSET StateOf(b) /\ InvariantsHold(e)
  BY <1>1, <1>2, TermsFacts
<1>5. /\ g \in SUBSET StateOf(b) /\ g # {} /\ InvariantsHold(g)
      /\ \A t \in g, v \in {0, 1} : v \in t.signers =>
           \/ t.turn = s.turn /\ v \in s.signers
           \/ \E u \in e : u.turn = t.turn /\ v \in u.signers
      /\ \A v \in {0, 1} : v \in s.signers \/ SignedBy(e, v) # {} => SignedBy(g, v) # {}
      /\ IsSupported(2, e) => IsSupported(2, g)
  BY <1>3, <1>4, Adding
<1>6. entry \in [Wallet -> [Ledgers -> SUBSET LedgerState]]
  BY DEF Shapes
<1>7. /\ entry'[w][l] = g
      /\ \A v \in Wallet, k \in Ledgers : v # w \/ k # l => entry'[v][k] = entry[v][k]
  BY <1>2, <1>3, <1>6
<1>8. StateOf(b) \subseteq LedgerState
  BY DEF LedgerState
<1>9. entry' \in [Wallet -> [Ledgers -> SUBSET LedgerState]]
  <2>1. g \in SUBSET LedgerState
    BY <1>5, <1>8
  <2>2. entry' = [entry EXCEPT ![w] = [entry[w] EXCEPT ![l] = g]]
    BY <1>2, <1>3, <1>6
  <2>3. [entry[w] EXCEPT ![l] = g] \in [Ledgers -> SUBSET LedgerState]
    BY <2>1, <1>6
  <2>. QED  BY <2>2, <2>3, <1>6
<1>10. net' \subseteq [to : Wallet, ledger : Ledgers, state : LedgerState]
  BY <1>8 DEF Shapes
<1>11. \A k \in Ledgers \ {l} : Sent(k)' \subseteq Sent(k)
  BY DEF Sent
<1>12. Sent(l)' \subseteq Sent(l) \cup {s}
  BY DEF Sent
<1>13. \A k \in Ledgers \ {l} :
         /\ Terms(k)' = Terms(k) /\ StatesOf(k)' \subseteq StatesOf(k)
         /\ \A v \in Wallet : entry'[v][k] = entry[v][k]
  BY <1>7, <1>11, Wallets DEF Terms, StatesOf
<1>14. Terms(l)' = {b}
  <2>1. entry'["player"][l] # {} /\ entry'["player"][l] \subseteq StateOf(b)
    <3>1. CASE w = "player"
      BY <3>1, <1>5, <1>7
    <3>2. CASE w # "player"
      <4>1. Terms(l) = {b} /\ entry'["player"][l] = entry["player"][l]
        BY <3>2, <1>7, Wallets
      <4>2. entry["player"][l] # {}
        BY <4>1 DEF Terms
      <4>. QED  BY <4>1, <4>2, <1>1 DEF StatesOf
    <3>. QED  BY <3>1, <3>2
  <2>2. \A t \in entry'["player"][l] : t.outcome = b
    BY <2>1, States
  <2>. QED  BY <2>1, <2>2 DEF Terms
<1>15. StatesOf(l)' \subseteq StateOf(b)
  <2>1. \A v \in Wallet : entry'[v][l] \subseteq StateOf(b)
    BY <1>1, <1>5, <1>7, Wallets DEF StatesOf
  <2>2. Sent(l)' \subseteq StateOf(b)
    BY <1>1, <1>12 DEF StatesOf
  <2>. QED  BY <2>1, <2>2, Wallets DEF StatesOf
<1>16. \A v \in Wallet, k \in Ledgers : InvariantsHold(entry'[v][k])
  BY <1>5, <1>7 DEF OnTerms
<1>17. \A k \in Ledgers : OnTerms(k)'
  <2>1. OnTerms(l)'
    BY <1>14, <1>15, <1>16 DEF OnTerms
  <2>2. ASSUME NEW k \in Ledgers \ {l} PROVE OnTerms(k)'
    BY <1>13, <1>16 DEF OnTerms
  <2>. QED  BY <2>1, <2>2
<1>18. \A v \in Wallet, k \in Ledgers :
       /\ IsSupported(2, entry[v][k]) => IsSupported(2, entry'[v][k])
       /\ Signs(v, k) => Signs(v, k)'
  <2>1. SUFFICES ASSUME NEW v \in Wallet, NEW k \in Ledgers
                 PROVE  /\ IsSupported(2, entry[v][k]) => IsSupported(2, entry'[v][k])
                        /\ Signs(v, k) => Signs(v, k)'
    OBVIOUS
  <2>2. CASE v = w /\ k = l
    BY <2>2, <1>2, <1>5, <1>7, Wallets DEF Signs
  <2>3. CASE ~(v = w /\ k = l)
    <3>1. entry'[v][k] = entry[v][k]
      BY <2>3, <1>7
    <3>. QED  BY <3>1 DEF Signs
  <2>. QED  BY <2>2, <2>3
<1>19. Grows(l)
  BY <1>9, <1>10, <1>13, <1>17, <1>18 DEF Grows
<1>20. Index(w) \in s.signers => Signs(w, l)'
  BY <1>5, <1>7, Wallets DEF Signs
<1>21. Ended(l)' => Ended(l) \/ (s.final /\ 0 \in s.signers)
  <2>1. SUFFICES ASSUME NEW t \in StatesOf(l)', t.final, 0 \in t.signers,
                        ~(s.final /\ 0 \in s.signers)
                 PROVE  Ended(l)
    BY DEF Ended
  <2>2. t \in g \/ t \in StatesOf(l)
    <3>1. t = s => FALSE
      BY <2>1
    <3>2. t \in entry'["player"][l] \/ t \in entry'["hub"][l] \/ t \in Sent(l)'
      BY DEF StatesOf
    <3>. QED  BY <3>1, <3>2, <1>7, <1>12, Wallets DEF StatesOf
  <2>3. CASE t \in g
    <3>1. t.final = (t.turn = 1) /\ s.final = (s.turn = 1)
      BY <2>3, <1>5, States
    <3>2. ~(t.turn = s.turn /\ 0 \in s.signers)
      BY <3>1, <2>1
    <3>3. PICK u \in e : u.turn = t.turn /\ 0 \in u.signers
      BY <3>2, <2>1, <2>3, <1>5
    <3>4. u.final = (u.turn = 1)
      BY <3>3, <1>4, States
    <3>5. u \in StatesOf(l)
      BY <3>3, <1>2, Wallets DEF StatesOf
    <3>. QED  BY <3>1, <3>3, <3>4, <3>5, <2>1 DEF Ended
  <2>. QED  BY <2>1, <2>2, <2>3 DEF Ended
<1>22. \A k \in Ledgers \ {l} : Ended(k)' => Ended(k)
  BY <1>13 DEF Ended
<1>. QED  BY <1>14, <1>19, <1>20, <1>21, <1>22 DEF EndsOnly

\* Nothing comes of it: a message is lost or known.
LEMMA NoStoreStep ==
  ASSUME Shapes, \A k \in Ledgers : OnTerms(k), UNCHANGED entry, net' \subseteq net
  PROVE  Grows(NoLedger) /\ EndsOnly(NoLedger)
<1>1. \A k \in Ledgers : /\ Terms(k)' = Terms(k) /\ StatesOf(k)' \subseteq StatesOf(k)
                         /\ \A v \in Wallet : Signs(v, k)' <=> Signs(v, k)
  BY DEF Terms, StatesOf, Sent, Signs
<1>2. \A k \in Ledgers : OnTerms(k)' /\ (Ended(k)' => Ended(k))
  BY <1>1 DEF OnTerms, Ended
<1>. QED  BY <1>1, <1>2 DEF Grows, EndsOnly, Shapes

\* A workflow of the hub that waits for a signature may hear of it, and starts to deposit.
FundingStep(l) ==
  \/ funding'[l] = funding[l]
  \/ /\ funding[l].at \in {"none", "supportPreFundState"}
     /\ \/ funding'[l].at = "supportPreFundState"
        \/ /\ funding'[l].at = "depositing" /\ IsSupported(2, entry'["hub"][l])
           /\ funding'[l].seen = Len(amounts[l]) - 1
ClosingStep(w, k) ==
  \/ closing'[w][k] = closing[w][k]
  \/ /\ closing[w][k].at \in {"constructFinalState", "supportState"}
     /\ closing'[w][k].ledger = closing[w][k].ledger
     /\ \/ closing'[w][k].at = "supportState"
        \/ /\ closing'[w][k].at = "submitTransaction" /\ closing[w][k].ledger \in Ledgers
           /\ closing'[w][k].seen = Len(amounts[closing[w][k].ledger]) - 1

LEMMA FundingSettles ==
  ASSUME Shapes, LedgersSound, NEW flows \in [Ledgers -> FundingFlow],
         \A l \in Ledgers : \/ flows[l] = funding[l]
                            \/ funding[l].at = "none" /\ flows[l].at = "supportPreFundState",
         funding' = FundingSettled(flows)
  PROVE  funding' \in [Ledgers -> FundingFlow] /\ \A l \in Ledgers : FundingStep(l)
<1>1. SUFFICES ASSUME NEW l \in Ledgers PROVE funding'[l] \in FundingFlow /\ FundingStep(l)
  BY DEF FundingSettled
<1>2. Len(amounts[l]) - 1 \in Nat
  <2>1. Len(amounts[l]) \in Nat /\ Len(amounts[l]) >= 1
    BY DEF Shapes, LedgersSound, Money
  <2>. QED  BY <2>1
<1>3. PICK f : f = flows[l]
  OBVIOUS
<1>4. f \in FundingFlow
  BY <1>3
<1>5. CASE f.at = "supportPreFundState" /\ SupportedBy("hub", l, f.turn)
  <2>1. funding'[l] = [f EXCEPT !.at = "depositing", !.seen = Len(amounts[l]) - 1]
    BY <1>3, <1>5 DEF FundingSettled
  <2>2. funding'[l] \in FundingFlow /\ funding'[l].at = "depositing"
        /\ funding'[l].seen = Len(amounts[l]) - 1
    BY <1>2, <1>4, <2>1 DEF FundingFlow, FundingAt
  <2>3. IsSupported(2, entry'["hub"][l])
    BY <1>5 DEF SupportedBy
  <2>. QED  BY <1>3, <1>5, <2>2, <2>3 DEF FundingStep
<1>6. CASE ~(f.at = "supportPreFundState" /\ SupportedBy("hub", l, f.turn))
  <2>1. funding'[l] = f
    BY <1>3, <1>6 DEF FundingSettled
  <2>. QED  BY <1>3, <1>4, <2>1 DEF FundingStep
<1>. QED  BY <1>5, <1>6

LEMMA ClosingSettles ==
  ASSUME Shapes, LedgersSound, NEW flows \in [Wallet -> [1 .. MaxClosings -> ClosingFlow]],
         \A w \in Wallet, k \in 1 .. MaxClosings :
           /\ flows[w][k].at = "supportState" => flows[w][k].ledger \in Ledgers
           /\ \/ flows[w][k] = closing[w][k]
              \/ /\ closing[w][k].at = "constructFinalState" /\ flows[w][k].at = "supportState"
                 /\ flows[w][k].ledger = closing[w][k].ledger,
         closing' = ClosingSettled(flows)
  PROVE  /\ closing' \in [Wallet -> [1 .. MaxClosings -> ClosingFlow]]
         /\ \A w \in Wallet, k \in 1 .. MaxClosings : ClosingStep(w, k)
<1>1. SUFFICES ASSUME NEW w \in Wallet, NEW k \in 1 .. MaxClosings
               PROVE  closing'[w][k] \in ClosingFlow /\ ClosingStep(w, k)
  BY DEF ClosingSettled
<1>2. PICK f : f = flows[w][k]
  OBVIOUS
<1>3. f \in ClosingFlow
  <2>1. flows[w] \in [1 .. MaxClosings -> ClosingFlow]
    OBVIOUS
  <2>. QED  BY <1>2, <2>1
<1>4. CASE f.at = "supportState" /\ SupportedBy(w, f.of, f.turn)
  <2>1. closing'[w][k] = [f EXCEPT !.at = "submitTransaction", !.seen = Len(amounts[f.ledger]) - 1]
    BY <1>2, <1>4 DEF ClosingSettled
  <2>2. f.ledger \in Ledgers
    BY <1>2, <1>4
  <2>3. Len(amounts[f.ledger]) \in Nat /\ Len(amounts[f.ledger]) >= 1
    BY <2>2 DEF Shapes, LedgersSound, Money
  <2>4. Len(amounts[f.ledger]) - 1 \in Nat
    BY <2>3
  <2>5. closing'[w][k] \in ClosingFlow /\ closing'[w][k].at = "submitTransaction"
        /\ closing'[w][k].seen = Len(amounts[f.ledger]) - 1 /\ closing'[w][k].ledger = f.ledger
    <3>1. PICK seen \in Nat : seen = Len(amounts[f.ledger]) - 1
      BY <2>4
    <3>2. closing'[w][k] = [f EXCEPT !.at = "submitTransaction", !.seen = seen]
      BY <2>1, <3>1
    <3>3. "submitTransaction" \in ClosingAt
      BY DEF ClosingAt, HasLedger, OnChain
    <3>4. PICK g : g = [f EXCEPT !.at = "submitTransaction", !.seen = seen]
      OBVIOUS
    <3>5. g \in ClosingFlow /\ g.at = "submitTransaction" /\ g.seen = seen /\ g.ledger = f.ledger
      BY <1>3, <3>3, <3>4 DEF ClosingFlow
    <3>. QED  BY <3>1, <3>2, <3>4, <3>5
  <2>. QED  BY <1>2, <1>4, <2>2, <2>5 DEF ClosingStep
<1>5. CASE ~(f.at = "supportState" /\ SupportedBy(w, f.of, f.turn))
  <2>1. closing'[w][k] = f
    BY <1>2, <1>5 DEF ClosingSettled
  <2>. QED  BY <1>2, <1>3, <2>1 DEF ClosingStep
<1>. QED  BY <1>4, <1>5

\* What the stores do leaves the money, and what the hub knows of it, as it is.
LEMMA LedgersKept ==
  ASSUME Shapes, \A l \in Ledgers : OnTerms(l), LedgersSound, NEW j \in 0 .. MaxLedgers, Grows(j),
         \A l \in Ledgers : Terms(l) # {} => Terms(l)' = Terms(l),
         \A l \in Ledgers : FundingStep(l), UNCHANGED chain
  PROVE  LedgersSound'
<1>1. SUFFICES ASSUME NEW l \in Ledgers PROVE Money(l)' /\ HubSound(l)'
  BY DEF LedgersSound
<1>2. Money(l) /\ HubSound(l)
  BY DEF LedgersSound
<1>3. amounts' = amounts /\ concluded' = concluded /\ paidIn' = paidIn
  BY DEF chain
<1>4. Holdings(l)' = Holdings(l)
  BY <1>3 DEF Holdings
<1>5. paidIn[l]["player"] \in Nat
  BY Wallets DEF Shapes
<1>6. Money(l)'
  <2>1. CASE Terms(l) # {}
    <3>1. Terms(l)' = Terms(l)
      BY <2>1
    <3>. QED  BY <1>2, <1>3, <1>4, <2>1, <3>1 DEF Money
  <2>2. CASE Terms(l) = {}
    <3>1. ~(paidIn[l]["player"] > 0)
      BY <1>2, <2>2 DEF Money
    <3>. QED  BY <1>2, <1>3, <1>4, <3>1 DEF Money
  <2>. QED  BY <2>1, <2>2
<1>7. HubSound(l)'
  <2>1. CASE funding'[l] = funding[l]
    <3>1. CASE funding[l].at = "depositing"
      <4>1. IsSupported(2, entry["hub"][l]) /\ IsSupported(2, entry'["hub"][l])
        BY <1>2, <3>1, Wallets DEF HubSound, Grows
      <4>2. \E s \in entry["hub"][l] : TRUE
        BY <4>1 DEF IsSupported, Support, Chain
      <4>3. Terms(l)' = Terms(l)
        <5>1. StatesOf(l) # {}
          BY <4>2 DEF StatesOf
        <5>2. Terms(l) # {}
          BY <5>1, TermsFacts
        <5>. QED  BY <5>2
      <4>. QED  BY <1>2, <1>3, <1>4, <2>1, <4>1, <4>3 DEF HubSound
    <3>2. CASE funding[l].at # "depositing"
      BY <1>2, <1>3, <2>1, <3>2 DEF HubSound
    <3>. QED  BY <3>1, <3>2
  <2>2. CASE funding'[l] # funding[l]
    <3>1. funding[l].at \in {"none", "supportPreFundState"}
      BY <2>2 DEF FundingStep
    <3>2. ~(l \notin concluded /\ Len(amounts[l]) > 1)
      BY <1>2, <3>1 DEF HubSound
    <3>3. CASE funding'[l].at = "supportPreFundState"
      BY <1>3, <3>2, <3>3 DEF HubSound
    <3>4. CASE /\ funding'[l].at = "depositing" /\ IsSupported(2, entry'["hub"][l])
               /\ funding'[l].seen = Len(amounts[l]) - 1
      <4>1. Len(amounts[l]) \in Nat
        BY DEF Shapes
      <4>. QED  BY <1>3, <3>2, <3>4, <4>1 DEF HubSound
    <3>. QED  BY <2>2, <3>3, <3>4 DEF FundingStep
  <2>. QED  BY <2>1, <2>2
<1>. QED  BY <1>6, <1>7

LEMMA StoresKept ==
  ASSUME Shapes, StoresSound, NEW j \in 0 .. MaxLedgers, Grows(j), UNCHANGED chain,
         \E n \in 0 .. MaxLedgers : Approved' = 1 .. n, Approved \subseteq Approved',
         \A w \in Wallet : \/ ledger'[w] = ledger[w]
                           \/ \E l \in Ledgers : ledger'[w] = l /\ Signs(w, l)'
  PROVE  StoresSound'
<1>1. \A l \in Ledgers : OnTerms(l)'
  BY DEF Grows
<1>2. concluded' \subseteq Approved'
  BY DEF StoresSound, chain
<1>3. ASSUME NEW w \in Wallet, ledger'[w] # NoLedger PROVE Signs(w, ledger[w])'
  <2>1. CASE ledger'[w] = ledger[w]
    <3>1. ledger[w] \in 0 .. MaxLedgers /\ ledger[w] # NoLedger
      BY <1>3, <2>1 DEF Shapes
    <3>2. MaxLedgers \in Nat
      BY BudgetAssumption
    <3>3. ledger[w] \in Ledgers
      BY <3>1, <3>2 DEF Ledgers, NoLedger
    <3>4. Signs(w, ledger[w])
      BY <3>1 DEF StoresSound
    <3>5. PICK l \in Ledgers : l = ledger[w]
      BY <3>3
    <3>6. Signs(w, l)'
      BY <3>4, <3>5 DEF Grows
    <3>. QED  BY <3>5, <3>6, <2>1 DEF Signs
  <2>2. CASE ledger'[w] # ledger[w]
    BY <2>2 DEF Signs
  <2>. QED  BY <2>1, <2>2
<1>. QED  BY <1>1, <1>2, <1>3 DEF StoresSound

\* The approval may hear that the opening state of its ledger is signed by both.
ApprovalStep ==
  \/ approving' = approving
  \/ /\ approving.at = "waitForPreFS"
     /\ approving' \in ApprovalFlow /\ approving'.at = "init"
     /\ approving'.budget = approving.budget /\ approving'.ledger = approving.ledger

LEMMA LedgerNumbers ==
  /\ MaxLedgers \in Nat /\ MaxClosings \in Nat /\ NoLedger = 0 /\ NoLedger \notin Ledgers
  /\ Ledgers = 1 .. MaxLedgers /\ Ledgers \subseteq 0 .. MaxLedgers
  /\ \A l \in 0 .. MaxLedgers : l # NoLedger => l \in Ledgers
BY BudgetAssumption DEF Ledgers, NoLedger

LEMMA ApprovalSettles ==
  ASSUME Shapes, ApprovalSound, LedgersSound, approving' = ApprovalSettled
  PROVE  ApprovalStep
<1>1. CASE approving.at = "waitForPreFS" /\ NotifyWhenPreFSSupported(approving.ledger)
  <2>1. approving.ledger \in Ledgers
    BY <1>1 DEF ApprovalSound, OnLedger, MayPay
  <2>2. Len(amounts[approving.ledger]) \in Nat /\ Len(amounts[approving.ledger]) >= 1
    BY <2>1 DEF Shapes, LedgersSound, Money
  <2>3. PICK seen \in Nat : seen = Len(amounts[approving.ledger]) - 1
    <3>1. Len(amounts[approving.ledger]) - 1 \in Nat
      BY <2>2
    <3>. QED  BY <3>1
  <2>4. PICK g : g = [approving EXCEPT !.at = "init", !.seen = seen]
    OBVIOUS
  <2>5. approving \in ApprovalFlow /\ "init" \in OnLedger
    BY DEF Shapes, OnLedger, MayPay
  <2>6. g \in ApprovalFlow /\ g.at = "init" /\ g.budget = approving.budget /\ g.ledger = approving.ledger
    BY <2>4, <2>5 DEF ApprovalFlow
  <2>7. approving' = g
    BY <1>1, <2>3, <2>4 DEF ApprovalSettled
  <2>. QED  BY <1>1, <2>6, <2>7 DEF ApprovalStep
<1>2. CASE ~(approving.at = "waitForPreFS" /\ NotifyWhenPreFSSupported(approving.ledger))
  BY <1>2 DEF ApprovalSettled, ApprovalStep
<1>. QED  BY <1>1, <1>2

LEMMA SameApproved ==
  ASSUME \A l \in Ledgers : Terms(l)' = Terms(l)
  PROVE  Approved' = Approved
<1>1. ASSUME NEW l \in Ledgers PROVE entry'["player"][l] # {} <=> entry["player"][l] # {}
  <2>1. Terms(l)' # {} <=> entry'["player"][l] # {}
    BY DEF Terms
  <2>2. Terms(l) # {} <=> entry["player"][l] # {}
    BY DEF Terms
  <2>. QED  BY <2>1, <2>2
<1>. QED  BY <1>1 DEF Approved

LEMMA ApprovalKept ==
  ASSUME Shapes, ApprovalSound, ApprovalStep, UNCHANGED chain, ledger'["player"] = ledger["player"],
         \A l \in Ledgers : Terms(l)' = Terms(l)
  PROVE  ApprovalSound'
<1>6. Approved' = Approved
  BY SameApproved
<1>1. /\ approving'.ledger = approving.ledger /\ approving'.budget = approving.budget
      /\ approving'.at = approving.at \/ (approving.at = "waitForPreFS" /\ approving'.at = "init")
      /\ approving'.at = "none" => approving' = approving
  BY DEF ApprovalStep
<1>2. Holdings(approving.ledger)' = Holdings(approving.ledger)
  BY <1>1 DEF Holdings, chain
<1>3. ASSUME approving.at \in OnLedger
      PROVE  Terms(approving.ledger)' = Terms(approving.ledger)
  BY <1>3, <1>1 DEF ApprovalSound
<1>4. (approving'.at \in OnLedger <=> approving.at \in OnLedger)
      /\ (approving'.at \in MayPay <=> approving.at \in MayPay)
      /\ (approving'.at \in BeforeLedger <=> approving.at \in BeforeLedger)
      /\ (approving'.at = "none" <=> approving.at = "none")
      /\ (approving'.at = "createBudget" <=> approving.at = "createBudget")
  BY <1>1 DEF OnLedger, MayPay, BeforeLedger
<1>5. paidIn' = paidIn /\ concluded' = concluded
  BY DEF chain
<1>. QED  BY <1>1, <1>2, <1>3, <1>4, <1>5, <1>6 DEF ApprovalSound

LEMMA OrderlyKept ==
  ASSUME BudgetInv, Orderly, NEW j \in 0 .. MaxLedgers, Grows(j), EndsOnly(j),
         approving.ledger # NoLedger => approving.ledger # j,
         \A l \in Ledgers : Terms(l) # {} => Terms(l)' = Terms(l),
         \A l \in Ledgers : FundingStep(l),
         \A k \in 1 .. MaxClosings : ClosingStep("player", k), ApprovalStep,
         UNCHANGED <<chain, budget>>, ledger'["player"] = ledger["player"]
  PROVE  Orderly'
<1>1. /\ amounts' = amounts /\ concluded' = concluded /\ paidIn' = paidIn /\ budget' = budget
      /\ \A l : Holdings(l)' = Holdings(l)
  BY DEF chain, Holdings
<1>2. /\ approving'.ledger = approving.ledger /\ (approving'.at = "none" <=> approving.at = "none")
  BY DEF ApprovalStep
<1>3. ledger["player"] # NoLedger => ledger["player"] \in Ledgers
  BY LedgerNumbers, Wallets DEF BudgetInv, Shapes
<1>4. budget # NoBudget => Terms(ledger["player"])' = Terms(ledger["player"])
  BY <1>1, <1>3 DEF Orderly, InTurn
<1>5. approving.ledger # NoLedger => approving.ledger \in Ledgers
  BY LedgerNumbers DEF BudgetInv, Shapes, ApprovalFlow
<1>6. ASSUME NEW k \in 1 .. MaxClosings
      PROVE  closing'["player"][k].at \in {"none", "done"} <=> closing["player"][k].at \in {"none", "done"}
  BY DEF ClosingStep
<1>7. InTurn'
  <2>1. InTurn
    BY DEF Orderly
  <2>2. approving.ledger # NoLedger => ~Ended(approving.ledger)'
    BY <1>2, <1>5, <2>1 DEF InTurn, EndsOnly
  <2>. QED  BY <1>1, <1>2, <1>4, <1>6, <2>1, <2>2 DEF InTurn
<1>8. ASSUME NEW k \in 1 .. MaxClosings PROVE ClosingSound(closing["player"][k])'
  <2>1. ClosingSound(closing["player"][k])
    BY DEF Orderly
  <2>2. CASE closing'["player"][k] = closing["player"][k]
    BY <1>1, <2>1, <2>2 DEF ClosingSound
  <2>3. CASE closing'["player"][k] # closing["player"][k]
    <3>1. PICK f : f = closing["player"][k]
      OBVIOUS
    <3>2. PICK g : g = closing'["player"][k]
      OBVIOUS
    <3>3. /\ f.at \in {"constructFinalState", "supportState"} /\ g.ledger = f.ledger
          /\ \/ g.at = "supportState"
             \/ g.at = "submitTransaction" /\ f.ledger \in Ledgers /\ g.seen = Len(amounts[f.ledger]) - 1
      BY <2>3, <3>1, <3>2 DEF ClosingStep
    <3>4. f.ledger = ledger["player"]
      BY <2>1, <3>1, <3>3 DEF ClosingSound, HasLedger
    <3>5. budget # NoBudget
      BY <3>1, <3>3 DEF Orderly, InTurn
    <3>6. ASSUME g.at = "submitTransaction", f.ledger \notin concluded
          PROVE  \A i \in g.seen + 1 .. Len(amounts[f.ledger]) : amounts[f.ledger][i] > 0
      <4>1. Holdings(f.ledger) >= 2 * budget.send /\ budget \in Budgets
        BY <3>4, <3>5, <3>6 DEF Orderly, InTurn, BudgetInv, Shapes
      <4>2. budget.send \in Nat \ {0}
        BY <4>1, BudgetAssumption
      <4>3. PICK n \in Nat : n = Len(amounts[f.ledger])
        BY <3>3, <3>6 DEF BudgetInv, Shapes
      <4>4. g.seen + 1 .. n = {n}
        BY <3>3, <3>6, <4>3
      <4>5. f.ledger \in Ledgers /\ Money(f.ledger)
        BY <3>3, <3>6 DEF BudgetInv, LedgersSound
      <4>6. Holdings(f.ledger) \in Nat
        BY <4>3, <4>5 DEF BudgetInv, Shapes, Holdings, Money
      <4>7. Holdings(f.ledger) > 0
        BY <4>1, <4>2, <4>6
      <4>. QED  BY <4>3, <4>4, <4>7 DEF Holdings
    <3>7. g.at # "clearBudget"
      BY <3>3
    <3>8. CASE g.at = "supportState"
      <4>1. g.at \notin OnChain /\ g.at \in HasLedger
        BY <3>8 DEF OnChain, HasLedger
      <4>. QED  BY <1>1, <3>2, <3>3, <3>4, <3>7, <4>1 DEF ClosingSound
    <3>9. CASE g.at = "submitTransaction"
      BY <1>1, <3>2, <3>3, <3>4, <3>6, <3>7, <3>9 DEF ClosingSound
    <3>. QED  BY <3>3, <3>8, <3>9
  <2>. QED  BY <2>2, <2>3
<1>9. ASSUME NEW l \in Ledgers, PaidInto(l)' PROVE StaysEmpty(l)' \/ IsCurrent(l)'
  <2>1. paidIn[l]["player"] > 0
    BY <1>1, <1>9 DEF PaidInto
  <2>2. Terms(l) # {}
    BY <2>1 DEF BudgetInv, LedgersSound, Money
  <2>3. Terms(l)' = Terms(l)
    BY <2>2
  <2>4. StaysEmpty(l) \/ IsCurrent(l)
    BY <1>1, <1>9, <2>3 DEF PaidInto, Orderly
  <2>5. CASE StaysEmpty(l)
    <3>1. funding'[l] = funding[l]
      BY <2>5 DEF StaysEmpty, FundingStep
    <3>. QED  BY <1>1, <2>3, <2>5, <3>1 DEF StaysEmpty
  <2>6. CASE IsCurrent(l)
    BY <1>1, <1>2, <2>6 DEF IsCurrent
  <2>. QED  BY <2>4, <2>5, <2>6
<1>. QED  BY <1>7, <1>8, <1>9 DEF Orderly

\* A transaction about a ledger that the player has proposed before.
LEMMA StoringKeeps ==
  ASSUME BudgetInv, NEW i \in 0 .. MaxLedgers, Grows(i), NEW j \in 0 .. MaxLedgers, EndsOnly(j),
         ~hasty => (approving.ledger # NoLedger => approving.ledger # j),
         \A l \in Ledgers : Terms(l)' = Terms(l),
         funding' \in [Ledgers -> FundingFlow], \A l \in Ledgers : FundingStep(l),
         closing' \in [Wallet -> [1 .. MaxClosings -> ClosingFlow]],
         \A w \in Wallet, k \in 1 .. MaxClosings : ClosingStep(w, k),
         ApprovalStep, UNCHANGED <<policy, session, budget, chain, hasty>>,
         ledger' \in [Wallet -> 0 .. MaxLedgers], ledger'["player"] = ledger["player"],
         \A w \in Wallet : \/ ledger'[w] = ledger[w]
                           \/ \E l \in Ledgers : ledger'[w] = l /\ Signs(w, l)'
  PROVE  BudgetInv'
<1>1. Shapes'
  <2>1. approving' \in ApprovalFlow
    BY DEF ApprovalStep, BudgetInv, Shapes
  <2>. QED  BY <2>1 DEF BudgetInv, Shapes, Grows, chain
<1>2. LedgersSound'
  BY LedgersKept DEF BudgetInv, StoresSound
<1>3. Approved' = Approved
  BY SameApproved
<1>4. StoresSound'
  <2>1. \E n \in 0 .. MaxLedgers : Approved' = 1 .. n
    BY <1>3 DEF BudgetInv, StoresSound
  <2>. QED  BY <1>3, <2>1, StoresKept DEF BudgetInv
<1>5. ApprovalSound'
  BY ApprovalKept DEF BudgetInv
<1>6. hasty' = hasty /\ UNCHANGED <<chain, budget>>
  OBVIOUS
<1>8. ClosersKnow'
  <2>1. SUFFICES ASSUME NEW w \in Wallet, NEW k \in 1 .. MaxClosings, closing'[w][k].at \in HasLedger
                 PROVE  closing'[w][k].ledger # NoLedger /\ ledger'[w] # NoLedger
    BY DEF ClosersKnow
  <2>2. closing[w][k].at \in HasLedger /\ closing'[w][k].ledger = closing[w][k].ledger
    BY <2>1 DEF ClosingStep, HasLedger
  <2>3. closing[w][k].ledger # NoLedger /\ ledger[w] # NoLedger
    BY <2>2 DEF BudgetInv, ClosersKnow
  <2>. QED  BY <2>2, <2>3, LedgerNumbers
<1>7. ~hasty => Orderly'
  <2>1. SUFFICES ASSUME ~hasty PROVE Orderly'
    OBVIOUS
  <2>2. Orderly
    BY <2>1 DEF BudgetInv
  <2>3. \A k \in 1 .. MaxClosings : ClosingStep("player", k)
    BY Wallets
  <2>4. Grows(j)
    <3>1. \A k \in Ledgers : k # j => Terms(k)' = Terms(k)
      OBVIOUS
    <3>. QED  BY <3>1 DEF Grows
  <2>. QED  BY <2>1, <2>2, <2>3, <2>4, <1>6, OrderlyKept
<1>. QED  BY <1>1, <1>2, <1>4, <1>5, <1>6, <1>7, <1>8 DEF BudgetInv

\* Store.supportState signs, and never breaks an invariant of the store.
LEMMA Supporting ==
  ASSUME Shapes, \A k \in Ledgers : OnTerms(k), NEW w \in Wallet, NEW l \in Ledgers,
         NEW b \in Budgets, Terms(l) = {b} \/ (Terms(l) = {} /\ w = "player"),
         NEW state \in StateOf(b), NEW fundings, NEW closings,
         SupportState(w, l, state, fundings, closings)
  PROVE  /\ Grows(l) /\ Terms(l)' = {b} /\ Signs(w, l)'
         /\ EndsOnly(l)
         /\ w = "hub" \/ ~state.final => EndsOnly(NoLedger)
         /\ funding' = FundingSettled(fundings) /\ closing' = ClosingSettled(closings)
<1>1. PICK signers : signers = {Index(w)} \cup
                 UNION {s.signers : s \in {t \in entry[w][l] : SameState(t, state)}}
  OBVIOUS
<1>2. PICK signed : signed = [state EXCEPT !.signers = signers]
  OBVIOUS
<1>3. entry[w][l] \subseteq StateOf(b) /\ InvariantsHold(entry[w][l]) /\ entry[w][l] \subseteq StatesOf(l)
  BY TermsFacts
<1>4. signers \in SUBSET {0, 1} /\ Index(w) \in signers
  BY <1>1, <1>3, States, Wallets
<1>5. signed \in StateOf(b) /\ signed.final = state.final /\ signed.turn = state.turn
      /\ signed.signers = signers
  <2>1. PICK X \in SUBSET {0, 1} : X = signers
    BY <1>4
  <2>2. signed = [state EXCEPT !.signers = X]
    BY <1>2, <2>1
  <2>3. signed \in StateOf(b) /\ signed.turn = state.turn /\ signed.final = state.final
        /\ signed.signers = X
    BY <2>2, MoreSigners
  <2>. QED  BY <2>1, <2>3
<1>6. funding' = FundingSettled(fundings) /\ closing' = ClosingSettled(closings)
  BY DEF SupportState, Stored
<1>7. CASE MaySign(entry[w][l], Index(w), state.turn)
  <2>1. /\ entry' = [entry EXCEPT ![w][l] = AddState(2, entry[w][l], signed)]
        /\ net' = net \cup {[to |-> Peer(w), ledger |-> l, state |-> signed]}
    BY <1>1, <1>2, <1>7 DEF SupportState, Stored
  <2>2. net' \subseteq net \cup [to : Wallet, ledger : {l}, state : {signed}]
    BY <2>1, Wallets
  <2>3. /\ Grows(l) /\ Terms(l)' = {b}
        /\ Index(w) \in signed.signers => Signs(w, l)'
        /\ signed.final /\ 0 \in signed.signers => EndsOnly(l)
        /\ ~(signed.final /\ 0 \in signed.signers) => EndsOnly(NoLedger)
    BY <1>5, <2>1, <2>2, StoreStep
  <2>4. EndsOnly(NoLedger) => EndsOnly(l)
    BY LedgerNumbers DEF EndsOnly
  <2>5. ASSUME w = "hub", signed.final, 0 \in signed.signers PROVE EndsOnly(NoLedger)
    <3>1. PICK s \in entry[w][l] : SameState(s, state) /\ 0 \in s.signers
      BY <1>1, <1>5, <2>5, Wallets
    <3>2. s \in StatesOf(l) /\ s.final
      BY <1>3, <1>5, <2>5, <3>1 DEF SameState
    <3>3. Ended(l)
      BY <3>1, <3>2 DEF Ended
    <3>. QED  BY <3>3, <2>3, <2>5 DEF EndsOnly
  <2>. QED  BY <1>4, <1>5, <1>6, <2>3, <2>4, <2>5
<1>8. CASE ~MaySign(entry[w][l], Index(w), state.turn)
  <2>1. entry' = [entry EXCEPT ![w][l] = entry[w][l]] /\ net' = net
    BY <1>8 DEF SupportState, Stored
  <2>2. entry' = entry
    BY <2>1 DEF Shapes
  <2>3. Grows(NoLedger) /\ EndsOnly(NoLedger)
    BY <2>1, <2>2, NoStoreStep
  <2>4. Grows(l) /\ EndsOnly(l)
    BY <2>3, LedgerNumbers DEF Grows, EndsOnly
  <2>5. PICK s \in SignedBy(entry[w][l], Index(w)) : TRUE
    BY <1>8 DEF MaySign
  <2>6. Signs(w, l)'
    BY <2>2, <2>5 DEF Signs
  <2>7. Terms(l) = {b}
    <3>1. entry[w][l] # {}
      BY <2>5 DEF SignedBy
    <3>2. StatesOf(l) # {}
      BY <1>3, <3>1
    <3>. QED  BY <3>2, TermsFacts
  <2>8. Terms(l)' = {b}
    BY <2>2, <2>7 DEF Terms
  <2>. QED  BY <1>6, <2>3, <2>4, <2>6, <2>8
<1>. QED  BY <1>7, <1>8

-------------------------------------------------------------------------------
(* The steps of the stores.                                                      *)

LEMMA ClosersLedger ==
  ASSUME Shapes, ClosersKnow
  PROVE  \A w \in Wallet, k \in 1 .. MaxClosings :
           /\ closing[w][k] \in ClosingFlow
           /\ closing[w][k].at \in HasLedger => closing[w][k].ledger \in Ledgers /\ ledger[w] \in Ledgers
<1>1. SUFFICES ASSUME NEW w \in Wallet, NEW k \in 1 .. MaxClosings
               PROVE  /\ closing[w][k] \in ClosingFlow
                      /\ closing[w][k].at \in HasLedger =>
                           closing[w][k].ledger \in Ledgers /\ ledger[w] \in Ledgers
  OBVIOUS
<1>2. closing[w] \in [1 .. MaxClosings -> ClosingFlow] /\ ledger[w] \in 0 .. MaxLedgers
  BY DEF Shapes
<1>3. closing[w][k] \in ClosingFlow
  BY <1>2
<1>4. closing[w][k].ledger \in 0 .. MaxLedgers
  BY <1>3 DEF ClosingFlow
<1>. QED  BY <1>2, <1>3, <1>4, LedgerNumbers DEF ClosersKnow

LEMMA PushMessageKeeps ==
  ASSUME BudgetInv, NEW message \in net, PushMessage(message)
  PROVE  BudgetInv'
<1>. USE DEF BudgetInv
<1>1. PICK w \in Wallet, l \in Ledgers, s \in LedgerState :
        w = message.to /\ l = message.ledger /\ s = message.state
  BY DEF Shapes
<1>2. s \in StatesOf(l)
  BY <1>1 DEF StatesOf, Sent
<1>3. PICK b \in Terms(l) : s \in StateOf(b)
  BY <1>2 DEF StoresSound, OnTerms
<1>4. b \in Budgets /\ Terms(l) = {b}
  BY <1>3, TermsFacts DEF StoresSound
<1>5. /\ net' \subseteq net
      /\ UNCHANGED <<policy, session, budget, ledger, chain, hasty>>
  BY DEF PushMessage
<1>6. LedgersSound /\ ApprovalSound /\ \A k \in Ledgers : OnTerms(k)
  BY DEF StoresSound
<1>7. CASE UNCHANGED <<entry, funding, closing, approving>>
  <2>1. Grows(NoLedger) /\ EndsOnly(NoLedger)
    BY <1>5, <1>6, <1>7, NoStoreStep
  <2>2. /\ \A k \in Ledgers : Terms(k)' = Terms(k)
        /\ \A k \in Ledgers : FundingStep(k)
        /\ \A v \in Wallet, k \in 1 .. MaxClosings : ClosingStep(v, k)
        /\ ApprovalStep
    BY <1>7 DEF Terms, FundingStep, ClosingStep, ApprovalStep
  <2>3. /\ funding' \in [Ledgers -> FundingFlow]
        /\ closing' \in [Wallet -> [1 .. MaxClosings -> ClosingFlow]]
        /\ ledger' \in [Wallet -> 0 .. MaxLedgers] /\ ledger' = ledger
    BY <1>5, <1>7 DEF Shapes
  <2>. QED  BY <1>5, <2>1, <2>2, <2>3, StoringKeeps, LedgerNumbers
<1>8. CASE /\ Stored(w, l, AddState(2, entry[w][l], s), funding, closing)
           /\ approving' = ApprovalSettled
  <2>1. /\ entry' = [entry EXCEPT ![w][l] = AddState(2, entry[w][l], s)]
        /\ funding' = FundingSettled(funding) /\ closing' = ClosingSettled(closing)
    BY <1>8 DEF Stored
  <2>2. net' \subseteq net \cup [to : Wallet, ledger : {l}, state : {s}]
    BY <1>5
  <2>3. /\ Grows(l) /\ Terms(l)' = {b}
        /\ s.final /\ 0 \in s.signers => EndsOnly(l)
        /\ ~(s.final /\ 0 \in s.signers) => EndsOnly(NoLedger)
    BY <1>3, <1>4, <1>6, <2>1, <2>2, StoreStep
  <2>4. EndsOnly(NoLedger)
    <3>1. CASE s.final /\ 0 \in s.signers
      <4>1. Ended(l)
        BY <1>2, <3>1 DEF Ended
      <4>. QED  BY <3>1, <4>1, <2>3 DEF EndsOnly
    <3>. QED  BY <3>1, <2>3
  <2>5. \A k \in Ledgers : Terms(k)' = Terms(k)
    BY <1>4, <2>3 DEF Grows
  <2>6. funding' \in [Ledgers -> FundingFlow] /\ \A k \in Ledgers : FundingStep(k)
    <3>1. funding \in [Ledgers -> FundingFlow]
      BY DEF Shapes
    <3>. QED  BY <1>6, <2>1, <3>1, FundingSettles
  <2>7. /\ closing' \in [Wallet -> [1 .. MaxClosings -> ClosingFlow]]
        /\ \A v \in Wallet, k \in 1 .. MaxClosings : ClosingStep(v, k)
    <3>1. closing \in [Wallet -> [1 .. MaxClosings -> ClosingFlow]]
      BY DEF Shapes
    <3>2. \A v \in Wallet, k \in 1 .. MaxClosings :
            closing[v][k].at = "supportState" => closing[v][k].ledger \in Ledgers
      BY ClosersLedger DEF HasLedger
    <3>. QED  BY <1>6, <2>1, <3>1, <3>2, ClosingSettles
  <2>8. ApprovalStep
    BY <1>6, <1>8, ApprovalSettles
  <2>9. ledger' \in [Wallet -> 0 .. MaxLedgers] /\ ledger' = ledger
    BY <1>5 DEF Shapes
  <2>. QED  BY <1>5, <2>3, <2>4, <2>5, <2>6, <2>7, <2>8, <2>9, StoringKeeps, LedgerNumbers
<1>. QED  BY <1>1, <1>7, <1>8 DEF PushMessage

LEMMA HubJoinsKeeps ==
  ASSUME BudgetInv, NEW l \in Ledgers, HubJoins(l)
  PROVE  BudgetInv'
<1>. USE DEF BudgetInv
<1>1. /\ funding[l].at = "none" /\ entry["hub"][l] # {}
      /\ ledger' = [ledger EXCEPT !["hub"] = l]
      /\ UNCHANGED <<policy, session, budget, approving, chain, hasty>>
  BY DEF HubJoins
<1>2. LedgersSound /\ \A k \in Ledgers : OnTerms(k)
  BY DEF StoresSound
<1>3. entry["hub"][l] \subseteq StatesOf(l)
  BY DEF StatesOf
<1>4. PICK b \in Terms(l) : TRUE
  BY <1>1, <1>2, <1>3, TermsFacts
<1>5. b \in Budgets /\ Terms(l) = {b} /\ StatesOf(l) \subseteq StateOf(b)
  BY <1>2, <1>4, TermsFacts
<1>6. PICK latest : latest = LatestOf(entry["hub"][l])
  OBVIOUS
<1>7. latest \in StateOf(b)
  BY <1>1, <1>3, <1>5, <1>6, Latest
<1>8. PICK f : f = [at |-> "supportPreFundState", turn |-> latest.turn, seen |-> 0]
  OBVIOUS
<1>9. PICK flows : flows = [funding EXCEPT ![l] = f]
  OBVIOUS
<1>10. SupportState("hub", l, latest, flows, closing)
  BY <1>6, <1>8, <1>9 DEF HubJoins
<1>11. /\ Grows(l) /\ Terms(l)' = {b} /\ Signs("hub", l)' /\ EndsOnly(NoLedger)
       /\ funding' = FundingSettled(flows) /\ closing' = ClosingSettled(closing)
  BY <1>2, <1>5, <1>7, <1>10, Supporting, Wallets
<1>12. \A k \in Ledgers : Terms(k)' = Terms(k)
  BY <1>5, <1>11 DEF Grows
<1>13. funding' \in [Ledgers -> FundingFlow] /\ \A k \in Ledgers : FundingStep(k)
  <2>1. f \in FundingFlow /\ f.at = "supportPreFundState"
    BY <1>7, <1>8, States DEF FundingFlow, FundingAt
  <2>2. flows \in [Ledgers -> FundingFlow]
    BY <1>9, <2>1 DEF Shapes
  <2>3. \A k \in Ledgers : \/ flows[k] = funding[k]
                           \/ funding[k].at = "none" /\ flows[k].at = "supportPreFundState"
    BY <1>1, <1>9, <2>1 DEF Shapes
  <2>. QED  BY <1>2, <1>11, <2>2, <2>3, FundingSettles
<1>14. /\ closing' \in [Wallet -> [1 .. MaxClosings -> ClosingFlow]]
       /\ \A v \in Wallet, k \in 1 .. MaxClosings : ClosingStep(v, k)
  <2>1. closing \in [Wallet -> [1 .. MaxClosings -> ClosingFlow]]
    BY DEF Shapes
  <2>2. \A v \in Wallet, k \in 1 .. MaxClosings :
          closing[v][k].at = "supportState" => closing[v][k].ledger \in Ledgers
    BY ClosersLedger DEF HasLedger
  <2>. QED  BY <1>2, <1>11, <2>1, <2>2, ClosingSettles
<1>15. ApprovalStep
  BY <1>1 DEF ApprovalStep
<1>16. /\ ledger' \in [Wallet -> 0 .. MaxLedgers] /\ ledger'["player"] = ledger["player"]
       /\ \A w \in Wallet : \/ ledger'[w] = ledger[w]
                            \/ \E k \in Ledgers : ledger'[w] = k /\ Signs(w, k)'
  <2>1. ledger \in [Wallet -> 0 .. MaxLedgers] /\ l \in 0 .. MaxLedgers
    BY LedgerNumbers DEF Shapes
  <2>. QED  BY <1>1, <1>11, <2>1, Wallets
<1>17. l \in 0 .. MaxLedgers /\ NoLedger \in 0 .. MaxLedgers
  BY LedgerNumbers
<1>. QED  BY <1>1, <1>11, <1>12, <1>13, <1>14, <1>15, <1>16, <1>17, StoringKeeps

\* What a wallet takes for the final state of a ledger.
LEMMA FinalStateFacts ==
  ASSUME Shapes, NEW w \in Wallet, NEW l \in Ledgers, OnTerms(l), Signs(w, l), NEW b \in Terms(l)
  PROVE  FinalState(w, l) \in StateOf(b)
<1>1. entry[w][l] \subseteq StateOf(b)
  BY TermsFacts
<1>2. PICK X : X = SignedBy(entry[w][l], Index(w))
  OBVIOUS
<1>3. X \subseteq entry[w][l] /\ X # {} /\ X \subseteq StateOf(b) /\ entry[w][l] # {}
  BY <1>1, <1>2 DEF SignedBy, Signs
<1>4. PICK mine : mine = Mine(w, l)
  OBVIOUS
<1>5. mine \in StateOf(b)
  <2>1. LatestOf(X) \in X
    BY <1>3, Latest
  <2>. QED  BY <1>2, <1>3, <1>4, <2>1 DEF Mine
<1>6. LatestOf(entry[w][l]) \in StateOf(b)
  BY <1>1, <1>3, Latest
<1>7. OwnFinalState(w, l) \in StateOf(b)
  <2>1. CASE mine.final
    BY <1>4, <1>5, <2>1 DEF OwnFinalState
  <2>2. CASE ~mine.final
    <3>1. mine.turn = 0 /\ mine.outcome = b
      BY <1>5, <2>2, States
    <3>2. OwnFinalState(w, l) = SignedState(1, TRUE, b, {})
      BY <1>4, <2>2, <3>1 DEF OwnFinalState
    <3>3. SignedState(1, 1 = 1, b, {}) \in StateOf(b)
      BY MakeState
    <3>. QED  BY <3>2, <3>3
  <2>. QED  BY <2>1, <2>2
<1>. QED  BY <1>6, <1>7 DEF FinalState

LEMMA ConstructFinalStateKeeps ==
  ASSUME BudgetInv, NEW w \in Wallet, NEW k \in 1 .. MaxClosings, ConstructFinalState(w, k)
  PROVE  BudgetInv'
<1>. USE DEF BudgetInv
<1>1. PICK l : l = ledger[w]
  OBVIOUS
<1>2. closing[w][k].at = "constructFinalState" /\ closing[w][k] \in ClosingFlow
      /\ closing[w][k].ledger \in Ledgers /\ l \in Ledgers
  BY <1>1, ClosersLedger DEF ConstructFinalState, HasLedger
<1>3. LedgersSound /\ ApprovalSound /\ \A j \in Ledgers : OnTerms(j)
  BY DEF StoresSound
<1>4. Signs(w, l)
  BY <1>1, <1>2, LedgerNumbers DEF StoresSound
<1>5. PICK b \in Terms(l) : TRUE
  <2>1. entry[w][l] # {}
    BY <1>4 DEF Signs, SignedBy
  <2>2. StatesOf(l) # {}
    BY <1>2, <1>3, <2>1, TermsFacts
  <2>. QED  BY <1>2, <1>3, <2>2, TermsFacts
<1>6. b \in Budgets /\ Terms(l) = {b}
  BY <1>2, <1>3, <1>5, TermsFacts
<1>7. PICK state : state = FinalState(w, l)
  OBVIOUS
<1>8. state \in StateOf(b)
  BY <1>2, <1>3, <1>4, <1>7, FinalStateFacts
<1>9. PICK f : f = [closing[w][k] EXCEPT !.at = "supportState", !.of = l, !.turn = state.turn]
  OBVIOUS
<1>10. PICK flows : flows = [closing EXCEPT ![w][k] = f]
  OBVIOUS
<1>11. /\ SupportState(w, l, state, funding, flows)
       /\ approving' = ApprovalSettled
       /\ UNCHANGED <<policy, session, budget, ledger, chain, hasty>>
  BY <1>1, <1>7, <1>9, <1>10 DEF ConstructFinalState
<1>12. /\ Grows(l) /\ Terms(l)' = {b} /\ EndsOnly(l) /\ (w = "hub" => EndsOnly(NoLedger))
       /\ funding' = FundingSettled(funding) /\ closing' = ClosingSettled(flows)
  BY <1>2, <1>3, <1>6, <1>8, <1>11, Supporting
<1>13. \A j \in Ledgers : Terms(j)' = Terms(j)
  BY <1>6, <1>12 DEF Grows
<1>14. funding' \in [Ledgers -> FundingFlow] /\ \A j \in Ledgers : FundingStep(j)
  <2>1. funding \in [Ledgers -> FundingFlow]
    BY DEF Shapes
  <2>. QED  BY <1>3, <1>12, <2>1, FundingSettles
<1>15. /\ closing' \in [Wallet -> [1 .. MaxClosings -> ClosingFlow]]
       /\ \A v \in Wallet, j \in 1 .. MaxClosings : ClosingStep(v, j)
  <2>1. closing \in [Wallet -> [1 .. MaxClosings -> ClosingFlow]]
    BY DEF Shapes
  <2>2. l \in 0 .. MaxLedgers /\ state.turn \in {0, 1}
    BY <1>2, <1>8, LedgerNumbers, States
  <2>3. f \in ClosingFlow /\ f.at = "supportState" /\ f.ledger = closing[w][k].ledger
    BY <1>2, <1>9, <2>2 DEF ClosingFlow, ClosingAt, HasLedger
  <2>4. flows = [closing EXCEPT ![w] = [closing[w] EXCEPT ![k] = f]]
    BY <1>10
  <2>5. [closing[w] EXCEPT ![k] = f] \in [1 .. MaxClosings -> ClosingFlow]
    BY <2>1, <2>3
  <2>6. flows \in [Wallet -> [1 .. MaxClosings -> ClosingFlow]]
    BY <2>1, <2>4, <2>5
  <2>7. flows[w][k] = f /\ \A v \in Wallet, j \in 1 .. MaxClosings :
          v # w \/ j # k => flows[v][j] = closing[v][j]
    BY <2>1, <2>4
  <2>8. \A v \in Wallet, j \in 1 .. MaxClosings :
          closing[v][j].at = "supportState" => closing[v][j].ledger \in Ledgers
    BY ClosersLedger DEF HasLedger
  <2>9. ASSUME NEW v \in Wallet, NEW j \in 1 .. MaxClosings
        PROVE  /\ flows[v][j].at = "supportState" => flows[v][j].ledger \in Ledgers
               /\ \/ flows[v][j] = closing[v][j]
                  \/ /\ closing[v][j].at = "constructFinalState" /\ flows[v][j].at = "supportState"
                     /\ flows[v][j].ledger = closing[v][j].ledger
    <3>1. CASE v = w /\ j = k
      BY <3>1, <1>2, <2>3, <2>7
    <3>2. CASE v # w \/ j # k
      BY <3>2, <2>7, <2>8
    <3>. QED  BY <3>1, <3>2
  <2>. QED  BY <1>3, <1>12, <2>6, <2>9, ClosingSettles
<1>16. ApprovalStep
  BY <1>3, <1>11, ApprovalSettles
<1>17. ledger' \in [Wallet -> 0 .. MaxLedgers] /\ ledger' = ledger
  BY <1>11 DEF Shapes
<1>18. l \in 0 .. MaxLedgers /\ NoLedger \in 0 .. MaxLedgers
  BY <1>2, LedgerNumbers
<1>19. ASSUME ~hasty, w = "player" PROVE approving.ledger = NoLedger
  <2>1. budget # NoBudget
    BY <1>2, <1>19 DEF Orderly, InTurn
  <2>2. approving = NoApproval
    BY <1>19, <2>1 DEF Orderly, InTurn, ApprovalSound
  <2>. QED  BY <2>2 DEF NoApproval
<1>20. CASE w = "hub"
  <2>1. EndsOnly(NoLedger)
    BY <1>12, <1>20
  <2>. QED  BY <1>11, <1>12, <1>13, <1>14, <1>15, <1>16, <1>17, <1>18, <2>1, StoringKeeps
<1>21. CASE w = "player"
  <2>1. ~hasty => (approving.ledger # NoLedger => approving.ledger # l)
    BY <1>19, <1>21
  <2>. QED  BY <1>11, <1>12, <1>13, <1>14, <1>15, <1>16, <1>17, <1>18, <2>1, StoringKeeps
<1>. QED  BY <1>20, <1>21, Wallets

LEMMA CreateLedgerKeeps ==
  ASSUME BudgetInv, CreateLedger
  PROVE  BudgetInv'
<1>. USE DEF BudgetInv
<1>1. PICK l : l = Cardinality(Approved) + 1
  OBVIOUS
<1>2. PICK b : b = approving.budget
  OBVIOUS
<1>3. /\ approving.at = "createLedger"
      /\ SupportState("player", l, SignedState(0, FALSE, b, {}), funding, closing)
      /\ ledger' = [ledger EXCEPT !["player"] = l]
      /\ approving' = [approving EXCEPT !.at = "waitForPreFS", !.ledger = l]
      /\ UNCHANGED <<policy, session, rich, budget, chain, hasty>>
  BY <1>1, <1>2 DEF CreateLedger
<1>4. /\ approving.ledger = NoLedger /\ Cardinality(Approved) < MaxLedgers
      /\ b \in Budgets /\ approving \in ApprovalFlow
  BY <1>2, <1>3 DEF ApprovalSound, BeforeLedger, Shapes
<1>5. PICK n \in 0 .. MaxLedgers : Approved = 1 .. n
  BY DEF StoresSound
<1>6. Cardinality(Approved) = n
  <2>1. Cardinality(1 .. n) = IF 1 > n THEN 0 ELSE n - 1 + 1
    BY <1>5, FS_Interval
  <2>. QED  BY <1>5, <2>1
<1>7. l = n + 1 /\ l \in Ledgers /\ l \in 0 .. MaxLedgers /\ n + 1 \in 0 .. MaxLedgers
  BY <1>1, <1>4, <1>6, LedgerNumbers
<1>8. LedgersSound /\ ApprovalSound /\ \A k \in Ledgers : OnTerms(k)
  BY DEF StoresSound
<1>9. Terms(l) = {} /\ StatesOf(l) = {} /\ l \notin concluded
  <2>1. l \notin Approved
    BY <1>5, <1>7
  <2>2. entry["player"][l] = {}
    BY <1>7, <2>1 DEF Approved
  <2>3. Terms(l) = {}
    BY <2>2 DEF Terms
  <2>4. StatesOf(l) = {}
    BY <1>7, <1>8, <2>3, TermsFacts
  <2>5. l \notin concluded
    BY <2>1 DEF StoresSound
  <2>. QED  BY <2>3, <2>4, <2>5
<1>10. PICK state \in StateOf(b) : state = SignedState(0, FALSE, b, {}) /\ ~state.final
  <2>1. SignedState(0, 0 = 1, b, {}) \in StateOf(b) /\ SignedState(0, 0 = 1, b, {}).final = (0 = 1)
    BY MakeState
  <2>2. PICK f \in BOOLEAN : f = (0 = 1)
    OBVIOUS
  <2>3. f = FALSE
    <3>1. 0 # 1
      OBVIOUS
    <3>. QED  BY <3>1, <2>2, Zenon
  <2>4. SignedState(0, 0 = 1, b, {}) = SignedState(0, f, b, {})
    BY <2>2
  <2>5. SignedState(0, f, b, {}) = SignedState(0, FALSE, b, {})
    BY <2>3
  <2>6. SignedState(0, FALSE, b, {}).final = FALSE
    BY DEF SignedState
  <2>. QED  BY <2>1, <2>4, <2>5, <2>6
<1>11. /\ Grows(l) /\ Terms(l)' = {b} /\ Signs("player", l)' /\ EndsOnly(NoLedger)
       /\ funding' = FundingSettled(funding) /\ closing' = ClosingSettled(closing)
  <2>1. SupportState("player", l, state, funding, closing)
    BY <1>3, <1>10
  <2>. QED  BY <1>4, <1>7, <1>8, <1>9, <1>10, <2>1, Supporting, Wallets
<1>12. \A k \in Ledgers : Terms(k) # {} => Terms(k)' = Terms(k)
  BY <1>9, <1>11 DEF Grows
<1>13. funding' \in [Ledgers -> FundingFlow] /\ \A k \in Ledgers : FundingStep(k)
  <2>1. funding \in [Ledgers -> FundingFlow]
    BY DEF Shapes
  <2>. QED  BY <1>8, <1>11, <2>1, FundingSettles
<1>14. /\ closing' \in [Wallet -> [1 .. MaxClosings -> ClosingFlow]]
       /\ \A v \in Wallet, k \in 1 .. MaxClosings : ClosingStep(v, k)
  <2>1. closing \in [Wallet -> [1 .. MaxClosings -> ClosingFlow]]
    BY DEF Shapes
  <2>2. \A v \in Wallet, k \in 1 .. MaxClosings :
          closing[v][k].at = "supportState" => closing[v][k].ledger \in Ledgers
    BY ClosersLedger DEF HasLedger
  <2>. QED  BY <1>8, <1>11, <2>1, <2>2, ClosingSettles
<1>15. UNCHANGED chain /\ amounts' = amounts /\ concluded' = concluded /\ paidIn' = paidIn
       /\ \A k : Holdings(k)' = Holdings(k)
  BY <1>3 DEF chain, Holdings
<1>16. LedgersSound'
  BY <1>7, <1>8, <1>11, <1>12, <1>13, <1>15, LedgersKept
<1>17. /\ ledger' \in [Wallet -> 0 .. MaxLedgers] /\ ledger'["player"] = l
       /\ \A w \in Wallet : w # "player" => ledger'[w] = ledger[w]
  BY <1>3, <1>7, Wallets DEF Shapes
<1>18. /\ approving' \in ApprovalFlow /\ approving'.at = "waitForPreFS"
       /\ approving'.budget = b /\ approving'.ledger = l
  BY <1>2, <1>3, <1>4, <1>7 DEF ApprovalFlow, OnLedger, MayPay
<1>19. Shapes'
  <2>1. UNCHANGED <<policy, session, budget, amounts, concluded, paidIn, hasty>>
    BY <1>3, <1>15
  <2>. QED  BY <1>11, <1>13, <1>14, <1>17, <1>18, <2>1 DEF Shapes, Grows
<1>20. StoresSound'
  <2>1. \A k \in Ledgers : entry'["player"][k] # {} <=> k = l \/ entry["player"][k] # {}
    <3>1. SUFFICES ASSUME NEW k \in Ledgers
                   PROVE  entry'["player"][k] # {} <=> k = l \/ entry["player"][k] # {}
      OBVIOUS
    <3>2. entry'["player"][k] # {} <=> Terms(k)' # {}
      BY DEF Terms
    <3>3. entry["player"][k] # {} <=> Terms(k) # {}
      BY DEF Terms
    <3>. QED  BY <3>2, <3>3, <1>9, <1>11 DEF Grows
  <2>2. Approved' = Approved \cup {l}
    BY <1>7, <2>1 DEF Approved
  <2>3. Approved' = 1 .. n + 1
    BY <1>5, <1>7, <2>2
  <2>4. \A w \in Wallet : \/ ledger'[w] = ledger[w]
                          \/ \E k \in Ledgers : ledger'[w] = k /\ Signs(w, k)'
    BY <1>7, <1>11, <1>17
  <2>. QED  BY <1>7, <1>11, <1>15, <2>2, <2>3, <2>4, StoresKept
<1>21. ApprovalSound'
  <2>1. ~(paidIn[l]["player"] > 0)
    BY <1>7, <1>8, <1>9 DEF LedgersSound, Money
  <2>2. paidIn[l]["player"] \in Nat
    BY <1>7, Wallets DEF Shapes
  <2>3. paidIn'[l]["player"] = 0
    BY <2>1, <2>2, <1>15
  <2>4. approving'.at \notin BeforeLedger /\ approving'.at # "none" /\ approving'.at # "createBudget"
    BY <1>18 DEF BeforeLedger
  <2>. QED  BY <1>4, <1>7, <1>11, <1>17, <1>18, <2>3, <2>4 DEF ApprovalSound
<1>22. ClosersKnow'
  <2>1. SUFFICES ASSUME NEW w \in Wallet, NEW k \in 1 .. MaxClosings, closing'[w][k].at \in HasLedger
                 PROVE  closing'[w][k].ledger # NoLedger /\ ledger'[w] # NoLedger
    BY DEF ClosersKnow
  <2>2. closing[w][k].at \in HasLedger /\ closing'[w][k].ledger = closing[w][k].ledger
    BY <2>1, <1>14 DEF ClosingStep, HasLedger
  <2>3. closing[w][k].ledger # NoLedger /\ ledger[w] # NoLedger
    BY <2>2 DEF ClosersKnow
  <2>. QED  BY <2>2, <2>3, <1>7, <1>17, LedgerNumbers
<1>23. ASSUME ~hasty PROVE Orderly'
  <2>1. budget = NoBudget /\ \A k \in 1 .. MaxClosings : closing["player"][k].at \in {"none", "done"}
    BY <1>3, <1>23 DEF Orderly, InTurn
  <2>2. \A k \in 1 .. MaxClosings : closing'["player"][k].at \in {"none", "done"}
    BY <2>1, <1>14, Wallets DEF ClosingStep
  <2>3. ~Ended(l)'
    <3>1. ~Ended(l)
      BY <1>9 DEF Ended
    <3>. QED  BY <3>1, <1>7, <1>11, LedgerNumbers DEF EndsOnly
  <2>4. InTurn'
    BY <1>3, <1>9, <1>15, <1>18, <2>1, <2>2, <2>3 DEF InTurn
  <2>5. \A k \in 1 .. MaxClosings : ClosingSound(closing["player"][k])'
    BY <2>2 DEF ClosingSound, HasLedger, OnChain
  <2>6. ASSUME NEW k \in Ledgers, PaidInto(k)' PROVE StaysEmpty(k)'
    <3>1. paidIn[k]["player"] > 0
      BY <1>15, <2>6 DEF PaidInto
    <3>2. Terms(k)' = Terms(k)
      BY <3>1, <1>8, <1>12 DEF LedgersSound, Money
    <3>3. StaysEmpty(k) \/ IsCurrent(k)
      BY <1>15, <1>23, <2>6, <3>2 DEF PaidInto, Orderly
    <3>4. StaysEmpty(k)
      BY <3>3, <1>4, <2>1, LedgerNumbers DEF IsCurrent
    <3>5. funding'[k] = funding[k]
      BY <3>4, <1>13 DEF StaysEmpty, FundingStep
    <3>. QED  BY <3>2, <3>4, <3>5, <1>15 DEF StaysEmpty
  <2>. QED  BY <2>4, <2>5, <2>6 DEF Orderly
<1>24. hasty' = hasty
  BY <1>3
<1>. QED  BY <1>16, <1>19, <1>20, <1>21, <1>22, <1>23, <1>24

-------------------------------------------------------------------------------
(* The steps that sign nothing.                                                  *)

LEMMA StillStores ==
  ASSUME UNCHANGED <<entry, net>>
  PROVE  /\ \A l : /\ Terms(l)' = Terms(l) /\ (Ended(l)' <=> Ended(l))
                   /\ (OnTerms(l)' <=> OnTerms(l))
                   /\ \A w : Signs(w, l)' <=> Signs(w, l)
         /\ Approved' = Approved
<1>1. \A l : Terms(l)' = Terms(l) /\ StatesOf(l)' = StatesOf(l)
  BY DEF Terms, StatesOf, Sent
<1>2. \A l : (Ended(l)' <=> Ended(l)) /\ (OnTerms(l)' <=> OnTerms(l))
  BY <1>1 DEF Ended, OnTerms
<1>3. \A l, w : Signs(w, l)' <=> Signs(w, l)
  BY DEF Signs
<1>4. Approved' = Approved
  BY DEF Approved
<1>. QED  BY <1>1, <1>2, <1>3, <1>4

\* Neither the stores nor the chain change: what is left to see.
LEMMA QuietKeeps ==
  ASSUME BudgetInv, UNCHANGED <<policy, entry, net, ledger, funding, chain>>,
         session' \in Session,
         session'.destination \/ session'.at = "settingDestinationAddress" => session'.address,
         budget' \in Budgets \cup {NoBudget}, approving' \in ApprovalFlow, ApprovalSound',
         closing' \in [Wallet -> [1 .. MaxClosings -> ClosingFlow]], ClosersKnow',
         hasty' \in BOOLEAN,
         ~hasty' =>
           /\ ~hasty /\ InTurn'
           /\ \A k \in 1 .. MaxClosings : ClosingSound(closing["player"][k])'
           /\ \A l \in Ledgers : PaidInto(l) /\ IsCurrent(l) => IsCurrent(l)'
  PROVE  BudgetInv'
<1>1. Shapes'
  BY DEF BudgetInv, Shapes, chain
<1>2. /\ \A l : Terms(l)' = Terms(l) /\ (OnTerms(l)' <=> OnTerms(l))
      /\ \A w, l : Signs(w, l)' <=> Signs(w, l)
      /\ Approved' = Approved
  BY StillStores
<1>3. /\ amounts' = amounts /\ concluded' = concluded /\ paidIn' = paidIn
      /\ entry' = entry /\ funding' = funding /\ ledger' = ledger
      /\ \A l : Holdings(l)' = Holdings(l)
  BY DEF chain, Holdings
<1>4. StoresSound'
  <2>1. \A w \in Wallet : ledger[w] # NoLedger => Signs(w, ledger[w])
    BY DEF BudgetInv, StoresSound
  <2>2. \A w \in Wallet : (ledger[w] # NoLedger => Signs(w, ledger[w]))'
    BY <1>3, <2>1 DEF Signs
  <2>. QED  BY <1>2, <1>3, <2>2 DEF BudgetInv, StoresSound
<1>5. LedgersSound'
  <2>1. \A l \in Ledgers : Money(l)'
    BY <1>2, <1>3 DEF BudgetInv, LedgersSound, Money
  <2>2. \A l \in Ledgers : HubSound(l)'
    BY <1>2, <1>3 DEF BudgetInv, LedgersSound, HubSound
  <2>. QED  BY <2>1, <2>2 DEF LedgersSound
<1>6. ASSUME ~hasty' PROVE Orderly'
  <2>1. Orderly
    BY <1>6 DEF BudgetInv
  <2>2. ASSUME NEW l \in Ledgers, PaidInto(l)' PROVE StaysEmpty(l)' \/ IsCurrent(l)'
    <3>1. PaidInto(l)
      BY <1>2, <1>3, <2>2 DEF PaidInto
    <3>2. StaysEmpty(l) => StaysEmpty(l)'
      BY <1>2, <1>3 DEF StaysEmpty
    <3>. QED  BY <1>6, <2>1, <3>1, <3>2 DEF Orderly
  <2>. QED  BY <1>6, <2>2 DEF Orderly
<1>. QED  BY <1>1, <1>4, <1>5, <1>6 DEF BudgetInv

\* When the approval, the budget and the closings stay as well.
LEMMA SameKeeps ==
  ASSUME BudgetInv,
         UNCHANGED <<policy, entry, net, ledger, funding, chain, approving, budget, closing, hasty>>,
         session' \in Session,
         session'.destination \/ session'.at = "settingDestinationAddress" => session'.address
  PROVE  BudgetInv'
<1>1. /\ \A l : Terms(l)' = Terms(l) /\ (Ended(l)' <=> Ended(l))
      /\ Approved' = Approved
  BY StillStores
<1>2. /\ amounts' = amounts /\ concluded' = concluded /\ paidIn' = paidIn /\ ledger' = ledger
      /\ approving' = approving /\ budget' = budget /\ closing' = closing /\ hasty' = hasty
      /\ \A l : Holdings(l)' = Holdings(l)
  BY DEF chain, Holdings
<1>3. ApprovalSound'
  BY <1>1, <1>2 DEF BudgetInv, ApprovalSound
<1>4. ClosersKnow'
  BY <1>2 DEF BudgetInv, ClosersKnow
<1>5. ASSUME ~hasty' PROVE /\ ~hasty /\ InTurn'
                           /\ \A k \in 1 .. MaxClosings : ClosingSound(closing["player"][k])'
                           /\ \A l \in Ledgers : PaidInto(l) /\ IsCurrent(l) => IsCurrent(l)'
  <2>1. Orderly
    BY <1>2, <1>5 DEF BudgetInv
  <2>2. InTurn'
    BY <1>1, <1>2, <2>1 DEF Orderly, InTurn
  <2>3. \A k \in 1 .. MaxClosings : ClosingSound(closing["player"][k])'
    BY <1>2, <2>1 DEF Orderly, ClosingSound
  <2>4. \A l \in Ledgers : IsCurrent(l) => IsCurrent(l)'
    BY <1>2 DEF IsCurrent
  <2>. QED  BY <1>2, <1>5, <2>2, <2>3, <2>4
<1>6. /\ budget' \in Budgets \cup {NoBudget} /\ approving' \in ApprovalFlow /\ hasty' \in BOOLEAN
      /\ closing' \in [Wallet -> [1 .. MaxClosings -> ClosingFlow]]
  BY <1>2 DEF BudgetInv, Shapes
<1>. QED  BY <1>3, <1>4, <1>5, <1>6, QuietKeeps

LEMMA EnablingKeeps == ASSUME BudgetInv, Enabling PROVE BudgetInv'
<1>1. session \in Session
      /\ (session.destination \/ session.at = "settingDestinationAddress" => session.address)
  BY DEF BudgetInv, Shapes
<1>2. session' \in Session
      /\ (session'.destination \/ session'.at = "settingDestinationAddress" => session'.address)
  <2>1. CASE EnableEthereum
    BY <1>1, <2>1 DEF EnableEthereum, Session
  <2>2. CASE UserApprovesEnable
    BY <1>1, <2>2 DEF UserApprovesEnable, Session
  <2>3. CASE EnableFails
    BY <1>1, <2>3 DEF EnableFails, Session
  <2>4. CASE EthereumEnabled
    BY <1>1, <2>4 DEF EthereumEnabled, Session
  <2>5. CASE SetDestinationAddressIfEmpty
    BY <1>1, <2>5 DEF SetDestinationAddressIfEmpty, Session
  <2>. QED  BY <2>1, <2>2, <2>3, <2>4, <2>5 DEF Enabling
<1>. QED  BY <1>2, SameKeeps DEF Enabling

LEMMA BalanceUpdatedKeeps == ASSUME BudgetInv, BalanceUpdated PROVE BudgetInv'
BY SameKeeps DEF BalanceUpdated, BudgetInv, Shapes

\* The steps of the approval.
LEMMA ApprovalQuiet ==
  ASSUME BudgetInv, UNCHANGED <<policy, session, entry, net, ledger, funding, closing, chain>>,
         budget' \in Budgets \cup {NoBudget}, approving' \in ApprovalFlow, ApprovalSound',
         hasty' \in BOOLEAN,
         ~hasty' => /\ ~hasty /\ InTurn'
                    /\ \A l \in Ledgers : PaidInto(l) /\ IsCurrent(l) => IsCurrent(l)'
  PROVE  BudgetInv'
<1>1. session' \in Session
      /\ (session'.destination \/ session'.at = "settingDestinationAddress" => session'.address)
      /\ closing' \in [Wallet -> [1 .. MaxClosings -> ClosingFlow]]
  BY DEF BudgetInv, Shapes
<1>2. ClosersKnow'
  BY DEF BudgetInv, ClosersKnow
<1>3. ~hasty => \A k \in 1 .. MaxClosings : ClosingSound(closing["player"][k])'
  BY DEF BudgetInv, Orderly, ClosingSound, chain
<1>. QED  BY <1>1, <1>2, <1>3, QuietKeeps

LEMMA ApproveBudgetAndFundKeeps == ASSUME BudgetInv, ApproveBudgetAndFund PROVE BudgetInv'
<1>. USE DEF BudgetInv
<1>1. /\ Cardinality(Approved) < MaxLedgers
      /\ Requested(~Idle \/ budget # NoBudget)
      /\ UNCHANGED <<policy, session, rich, budget, funding, closing, entry, ledger, net, chain>>
  BY DEF ApproveBudgetAndFund
<1>2. PICK request \in ApproveBudgetAndFundRequests(Budgets) :
        \E event \in Starts(request, View("player"), Running, "ApproveBudgetAndFund") :
            approving' = [NoApproval EXCEPT !.at = "waitForUserApproval",
                                            !.budget = event.budget]
  BY DEF ApproveBudgetAndFund
<1>3. PICK event \in Starts(request, View("player"), Running, "ApproveBudgetAndFund") :
            approving' = [NoApproval EXCEPT !.at = "waitForUserApproval",
                                            !.budget = event.budget]
  BY <1>2
<1>4. PICK b \in Budgets : /\ request.method = "ApproveBudgetAndFund"
                           /\ request.requestedSendCapacity = b.send
                           /\ request.requestedReceiveCapacity = b.receive
  BY DEF ApproveBudgetAndFundRequests
<1>5. event \in AppRequest(request, View("player"))
  BY DEF Starts
<1>6. event \in ConvertToInternalEvent(request, View("player"))
  BY <1>4, <1>5 DEF AppRequest, Converted
<1>7. event.budget = DeserializeBudgetRequest(request)
  BY <1>4, <1>6 DEF ConvertToInternalEvent
<1>8. event.budget = b
  BY <1>4, <1>7, BudgetAssumption DEF DeserializeBudgetRequest
<1>9. /\ approving' = [at |-> "waitForUserApproval", budget |-> b, ledger |-> NoLedger, seen |-> 0]
      /\ approving' \in ApprovalFlow
  <2>1. approving' = [NoApproval EXCEPT !.at = "waitForUserApproval", !.budget = b]
    BY <1>3, <1>8
  <2>2. approving' = [at |-> "waitForUserApproval", budget |-> b, ledger |-> NoLedger, seen |-> 0]
    BY <2>1 DEF NoApproval
  <2>3. NoLedger \in 0 .. MaxLedgers /\ "waitForUserApproval" \in BeforeLedger /\ 0 \in Nat
    BY LedgerNumbers DEF BeforeLedger
  <2>4. b \in Budgets \cup {NoBudget}
    OBVIOUS
  <2>. QED  BY <2>2, <2>3, <2>4 DEF ApprovalFlow
<1>10. ApprovalSound'
  <2>1. Approved' = Approved
    BY <1>1, StillStores
  <2>2. approving'.at \in BeforeLedger /\ approving'.at \notin OnLedger /\ approving'.at \notin MayPay
    BY <1>9 DEF BeforeLedger, OnLedger, MayPay
  <2>. QED  BY <1>1, <1>9, <2>1, <2>2 DEF ApprovalSound
<1>11. hasty' \in BOOLEAN /\ (~hasty' => ~hasty /\ Idle /\ budget = NoBudget)
  BY <1>1 DEF Requested, Shapes
<1>12. ASSUME ~hasty' PROVE /\ ~hasty /\ InTurn'
                            /\ \A l \in Ledgers : PaidInto(l) /\ IsCurrent(l) => IsCurrent(l)'
  <2>1. /\ budget = NoBudget /\ approving.at = "none"
        /\ \A k \in 1 .. MaxClosings : closing["player"][k].at \in {"none", "done"}
    BY <1>11, <1>12 DEF Idle
  <2>2. InTurn'
    BY <1>1, <1>9, <2>1 DEF InTurn
  <2>3. approving.ledger = NoLedger
    BY <2>1 DEF ApprovalSound, NoApproval
  <2>4. \A l \in Ledgers : ~IsCurrent(l)
    BY <2>1, <2>3, LedgerNumbers DEF IsCurrent
  <2>. QED  BY <1>11, <1>12, <2>2, <2>4
<1>. QED  BY <1>1, <1>9, <1>10, <1>11, <1>12, ApprovalQuiet DEF Shapes

\* The user decides, or the funds are there.
LEMMA BeforeLedgerKeeps ==
  ASSUME BudgetInv, approving.at \in BeforeLedger,
         approving' = NoApproval \/ \E at \in BeforeLedger : approving' = [approving EXCEPT !.at = at],
         UNCHANGED <<policy, session, budget, funding, closing, entry, ledger, net, chain, hasty>>
  PROVE  BudgetInv'
<1>. USE DEF BudgetInv
<1>1. approving.ledger = NoLedger /\ Cardinality(Approved) < MaxLedgers
      /\ approving.budget \in Budgets /\ approving.at # "none"
  BY DEF ApprovalSound, BeforeLedger
<1>2. /\ approving' \in ApprovalFlow /\ approving'.ledger = NoLedger
      /\ \/ approving' = NoApproval
         \/ approving'.at \in BeforeLedger /\ approving'.budget = approving.budget
  <2>1. CASE approving' = NoApproval
    BY <2>1, LedgerNumbers DEF NoApproval, ApprovalFlow
  <2>2. ASSUME NEW at \in BeforeLedger, approving' = [approving EXCEPT !.at = at]
        PROVE  /\ approving' \in ApprovalFlow /\ approving'.ledger = NoLedger
               /\ approving'.at \in BeforeLedger /\ approving'.budget = approving.budget
    BY <2>2, <1>1 DEF Shapes, ApprovalFlow
  <2>. QED  BY <2>1, <2>2
<1>3. ApprovalSound'
  <2>1. Approved' = Approved
    BY StillStores
  <2>2. CASE approving' = NoApproval
    BY <2>2 DEF ApprovalSound, NoApproval, BeforeLedger, OnLedger, MayPay
  <2>3. CASE approving'.at \in BeforeLedger /\ approving'.budget = approving.budget
    <3>1. approving'.at # "none" /\ approving'.at \notin OnLedger /\ approving'.at \notin MayPay
          /\ approving'.at # "createBudget"
      BY <2>3 DEF BeforeLedger, OnLedger, MayPay
    <3>. QED  BY <1>1, <1>2, <2>1, <2>3, <3>1 DEF ApprovalSound
  <2>. QED  BY <1>2, <2>2, <2>3
<1>4. ASSUME ~hasty' PROVE /\ ~hasty /\ InTurn'
                           /\ \A l \in Ledgers : PaidInto(l) /\ IsCurrent(l) => IsCurrent(l)'
  <2>1. /\ budget = NoBudget
        /\ \A k \in 1 .. MaxClosings : closing["player"][k].at \in {"none", "done"}
    BY <1>1, <1>4 DEF Orderly, InTurn
  <2>2. InTurn'
    BY <1>2, <2>1 DEF InTurn
  <2>3. \A l \in Ledgers : ~IsCurrent(l)
    BY <1>1, <2>1, LedgerNumbers DEF IsCurrent
  <2>. QED  BY <1>4, <2>2, <2>3
<1>. QED  BY <1>2, <1>3, <1>4, ApprovalQuiet DEF Shapes

LEMMA CreateBudgetKeeps == ASSUME BudgetInv, CreateBudget PROVE BudgetInv'
<1>. USE DEF BudgetInv
<1>1. /\ approving.at = "createBudget" /\ budget' = approving.budget /\ approving' = NoApproval
      /\ UNCHANGED <<policy, session, rich, funding, closing, entry, ledger, net, chain, hasty>>
  BY DEF CreateBudget
<1>2. /\ approving.budget \in Budgets /\ approving.ledger \in Ledgers
      /\ approving.ledger = ledger["player"] /\ Terms(approving.ledger) = {approving.budget}
      /\ approving.ledger \in concluded \/ Holdings(approving.ledger) >= 2 * approving.budget.send
  BY <1>1 DEF ApprovalSound, OnLedger
<1>3. approving.budget # NoBudget
  <2>1. approving.budget.send \in Nat \ {0}
    BY <1>2, BudgetAssumption
  <2>. QED  BY <2>1 DEF NoBudget
<1>4. approving' \in ApprovalFlow /\ approving'.ledger = NoLedger /\ approving'.at = "none"
  BY <1>1, LedgerNumbers DEF NoApproval, ApprovalFlow
<1>5. ApprovalSound'
  BY <1>1 DEF ApprovalSound, NoApproval, BeforeLedger, OnLedger, MayPay
<1>6. ASSUME ~hasty' PROVE /\ ~hasty /\ InTurn'
                           /\ \A l \in Ledgers : PaidInto(l) /\ IsCurrent(l) => IsCurrent(l)'
  <2>1. \A k \in 1 .. MaxClosings : closing["player"][k].at \in {"none", "done"}
    BY <1>1, <1>6 DEF Orderly, InTurn
  <2>2. Terms(ledger["player"])' = {budget'}
    <3>1. \A l : Terms(l)' = Terms(l)
      BY <1>1, StillStores
    <3>. QED  BY <3>1, <1>1, <1>2
  <2>3. /\ ledger'["player"] # NoLedger
        /\ (ledger["player"] \in concluded \/ Holdings(ledger["player"]) >= 2 * budget.send)'
    BY <1>1, <1>2, LedgerNumbers DEF Holdings, chain
  <2>4. InTurn'
    BY <1>1, <1>4, <2>1, <2>2, <2>3 DEF InTurn
  <2>5. \A l \in Ledgers : IsCurrent(l) => IsCurrent(l)'
    BY <1>1, <1>3 DEF IsCurrent, chain
  <2>. QED  BY <1>1, <1>6, <2>4, <2>5
<1>. QED  BY <1>1, <1>2, <1>4, <1>5, <1>6, ApprovalQuiet DEF Shapes

\* The steps of the closings.
LEMMA ClosingUpdate ==
  ASSUME Shapes, NEW w \in Wallet, NEW k \in 1 .. MaxClosings, NEW flow \in ClosingFlow,
         closing' = [closing EXCEPT ![w][k] = flow]
  PROVE  /\ closing' \in [Wallet -> [1 .. MaxClosings -> ClosingFlow]]
         /\ closing'[w][k] = flow
         /\ \A v \in Wallet, j \in 1 .. MaxClosings : v # w \/ j # k => closing'[v][j] = closing[v][j]
<1>1. closing \in [Wallet -> [1 .. MaxClosings -> ClosingFlow]]
  BY DEF Shapes
<1>2. closing' = [closing EXCEPT ![w] = [closing[w] EXCEPT ![k] = flow]]
  OBVIOUS
<1>3. [closing[w] EXCEPT ![k] = flow] \in [1 .. MaxClosings -> ClosingFlow]
  BY <1>1
<1>. QED  BY <1>1, <1>2, <1>3

LEMMA ClosingQuiet ==
  ASSUME BudgetInv, NEW w \in Wallet, NEW k \in 1 .. MaxClosings, NEW flow \in ClosingFlow,
         closing' = [closing EXCEPT ![w][k] = flow],
         UNCHANGED <<policy, session, entry, net, ledger, funding, approving, chain>>,
         flow.at \in HasLedger => flow.ledger # NoLedger /\ ledger[w] # NoLedger,
         hasty' \in BOOLEAN, budget' \in Budgets \cup {NoBudget},
         w = "hub" => budget' = budget /\ hasty' = hasty,
         w = "player" /\ ~hasty' =>
           /\ ~hasty /\ InTurn' /\ ClosingSound(flow)
           /\ \A l \in Ledgers : IsCurrent(l) => IsCurrent(l)'
  PROVE  BudgetInv'
<1>. USE DEF BudgetInv
<1>1. /\ closing' \in [Wallet -> [1 .. MaxClosings -> ClosingFlow]]
      /\ closing'[w][k] = flow
      /\ \A v \in Wallet, j \in 1 .. MaxClosings : v # w \/ j # k => closing'[v][j] = closing[v][j]
  BY ClosingUpdate
<1>2. session' \in Session
      /\ (session'.destination \/ session'.at = "settingDestinationAddress" => session'.address)
      /\ approving' \in ApprovalFlow
  BY DEF Shapes
<1>3. /\ amounts' = amounts /\ concluded' = concluded /\ paidIn' = paidIn /\ ledger' = ledger
      /\ approving' = approving /\ \A l : Holdings(l)' = Holdings(l)
  BY DEF chain, Holdings
<1>4. /\ \A l : Terms(l)' = Terms(l) /\ (Ended(l)' <=> Ended(l))
      /\ Approved' = Approved
  BY StillStores
<1>5. ApprovalSound'
  BY <1>3, <1>4 DEF ApprovalSound
<1>6. ClosersKnow'
  <2>1. SUFFICES ASSUME NEW v \in Wallet, NEW j \in 1 .. MaxClosings, closing'[v][j].at \in HasLedger
                 PROVE  closing'[v][j].ledger # NoLedger /\ ledger'[v] # NoLedger
    BY DEF ClosersKnow
  <2>2. CASE v = w /\ j = k
    BY <2>1, <2>2, <1>1, <1>3
  <2>3. CASE v # w \/ j # k
    BY <2>1, <2>3, <1>1, <1>3 DEF ClosersKnow
  <2>. QED  BY <2>2, <2>3
<1>7. ASSUME ~hasty' PROVE /\ ~hasty /\ InTurn'
                           /\ \A j \in 1 .. MaxClosings : ClosingSound(closing["player"][j])'
                           /\ \A l \in Ledgers : PaidInto(l) /\ IsCurrent(l) => IsCurrent(l)'
  <2>1. CASE w = "hub"
    <3>1. ~hasty /\ Orderly /\ budget' = budget
      BY <1>7, <2>1
    <3>2. \A j \in 1 .. MaxClosings : closing'["player"][j] = closing["player"][j]
      BY <1>1, <2>1, Wallets
    <3>3. InTurn'
      BY <1>3, <1>4, <3>1, <3>2 DEF InTurn, Orderly
    <3>4. \A j \in 1 .. MaxClosings : ClosingSound(closing["player"][j])'
      BY <1>3, <3>1, <3>2 DEF Orderly, ClosingSound
    <3>5. \A l \in Ledgers : IsCurrent(l) => IsCurrent(l)'
      BY <1>3, <3>1 DEF IsCurrent
    <3>. QED  BY <3>1, <3>3, <3>4, <3>5
  <2>2. CASE w = "player"
    <3>1. ~hasty /\ Orderly /\ InTurn' /\ ClosingSound(flow)
      BY <1>7, <2>2
    <3>2. ASSUME NEW j \in 1 .. MaxClosings PROVE ClosingSound(closing["player"][j])'
      <4>1. CASE j = k
        BY <4>1, <1>1, <1>3, <2>2, <3>1 DEF ClosingSound
      <4>2. CASE j # k
        <5>1. closing'["player"][j] = closing["player"][j]
          BY <1>1, <4>2, Wallets
        <5>. QED  BY <1>3, <3>1, <5>1 DEF Orderly, ClosingSound
      <4>. QED  BY <4>1, <4>2
    <3>. QED  BY <1>7, <2>2, <3>1, <3>2
  <2>. QED  BY <2>1, <2>2, Wallets
<1>. QED  BY <1>1, <1>2, <1>5, <1>6, <1>7, QuietKeeps

LEMMA PlayersClosing ==
  ASSUME Shapes, NEW k \in 1 .. MaxClosings, NEW flow \in ClosingFlow,
         closing' = [closing EXCEPT !["player"][k] = flow]
  PROVE  /\ closing'["player"][k] = flow
         /\ \A j \in 1 .. MaxClosings : j # k => closing'["player"][j] = closing["player"][j]
<1>1. closing \in [Wallet -> [1 .. MaxClosings -> ClosingFlow]] /\ "player" \in Wallet
  BY Wallets DEF Shapes
<1>2. closing'["player"] = [closing["player"] EXCEPT ![k] = flow]
  BY <1>1
<1>3. closing["player"] \in [1 .. MaxClosings -> ClosingFlow]
  BY <1>1
<1>. QED  BY <1>2, <1>3

\* A workflow of the player goes on while the others rest.
LEMMA ClosingInTurn ==
  ASSUME BudgetInv, Orderly, NEW k \in 1 .. MaxClosings, NEW flow \in ClosingFlow,
         closing' = [closing EXCEPT !["player"][k] = flow],
         UNCHANGED <<entry, net, ledger, approving, budget, chain>>,
         flow.at \in {"none", "done"}
           \/ /\ approving.at = "none" /\ budget # NoBudget
              /\ \A j \in 1 .. MaxClosings : closing["player"][j].at \in {"none", "done"} \/ j = k
  PROVE  InTurn' /\ \A l \in Ledgers : IsCurrent(l) => IsCurrent(l)'
<1>1. /\ closing'["player"][k] = flow
      /\ \A j \in 1 .. MaxClosings : j # k => closing'["player"][j] = closing["player"][j]
  BY PlayersClosing DEF BudgetInv
<1>2. /\ amounts' = amounts /\ concluded' = concluded /\ paidIn' = paidIn /\ ledger' = ledger
      /\ approving' = approving /\ budget' = budget /\ \A l : Holdings(l)' = Holdings(l)
  BY DEF chain, Holdings
<1>3. \A l : Terms(l)' = Terms(l) /\ (Ended(l)' <=> Ended(l))
  BY StillStores
<1>4. InTurn
  BY DEF Orderly
<1>5. approving'.at # "none" => budget' = NoBudget /\
        \A j \in 1 .. MaxClosings : closing'["player"][j].at \in {"none", "done"}
  BY <1>1, <1>2, <1>4 DEF InTurn
<1>6. ASSUME NEW j \in 1 .. MaxClosings, closing'["player"][j].at \notin {"none", "done"}
      PROVE  /\ budget' # NoBudget
             /\ \A i \in 1 .. MaxClosings : closing'["player"][i].at \in {"none", "done"} \/ i = j
  <2>1. CASE j = k
    BY <1>1, <1>2, <1>6, <2>1
  <2>2. CASE j # k
    <3>1. closing["player"][j].at \notin {"none", "done"}
      BY <1>1, <1>6, <2>2
    <3>2. flow.at \in {"none", "done"}
      BY <2>2, <3>1
    <3>. QED  BY <1>1, <1>2, <1>4, <3>1, <3>2 DEF InTurn
  <2>. QED  BY <2>1, <2>2
<1>7. InTurn'
  BY <1>2, <1>3, <1>4, <1>5, <1>6 DEF InTurn
<1>. QED  BY <1>2, <1>7 DEF IsCurrent

LEMMA ClosingFlows ==
  /\ {"none", "waitForUserApproval", "createObjective", "done"} \cap HasLedger = {}
  /\ OnChain \subseteq HasLedger /\ HasLedger \subseteq ClosingAt
  /\ {"none", "waitForUserApproval", "createObjective", "done"} \subseteq ClosingAt
  /\ "clearBudget" \in HasLedger /\ "constructFinalState" \in HasLedger
  /\ "constructFinalState" \notin OnChain /\ "clearBudget" \notin OnChain
  /\ {"none", "done"} \cap HasLedger = {}
BY DEF HasLedger, OnChain, ClosingAt

LEMMA CloseAndWithdrawKeeps ==
  ASSUME BudgetInv, NEW w \in Wallet, NEW k \in 1 .. MaxClosings, CloseAndWithdraw(w, k)
  PROVE  BudgetInv'
<1>. USE DEF BudgetInv
<1>1. /\ closing' = [closing EXCEPT ![w][k].at = "waitForUserApproval"]
      /\ UNCHANGED <<policy, session, rich, budget, approving, funding, entry, ledger, net, chain>>
      /\ w = "player" => Requested(~Idle \/ budget = NoBudget)
      /\ w = "hub" => hasty' = hasty
  BY Wallets DEF CloseAndWithdraw
<1>2. closing[w][k] \in ClosingFlow /\ closing[w] \in [1 .. MaxClosings -> ClosingFlow]
  BY ClosersLedger DEF Shapes
<1>3. PICK flow : flow = [closing[w][k] EXCEPT !.at = "waitForUserApproval"]
  OBVIOUS
<1>4. flow \in ClosingFlow /\ flow.at = "waitForUserApproval" /\ flow.at \notin HasLedger
      /\ flow.at \notin OnChain /\ flow.at # "clearBudget"
  BY <1>2, <1>3, ClosingFlows DEF ClosingFlow
<1>5. closing' = [closing EXCEPT ![w][k] = flow]
  BY <1>1, <1>3
<1>6. hasty' \in BOOLEAN /\ (w = "player" /\ ~hasty' => ~hasty /\ Idle /\ budget # NoBudget)
  BY <1>1, Wallets DEF Requested, Shapes
<1>7. ASSUME w = "player", ~hasty'
      PROVE  /\ ~hasty /\ InTurn' /\ ClosingSound(flow)
             /\ \A l \in Ledgers : IsCurrent(l) => IsCurrent(l)'
  <2>1. /\ ~hasty /\ Orderly /\ budget # NoBudget /\ approving.at = "none"
        /\ \A j \in 1 .. MaxClosings : closing["player"][j].at \in {"none", "done"}
    BY <1>6, <1>7 DEF Idle
  <2>2. ClosingSound(flow)
    BY <1>4 DEF ClosingSound
  <2>3. closing' = [closing EXCEPT !["player"][k] = flow]
    BY <1>5, <1>7
  <2>4. InTurn' /\ \A l \in Ledgers : IsCurrent(l) => IsCurrent(l)'
    BY <1>1, <1>4, <2>1, <2>3, ClosingInTurn
  <2>. QED  BY <2>1, <2>2, <2>4
<1>8. budget' = budget /\ budget' \in Budgets \cup {NoBudget}
  BY <1>1 DEF Shapes
<1>. QED  BY <1>1, <1>4, <1>5, <1>6, <1>7, <1>8, ClosingQuiet

\* A workflow of the player that is not at rest is the only thing that goes on.
LEMMA ClosingAlone ==
  ASSUME Orderly, NEW k \in 1 .. MaxClosings, closing["player"][k].at \notin {"none", "done"}
  PROVE  /\ approving.at = "none" /\ budget # NoBudget
         /\ \A j \in 1 .. MaxClosings : closing["player"][j].at \in {"none", "done"} \/ j = k
         /\ ClosingSound(closing["player"][k])
BY DEF Orderly, InTurn

\* Where a workflow goes by itself.
LEMMA ClosingGoes ==
  ASSUME BudgetInv, NEW w \in Wallet, NEW k \in 1 .. MaxClosings, NEW flow \in ClosingFlow,
         CloseGoto(w, k, flow), UNCHANGED <<budget, chain>>,
         closing[w][k].at \notin {"none", "done"},
         flow.at \in HasLedger => flow.ledger # NoLedger /\ ledger[w] # NoLedger,
         w = "player" /\ ~hasty => ClosingSound(flow)
  PROVE  BudgetInv'
<1>. USE DEF BudgetInv
<1>1. /\ closing' = [closing EXCEPT ![w][k] = flow]
      /\ UNCHANGED <<policy, session, rich, approving, funding, entry, ledger, net, hasty>>
  BY DEF CloseGoto
<1>2. ASSUME w = "player", ~hasty'
      PROVE  /\ ~hasty /\ InTurn' /\ ClosingSound(flow)
             /\ \A l \in Ledgers : IsCurrent(l) => IsCurrent(l)'
  <2>1. ~hasty /\ Orderly /\ ClosingSound(flow)
    BY <1>1, <1>2
  <2>2. /\ approving.at = "none" /\ budget # NoBudget
        /\ \A j \in 1 .. MaxClosings : closing["player"][j].at \in {"none", "done"} \/ j = k
    BY <1>2, <2>1, ClosingAlone
  <2>3. closing' = [closing EXCEPT !["player"][k] = flow]
    BY <1>1, <1>2
  <2>4. InTurn' /\ \A l \in Ledgers : IsCurrent(l) => IsCurrent(l)'
    BY <1>1, <2>1, <2>2, <2>3, ClosingInTurn
  <2>. QED  BY <2>1, <2>4
<1>3. hasty' \in BOOLEAN /\ budget' \in Budgets \cup {NoBudget}
  BY <1>1 DEF Shapes
<1>. QED  BY <1>1, <1>2, <1>3, ClosingQuiet

LEMMA UserRejectsCloseKeeps ==
  ASSUME BudgetInv, NEW w \in Wallet, NEW k \in 1 .. MaxClosings, UserRejectsClose(w, k)
  PROVE  BudgetInv'
<1>1. PICK flow : flow = [NoClosing EXCEPT !.at = "done"]
  OBVIOUS
<1>2. /\ flow \in ClosingFlow /\ flow.at \notin HasLedger /\ flow.at \notin OnChain
      /\ flow.at # "clearBudget"
  BY <1>1, ClosingFlows, LedgerNumbers DEF NoClosing, ClosingFlow
<1>3. ClosingSound(flow)
  BY <1>2 DEF ClosingSound
<1>4. CloseGoto(w, k, flow) /\ UNCHANGED <<budget, chain>> /\ closing[w][k].at = "waitForUserApproval"
  BY <1>1 DEF UserRejectsClose
<1>. QED  BY <1>2, <1>3, <1>4, ClosingGoes

LEMMA CreateObjectiveKeeps ==
  ASSUME BudgetInv, NEW w \in Wallet, NEW k \in 1 .. MaxClosings, CreateObjective(w, k)
  PROVE  BudgetInv'
<1>1. PICK flow : flow = IF ledger[w] = NoLedger THEN [NoClosing EXCEPT !.at = "createObjective"]
                     ELSE [NoClosing EXCEPT !.at = "constructFinalState", !.ledger = ledger[w]]
  OBVIOUS
<1>2. ledger[w] \in 0 .. MaxLedgers
  BY DEF BudgetInv, Shapes
<1>3. CASE ledger[w] = NoLedger
  <2>1. /\ flow \in ClosingFlow /\ flow.at \notin HasLedger /\ flow.at \notin OnChain
        /\ flow.at # "clearBudget"
    BY <1>1, <1>3, ClosingFlows, LedgerNumbers DEF NoClosing, ClosingFlow
  <2>2. ClosingSound(flow)
    BY <2>1 DEF ClosingSound
  <2>3. CloseGoto(w, k, flow) /\ UNCHANGED <<budget, chain>> /\ closing[w][k].at = "waitForUserApproval"
    BY <1>1 DEF CreateObjective
  <2>. QED  BY <2>1, <2>2, <2>3, ClosingGoes
<1>4. CASE ledger[w] # NoLedger
  <2>1. /\ flow \in ClosingFlow /\ flow.at = "constructFinalState" /\ flow.ledger = ledger[w]
        /\ flow.at \notin OnChain
    <3>1. flow = [NoClosing EXCEPT !.at = "constructFinalState", !.ledger = ledger[w]]
      BY <1>1, <1>4
    <3>2. flow = [at |-> "constructFinalState", ledger |-> ledger[w], of |-> NoLedger, turn |-> 0, seen |-> 0]
      BY <3>1 DEF NoClosing
    <3>3. "constructFinalState" \in ClosingAt /\ NoLedger \in 0 .. MaxLedgers /\ 0 \in Nat
      BY ClosingFlows, LedgerNumbers
    <3>. QED  BY <1>2, <3>2, <3>3, ClosingFlows DEF ClosingFlow
  <2>2. w = "player" => ClosingSound(flow)
    BY <2>1 DEF ClosingSound
  <2>3. CloseGoto(w, k, flow) /\ UNCHANGED <<budget, chain>> /\ closing[w][k].at = "waitForUserApproval"
    BY <1>1 DEF CreateObjective
  <2>. QED  BY <1>4, <2>1, <2>2, <2>3, ClosingGoes
<1>. QED  BY <1>3, <1>4

LEMMA ObserveFundsWithdrawalKeeps ==
  ASSUME BudgetInv, NEW w \in Wallet, NEW k \in 1 .. MaxClosings, ObserveFundsWithdrawal(w, k)
  PROVE  BudgetInv'
<1>. USE DEF BudgetInv
<1>1. PICK f : f = closing[w][k]
  OBVIOUS
<1>2. PICK flow : flow = [f EXCEPT !.seen = @ + 1,
                           !.at = IF FundsWithdrawn(NextAmount(f, f.ledger)) THEN "clearBudget" ELSE @]
  OBVIOUS
<1>3. /\ f.at \in {"submitTransaction", "waitMining"} /\ More(f, f.ledger)
      /\ CloseGoto(w, k, flow) /\ UNCHANGED <<budget, chain>>
  BY <1>1, <1>2 DEF ObserveFundsWithdrawal
<1>4. f \in ClosingFlow /\ f.at \in OnChain /\ f.at \in HasLedger
      /\ f.ledger \in Ledgers /\ ledger[w] \in Ledgers
  BY <1>1, <1>3, ClosersLedger, ClosingFlows DEF OnChain
<1>5. f.seen \in Nat /\ f.at \in ClosingAt
  BY <1>4 DEF ClosingFlow
<1>6. /\ flow \in ClosingFlow /\ flow.ledger = f.ledger /\ flow.seen = f.seen + 1
      /\ flow.at = IF FundsWithdrawn(NextAmount(f, f.ledger)) THEN "clearBudget" ELSE f.at
  <2>1. PICK at \in ClosingAt : at = IF FundsWithdrawn(NextAmount(f, f.ledger)) THEN "clearBudget" ELSE f.at
    BY <1>5, ClosingFlows
  <2>2. PICK seen \in Nat : seen = f.seen + 1
    BY <1>5
  <2>3. flow = [f EXCEPT !.seen = seen, !.at = at]
    BY <1>2, <2>1, <2>2
  <2>4. flow \in ClosingFlow /\ flow.ledger = f.ledger /\ flow.seen = seen /\ flow.at = at
    BY <1>4, <2>3 DEF ClosingFlow
  <2>. QED  BY <2>1, <2>2, <2>4
<1>7. ASSUME w = "player", ~hasty PROVE ClosingSound(flow)
  <2>1. ClosingSound(f)
    BY <1>1, <1>7 DEF Orderly
  <2>2. PICK n \in Nat : n = Len(amounts[f.ledger])
    BY <1>4 DEF Shapes
  <2>3. f.seen < n /\ f.seen + 1 \in f.seen + 1 .. n
    BY <1>3, <1>5, <2>2 DEF More
  <2>4. FundsWithdrawn(NextAmount(f, f.ledger)) => f.ledger \in concluded
    <3>1. SUFFICES ASSUME amounts[f.ledger][f.seen + 1] = 0, f.ledger \notin concluded PROVE FALSE
      BY DEF FundsWithdrawn, NextAmount
    <3>2. amounts[f.ledger][f.seen + 1] > 0
      BY <1>4, <2>1, <2>2, <2>3, <3>1 DEF ClosingSound
    <3>. QED  BY <3>1, <3>2
  <2>5. f.ledger = ledger["player"]
    BY <1>4, <2>1 DEF ClosingSound
  <2>6. flow.at = "clearBudget" \/ flow.at = f.at
    BY <1>6
  <2>7. flow.at = "clearBudget" => f.ledger \in concluded
    <3>1. f.at # "clearBudget"
      BY <1>3
    <3>. QED  BY <1>6, <2>4, <3>1
  <2>8. f.ledger \notin concluded =>
          \A i \in flow.seen + 1 .. n : amounts[f.ledger][i] > 0
    <3>1. SUFFICES ASSUME f.ledger \notin concluded, NEW i \in f.seen + 1 + 1 .. n
                   PROVE  amounts[f.ledger][i] > 0
      BY <1>6
    <3>2. i \in f.seen + 1 .. n
      BY <1>5, <2>2, <3>1
    <3>. QED  BY <1>4, <2>1, <2>2, <3>1, <3>2 DEF ClosingSound
  <2>. QED  BY <1>6, <2>2, <2>5, <2>7, <2>8 DEF ClosingSound
<1>8. closing[w][k].at \notin {"none", "done"}
  BY <1>1, <1>3
<1>. QED  BY <1>3, <1>4, <1>6, <1>7, <1>8, ClosingGoes, LedgerNumbers

LEMMA ClearBudgetKeeps ==
  ASSUME BudgetInv, NEW w \in Wallet, NEW k \in 1 .. MaxClosings, ClearBudget(w, k)
  PROVE  BudgetInv'
<1>. USE DEF BudgetInv
<1>1. PICK flow : flow = [closing[w][k] EXCEPT !.at = "done"]
  OBVIOUS
<1>2. closing[w][k] \in ClosingFlow
  BY ClosersLedger
<1>3. /\ flow \in ClosingFlow /\ flow.at = "done" /\ flow.at \notin HasLedger /\ flow.at \notin OnChain
      /\ flow.at # "clearBudget"
  BY <1>1, <1>2, ClosingFlows DEF ClosingFlow
<1>4. /\ closing[w][k].at = "clearBudget" /\ closing' = [closing EXCEPT ![w][k] = flow]
      /\ UNCHANGED <<policy, session, approving, funding, entry, ledger, net, hasty, chain>>
      /\ budget' = IF w = "player" THEN NoBudget ELSE budget
  BY <1>1 DEF ClearBudget, CloseGoto
<1>5. ASSUME w = "player", ~hasty'
      PROVE  /\ ~hasty /\ InTurn' /\ ClosingSound(flow)
             /\ \A l \in Ledgers : IsCurrent(l) => IsCurrent(l)'
  <2>1. ~hasty /\ Orderly
    BY <1>4, <1>5
  <2>2. /\ approving.at = "none"
        /\ \A j \in 1 .. MaxClosings : closing["player"][j].at \in {"none", "done"} \/ j = k
        /\ ClosingSound(closing["player"][k])
    BY <1>4, <1>5, <2>1, ClosingAlone
  <2>3. ledger["player"] \in concluded
    BY <1>4, <1>5, <2>2, ClosingFlows DEF ClosingSound
  <2>4. /\ closing'["player"][k] = flow
        /\ \A j \in 1 .. MaxClosings : j # k => closing'["player"][j] = closing["player"][j]
    <3>1. closing' = [closing EXCEPT !["player"][k] = flow]
      BY <1>4, <1>5
    <3>. QED  BY <1>3, <3>1, PlayersClosing
  <2>5. \A j \in 1 .. MaxClosings : closing'["player"][j].at \in {"none", "done"}
    BY <1>3, <2>2, <2>4
  <2>6. approving' = approving /\ approving.ledger = NoLedger /\ budget' = NoBudget
    BY <1>4, <1>5, <2>2 DEF ApprovalSound, NoApproval
  <2>7. InTurn'
    BY <2>2, <2>5, <2>6 DEF InTurn
  <2>8. ClosingSound(flow)
    BY <1>3 DEF ClosingSound
  <2>9. \A l \in Ledgers : ~IsCurrent(l)
    BY <2>3 DEF IsCurrent
  <2>. QED  BY <2>1, <2>7, <2>8, <2>9
<1>6. /\ hasty' \in BOOLEAN /\ budget' \in Budgets \cup {NoBudget}
      /\ w = "hub" => budget' = budget /\ hasty' = hasty
  BY <1>4 DEF Shapes
<1>. QED  BY <1>3, <1>4, <1>5, <1>6, ClosingQuiet

LEMMA UserDecidesOnBudgetKeeps == ASSUME BudgetInv, UserDecidesOnBudget PROVE BudgetInv'
BY BeforeLedgerKeeps DEF UserDecidesOnBudget, BeforeLedger

LEMMA NotifyWhenSufficientFundsKeeps ==
  ASSUME BudgetInv, NotifyWhenSufficientFunds PROVE BudgetInv'
BY BeforeLedgerKeeps DEF NotifyWhenSufficientFunds, BeforeLedger

-------------------------------------------------------------------------------
(* The steps of the chain.                                                       *)

\* One more amount of a ledger.
LEMMA OneMore ==
  ASSUME Shapes, NEW l \in Ledgers, NEW x \in Nat,
         amounts' = [amounts EXCEPT ![l] = Append(@, x)]
  PROVE  /\ amounts' \in [Ledgers -> Seq(Nat)]
         /\ Len(amounts[l]) \in Nat /\ Len(amounts'[l]) = Len(amounts[l]) + 1
         /\ amounts'[l][Len(amounts[l]) + 1] = x /\ Holdings(l)' = x
         /\ \A i \in 1 .. Len(amounts[l]) : amounts'[l][i] = amounts[l][i]
         /\ \A k \in Ledgers \ {l} : amounts'[k] = amounts[k] /\ Holdings(k)' = Holdings(k)
<1>1. amounts \in [Ledgers -> Seq(Nat)]
  BY DEF Shapes
<1>2. PICK s \in Seq(Nat) : s = amounts[l]
  BY <1>1
<1>3. PICK t : t = Append(s, x)
  OBVIOUS
<1>4. /\ t \in Seq(Nat) /\ Len(s) \in Nat /\ Len(t) = Len(s) + 1 /\ t[Len(s) + 1] = x
      /\ \A i \in 1 .. Len(s) : t[i] = s[i]
  BY <1>2, <1>3, AppendProperties
<1>5. amounts' = [amounts EXCEPT ![l] = t]
  BY <1>2, <1>3
<1>6. amounts'[l] = t /\ \A k \in Ledgers \ {l} : amounts'[k] = amounts[k]
  BY <1>1, <1>5
<1>7. amounts' \in [Ledgers -> Seq(Nat)]
  BY <1>1, <1>4, <1>5
<1>. QED  BY <1>2, <1>4, <1>6, <1>7 DEF Holdings

LEMMA Amounts ==
  ASSUME Shapes, LedgersSound, NEW l \in Ledgers
  PROVE  /\ Len(amounts[l]) \in Nat /\ Len(amounts[l]) >= 1 /\ amounts[l][1] = 0
         /\ \A i \in 1 .. Len(amounts[l]) : amounts[l][i] \in Nat
         /\ Holdings(l) \in Nat
         /\ Holdings(l) > 0 => Len(amounts[l]) > 1
<1>1. amounts[l] \in Seq(Nat)
  BY DEF Shapes
<1>2. Len(amounts[l]) \in Nat /\ \A i \in 1 .. Len(amounts[l]) : amounts[l][i] \in Nat
  BY <1>1
<1>3. Len(amounts[l]) >= 1 /\ amounts[l][1] = 0
  BY DEF LedgersSound, Money
<1>. QED  BY <1>2, <1>3 DEF Holdings

\* Money comes into a ledger, or none.
Rises(l) ==
  /\ amounts' \in [Ledgers -> Seq(Nat)] /\ paidIn' \in [Ledgers -> [Wallet -> Nat]]
  /\ concluded' = concluded
  /\ \A k \in Ledgers \ {l} : amounts'[k] = amounts[k] /\ paidIn'[k] = paidIn[k]
  /\ Len(amounts'[l]) >= Len(amounts[l])
  /\ \A i \in 1 .. Len(amounts[l]) : amounts'[l][i] = amounts[l][i]
  /\ \A i \in Len(amounts[l]) + 1 .. Len(amounts'[l]) : amounts'[l][i] > 0
  /\ Holdings(l)' >= Holdings(l)

LEMMA NothingComes ==
  ASSUME BudgetInv, NEW l \in Ledgers, UNCHANGED chain
  PROVE  Rises(l)
<1>1. Shapes /\ amounts' = amounts /\ paidIn' = paidIn /\ concluded' = concluded
  BY DEF chain, BudgetInv
<1>2. Holdings(l)' = Holdings(l) /\ Holdings(l) \in Nat /\ Len(amounts[l]) \in Nat
  BY <1>1, Amounts DEF Holdings, BudgetInv
<1>3. Len(amounts[l]) + 1 .. Len(amounts[l]) = {}
  BY <1>2
<1>. QED  BY <1>1, <1>2, <1>3 DEF Rises, Shapes

LEMMA PaysIn ==
  ASSUME BudgetInv, NEW l \in Ledgers, NEW w \in Wallet, NEW amount \in Nat \ {0}, Terms(l) # {},
         amounts' = [amounts EXCEPT ![l] = Append(@, Holdings(l) + amount)],
         paidIn' = [paidIn EXCEPT ![l][w] = @ + amount], concluded' = concluded,
         UNCHANGED <<entry, net>>,
         w = "player" => \A b \in Terms(l) :
           paidIn[l]["player"] = 0 /\ amount <= b.send /\ Holdings(l) >= b.send
  PROVE  Rises(l) /\ Money(l)' /\ Len(amounts'[l]) = Len(amounts[l]) + 1
<1>. USE DEF BudgetInv
<1>1. PICK n \in Nat : n = Len(amounts[l]) /\ n >= 1
  BY Amounts
<1>2. PICK h \in Nat : h = Holdings(l)
  BY Amounts
<1>3. h + amount \in Nat /\ h + amount > h /\ h + amount > 0
  OBVIOUS
<1>4. /\ amounts' \in [Ledgers -> Seq(Nat)]
      /\ Len(amounts'[l]) = n + 1 /\ amounts'[l][n + 1] = h + amount /\ Holdings(l)' = h + amount
      /\ \A i \in 1 .. n : amounts'[l][i] = amounts[l][i]
      /\ \A k \in Ledgers \ {l} : amounts'[k] = amounts[k] /\ Holdings(k)' = Holdings(k)
  <2>1. PICK x \in Nat : x = h + amount
    BY <1>3
  <2>2. amounts' = [amounts EXCEPT ![l] = Append(@, x)]
    BY <1>2, <2>1
  <2>3. /\ amounts' \in [Ledgers -> Seq(Nat)]
        /\ Len(amounts'[l]) = n + 1 /\ amounts'[l][n + 1] = x /\ Holdings(l)' = x
        /\ \A i \in 1 .. n : amounts'[l][i] = amounts[l][i]
        /\ \A k \in Ledgers \ {l} : amounts'[k] = amounts[k] /\ Holdings(k)' = Holdings(k)
    <3>1. Shapes
      OBVIOUS
    <3>. HIDE DEF BudgetInv
    <3>. QED  BY <1>1, <2>2, <3>1, OneMore
  <2>. QED  BY <2>1, <2>3
<1>5. paidIn \in [Ledgers -> [Wallet -> Nat]]
  BY DEF Shapes
<1>6. PICK p : p = [paidIn[l] EXCEPT ![w] = @ + amount]
  OBVIOUS
<1>7. p \in [Wallet -> Nat] /\ p[w] = paidIn[l][w] + amount
      /\ \A v \in Wallet \ {w} : p[v] = paidIn[l][v]
  <2>1. paidIn[l] \in [Wallet -> Nat] /\ paidIn[l][w] + amount \in Nat
    BY <1>5
  <2>. QED  BY <1>6, <2>1
<1>8. paidIn' = [paidIn EXCEPT ![l] = p]
  BY <1>6
<1>9. /\ paidIn' \in [Ledgers -> [Wallet -> Nat]] /\ paidIn'[l] = p
      /\ \A k \in Ledgers \ {l} : paidIn'[k] = paidIn[k]
  BY <1>5, <1>7, <1>8
<1>10. n + 1 .. n + 1 = {n + 1}
  BY <1>1
<1>11. Rises(l)
  BY <1>1, <1>2, <1>3, <1>4, <1>9, <1>10 DEF Rises
<1>12. Money(l) /\ Terms(l)' = Terms(l)
  BY StillStores DEF LedgersSound
<1>13. amounts'[l][1] = 0 /\ Len(amounts'[l]) >= 1
  BY <1>1, <1>4, <1>12 DEF Money
<1>14. ASSUME l \notin concluded, NEW i \in 1 .. n + 1, NEW j \in 1 .. n + 1, i <= j
       PROVE  amounts'[l][i] <= amounts'[l][j]
  <2>1. \A m \in 1 .. n : amounts[l][m] \in Nat /\ amounts[l][m] <= h
    BY <1>1, <1>2, <1>12, <1>14, Amounts DEF Money, Holdings
  <2>2. CASE j \in 1 .. n
    <3>1. i \in 1 .. n
      BY <1>14, <2>2
    <3>. QED  BY <1>1, <1>4, <1>12, <1>14, <2>2, <3>1 DEF Money
  <2>3. CASE j = n + 1
    <3>1. i = n + 1 \/ i \in 1 .. n
      BY <1>1
    <3>. QED  BY <1>3, <1>4, <2>1, <2>3, <3>1
  <2>. QED  BY <1>1, <2>2, <2>3
<1>15. ASSUME l \notin concluded, NEW j \in 2 .. n + 1 PROVE amounts'[l][j] > 0
  <2>1. CASE j = n + 1
    BY <1>3, <1>4, <2>1
  <2>2. CASE j \in 2 .. n
    <3>1. j \in 1 .. n
      BY <2>2
    <3>. QED  BY <1>1, <1>4, <1>12, <1>15, <2>2, <3>1 DEF Money
  <2>. QED  BY <1>1, <2>1, <2>2
<1>16. ASSUME l \notin concluded, NEW b \in Terms(l), Modest(b), p["player"] > 0
       PROVE  p["player"] <= b.send /\ h + amount >= b.receive + p["player"]
  <2>1. b.send \in Nat /\ b.receive \in Nat /\ b.receive <= b.send
    <3>1. b \in Budgets
      BY TermsFacts DEF StoresSound
    <3>. QED  BY <1>16, <3>1, BudgetAssumption DEF Modest
  <2>2. CASE w = "player"
    <3>1. paidIn[l]["player"] = 0 /\ amount <= b.send /\ h >= b.send
      BY <1>2, <2>2
    <3>2. p["player"] = amount
      BY <1>7, <2>2, <3>1
    <3>. QED  BY <2>1, <3>1, <3>2
  <2>3. CASE w # "player"
    <3>1. p["player"] = paidIn[l]["player"] /\ paidIn[l]["player"] \in Nat
      BY <1>5, <1>7, <2>3, Wallets
    <3>2. paidIn[l]["player"] <= b.send /\ h >= b.receive + paidIn[l]["player"]
      BY <1>2, <1>12, <1>16, <3>1 DEF Money
    <3>. QED  BY <2>1, <3>1, <3>2
  <2>. QED  BY <2>2, <2>3
<1>17. Money(l)'
  <2>1. Terms(l)' # {} /\ concluded' = concluded
    BY <1>12
  <2>2. l \notin concluded =>
          /\ \A i, j \in 1 .. Len(amounts'[l]) : i <= j => amounts'[l][i] <= amounts'[l][j]
          /\ \A j \in 2 .. Len(amounts'[l]) : amounts'[l][j] > 0
    BY <1>4, <1>14, <1>15
  <2>3. l \notin concluded => \A b \in Terms(l)' : Modest(b) /\ paidIn'[l]["player"] > 0 =>
          paidIn'[l]["player"] <= b.send /\ Holdings(l)' >= b.receive + paidIn'[l]["player"]
    BY <1>4, <1>9, <1>12, <1>16
  <2>. QED  BY <1>13, <2>1, <2>2, <2>3 DEF Money
<1>. QED  BY <1>1, <1>4, <1>11, <1>17

\* Nobody signs, no budget is made: the money of a ledger, and who follows it.
LEMMA RisesKeeps ==
  ASSUME BudgetInv, NEW l \in Ledgers, Rises(l), Money(l)', HubSound(l)',
         UNCHANGED <<policy, session, budget, closing, entry, net, ledger, hasty>>,
         funding' \in [Ledgers -> FundingFlow], \A k \in Ledgers \ {l} : funding'[k] = funding[k],
         approving' \in ApprovalFlow, ApprovalSound',
         approving'.ledger = approving.ledger, approving'.at = "none" <=> approving.at = "none",
         ~hasty /\ PaidInto(l)' => StaysEmpty(l)' \/ IsCurrent(l)
  PROVE  BudgetInv'
<1>. USE DEF BudgetInv
<1>1. Shapes'
  BY DEF Shapes, Rises
<1>2. /\ \A k : Terms(k)' = Terms(k) /\ (OnTerms(k)' <=> OnTerms(k)) /\ (Ended(k)' <=> Ended(k))
      /\ \A w, k : Signs(w, k)' <=> Signs(w, k)
      /\ Approved' = Approved
  BY StillStores
<1>3. /\ concluded' = concluded /\ ledger' = ledger /\ budget' = budget /\ closing' = closing
      /\ hasty' = hasty
  BY DEF Rises
<1>4. \A k \in Ledgers \ {l} : /\ amounts'[k] = amounts[k] /\ paidIn'[k] = paidIn[k]
                               /\ Holdings(k)' = Holdings(k)
  BY DEF Rises, Holdings
<1>5. \A k \in Ledgers : Holdings(k)' \in Nat /\ Holdings(k) \in Nat /\ Holdings(k)' >= Holdings(k)
  <2>1. ASSUME NEW k \in Ledgers \ {l} PROVE Holdings(k) \in Nat /\ Holdings(k)' = Holdings(k)
    BY <1>4, Amounts
  <2>2. Holdings(l) \in Nat /\ Holdings(l)' >= Holdings(l)
    BY Amounts DEF Rises
  <2>3. Holdings(l)' \in Nat
    <3>1. amounts'[l] \in Seq(Nat) /\ Len(amounts'[l]) >= 1
      BY DEF Rises, Money
    <3>. QED  BY <3>1 DEF Holdings
  <2>. QED  BY <2>1, <2>2, <2>3
<1>6. StoresSound'
  <2>1. \A w \in Wallet : ledger[w] # NoLedger => Signs(w, ledger[w])
    BY DEF StoresSound
  <2>2. \A w \in Wallet : (ledger[w] # NoLedger => Signs(w, ledger[w]))'
    BY <1>3, <2>1 DEF Signs
  <2>. QED  BY <1>2, <1>3, <2>2 DEF StoresSound
<1>7. LedgersSound'
  <2>1. ASSUME NEW k \in Ledgers \ {l} PROVE Money(k)' /\ HubSound(k)'
    <3>1. Money(k) /\ HubSound(k)
      BY DEF LedgersSound
    <3>2. Money(k)'
      BY <1>2, <1>3, <1>4, <3>1 DEF Money
    <3>3. HubSound(k)'
      BY <1>2, <1>3, <1>4, <3>1 DEF HubSound
    <3>. QED  BY <3>2, <3>3
  <2>. QED  BY <2>1 DEF LedgersSound
<1>8. ClosersKnow'
  BY <1>3 DEF ClosersKnow
<1>9. ASSUME ~hasty PROVE Orderly'
  <2>1. Orderly /\ InTurn
    BY <1>9 DEF Orderly
  <2>2. InTurn'
    <3>1. ASSUME budget # NoBudget, ledger["player"] \notin concluded
          PROVE  Holdings(ledger["player"])' >= 2 * budget.send
      <4>1. PICK k \in Ledgers : k = ledger["player"]
        BY <2>1, <3>1, Wallets, LedgerNumbers DEF InTurn, Shapes
      <4>2. Holdings(k) >= 2 * budget.send
        BY <2>1, <3>1, <4>1 DEF InTurn
      <4>3. 2 * budget.send \in Nat
        BY <3>1, BudgetAssumption DEF Shapes
      <4>4. Holdings(k)' >= 2 * budget.send
        BY <1>5, <4>2, <4>3
      <4>. QED  BY <4>1, <4>4 DEF Holdings
    <3>2. budget # NoBudget =>
            (ledger["player"] \in concluded \/ Holdings(ledger["player"]) >= 2 * budget.send)'
      BY <1>3, <3>1 DEF Holdings
    <3>. QED  BY <1>2, <1>3, <2>1, <3>2 DEF InTurn
  <2>3. ASSUME NEW k \in 1 .. MaxClosings PROVE ClosingSound(closing["player"][k])'
    <3>1. PICK f : f = closing["player"][k]
      OBVIOUS
    <3>2. ClosingSound(f)
      BY <2>1, <3>1 DEF Orderly
    <3>3. ASSUME f.at \in OnChain, f.ledger \notin concluded,
                 NEW i \in f.seen + 1 .. Len(amounts'[f.ledger])
          PROVE  amounts'[f.ledger][i] > 0
      <4>1. f.ledger \in Ledgers /\ f \in ClosingFlow
        BY <3>1, <3>3, ClosersLedger, Wallets, ClosingFlows
      <4>2. f.seen \in Nat
        BY <4>1 DEF ClosingFlow
      <4>3. \A j \in f.seen + 1 .. Len(amounts[f.ledger]) : amounts[f.ledger][j] > 0
        BY <3>2, <3>3 DEF ClosingSound
      <4>4. CASE f.ledger # l
        BY <1>4, <3>3, <4>1, <4>3, <4>4
      <4>5. CASE f.ledger = l
        <5>1. Len(amounts[l]) \in Nat /\ Len(amounts'[l]) \in Nat
          BY Amounts DEF Rises
        <5>2. i \in Nat /\ i \in f.seen + 1 .. Len(amounts'[l])
          BY <3>3, <4>2, <4>5
        <5>3. CASE i <= Len(amounts[l])
          <6>1. i \in f.seen + 1 .. Len(amounts[l]) /\ i \in 1 .. Len(amounts[l])
            BY <4>2, <5>1, <5>2, <5>3
          <6>. QED  BY <4>3, <4>5, <6>1 DEF Rises
        <5>4. CASE ~(i <= Len(amounts[l]))
          <6>1. i \in Len(amounts[l]) + 1 .. Len(amounts'[l])
            BY <5>1, <5>2, <5>4
          <6>. QED  BY <4>5, <6>1 DEF Rises
        <5>. QED  BY <5>3, <5>4
      <4>. QED  BY <4>4, <4>5
    <3>. QED  BY <1>3, <3>1, <3>2, <3>3 DEF ClosingSound
  <2>4. ASSUME NEW k \in Ledgers, PaidInto(k)' PROVE StaysEmpty(k)' \/ IsCurrent(k)'
    <3>1. IsCurrent(k)' <=> IsCurrent(k)
      BY <1>3 DEF IsCurrent
    <3>2. CASE k = l
      BY <1>9, <2>4, <3>1, <3>2
    <3>3. CASE k # l
      <4>1. PaidInto(k)
        BY <1>2, <1>4, <2>4, <3>3 DEF PaidInto
      <4>2. StaysEmpty(k) => StaysEmpty(k)'
        BY <1>2, <1>3, <1>4, <3>3 DEF StaysEmpty
      <4>. QED  BY <2>1, <3>1, <4>1, <4>2 DEF Orderly
    <3>. QED  BY <3>2, <3>3
  <2>. QED  BY <2>2, <2>3, <2>4 DEF Orderly
<1>. QED  BY <1>1, <1>3, <1>6, <1>7, <1>8, <1>9

LEMMA HubTotals ==
  ASSUME Shapes, NEW b \in Budgets
  PROVE  /\ Sum(b) \in Nat /\ HubTotal(b) \in Nat /\ b.send \in Nat \ {0} /\ b.receive \in Nat
         /\ Sum(b) = b.send + b.receive
BY BudgetAssumption DEF Shapes, Sum, HubTotal

LEMMA HubDepositsKeeps ==
  ASSUME BudgetInv, NEW l \in Ledgers, HubDeposits(l)
  PROVE  BudgetInv'
<1>. USE DEF BudgetInv
<1>1. PICK f : f = funding[l]
  OBVIOUS
<1>2. f \in FundingFlow /\ f.seen \in Nat /\ f.at = "depositing" /\ f.seen < Len(amounts[l])
  BY <1>1 DEF HubDeposits, More, Shapes, FundingFlow
<1>3. Money(l) /\ HubSound(l) /\ OnTerms(l)
  BY DEF LedgersSound, StoresSound
<1>4. IsSupported(2, entry["hub"][l])
  BY <1>1, <1>2, <1>3 DEF HubSound
<1>5. PICK b \in Terms(l) : TRUE
  <2>1. \E s \in entry["hub"][l] : TRUE
    BY <1>4 DEF IsSupported, Support, Chain
  <2>2. StatesOf(l) # {}
    BY <2>1 DEF StatesOf
  <2>. QED  BY <1>3, <2>2, TermsFacts
<1>6. Terms(l) = {b} /\ b \in Budgets /\ entry["hub"][l] \in SUBSET StateOf(b)
      /\ InvariantsHold(entry["hub"][l])
  BY <1>3, <1>5, TermsFacts, Wallets
<1>7. Supported(2, entry["hub"][l]).outcome = b
  <2>1. Supported(2, entry["hub"][l]) \in entry["hub"][l]
    BY <1>4, <1>6, SupportedIsKept
  <2>. QED  BY <1>6, <2>1, States
<1>8. PICK amount : amount = amounts[l][f.seen + 1]
  OBVIOUS
<1>9. PICK n \in Nat : n = Len(amounts[l]) /\ n >= 1
  BY Amounts
<1>10. f.seen + 1 \in 1 .. n /\ amount \in Nat
  BY <1>2, <1>8, <1>9, Amounts
<1>11. /\ funding' = [funding EXCEPT ![l].seen = @ + 1,
                                   ![l].at = IF amount >= Sum(b) THEN "done" ELSE @]
       /\ IF 0 <= amount /\ amount < Sum(b)
          THEN Deposit(l, "hub", amount, HubTotal(b) - amount) ELSE UNCHANGED chain
       /\ UNCHANGED <<policy, session, rich, budget, approving, closing, entry, ledger, net, hasty>>
  BY <1>1, <1>7, <1>8 DEF HubDeposits, HubDepositAt, NextAmount
<1>12. /\ Sum(b) \in Nat /\ HubTotal(b) \in Nat
  BY <1>6, HubTotals
<1>13. PICK at \in {"depositing", "done"} : at = IF amount >= Sum(b) THEN "done" ELSE "depositing"
  OBVIOUS
<1>14. PICK seen \in Nat : seen = f.seen + 1
  BY <1>2
<1>15. PICK g : g = [f EXCEPT !.seen = seen, !.at = at]
  OBVIOUS
<1>16. g \in FundingFlow /\ g.at = at /\ g.seen = seen
  BY <1>2, <1>15 DEF FundingFlow, FundingAt
<1>17. funding' = [funding EXCEPT ![l] = g]
  BY <1>1, <1>2, <1>11, <1>13, <1>14, <1>15 DEF Shapes
<1>18. /\ funding' \in [Ledgers -> FundingFlow] /\ funding'[l] = g
       /\ \A k \in Ledgers \ {l} : funding'[k] = funding[k]
  BY <1>16, <1>17 DEF Shapes
<1>19. \/ UNCHANGED chain
       \/ /\ amount < Sum(b) /\ Holdings(l) >= amount
          /\ HubTotal(b) - amount \in Nat \ {0}
          /\ amounts' = [amounts EXCEPT ![l] = Append(@, Holdings(l) + (HubTotal(b) - amount))]
          /\ paidIn' = [paidIn EXCEPT ![l]["hub"] = @ + (HubTotal(b) - amount)]
          /\ concluded' = concluded
  BY <1>10, <1>11, <1>12 DEF Deposit
<1>20. Terms(l)' = Terms(l)
  BY <1>11, StillStores
<1>21. /\ Rises(l) /\ Money(l)' /\ paidIn'[l]["player"] = paidIn[l]["player"]
       /\ Len(amounts'[l]) \in Nat
       /\ UNCHANGED chain \/ (Holdings(l) >= amount /\ Len(amounts'[l]) = n + 1)
  <2>1. CASE UNCHANGED chain
    <3>1. Money(l)'
      BY <1>3, <1>20, <2>1 DEF Money, Holdings, chain
    <3>2. paidIn' = paidIn /\ amounts' = amounts
      BY <2>1 DEF chain
    <3>. QED  BY <1>9, <2>1, <3>1, <3>2, NothingComes
  <2>2. ASSUME NEW m \in Nat \ {0}, m = HubTotal(b) - amount, Holdings(l) >= amount,
          amounts' = [amounts EXCEPT ![l] = Append(@, Holdings(l) + m)],
          paidIn' = [paidIn EXCEPT ![l]["hub"] = @ + m], concluded' = concluded
        PROVE  /\ Rises(l) /\ Money(l)' /\ Len(amounts'[l]) = Len(amounts[l]) + 1
               /\ paidIn'[l]["player"] = paidIn[l]["player"]
    <3>1. "hub" \in Wallet /\ "hub" # "player"
      BY Wallets
    <3>2. Rises(l) /\ Money(l)' /\ Len(amounts'[l]) = Len(amounts[l]) + 1
      BY <1>6, <1>11, <2>2, <3>1, PaysIn
    <3>3. paidIn'[l]["player"] = paidIn[l]["player"]
      BY <2>2, Wallets DEF Shapes
    <3>. QED  BY <3>2, <3>3
  <2>. QED  BY <1>9, <1>19, <2>1, <2>2
<1>22. HubSound(l)'
  <2>1. IsSupported(2, entry'["hub"][l])
    BY <1>4, <1>11
  <2>2. at = "depositing" =>
          /\ seen <= Len(amounts'[l])
          /\ seen = Len(amounts'[l]) => Holdings(l)' < Sum(b)
    <3>1. SUFFICES ASSUME at = "depositing"
                   PROVE  /\ seen <= Len(amounts'[l])
                          /\ seen = Len(amounts'[l]) => Holdings(l)' < Sum(b)
      OBVIOUS
    <3>2. amount < Sum(b) /\ seen <= n
      BY <1>2, <1>9, <1>10, <1>12, <1>13, <1>14, <3>1
    <3>3. CASE UNCHANGED chain
      <4>1. amounts' = amounts
        BY <3>3 DEF chain
      <4>2. seen = n => Holdings(l)' = amount
        BY <1>8, <1>9, <1>14, <4>1 DEF Holdings
      <4>. QED  BY <1>9, <3>2, <4>1, <4>2
    <3>4. CASE Len(amounts'[l]) = n + 1
      BY <3>2, <3>4
    <3>. QED  BY <1>21, <3>3, <3>4
  <2>3. seen >= 1
    BY <1>2, <1>14
  <2>. QED  BY <1>6, <1>16, <1>18, <1>20, <2>1, <2>2, <2>3 DEF HubSound
<1>23. ASSUME ~hasty, PaidInto(l)' PROVE StaysEmpty(l)' \/ IsCurrent(l)
  <2>1. PaidInto(l)
    BY <1>20, <1>21, <1>23 DEF PaidInto
  <2>2. SUFFICES ASSUME StaysEmpty(l) PROVE StaysEmpty(l)'
    BY <1>23, <2>1 DEF Orderly
  <2>3. PICK i \in f.seen + 1 .. n : /\ amounts[l][i] >= Sum(b)
                                     /\ \A j \in f.seen + 1 .. i : amounts[l][j] > 0
    BY <1>1, <1>2, <1>6, <1>9, <2>2 DEF StaysEmpty
  <2>4. amount > 0
    <3>1. f.seen + 1 \in f.seen + 1 .. i
      BY <1>2, <1>9, <2>3
    <3>. QED  BY <1>8, <2>3, <3>1
  <2>5. UNCHANGED chain
    <3>1. Holdings(l) = 0
      BY <2>2 DEF StaysEmpty
    <3>. QED  BY <1>10, <1>21, <2>4, <3>1
  <2>6. l \in concluded' /\ Holdings(l)' = 0 /\ amounts' = amounts
    BY <2>2, <2>5 DEF StaysEmpty, chain, Holdings
  <2>7. CASE at = "done"
    BY <1>16, <1>18, <2>6, <2>7 DEF StaysEmpty
  <2>8. CASE at # "done"
    <3>1. ~(amount >= Sum(b)) /\ at = "depositing"
      BY <1>13, <2>8
    <3>2. i # f.seen + 1
      BY <1>8, <2>3, <3>1
    <3>3. i \in seen + 1 .. n /\ \A j \in seen + 1 .. i : j \in f.seen + 1 .. i
      BY <1>2, <1>9, <1>14, <2>3, <3>2
    <3>4. \A j \in seen + 1 .. i : amounts[l][j] > 0
      BY <2>3, <3>3
    <3>. QED  BY <1>6, <1>9, <1>16, <1>18, <1>20, <2>3, <2>6, <3>1, <3>3, <3>4 DEF StaysEmpty
  <2>. QED  BY <2>7, <2>8
<1>24. ApprovalSound'
  <2>1. Approved' = Approved /\ \A k : Terms(k)' = Terms(k)
    BY <1>11, StillStores
  <2>2. /\ concluded' = concluded /\ approving' = approving /\ ledger' = ledger
        /\ \A k \in Ledgers : paidIn'[k]["player"] = paidIn[k]["player"]
    BY <1>11, <1>21 DEF Rises
  <2>3. \A k \in Ledgers : Holdings(k) \in Nat /\ Holdings(k)' \in Nat /\ Holdings(k)' >= Holdings(k)
    <3>1. \A k \in Ledgers : Holdings(k) \in Nat
      BY Amounts
    <3>2. \A k \in Ledgers \ {l} : Holdings(k)' = Holdings(k)
      BY <1>21 DEF Rises, Holdings
    <3>3. amounts'[l] \in Seq(Nat) /\ Len(amounts'[l]) >= 1
      BY <1>21 DEF Rises, Money
    <3>4. Holdings(l)' \in Nat
      BY <3>3 DEF Holdings
    <3>5. Holdings(l)' >= Holdings(l)
      BY <1>21 DEF Rises
    <3>. QED  BY <3>1, <3>2, <3>4, <3>5
  <2>4. ASSUME approving.at = "createBudget", approving.ledger \notin concluded
        PROVE  Holdings(approving.ledger)' >= 2 * approving.budget.send
    <3>1. approving.ledger \in Ledgers /\ Holdings(approving.ledger) >= 2 * approving.budget.send
          /\ approving.budget \in Budgets
      BY <2>4 DEF ApprovalSound, OnLedger
    <3>2. PICK k \in Ledgers : k = approving.ledger
      BY <3>1
    <3>3. 2 * approving.budget.send \in Nat
      BY <3>1, BudgetAssumption
    <3>4. Holdings(k)' >= 2 * approving.budget.send
      BY <2>3, <3>1, <3>2, <3>3
    <3>. QED  BY <2>2, <3>2, <3>4 DEF Holdings
  <2>5. approving.at \in MayPay => approving.ledger \in Ledgers
    BY DEF ApprovalSound, OnLedger
  <2>6. (approving.at = "createBudget" =>
          approving.ledger \in concluded \/ Holdings(approving.ledger) >= 2 * approving.budget.send)'
    BY <2>2, <2>4 DEF Holdings
  <2>. QED  BY <2>1, <2>2, <2>5, <2>6 DEF ApprovalSound
<1>25. approving' = approving /\ approving' \in ApprovalFlow
  BY <1>11 DEF Shapes
<1>. QED  BY <1>11, <1>18, <1>21, <1>22, <1>23, <1>24, <1>25, RisesKeeps

LEMMA ChainEventKeeps == ASSUME BudgetInv, ChainEvent PROVE BudgetInv'
<1>. USE DEF BudgetInv
<1>1. PICK b : b = approving.budget
  OBVIOUS
<1>2. PICK l : l = approving.ledger
  OBVIOUS
<1>3. PICK balance : balance = NextAmount(approving, l)
  OBVIOUS
<1>4. /\ approving.at \in {"init", "waitTurn", "waitMining"} /\ More(approving, l)
      /\ UNCHANGED <<policy, session, rich, budget, funding, closing, entry, ledger, net, hasty>>
  BY <1>2 DEF ChainEvent
<1>5. /\ approving.at \in OnLedger /\ approving.at # "none" /\ l \in Ledgers /\ l = ledger["player"]
      /\ Terms(l) = {b} /\ b \in Budgets /\ approving \in ApprovalFlow
  BY <1>1, <1>2, <1>4 DEF ApprovalSound, OnLedger, MayPay, Shapes
<1>6. PICK n \in Nat : n = Len(amounts[l]) /\ n >= 1
  BY <1>5, Amounts
<1>7. approving.seen \in Nat /\ approving.seen + 1 \in 1 .. n
      /\ balance = amounts[l][approving.seen + 1] /\ balance \in Nat
  <2>1. approving.seen \in Nat /\ approving.seen < n
    BY <1>4, <1>5, <1>6 DEF ApprovalFlow, More
  <2>2. approving.seen + 1 \in 1 .. n
    BY <2>1
  <2>. QED  BY <1>3, <1>5, <1>6, <2>1, <2>2, Amounts DEF NextAmount
<1>8. PICK seen \in Nat : seen = approving.seen + 1
  BY <1>7
<1>9. ASSUME NEW at \in {"waitTurn", "waitMining", "createBudget"}, NEW g,
             g = [[approving EXCEPT !.seen = @ + 1] EXCEPT !.at = at]
      PROVE  /\ g \in ApprovalFlow /\ g.at = at /\ g.budget = b /\ g.ledger = l
             /\ g.at \in OnLedger /\ g.at # "none" /\ g.at \notin BeforeLedger
  <2>1. at \in OnLedger /\ at # "none" /\ at \notin BeforeLedger
    BY DEF OnLedger, MayPay, BeforeLedger
  <2>2. g = [[approving EXCEPT !.seen = seen] EXCEPT !.at = at]
    BY <1>8, <1>9
  <2>. QED  BY <1>1, <1>2, <1>5, <2>1, <2>2 DEF ApprovalFlow
<1>10. Approved' = Approved /\ \A k : Terms(k)' = Terms(k)
  BY <1>4, StillStores
<1>11. b.send \in Nat \ {0} /\ b.receive \in Nat
  BY <1>5, HubTotals
<1>12. PICK heard : heard = [approving EXCEPT !.seen = @ + 1]
  OBVIOUS
<1>13. \/ /\ approving.at \in MayPay /\ b.send <= balance /\ balance < 2 * b.send
          /\ approving' = [heard EXCEPT !.at = "waitMining"]
          /\ Deposit(l, "player", balance, 2 * b.send - balance)
       \/ /\ UNCHANGED chain
          /\ \/ approving.at \in MayPay /\ approving' = [heard EXCEPT !.at = "waitTurn"]
             \/ balance >= 2 * b.send /\ approving' = [heard EXCEPT !.at = "createBudget"]
             \/ approving.at # "init" /\ approving' = heard
  BY <1>1, <1>2, <1>3, <1>12
     DEF ChainEvent, MyTurnNow, FullAmountConfirmed, DepositAt, TotalAfterDeposit,
         SubmitDepositTransaction, MayPay
<1>14. /\ heard = [[approving EXCEPT !.seen = @ + 1] EXCEPT !.at = approving.at]
       /\ \A at : [heard EXCEPT !.at = at] = [[approving EXCEPT !.seen = @ + 1] EXCEPT !.at = at]
  BY <1>5, <1>12 DEF ApprovalFlow
<1>15. CASE UNCHANGED chain
  <2>1. PICK at \in {"waitTurn", "waitMining", "createBudget"} :
          /\ approving' = [[approving EXCEPT !.seen = @ + 1] EXCEPT !.at = at]
          /\ at = "waitTurn" => approving.at \in MayPay
          /\ at = "createBudget" => balance >= 2 * b.send
    <3>1. CASE approving.at \in MayPay /\ approving' = [heard EXCEPT !.at = "waitTurn"]
      BY <1>14, <3>1
    <3>2. CASE balance >= 2 * b.send /\ approving' = [heard EXCEPT !.at = "createBudget"]
      BY <1>14, <3>2
    <3>3. CASE approving.at # "init" /\ approving' = heard
      <4>1. approving.at \in {"waitTurn", "waitMining"}
        BY <1>4, <3>3
      <4>2. approving.at = "waitTurn" => approving.at \in MayPay
        BY DEF MayPay
      <4>. QED  BY <1>14, <3>3, <4>1, <4>2
    <3>4. CASE approving' = [heard EXCEPT !.at = "waitMining"]
      BY <1>14, <3>4
    <3>. QED  BY <1>13, <3>1, <3>2, <3>3, <3>4
  <2>2. /\ approving' \in ApprovalFlow /\ approving'.at = at
        /\ approving'.budget = b /\ approving'.ledger = l
        /\ approving'.at \in OnLedger /\ approving'.at # "none" /\ approving'.at \notin BeforeLedger
    BY <1>9, <2>1
  <2>3. /\ amounts' = amounts /\ concluded' = concluded /\ paidIn' = paidIn /\ ledger' = ledger
        /\ budget' = budget /\ closing' = closing /\ hasty' = hasty
        /\ \A k : Holdings(k)' = Holdings(k)
    BY <1>4, <1>15 DEF chain, Holdings
  <2>4. at = "createBudget" => l \in concluded \/ Holdings(l) >= 2 * b.send
    <3>1. SUFFICES ASSUME balance >= 2 * b.send, l \notin concluded PROVE Holdings(l) >= 2 * b.send
      BY <2>1
    <3>2. balance <= Holdings(l)
      BY <1>5, <1>6, <1>7, <3>1 DEF LedgersSound, Money, Holdings
    <3>3. Holdings(l) \in Nat
      BY <1>5, Amounts
    <3>. QED  BY <1>7, <1>11, <3>1, <3>2, <3>3
  <2>5. at \in MayPay => paidIn[l]["player"] = 0
    <3>1. at \in MayPay => approving.at \in MayPay
      BY <2>1 DEF MayPay
    <3>. QED  BY <1>2, <3>1 DEF ApprovalSound
  <2>6. ApprovalSound'
    <3>1. (approving.at = "createBudget" =>
            approving.ledger \in concluded \/ Holdings(approving.ledger) >= 2 * approving.budget.send)'
      BY <2>2, <2>3, <2>4 DEF Holdings
    <3>. QED  BY <1>5, <1>10, <2>2, <2>3, <2>5, <3>1 DEF ApprovalSound
  <2>7. ASSUME ~hasty' PROVE /\ ~hasty /\ InTurn'
                             /\ \A k \in Ledgers : PaidInto(k) /\ IsCurrent(k) => IsCurrent(k)'
    <3>1. InTurn /\ ~hasty
      BY <2>3, <2>7 DEF Orderly
    <3>2. \A k : Ended(k)' <=> Ended(k)
      BY <1>4, StillStores
    <3>3. InTurn'
      BY <1>2, <1>5, <1>10, <2>2, <2>3, <3>1, <3>2 DEF InTurn
    <3>. QED  BY <1>2, <2>2, <2>3, <3>1, <3>3 DEF IsCurrent
  <2>8. budget' \in Budgets \cup {NoBudget} /\ hasty' \in BOOLEAN
    BY <2>3 DEF Shapes
  <2>. QED  BY <1>4, <1>15, <2>2, <2>6, <2>7, <2>8, ApprovalQuiet
<1>16. CASE ~UNCHANGED chain
  <2>1. /\ approving.at \in MayPay /\ b.send <= balance /\ balance < 2 * b.send
        /\ approving' = [[approving EXCEPT !.seen = @ + 1] EXCEPT !.at = "waitMining"]
        /\ Deposit(l, "player", balance, 2 * b.send - balance)
    BY <1>13, <1>14, <1>16
  <2>2. PICK amount \in Nat \ {0} : amount = 2 * b.send - balance /\ amount <= b.send
    BY <1>7, <1>11, <2>1
  <2>3. /\ Holdings(l) >= balance /\ concluded' = concluded
        /\ amounts' = [amounts EXCEPT ![l] = Append(@, Holdings(l) + amount)]
        /\ paidIn' = [paidIn EXCEPT ![l]["player"] = @ + amount]
    BY <1>16, <2>1, <2>2 DEF Deposit
  <2>4. paidIn[l]["player"] = 0
    BY <1>2, <2>1 DEF ApprovalSound
  <2>5. PICK h \in Nat : h = Holdings(l)
    BY <1>5, Amounts
  <2>6. h >= b.send /\ h > 0
    BY <1>7, <1>11, <2>1, <2>3, <2>5
  <2>7. n > 1
    BY <1>5, <1>6, <2>5, <2>6, Amounts
  <2>8. Rises(l) /\ Money(l)' /\ Len(amounts'[l]) = n + 1
    <3>1. "player" \in Wallet /\ Terms(l) # {} /\ UNCHANGED <<entry, net>>
      BY <1>4, <1>5, Wallets
    <3>2. \A c \in Terms(l) : paidIn[l]["player"] = 0 /\ amount <= c.send /\ Holdings(l) >= c.send
      BY <1>5, <2>2, <2>4, <2>5, <2>6
    <3>. QED  BY <1>5, <1>6, <2>3, <3>1, <3>2, PaysIn
  <2>9. HubSound(l)'
    <3>1. HubSound(l)
      BY <1>5 DEF LedgersSound
    <3>2. funding[l].seen \in Nat
      BY <1>5 DEF Shapes, FundingFlow
    <3>3. funding' = funding /\ entry' = entry
      BY <1>4
    <3>4. funding[l].at = "depositing" => funding[l].seen <= n
      BY <1>6, <3>1 DEF HubSound
    <3>5. funding[l].at = "depositing" =>
            funding[l].seen <= Len(amounts'[l]) /\ funding[l].seen # Len(amounts'[l])
      BY <2>8, <3>2, <3>4
    <3>. QED  BY <1>6, <2>3, <2>7, <3>1, <3>3, <3>5 DEF HubSound
  <2>10. /\ approving' \in ApprovalFlow /\ approving'.at = "waitMining"
         /\ approving'.budget = b /\ approving'.ledger = l
         /\ approving'.at \in OnLedger /\ approving'.at # "none" /\ approving'.at \notin BeforeLedger
    BY <1>9, <2>1
  <2>11. ApprovalSound'
    <3>1. approving'.at \notin MayPay /\ approving'.at # "createBudget" /\ ledger' = ledger
      BY <1>4, <2>10 DEF MayPay
    <3>. QED  BY <1>5, <1>10, <2>10, <3>1 DEF ApprovalSound
  <2>12. ASSUME ~hasty PROVE IsCurrent(l)
    <3>1. l \notin concluded
      BY <1>2, <1>5, <2>12, LedgerNumbers DEF Orderly, InTurn
    <3>. QED  BY <1>2, <1>5, <3>1 DEF IsCurrent
  <2>13. funding' \in [Ledgers -> FundingFlow] /\ \A k \in Ledgers \ {l} : funding'[k] = funding[k]
    BY <1>4 DEF Shapes
  <2>14. approving'.ledger = approving.ledger /\ (approving'.at = "none" <=> approving.at = "none")
    BY <1>2, <1>5, <2>10
  <2>. QED  BY <1>4, <1>5, <2>8, <2>9, <2>10, <2>11, <2>12, <2>13, <2>14, RisesKeeps
<1>. QED  BY <1>15, <1>16

LEMMA SubmitWithdrawTransactionKeeps ==
  ASSUME BudgetInv, NEW w \in Wallet, NEW k \in 1 .. MaxClosings, SubmitWithdrawTransaction(w, k)
  PROVE  BudgetInv'
<1>. USE DEF BudgetInv
<1>1. PICK f : f = closing[w][k]
  OBVIOUS
<1>2. /\ f.at = "submitTransaction" /\ f.at \in OnChain /\ f.at \in HasLedger /\ f \in ClosingFlow
      /\ f.ledger \in Ledgers /\ ledger[w] \in Ledgers
  BY <1>1, ClosersLedger, ClosingFlows DEF SubmitWithdrawTransaction, OnChain
<1>3. PICK flow : flow = [f EXCEPT !.at = "waitMining"]
  OBVIOUS
<1>4. /\ flow \in ClosingFlow /\ flow.at = "waitMining" /\ flow.at \in OnChain /\ flow.at \in HasLedger
      /\ flow.ledger = f.ledger /\ flow.seen = f.seen
  <2>1. "waitMining" \in OnChain /\ "waitMining" \in ClosingAt
    BY ClosingFlows DEF OnChain
  <2>. QED  BY <1>2, <1>3, <2>1, ClosingFlows DEF ClosingFlow
<1>5. CloseGoto(w, k, flow) /\ UNCHANGED budget
  BY <1>1, <1>3 DEF SubmitWithdrawTransaction
<1>6. w = "player" /\ ~hasty => ClosingSound(flow)
  <2>1. SUFFICES ASSUME w = "player", ~hasty PROVE ClosingSound(flow)
    OBVIOUS
  <2>2. ClosingSound(f)
    BY <1>1, <2>1 DEF Orderly
  <2>. QED  BY <1>2, <1>4, <2>2 DEF ClosingSound
<1>7. CASE UNCHANGED chain
  BY <1>1, <1>2, <1>4, <1>5, <1>6, <1>7, LedgerNumbers, ClosingGoes
<1>8. CASE ~UNCHANGED chain
  <2>1. PICK l \in Ledgers : l = ledger[w]
    BY <1>2
  <2>2. HasConclusionProof(2, entry[w][l]) /\ FinalizeAndWithdraw(l)
    BY <1>8, <2>1 DEF SubmitWithdrawTransaction
  <2>3. /\ amounts' = [amounts EXCEPT ![l] = Append(@, 0)]
        /\ concluded' = concluded \cup {l} /\ paidIn' = paidIn
    BY <2>2 DEF FinalizeAndWithdraw
  <2>4. /\ closing' = [closing EXCEPT ![w][k] = flow]
        /\ UNCHANGED <<policy, session, rich, budget, approving, funding, entry, ledger, net, hasty>>
    BY <1>5 DEF CloseGoto
  <2>5. PICK n \in Nat : n = Len(amounts[l]) /\ n >= 1
    BY Amounts
  <2>6. /\ amounts' \in [Ledgers -> Seq(Nat)]
        /\ Len(amounts'[l]) = n + 1 /\ Holdings(l)' = 0
        /\ \A i \in 1 .. n : amounts'[l][i] = amounts[l][i]
        /\ \A m \in Ledgers \ {l} : amounts'[m] = amounts[m] /\ Holdings(m)' = Holdings(m)
    BY <2>3, <2>5, OneMore
  <2>7. /\ closing' \in [Wallet -> [1 .. MaxClosings -> ClosingFlow]]
        /\ closing'[w][k] = flow
        /\ \A v \in Wallet, j \in 1 .. MaxClosings : v # w \/ j # k => closing'[v][j] = closing[v][j]
    BY <1>4, <2>4, ClosingUpdate
  <2>8. \E s \in entry[w][l] : s.final /\ 0 \in s.signers
    <3>1. PICK e : e = entry[w][l]
      OBVIOUS
    <3>2. HasConclusionProof(2, e)
      BY <2>2, <3>1
    <3>3. \E s \in e : TRUE
      BY <3>2 DEF HasConclusionProof, IsSupported, Support, Chain
    <3>4. OnTerms(l)
      BY DEF StoresSound
    <3>5. StatesOf(l) # {}
      BY <3>1, <3>3, <3>4, TermsFacts
    <3>6. PICK b \in Terms(l) : TRUE
      BY <3>4, <3>5, TermsFacts
    <3>7. e \in SUBSET StateOf(b) /\ InvariantsHold(e)
      BY <3>1, <3>4, <3>6, TermsFacts
    <3>. QED  BY <3>1, <3>2, <3>7, ConclusionIsSigned
  <2>9. Ended(l) /\ l \in Approved
    <3>1. OnTerms(l)
      BY DEF StoresSound
    <3>2. PICK s \in StatesOf(l) : s.final /\ 0 \in s.signers
      BY <2>8, <3>1, TermsFacts
    <3>3. Terms(l) # {}
      BY <3>1, <3>2, TermsFacts
    <3>4. entry["player"][l] # {}
      BY <3>3 DEF Terms
    <3>. QED  BY <3>2, <3>4 DEF Ended, Approved
  <2>10. /\ \A m : Terms(m)' = Terms(m) /\ (OnTerms(m)' <=> OnTerms(m)) /\ (Ended(m)' <=> Ended(m))
         /\ \A v, m : Signs(v, m)' <=> Signs(v, m)
         /\ Approved' = Approved
    BY <2>4, StillStores
  <2>11. Shapes'
    BY <2>3, <2>4, <2>6, <2>7 DEF Shapes
  <2>12. StoresSound'
    <3>1. \A v \in Wallet : ledger[v] # NoLedger => Signs(v, ledger[v])
      BY DEF StoresSound
    <3>2. \A v \in Wallet : (ledger[v] # NoLedger => Signs(v, ledger[v]))'
      BY <2>4, <3>1 DEF Signs
    <3>. QED  BY <2>3, <2>9, <2>10, <3>2 DEF StoresSound
  <2>13. ApprovalSound'
    <3>1. ASSUME approving.at = "createBudget", approving.ledger \notin concluded'
          PROVE  Holdings(approving.ledger)' >= 2 * approving.budget.send
      <4>1. PICK m \in Ledgers : m = approving.ledger
        BY <3>1 DEF ApprovalSound, OnLedger
      <4>2. m # l /\ Holdings(m) >= 2 * approving.budget.send
        BY <2>3, <3>1, <4>1 DEF ApprovalSound
      <4>3. Holdings(m)' = Holdings(m)
        BY <2>6, <4>2
      <4>. QED  BY <2>4, <4>1, <4>2, <4>3 DEF Holdings
    <3>2. (approving.at = "createBudget" =>
            approving.ledger \in concluded \/ Holdings(approving.ledger) >= 2 * approving.budget.send)'
      BY <2>4, <3>1 DEF Holdings
    <3>. QED  BY <2>3, <2>4, <2>10, <3>2 DEF ApprovalSound
  <2>14. LedgersSound'
    <3>1. ASSUME NEW m \in Ledgers \ {l} PROVE Money(m)' /\ HubSound(m)'
      <4>1. Money(m) /\ HubSound(m) /\ (m \in concluded' <=> m \in concluded)
        BY <2>3 DEF LedgersSound
      <4>2. Money(m)'
        BY <2>3, <2>6, <2>10, <4>1 DEF Money
      <4>3. HubSound(m)'
        BY <2>4, <2>6, <2>10, <4>1 DEF HubSound
      <4>. QED  BY <4>2, <4>3
    <3>2. Money(l) /\ HubSound(l) /\ l \in concluded'
      BY <2>3 DEF LedgersSound
    <3>3. Money(l)'
      BY <2>3, <2>5, <2>6, <2>10, <3>2 DEF Money
    <3>4. HubSound(l)'
      <4>1. funding[l].seen \in Nat
        BY DEF Shapes, FundingFlow
      <4>2. funding[l].at = "depositing" =>
              funding[l].seen <= Len(amounts'[l]) /\ funding[l].seen # Len(amounts'[l])
        BY <2>5, <2>6, <3>2, <4>1 DEF HubSound
      <4>. QED  BY <2>4, <3>2, <4>2 DEF HubSound
    <3>. QED  BY <3>1, <3>3, <3>4 DEF LedgersSound
  <2>15. ClosersKnow'
    <3>1. SUFFICES ASSUME NEW v \in Wallet, NEW j \in 1 .. MaxClosings, closing'[v][j].at \in HasLedger
                   PROVE  closing'[v][j].ledger # NoLedger /\ ledger'[v] # NoLedger
      BY DEF ClosersKnow
    <3>2. CASE v = w /\ j = k
      BY <1>2, <1>4, <2>4, <2>7, <3>2, LedgerNumbers
    <3>3. CASE v # w \/ j # k
      BY <2>4, <2>7, <3>1, <3>3 DEF ClosersKnow
    <3>. QED  BY <3>2, <3>3
  <2>16. ASSUME ~hasty PROVE Orderly'
    <3>1. Orderly /\ InTurn
      BY <2>16 DEF Orderly
    <3>2. approving.ledger # l
      BY <2>1, <2>9, <3>1, LedgerNumbers DEF InTurn
    <3>3. \A j \in 1 .. MaxClosings :
            closing'["player"][j].at \in {"none", "done"} <=> closing["player"][j].at \in {"none", "done"}
      <4>1. SUFFICES ASSUME NEW j \in 1 .. MaxClosings
                     PROVE  closing'["player"][j].at \in {"none", "done"}
                              <=> closing["player"][j].at \in {"none", "done"}
        OBVIOUS
      <4>2. CASE w = "player" /\ j = k
        BY <1>1, <1>2, <1>4, <2>7, <4>2
      <4>3. CASE w # "player" \/ j # k
        BY <2>7, <4>3, Wallets
      <4>. QED  BY <4>2, <4>3
    <3>4. InTurn'
      <4>1. ASSUME budget # NoBudget, ledger["player"] \notin concluded'
            PROVE  Holdings(ledger["player"])' >= 2 * budget.send
        <5>1. PICK m \in Ledgers : m = ledger["player"]
          BY <3>1, <4>1, Wallets, LedgerNumbers DEF InTurn, Shapes
        <5>2. m # l /\ Holdings(m) >= 2 * budget.send
          BY <2>3, <3>1, <4>1, <5>1 DEF InTurn
        <5>3. Holdings(m)' = Holdings(m)
          BY <2>6, <5>2
        <5>. QED  BY <2>4, <5>1, <5>2, <5>3 DEF Holdings
      <4>2. (budget # NoBudget =>
              ledger["player"] \in concluded \/ Holdings(ledger["player"]) >= 2 * budget.send)'
        BY <2>4, <4>1 DEF Holdings
      <4>. QED  BY <2>3, <2>4, <2>10, <3>1, <3>2, <3>3, <4>2 DEF InTurn
    <3>5. ASSUME NEW j \in 1 .. MaxClosings PROVE ClosingSound(closing["player"][j])'
      <4>1. PICK g : g = closing'["player"][j]
        OBVIOUS
      <4>2. ClosingSound(g)
        <5>1. CASE w = "player" /\ j = k
          BY <1>6, <2>7, <2>16, <4>1, <5>1
        <5>2. CASE w # "player" \/ j # k
          <6>1. g = closing["player"][j]
            BY <2>7, <4>1, <5>2, Wallets
          <6>. QED  BY <3>1, <6>1 DEF Orderly
        <5>. QED  BY <5>1, <5>2
      <4>3. g.at \in OnChain => g.ledger \in Ledgers
        <5>1. CASE w = "player" /\ j = k
          BY <1>2, <1>4, <2>7, <4>1, <5>1
        <5>2. CASE w # "player" \/ j # k
          <6>1. g = closing["player"][j]
            BY <2>7, <4>1, <5>2, Wallets
          <6>. QED  BY <6>1, ClosersLedger, Wallets, ClosingFlows
        <5>. QED  BY <5>1, <5>2
      <4>4. g.at \in OnChain /\ g.ledger \notin concluded' =>
              \A i \in g.seen + 1 .. Len(amounts'[g.ledger]) : amounts'[g.ledger][i] > 0
        <5>1. SUFFICES ASSUME g.at \in OnChain, g.ledger \notin concluded'
                       PROVE  \A i \in g.seen + 1 .. Len(amounts'[g.ledger]) : amounts'[g.ledger][i] > 0
          OBVIOUS
        <5>2. g.ledger \in Ledgers \ {l} /\ g.ledger \notin concluded
          BY <2>3, <4>3, <5>1
        <5>3. amounts'[g.ledger] = amounts[g.ledger]
          BY <2>6, <5>2
        <5>. QED  BY <4>2, <5>1, <5>2, <5>3 DEF ClosingSound
      <4>5. concluded \subseteq concluded' /\ ledger' = ledger
        BY <2>3, <2>4
      <4>. QED  BY <4>1, <4>2, <4>4, <4>5 DEF ClosingSound
    <3>6. ASSUME NEW m \in Ledgers, PaidInto(m)' PROVE StaysEmpty(m)' \/ IsCurrent(m)'
      <4>1. PaidInto(m)
        BY <2>3, <2>10, <3>6 DEF PaidInto
      <4>2. StaysEmpty(m) \/ IsCurrent(m)
        BY <3>1, <4>1 DEF Orderly
      <4>3. CASE m # l
        <5>1. amounts'[m] = amounts[m] /\ Holdings(m)' = Holdings(m)
          BY <2>6, <4>3
        <5>2. m \in concluded' <=> m \in concluded
          BY <2>3, <4>3
        <5>3. StaysEmpty(m) => StaysEmpty(m)'
          BY <2>4, <2>10, <5>1, <5>2 DEF StaysEmpty
        <5>4. IsCurrent(m) => IsCurrent(m)'
          BY <2>4, <5>2 DEF IsCurrent
        <5>. QED  BY <4>2, <5>3, <5>4
      <4>4. CASE m = l
        <5>1. l \in concluded' /\ Holdings(l)' = 0 /\ funding' = funding
          BY <2>3, <2>4, <2>6
        <5>2. funding[l].seen \in Nat
          BY DEF Shapes, FundingFlow
        <5>3. SUFFICES \/ funding[l].at = "done"
                       \/ /\ funding[l].at = "depositing"
                          /\ \E i \in funding[l].seen + 1 .. n :
                               /\ \A b \in Terms(l) : amounts[l][i] >= Sum(b)
                               /\ \A j \in funding[l].seen + 1 .. i : amounts[l][j] > 0
          <6>1. CASE funding[l].at = "done"
            BY <4>4, <5>1, <6>1 DEF StaysEmpty
          <6>2. ASSUME funding[l].at = "depositing", NEW i \in funding[l].seen + 1 .. n,
                       \A b \in Terms(l) : amounts[l][i] >= Sum(b),
                       \A j \in funding[l].seen + 1 .. i : amounts[l][j] > 0
                PROVE  StaysEmpty(l)'
            <7>1. i \in funding[l].seen + 1 .. Len(amounts'[l]) /\ amounts'[l][i] = amounts[l][i]
              BY <2>5, <2>6, <5>2, <6>2
            <7>2. \A j \in funding[l].seen + 1 .. i : amounts'[l][j] = amounts[l][j]
              BY <2>5, <2>6, <5>2, <6>2
            <7>. QED  BY <2>10, <5>1, <6>2, <7>1, <7>2 DEF StaysEmpty
          <6>. QED  BY <4>4, <5>3, <6>1, <6>2
        <5>4. CASE StaysEmpty(l)
          BY <2>5, <5>4 DEF StaysEmpty
        <5>5. CASE IsCurrent(l)
          <6>1. l \notin concluded /\ l = ledger["player"] /\ budget # NoBudget
            BY <3>2, <5>5 DEF IsCurrent
          <6>2. Terms(l) = {budget} /\ Holdings(l) >= 2 * budget.send /\ budget \in Budgets
            BY <3>1, <6>1 DEF InTurn, Shapes
          <6>3. Modest(budget)
            BY <4>1, <4>4, <6>2 DEF PaidInto
          <6>4. PICK h \in Nat : h = Holdings(l) /\ h = amounts[l][n]
            BY <2>5, Amounts DEF Holdings
          <6>5. h >= Sum(budget) /\ h > 0
            BY <6>2, <6>3, <6>4, HubTotals DEF Modest
          <6>6. n > 1
            BY <2>5, <6>4, <6>5, Amounts
          <6>7. HubSound(l)
            BY DEF LedgersSound
          <6>8. CASE funding[l].at = "depositing"
            <7>1. funding[l].seen >= 1 /\ funding[l].seen <= n
              BY <2>5, <6>1, <6>6, <6>7, <6>8 DEF HubSound
            <7>2. funding[l].seen # n
              <8>1. Sum(budget) \in Nat
                BY <6>2, HubTotals
              <8>. QED  BY <2>5, <6>2, <6>4, <6>5, <6>7, <6>8, <8>1 DEF HubSound
            <7>3. n \in funding[l].seen + 1 .. n /\ \A j \in funding[l].seen + 1 .. n : j \in 2 .. n
              BY <5>2, <7>1, <7>2
            <7>4. \A j \in 2 .. n : amounts[l][j] > 0
              BY <2>5, <6>1 DEF LedgersSound, Money
            <7>. QED  BY <6>2, <6>4, <6>5, <6>8, <7>3, <7>4
          <6>9. CASE funding[l].at # "depositing"
            BY <2>5, <6>1, <6>6, <6>7, <6>9 DEF HubSound
          <6>. QED  BY <6>8, <6>9
        <5>. QED  BY <4>2, <4>4, <5>4, <5>5
      <4>. QED  BY <4>3, <4>4
    <3>. QED  BY <3>4, <3>5, <3>6 DEF Orderly
  <2>. QED  BY <2>4, <2>11, <2>12, <2>13, <2>14, <2>15, <2>16
<1>. QED  BY <1>7, <1>8

-------------------------------------------------------------------------------
(* The invariant is kept.                                                        *)

LEMMA NoStates == InvariantsHold({})
BY DEF InvariantsHold

LEMMA BudgetInvInit == ASSUME Init PROVE BudgetInv
<1>. USE DEF Init
<1>1. /\ 0 \in 0 .. MaxLedgers /\ "none" \in ClosingAt /\ "none" \in FundingAt
  BY LedgerNumbers, ClosingFlows DEF FundingAt
<1>2. NoClosing \in ClosingFlow /\ NoFunding \in FundingFlow /\ NoApproval \in ApprovalFlow
  BY <1>1 DEF NoClosing, ClosingFlow, NoFunding, FundingFlow, NoApproval, ApprovalFlow, NoLedger
<1>3. \A l \in Ledgers : amounts[l] = <<0>> /\ Len(amounts[l]) = 1 /\ amounts[l][1] = 0
  OBVIOUS
<1>4. \A l \in Ledgers : /\ \A w \in Wallet : entry[w][l] = {}
                         /\ entry["player"][l] = {} /\ entry["hub"][l] = {}
  BY Wallets
<1>5. \A l \in Ledgers : Terms(l) = {} /\ StatesOf(l) = {}
  BY <1>4 DEF Terms, StatesOf, Sent
<1>6. \A k \in 1 .. MaxClosings, w \in Wallet : closing[w][k] = NoClosing
  OBVIOUS
<1>7. NoClosing.at = "none" /\ NoApproval.at = "none" /\ NoApproval.ledger = NoLedger
  BY DEF NoClosing, NoApproval
<1>8. Shapes
  <2>1. policy \in {"all", "share"}
    BY BudgetAssumption
  <2>2. session \in Session /\ ~session.destination /\ session.at # "settingDestinationAddress"
    BY DEF Session
  <2>3. entry \in [Wallet -> [Ledgers -> SUBSET LedgerState]]
    OBVIOUS
  <2>4. ledger \in [Wallet -> 0 .. MaxLedgers]
    BY <1>1 DEF NoLedger
  <2>5. amounts \in [Ledgers -> Seq(Nat)] /\ paidIn \in [Ledgers -> [Wallet -> Nat]]
    OBVIOUS
  <2>6. closing \in [Wallet -> [1 .. MaxClosings -> ClosingFlow]]
    BY <1>2
  <2>7. funding \in [Ledgers -> FundingFlow]
    BY <1>2
  <2>. QED  BY <1>2, <2>1, <2>2, <2>3, <2>4, <2>5, <2>6, <2>7 DEF Shapes
<1>9. StoresSound
  <2>1. \A l \in Ledgers : OnTerms(l)
    BY <1>4, <1>5, NoStates DEF OnTerms
  <2>2. Approved = 1 .. 0
    <3>. HIDE DEF Init
    <3>1. Approved = {}
      BY <1>4 DEF Approved
    <3>2. 1 .. 0 = {}
      OBVIOUS
    <3>. QED  BY <3>1, <3>2
  <2>. QED  BY <1>1, <2>1, <2>2 DEF StoresSound
<1>10. ApprovalSound
  BY <1>7 DEF ApprovalSound, BeforeLedger, OnLedger, MayPay
<1>11. LedgersSound
  <2>1. SUFFICES ASSUME NEW l \in Ledgers PROVE Money(l) /\ HubSound(l)
    BY DEF LedgersSound
  <2>2. paidIn[l]["player"] = 0 /\ funding[l].at = "none"
    BY Wallets DEF NoFunding
  <2>3. 2 .. 1 = {}
    OBVIOUS
  <2>. QED  BY <1>3, <1>5, <2>2, <2>3 DEF Money, HubSound
<1>12. ClosersKnow
  BY <1>6, <1>7, ClosingFlows DEF ClosersKnow
<1>13. Orderly
  <2>1. InTurn
    BY <1>6, <1>7, Wallets DEF InTurn
  <2>2. \A k \in 1 .. MaxClosings : ClosingSound(closing["player"][k])
    BY <1>6, <1>7, Wallets, ClosingFlows DEF ClosingSound
  <2>3. \A l \in Ledgers : ~PaidInto(l)
    BY Wallets DEF PaidInto
  <2>. QED  BY <2>1, <2>2, <2>3 DEF Orderly
<1>. QED  BY <1>8, <1>9, <1>10, <1>11, <1>12, <1>13 DEF BudgetInv

LEMMA BudgetInvStep == ASSUME BudgetInv, [Next]_vars PROVE BudgetInv'
<1>1. CASE Enabling
  BY <1>1, EnablingKeeps
<1>2. CASE ApproveBudgetAndFund
  BY <1>2, ApproveBudgetAndFundKeeps
<1>3. CASE UserDecidesOnBudget
  BY <1>3, UserDecidesOnBudgetKeeps
<1>4. CASE BalanceUpdated
  BY <1>4, BalanceUpdatedKeeps
<1>5. CASE Approval
  <2>1. CASE NotifyWhenSufficientFunds
    BY <2>1, NotifyWhenSufficientFundsKeeps
  <2>2. CASE CreateLedger
    BY <2>2, CreateLedgerKeeps
  <2>3. CASE ChainEvent
    BY <2>3, ChainEventKeeps
  <2>4. CASE CreateBudget
    BY <2>4, CreateBudgetKeeps
  <2>. QED  BY <1>5, <2>1, <2>2, <2>3, <2>4 DEF Approval
<1>6. ASSUME NEW l \in Ledgers, HubJoins(l) \/ HubDeposits(l) PROVE BudgetInv'
  BY <1>6, HubJoinsKeeps, HubDepositsKeeps
<1>7. ASSUME NEW w \in Wallet, NEW k \in 1 .. MaxClosings,
             CloseAndWithdraw(w, k) \/ UserRejectsClose(w, k) \/ Closing(w, k)
      PROVE  BudgetInv'
  <2>1. CASE CloseAndWithdraw(w, k)
    BY <2>1, CloseAndWithdrawKeeps
  <2>2. CASE UserRejectsClose(w, k)
    BY <2>2, UserRejectsCloseKeeps
  <2>3. CASE CreateObjective(w, k)
    BY <2>3, CreateObjectiveKeeps
  <2>4. CASE ConstructFinalState(w, k)
    BY <2>4, ConstructFinalStateKeeps
  <2>5. CASE SubmitWithdrawTransaction(w, k)
    BY <2>5, SubmitWithdrawTransactionKeeps
  <2>6. CASE ObserveFundsWithdrawal(w, k)
    BY <2>6, ObserveFundsWithdrawalKeeps
  <2>7. CASE ClearBudget(w, k)
    BY <2>7, ClearBudgetKeeps
  <2>. QED  BY <1>7, <2>1, <2>2, <2>3, <2>4, <2>5, <2>6, <2>7 DEF Closing
<1>8. ASSUME NEW message \in net, PushMessage(message) PROVE BudgetInv'
  BY <1>8, PushMessageKeeps
<1>9. CASE UNCHANGED vars
  <2>1. UNCHANGED <<policy, entry, net, ledger, funding, chain, approving, budget, closing, hasty>>
        /\ session' = session
    BY <1>9 DEF vars, wallets
  <2>. QED  BY <2>1, SameKeeps DEF BudgetInv, Shapes
<1>. QED  BY <1>1, <1>2, <1>3, <1>4, <1>5, <1>6, <1>7, <1>8, <1>9 DEF Next

-------------------------------------------------------------------------------
(* What it means for the player.                                                 *)

LEMMA BudgetInvImpliesBacked == ASSUME BudgetInv PROVE BudgetBacked
<1>. USE DEF BudgetInv
<1>1. BudgetTypeOK
  <2>1. \A w \in Wallet, l \in Ledgers : InvariantsHold(entry[w][l])
    BY DEF StoresSound, OnTerms
  <2>2. \A l \in Ledgers : Holdings(l) >= 0
    BY Amounts
  <2>3. \A l \in Ledgers, w \in Wallet : paidIn[l][w] >= 0
    <3>1. paidIn \in [Ledgers -> [Wallet -> Nat]]
      BY DEF Shapes
    <3>2. ASSUME NEW l \in Ledgers, NEW w \in Wallet PROVE paidIn[l][w] >= 0
      <4>1. paidIn[l] \in [Wallet -> Nat]
        BY <3>1
      <4>2. paidIn[l][w] \in Nat
        BY <4>1
      <4>. QED  BY <4>2
    <3>. QED  BY <3>2
  <2>. QED  BY <2>1, <2>2, <2>3 DEF BudgetTypeOK, Shapes
<1>2. DepositsCovered
  <2>1. SUFFICES ASSUME NEW l \in Ledgers \ concluded, NEW s \in entry["player"][l],
                        Modest(s.outcome), paidIn[l]["player"] > 0
                 PROVE  /\ paidIn[l]["player"] <= s.outcome.send
                        /\ Holdings(l) >= s.outcome.receive + paidIn[l]["player"]
    BY DEF DepositsCovered
  <2>2. s.outcome \in Terms(l)
    BY DEF Terms
  <2>. QED  BY <2>1, <2>2 DEF LedgersSound, Money
<1>3. ASSUME ~hasty PROVE
        /\ \A b \in SendResponse(GetBudgetRequest, View("player")) : Modest(b) =>
             ledger["player"] \in concluded \/ Holdings(ledger["player"]) >= Sum(b)
        /\ \A l \in Ledgers : paidIn[l]["player"] > 0 /\ Holdings(l) > 0
                           /\ (\A s \in entry["player"][l] : Modest(s.outcome)) =>
             /\ l = ledger["player"] /\ l \notin concluded
             /\ budget # NoBudget \/ approving.ledger = l
  <2>1. Orderly /\ InTurn
    BY <1>3 DEF Orderly
  <2>2. ASSUME NEW b \in SendResponse(GetBudgetRequest, View("player")), Modest(b),
               ledger["player"] \notin concluded
        PROVE  Holdings(ledger["player"]) >= Sum(b)
    <3>1. b = budget /\ budget # NoBudget
      BY <2>2 DEF SendResponse, GetBudgetRequest, View
    <3>2. Holdings(ledger["player"]) >= 2 * budget.send /\ budget \in Budgets
      BY <2>1, <2>2, <3>1 DEF InTurn, Shapes
    <3>3. PICK l \in Ledgers : l = ledger["player"]
      BY <2>1, <3>1, LedgerNumbers, Wallets DEF InTurn, Shapes
    <3>4. Holdings(l) \in Nat
      BY Amounts
    <3>. QED  BY <2>2, <3>1, <3>2, <3>3, <3>4, HubTotals DEF Modest
  <2>3. ASSUME NEW l \in Ledgers, paidIn[l]["player"] > 0, Holdings(l) > 0,
               \A s \in entry["player"][l] : Modest(s.outcome)
        PROVE  IsCurrent(l)
    <3>1. PaidInto(l)
      BY <2>3 DEF PaidInto, Terms
    <3>2. ~StaysEmpty(l)
      BY <2>3 DEF StaysEmpty
    <3>. QED  BY <2>1, <3>1, <3>2 DEF Orderly
  <2>. QED  BY <2>2, <2>3 DEF IsCurrent
<1>. QED  BY <1>1, <1>2, <1>3 DEF BudgetBacked

\* A player can get back what it has paid in, whatever the hub puts in and however the
\* requests of its application cross; and while the application waits for its answers,
\* the ledger holds the budget it is told of, and only the ledger it can still close
\* holds money of the player (approve-budget-and-fund.ts, close-ledger-and-withdraw.ts).
THEOREM BudgetIsBacked == Spec => []BudgetBacked
<1>1. Init => BudgetInv
  BY BudgetInvInit
<1>2. BudgetInv /\ [Next]_vars => BudgetInv'
  BY BudgetInvStep
<1>3. BudgetInv => BudgetBacked
  BY BudgetInvImpliesBacked
<1>. QED  BY <1>1, <1>2, <1>3, PTL DEF Spec
=================================================================================
