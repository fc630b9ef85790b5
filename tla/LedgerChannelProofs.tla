------------------------- MODULE LedgerChannelProofs -------------------------
(* The money of a ledger is neither made nor lost, the two wallets never sign    *)
(* two states with one turn number, what they are bound to changes only as both *)
(* have asked for, what they are told of it is true, and no crank throws.        *)
EXTENDS LedgerChannel, FiniteSums, SequenceTheorems, FunctionTheorems

------------------------------------------------------------------------------
(* What the outcomes hold. *)

\* What a funded channel takes out of the balances.
Cost == [x \in App |-> FundAmount[x][0] + FundAmount[x][1]]

Amounts(amount, w) == [x \in App |-> amount[x][w]]

\* The parties' amounts are natural numbers, and they add up.
LEMMA AmountFacts ==
  /\ IsFiniteSet(App) /\ App \in SUBSET Nat /\ Cost \in [App -> Nat]
  /\ \A w \in Wallet : Amounts(FundAmount, w) \in [App -> Nat] /\ Amounts(RefundAmount, w) \in [App -> Nat]
  /\ \A x \in App : /\ Cost[x] = Amounts(FundAmount, 0)[x] + Amounts(FundAmount, 1)[x]
                    /\ Cost[x] = Amounts(RefundAmount, 0)[x] + Amounts(RefundAmount, 1)[x]
  /\ 0 \in Wallet /\ 1 \in Wallet /\ Wallet = {0, 1}
<1>1. Wallet = {0, 1} /\ 0 \in Wallet /\ 1 \in Wallet
  BY DEF Wallet, Leader, Follower
<1>2. IsFiniteSet(App) /\ App \in SUBSET Nat
  BY AppAssumption
<1>3. \A x \in App, w \in Wallet : FundAmount[x][w] \in Nat /\ RefundAmount[x][w] \in Nat
  BY AppAssumption
<1>4. \A x \in App : RefundAmount[x][0] + RefundAmount[x][1] = FundAmount[x][0] + FundAmount[x][1]
  BY AppAssumption
<1>5. Cost \in [App -> Nat]
  BY <1>1, <1>3 DEF Cost
<1>6. \A w \in Wallet : Amounts(FundAmount, w) \in [App -> Nat] /\ Amounts(RefundAmount, w) \in [App -> Nat]
  BY <1>3 DEF Amounts
<1>7. \A x \in App : /\ Cost[x] = Amounts(FundAmount, 0)[x] + Amounts(FundAmount, 1)[x]
                     /\ Cost[x] = Amounts(RefundAmount, 0)[x] + Amounts(RefundAmount, 1)[x]
  BY <1>4 DEF Cost, Amounts
<1>. QED  BY <1>1, <1>2, <1>5, <1>6, <1>7

\* Moved is a sum over some of the channels.
LEMMA MovedIsSum ==
  ASSUME NEW amount, NEW apps \in SUBSET App, NEW w
  PROVE  Moved(amount, apps, w) = SumOn(Amounts(amount, w), apps)
<1>1. [x \in apps |-> amount[x][w]] = [y \in apps |-> Amounts(amount, w)[y]]
  BY DEF Amounts
<1>2. Moved(amount, apps, w) = SumAll([x \in apps |-> amount[x][w]])
  BY DEF Moved, SumAll
<1>. QED  BY <1>1, <1>2 DEF SumOn

\* A sum over some of the elements is a natural number, and is added up by element.
LEMMA SumOnNat ==
  ASSUME NEW S, IsFiniteSet(S), NEW f \in [S -> Nat], NEW s \in SUBSET S
  PROVE  SumOn(f, s) \in Nat
<1>1. [y \in s |-> f[y]] \in [s -> Nat] /\ IsFiniteSet(s)
  BY FS_Subset
<1>. QED  BY <1>1, SumNat DEF SumOn

LEMMA SumOnPlus ==
  ASSUME NEW S, IsFiniteSet(S), NEW f \in [S -> Int], NEW g \in [S -> Int], NEW h \in [S -> Int],
         \A x \in S : h[x] = f[x] + g[x], NEW s \in SUBSET S
  PROVE  SumOn(h, s) = SumOn(f, s) + SumOn(g, s)
<1>1. PICK a : a = [y \in s |-> f[y]]
  OBVIOUS
<1>2. PICK b : b = [y \in s |-> g[y]]
  OBVIOUS
<1>3. PICK c : c = [y \in s |-> h[y]]
  OBVIOUS
<1>4. a \in [s -> Int] /\ b \in [s -> Int] /\ c \in [s -> Int] /\ \A x \in s : c[x] = a[x] + b[x]
  BY <1>1, <1>2, <1>3
<1>5. IsFiniteSet(s)
  BY FS_Subset
<1>6. SumAll(c) = SumAll(a) + SumAll(b)
  BY <1>4, <1>5, SumPlus
<1>. QED  BY <1>1, <1>2, <1>3, <1>6 DEF SumOn

\* What the two parties put into some channels, or get back from them, is their cost.
LEMMA MovedFacts ==
  ASSUME NEW apps \in SUBSET App
  PROVE  /\ \A w \in Wallet : Moved(FundAmount, apps, w) \in Nat /\ Moved(RefundAmount, apps, w) \in Nat
         /\ Moved(FundAmount, apps, 0) + Moved(FundAmount, apps, 1) = SumOn(Cost, apps)
         /\ Moved(RefundAmount, apps, 0) + Moved(RefundAmount, apps, 1) = SumOn(Cost, apps)
         /\ SumOn(Cost, apps) \in Nat
<1>1. ASSUME NEW w \in Wallet
      PROVE  Moved(FundAmount, apps, w) \in Nat /\ Moved(RefundAmount, apps, w) \in Nat
  <2>1. SumOn(Amounts(FundAmount, w), apps) \in Nat /\ SumOn(Amounts(RefundAmount, w), apps) \in Nat
    <3>1. Amounts(FundAmount, w) \in [App -> Nat] /\ Amounts(RefundAmount, w) \in [App -> Nat] /\ IsFiniteSet(App)
      BY AmountFacts
    <3>. QED  BY <3>1, SumOnNat
  <2>. QED  BY <2>1, MovedIsSum
<1>2. \A amount : Moved(amount, apps, 0) + Moved(amount, apps, 1)
                    = SumOn(Amounts(amount, 0), apps) + SumOn(Amounts(amount, 1), apps)
  BY MovedIsSum
<1>3. /\ Amounts(FundAmount, 0) \in [App -> Int] /\ Amounts(FundAmount, 1) \in [App -> Int]
      /\ Amounts(RefundAmount, 0) \in [App -> Int] /\ Amounts(RefundAmount, 1) \in [App -> Int]
      /\ Cost \in [App -> Int]
  BY AmountFacts
<1>4. SumOn(Cost, apps) = SumOn(Amounts(FundAmount, 0), apps) + SumOn(Amounts(FundAmount, 1), apps)
  <2>1. \A x \in App : Cost[x] = Amounts(FundAmount, 0)[x] + Amounts(FundAmount, 1)[x]
    BY AmountFacts
  <2>2. IsFiniteSet(App)
    BY AmountFacts
  <2>. QED  BY <1>3, <2>1, <2>2, SumOnPlus
<1>5. SumOn(Cost, apps) = SumOn(Amounts(RefundAmount, 0), apps) + SumOn(Amounts(RefundAmount, 1), apps)
  <2>1. \A x \in App : Cost[x] = Amounts(RefundAmount, 0)[x] + Amounts(RefundAmount, 1)[x]
    BY AmountFacts
  <2>2. IsFiniteSet(App)
    BY AmountFacts
  <2>. QED  BY <1>3, <2>1, <2>2, SumOnPlus
<1>6. SumOn(Cost, apps) \in Nat
  BY AmountFacts, SumOnNat
<1>. QED  BY <1>1, <1>2, <1>4, <1>5, <1>6

\* What the items of an outcome are worth.
Value(items) == [x \in App |-> items[x] * Cost[x]]

LEMMA ValueType ==
  ASSUME NEW items \in [App -> Nat]
  PROVE  Value(items) \in [App -> Nat]
<1>1. \A i, c \in Nat : i * c \in Nat
  OBVIOUS
<1>2. \A x \in App : items[x] \in Nat /\ Cost[x] \in Nat
  BY AmountFacts
<1>. QED  BY <1>1, <1>2 DEF Value

LEMMA FundsAreSums ==
  ASSUME NEW o \in Outcome
  PROVE  Funds(o) = o.bal[0] + o.bal[1] + SumAll(Value(o.items))
<1>1. Value(o.items) = [x \in App |-> o.items[x] * (FundAmount[x][0] + FundAmount[x][1])]
  BY DEF Value, Cost
<1>2. SumAll(Value(o.items))
        = FoldFunction(+, 0, [x \in App |-> o.items[x] * (FundAmount[x][0] + FundAmount[x][1])])
  BY <1>1 DEF SumAll
<1>. QED  BY <1>2 DEF Funds

\* One more item for some of the channels.
OneMore(items, more, apps) ==
  \A x \in App : more[x] = items[x] + (IF x \in apps THEN 1 ELSE 0)

LEMMA ValueOfMore ==
  ASSUME NEW items \in [App -> Nat], NEW more \in [App -> Nat], NEW apps \in SUBSET App,
         OneMore(items, more, apps)
  PROVE  /\ SumAll(Value(more)) = SumAll(Value(items)) + SumOn(Cost, apps)
         /\ SumAll(Value(items)) \in Nat
<1>. DEFINE h == [x \in App |-> IF x \in apps THEN Cost[x] ELSE 0]
<1>1. /\ IsFiniteSet(App) /\ Cost \in [App -> Int] /\ Cost \in [App -> Nat]
      /\ Value(items) \in [App -> Nat] /\ Value(items) \in [App -> Int] /\ Value(more) \in [App -> Int]
  BY AmountFacts, ValueType
<1>2. h \in [App -> Int]
  BY <1>1
<1>3. SumAll(h) = SumOn(Cost, apps)
  BY <1>1, <1>2, SumWhere
<1>4. \A x \in App : Value(more)[x] = Value(items)[x] + h[x]
  <2>. TAKE x \in App
  <2>1. \A i, c \in Nat : (i + 1) * c = i * c + c /\ i * c = i * c + 0
    OBVIOUS
  <2>2. items[x] \in Nat /\ Cost[x] \in Nat
    BY <1>1
  <2>3. Value(more)[x] = more[x] * Cost[x] /\ Value(items)[x] = items[x] * Cost[x]
    BY DEF Value
  <2>4. CASE x \in apps
    <3>1. more[x] = items[x] + 1 /\ h[x] = Cost[x]
      BY <2>4 DEF OneMore
    <3>. QED  BY <2>1, <2>2, <2>3, <3>1, Zenon
  <2>5. CASE x \notin apps
    <3>1. more[x] = items[x] /\ h[x] = 0
      BY <2>2, <2>5 DEF OneMore
    <3>. QED  BY <2>1, <2>2, <2>3, <3>1, Zenon
  <2>. QED  BY <2>4, <2>5
<1>. HIDE DEF h
<1>5. SumAll(Value(more)) = SumAll(Value(items)) + SumAll(h)
  BY <1>1, <1>2, <1>4, SumPlus
<1>6. SumAll(Value(items)) \in Nat
  BY <1>1, SumNat
<1>. QED  BY <1>3, <1>5, <1>6

\* Funding channels moves their cost from the balances to the items.
LEMMA AddKeepsFunds ==
  ASSUME NEW o \in Outcome, NEW apps \in SUBSET App
  PROVE  AddItems(o, apps) \in Outcome /\ Funds(AddItems(o, apps)) = Funds(o)
<1>1. PICK a : a = AddItems(o, apps)
  OBVIOUS
<1>2. \A w \in Wallet : a.bal[w] = o.bal[w] - Moved(FundAmount, apps, w)
  BY <1>1 DEF AddItems
<1>3. OneMore(o.items, a.items, apps)
  BY <1>1 DEF AddItems, OneMore
<1>4. o.bal \in [Wallet -> Int] /\ o.items \in [App -> Nat]
  BY DEF Outcome
<1>5. a \in Outcome
  <2>1. \A w \in Wallet : o.bal[w] - Moved(FundAmount, apps, w) \in Int
    BY <1>4, MovedFacts
  <2>2. \A x \in App : o.items[x] + (IF x \in apps THEN 1 ELSE 0) \in Nat
    BY <1>4
  <2>. QED  BY <1>1, <2>1, <2>2 DEF AddItems, Outcome
<1>6. a.items \in [App -> Nat]
  BY <1>5 DEF Outcome
<1>7. /\ SumAll(Value(a.items)) = SumAll(Value(o.items)) + SumOn(Cost, apps)
      /\ SumAll(Value(o.items)) \in Nat /\ SumOn(Cost, apps) \in Nat
  BY <1>3, <1>4, <1>6, ValueOfMore, MovedFacts
<1>8. /\ a.bal[0] = o.bal[0] - Moved(FundAmount, apps, 0)
      /\ a.bal[1] = o.bal[1] - Moved(FundAmount, apps, 1)
      /\ o.bal[0] \in Int /\ o.bal[1] \in Int
      /\ Moved(FundAmount, apps, 0) \in Nat /\ Moved(FundAmount, apps, 1) \in Nat
  BY <1>2, <1>4, AmountFacts, MovedFacts
<1>9. Moved(FundAmount, apps, 0) + Moved(FundAmount, apps, 1) = SumOn(Cost, apps)
  BY MovedFacts
<1>10. a.bal[0] + a.bal[1] + SumAll(Value(a.items)) = o.bal[0] + o.bal[1] + SumAll(Value(o.items))
  BY <1>7, <1>8, <1>9
<1>. QED  BY <1>1, <1>5, <1>10, FundsAreSums

\* Giving channels back that have an item moves it the other way.
LEMMA RemoveKeepsFunds ==
  ASSUME NEW o \in Outcome, NEW apps \in SUBSET App, \A x \in apps : CanRemove(o, x)
  PROVE  /\ RemoveItems(o, apps) \in Outcome /\ Funds(RemoveItems(o, apps)) = Funds(o)
         /\ \A w \in Wallet : RemoveItems(o, apps).bal[w] >= o.bal[w]
<1>1. PICK a : a = RemoveItems(o, apps)
  OBVIOUS
<1>2. \A w \in Wallet : a.bal[w] = o.bal[w] + Moved(RefundAmount, apps, w)
  BY <1>1 DEF RemoveItems
<1>3. o.bal \in [Wallet -> Int] /\ o.items \in [App -> Nat]
  BY DEF Outcome
<1>4. a \in Outcome
  <2>1. \A w \in Wallet : o.bal[w] + Moved(RefundAmount, apps, w) \in Int
    BY <1>3, MovedFacts
  <2>2. \A x \in App : o.items[x] - (IF x \in apps THEN 1 ELSE 0) \in Nat
    BY <1>3 DEF CanRemove
  <2>. QED  BY <1>1, <2>1, <2>2 DEF RemoveItems, Outcome
<1>5. a.items \in [App -> Nat]
  BY <1>4 DEF Outcome
<1>6. OneMore(a.items, o.items, apps)
  <2>1. \A x \in App : a.items[x] = o.items[x] - (IF x \in apps THEN 1 ELSE 0)
    BY <1>1 DEF RemoveItems
  <2>. QED  BY <1>3, <2>1 DEF OneMore
<1>7. /\ SumAll(Value(o.items)) = SumAll(Value(a.items)) + SumOn(Cost, apps)
      /\ SumAll(Value(a.items)) \in Nat /\ SumOn(Cost, apps) \in Nat
  BY <1>3, <1>5, <1>6, ValueOfMore, MovedFacts
<1>8. /\ a.bal[0] = o.bal[0] + Moved(RefundAmount, apps, 0)
      /\ a.bal[1] = o.bal[1] + Moved(RefundAmount, apps, 1)
      /\ o.bal[0] \in Int /\ o.bal[1] \in Int
      /\ Moved(RefundAmount, apps, 0) \in Nat /\ Moved(RefundAmount, apps, 1) \in Nat
  BY <1>2, <1>3, AmountFacts, MovedFacts
<1>9. Moved(RefundAmount, apps, 0) + Moved(RefundAmount, apps, 1) = SumOn(Cost, apps)
  BY MovedFacts
<1>10. a.bal[0] + a.bal[1] + SumAll(Value(a.items)) = o.bal[0] + o.bal[1] + SumAll(Value(o.items))
  BY <1>7, <1>8, <1>9
<1>11. \A w \in Wallet : a.bal[w] >= o.bal[w]
  BY <1>2, <1>3, MovedFacts
<1>. QED  BY <1>1, <1>4, <1>10, <1>11, FundsAreSums
------------------------------------------------------------------------------
(* What a crank makes of an outcome. *)

\* A finite set of numbers has a bound, and a largest element.
LEMMA FiniteBound ==
  ASSUME NEW S \in SUBSET Nat, IsFiniteSet(S)
  PROVE  \E n \in Nat : \A x \in S : x < n
<1>. DEFINE P == {s \in SUBSET S : \E n \in Nat : \A x \in s : x < n}
<1>1. {} \in P
  OBVIOUS
<1>2. \A s \in SUBSET S : \A x \in S \ s : s \in P => s \union {x} \in P
  <2>. SUFFICES ASSUME NEW s \in SUBSET S, NEW x \in S \ s, s \in P PROVE s \union {x} \in P
    OBVIOUS
  <2>1. PICK n \in Nat : \A y \in s : y < n
    OBVIOUS
  <2>2. x \in Nat
    OBVIOUS
  <2>3. n + x + 1 \in Nat /\ \A y \in s \union {x} : y < n + x + 1
    <3>1. \A y \in s : y \in Nat
      OBVIOUS
    <3>. QED  BY <2>1, <2>2, <3>1
  <2>4. \E k \in Nat : \A y \in s \union {x} : y < k
    BY <2>3
  <2>. QED  BY <2>4
<1>3. SUBSET S \subseteq P
  <2>. HIDE DEF P
  <2>. QED  BY <1>1, <1>2, SubsetInduction
<1>4. S \in P
  BY <1>3
<1>. QED  BY <1>4

LEMMA BoundedMax ==
  ASSUME NEW S \in SUBSET Nat, S # {}, NEW n \in Nat, \A x \in S : x <= n
  PROVE  \E x \in S : \A y \in S : y <= x
<1>. DEFINE T == {k \in Nat : \A x \in S : x <= k}
<1>1. T \in SUBSET Nat /\ T # {}
  OBVIOUS
<1>. HIDE DEF T
<1>2. PICK k \in T : \A j \in T : k <= j
  BY <1>1, LeastElement
<1>3. k \in Nat /\ \A x \in S : x \in Nat /\ x <= k
  BY <1>2 DEF T
<1>4. CASE k \in S
  BY <1>3, <1>4
<1>5. CASE k \notin S
  <2>1. PICK x : x \in S
    OBVIOUS
  <2>2. \A y \in S : y <= k - 1
    <3>. TAKE y \in S
    <3>1. y \in Nat /\ y <= k /\ y # k
      BY <1>3, <1>5
    <3>. QED  BY <1>3, <3>1
  <2>3. k - 1 \in Nat
    <3>1. x \in Nat /\ x <= k - 1
      BY <1>3, <2>1, <2>2
    <3>. QED  BY <1>3, <3>1
  <2>4. k - 1 \in T /\ ~ (k <= k - 1)
    BY <1>3, <2>2, <2>3 DEF T
  <2>. QED  BY <1>2, <2>4
<1>. QED  BY <1>4, <1>5

\* Whether a channel is funded is decided after those that come before it.
Decided(o, apps, n, funded) ==
  \A x \in apps :
    x < n => (x \in funded <=> CanAdd(AddItems(o, {y \in funded : y < x}), x))

LEMMA AffordableExists ==
  ASSUME NEW o, NEW apps \in SUBSET App
  PROVE  \E funded \in SUBSET apps :
           \A x \in apps : x \in funded <=> CanAdd(AddItems(o, {y \in funded : y < x}), x)
<1>. DEFINE P == {n \in Nat : \E funded \in SUBSET {x \in apps : x < n} : Decided(o, apps, n, funded)}
<1>1. apps \in SUBSET Nat /\ IsFiniteSet(apps)
  BY AmountFacts, FS_Subset
<1>2. 0 \in P
  <2>1. \A x \in apps : ~ (x < 0)
    BY <1>1
  <2>2. {} \in SUBSET {x \in apps : x < 0} /\ Decided(o, apps, 0, {})
    BY <2>1 DEF Decided
  <2>. QED  BY <2>2
<1>3. ASSUME NEW n \in Nat, n \in P PROVE n + 1 \in P
  <2>1. PICK funded \in SUBSET {x \in apps : x < n} : Decided(o, apps, n, funded)
    BY <1>3
  <2>. DEFINE with == IF n \in apps /\ CanAdd(AddItems(o, funded), n) THEN funded \union {n} ELSE funded
  <2>2. with \in SUBSET {x \in apps : x < n + 1}
    BY <1>1
  <2>3. ASSUME NEW x \in apps, x < n + 1
        PROVE  /\ {y \in with : y < x} = {y \in funded : y < x}
               /\ x = n => {y \in funded : y < x} = funded
               /\ x # n => x < n /\ (x \in with <=> x \in funded)
    <3>1. x \in Nat /\ \A y \in funded : y \in Nat /\ y < n
      BY <1>1, <2>1
    <3>2. x <= n /\ (x # n => x < n)
      BY <2>3, <3>1
    <3>3. ~ (n < x)
      BY <3>1, <3>2
    <3>4. {y \in with : y < x} = {y \in funded : y < x}
      BY <3>3
    <3>5. x = n => {y \in funded : y < x} = funded
      BY <3>1
    <3>6. x # n => (x \in with <=> x \in funded)
      OBVIOUS
    <3>. QED  BY <3>2, <3>4, <3>5, <3>6
  <2>4. n \notin funded
    BY <2>1
  <2>5. ASSUME NEW x \in apps, x < n + 1
        PROVE  x \in with <=> CanAdd(AddItems(o, {y \in with : y < x}), x)
    <3>1. CASE x = n
      <4>1. {y \in with : y < x} = funded
        BY <2>3, <2>5, <3>1
      <4>2. x \in with <=> CanAdd(AddItems(o, funded), x)
        BY <2>4, <3>1
      <4>. QED  BY <4>1, <4>2
    <3>2. CASE x # n
      <4>1. {y \in with : y < x} = {y \in funded : y < x} /\ x < n /\ (x \in with <=> x \in funded)
        BY <2>3, <2>5, <3>2
      <4>2. x \in funded <=> CanAdd(AddItems(o, {y \in funded : y < x}), x)
        BY <2>1, <4>1 DEF Decided
      <4>. QED  BY <4>1, <4>2, Zenon
    <3>. QED  BY <3>1, <3>2
  <2>6. Decided(o, apps, n + 1, with)
    BY <2>5 DEF Decided
  <2>. HIDE DEF with
  <2>. QED  BY <2>2, <2>6
<1>4. Nat \subseteq P
  <2>. HIDE DEF P
  <2>. QED  BY <1>2, <1>3, NatSetInduction
<1>5. PICK n \in Nat : \A x \in apps : x < n
  BY <1>1, FiniteBound
<1>6. PICK funded \in SUBSET {x \in apps : x < n} : Decided(o, apps, n, funded)
  BY <1>4
<1>. QED  BY <1>5, <1>6 DEF Decided

\* An outcome in which nobody has less than nothing.
Solvent(o) == o \in Outcome /\ \A w \in Wallet : o.bal[w] >= 0

\* What can be afforded is paid from what is there.
LEMMA AffordableFacts ==
  ASSUME NEW o, Solvent(o), NEW apps \in SUBSET App
  PROVE  Affordable(o, apps) \in SUBSET apps /\ Solvent(AddItems(o, Affordable(o, apps)))
<1>1. PICK A : A = Affordable(o, apps)
  OBVIOUS
<1>2. /\ A \in SUBSET apps
      /\ \A x \in apps : x \in A <=> CanAdd(AddItems(o, {y \in A : y < x}), x)
  BY <1>1, AffordableExists DEF Affordable
<1>3. AddItems(o, A) \in Outcome
  BY <1>2, AddKeepsFunds DEF Solvent
<1>4. o.bal \in [Wallet -> Int] /\ IsFiniteSet(App) /\ App \in SUBSET Nat
  BY AmountFacts DEF Solvent, Outcome
<1>5. \A s \in SUBSET App : \A w \in Wallet :
        /\ AddItems(o, s).bal[w] = o.bal[w] - SumOn(Amounts(FundAmount, w), s)
        /\ Amounts(FundAmount, w) \in [App -> Nat]
  BY AmountFacts, MovedIsSum DEF AddItems
<1>6. ASSUME NEW w \in Wallet PROVE AddItems(o, A).bal[w] >= 0
  <2>1. PICK f : f = Amounts(FundAmount, w)
    OBVIOUS
  <2>2. f \in [App -> Int] /\ f \in [App -> Nat]
    BY <2>1, AmountFacts
  <2>3. /\ SumOn(f, {}) = 0
        /\ \A s \in SUBSET App : \A x \in App \ s : SumOn(f, s \union {x}) = f[x] + SumOn(f, s)
        /\ \A s \in SUBSET App : SumOn(f, s) \in Int
    BY <1>4, <2>2, SumOnFacts
  <2>4. CASE A = {}
    BY <1>4, <1>5, <2>1, <2>3, <2>4 DEF Solvent
  <2>5. CASE A # {}
    <3>1. A \in SUBSET Nat /\ IsFiniteSet(A)
      BY <1>2, <1>4, FS_Subset
    <3>2. PICK n \in Nat : \A x \in A : x < n
      BY <3>1, FiniteBound
    <3>3. \A x \in A : x <= n
      BY <3>1, <3>2
    <3>4. PICK x \in A : \A y \in A : y <= x
      BY <2>5, <3>1, <3>3, BoundedMax
    <3>5. PICK s : s = {y \in A : y < x}
      OBVIOUS
    <3>6. s \union {x} = A /\ x \in App \ s /\ s \in SUBSET App
      <4>1. x \in Nat /\ \A y \in A : y \in Nat /\ (y < x \/ y = x)
        BY <3>1, <3>4
      <4>2. A \in SUBSET App /\ ~ (x < x)
        BY <1>2, <4>1
      <4>. QED  BY <3>5, <4>1, <4>2
    <3>7. CanAdd(AddItems(o, s), x)
      BY <1>2, <3>5
    <3>8. AddItems(o, s).bal[w] >= f[x]
      BY <2>1, <3>6, <3>7 DEF CanAdd, Amounts
    <3>9. SumOn(f, A) = f[x] + SumOn(f, s) /\ SumOn(f, s) \in Int /\ f[x] \in Int
      BY <2>2, <2>3, <3>6
    <3>10. /\ AddItems(o, s).bal[w] = o.bal[w] - SumOn(f, s)
           /\ AddItems(o, A).bal[w] = o.bal[w] - SumOn(f, A) /\ o.bal[w] \in Int
      BY <1>2, <1>4, <1>5, <2>1, <3>6
    <3>. QED  BY <3>8, <3>9, <3>10
  <2>. QED  BY <2>4, <2>5
<1>. QED  BY <1>1, <1>2, <1>3, <1>6 DEF Solvent

\* Building an outcome conserves the funds.
LEMMA BuildKeepsFunds ==
  ASSUME NEW reqs, NEW o, Solvent(o), NEW keys
  PROVE  LET built == BuildOutcome(reqs, o, keys).outcome
         IN  Solvent(built) /\ Funds(built) = Funds(o)
<1>1. PICK removed : removed = {x \in {y \in App : <<"defund", y>> \in keys} : CanRemove(o, x)}
  OBVIOUS
<1>2. PICK rest : rest = RemoveItems(o, removed)
  OBVIOUS
<1>3. PICK apps : apps = {x \in App : <<"fund", x>> \in keys}
  OBVIOUS
<1>4. PICK added : added = Affordable(rest, apps)
  OBVIOUS
<1>5. BuildOutcome(reqs, o, keys).outcome = AddItems(rest, added)
  BY <1>1, <1>2, <1>3, <1>4 DEF BuildOutcome
<1>6. removed \in SUBSET App /\ (\A x \in removed : CanRemove(o, x)) /\ apps \in SUBSET App
  BY <1>1, <1>3
<1>7. Solvent(rest) /\ Funds(rest) = Funds(o)
  <2>1. o \in Outcome /\ o.bal \in [Wallet -> Int] /\ \A w \in Wallet : o.bal[w] >= 0
    BY DEF Solvent, Outcome
  <2>2. rest \in Outcome /\ Funds(rest) = Funds(o) /\ \A w \in Wallet : rest.bal[w] >= o.bal[w]
    BY <1>2, <1>6, <2>1, RemoveKeepsFunds
  <2>3. rest.bal \in [Wallet -> Int]
    BY <2>2 DEF Outcome
  <2>4. ASSUME NEW w \in Wallet PROVE rest.bal[w] >= 0
    <3>1. rest.bal[w] \in Int /\ o.bal[w] \in Int /\ rest.bal[w] >= o.bal[w] /\ o.bal[w] >= 0
      BY <2>1, <2>2, <2>3
    <3>. QED  BY <3>1
  <2>. QED  BY <2>2, <2>4 DEF Solvent
<1>8. added \in SUBSET App /\ Solvent(AddItems(rest, added))
  BY <1>4, <1>6, <1>7, AffordableFacts
<1>9. Funds(AddItems(rest, added)) = Funds(rest)
  BY <1>7, <1>8, AddKeepsFunds DEF Solvent
<1>. QED  BY <1>5, <1>7, <1>8, <1>9
------------------------------------------------------------------------------
(* What a crank comes to. *)

\* The requests a crank works on.
IsReqs(reqs) == reqs \in [RequestKey -> RequestStatus \union {NotLoaded}]

LEMMA MarkType ==
  ASSUME NEW reqs, IsReqs(reqs), NEW keys, NEW st \in RequestStatus
  PROVE  IsReqs(Mark(reqs, keys, st))
BY DEF IsReqs, Mark

LEMMA MarkSuccessesType ==
  ASSUME NEW reqs, IsReqs(reqs), NEW keys, NEW outcome
  PROVE  IsReqs(MarkSuccesses(reqs, keys, outcome))
<1>1. "succeeded" \in RequestStatus
  BY DEF RequestStatus, Terminal
<1>. QED  BY <1>1, MarkType DEF MarkSuccesses

LEMMA MarkPendingType ==
  ASSUME NEW reqs, IsReqs(reqs), NEW outcome
  PROVE  IsReqs(MarkPending(reqs, outcome))
<1>1. "pending" \in RequestStatus
  BY DEF RequestStatus
<1>. QED  BY <1>1, MarkType DEF MarkPending

LEMMA BuildType ==
  ASSUME NEW reqs, IsReqs(reqs), NEW outcome, NEW keys
  PROVE  IsReqs(BuildOutcome(reqs, outcome, keys).reqs)
<1>1. "inconsistent" \in RequestStatus /\ "insufficient-funds" \in RequestStatus
  BY DEF RequestStatus, Terminal
<1>2. \E a, b : BuildOutcome(reqs, outcome, keys).reqs
                  = Mark(Mark(reqs, a, "inconsistent"), b, "insufficient-funds")
  BY DEF BuildOutcome
<1>. QED  BY <1>1, <1>2, MarkType

LEMMA ProcessType ==
  ASSUME NEW reqs, IsReqs(reqs), NEW outcome
  PROVE  IsReqs(ProcessAgreedState(reqs, outcome))
<1>1. "queued" \in RequestStatus /\ "cancelled" \in RequestStatus
  BY DEF RequestStatus, Terminal
<1>2. PICK judged : judged = MarkSuccesses(reqs, Loaded(reqs) \ CancellationDefunds(reqs), outcome)
  OBVIOUS
<1>3. PICK reset : reset = Mark(judged, WithStatus(judged, "pending"), "queued")
  OBVIOUS
<1>4. PICK applied : applied = {k \in CancellationDefunds(reqs) : reset[Fund(k[2])] = "queued"}
  OBVIOUS
<1>5. PICK canceled : canceled = Mark(reset, applied \union {Fund(k[2]) : k \in applied}, "cancelled")
  OBVIOUS
<1>6. ProcessAgreedState(reqs, outcome)
        = MarkSuccesses(canceled, CancellationDefunds(reqs) \ applied, outcome)
  BY <1>2, <1>3, <1>4, <1>5 DEF ProcessAgreedState
<1>7. IsReqs(judged)
  BY <1>2, MarkSuccessesType
<1>8. IsReqs(reset)
  BY <1>1, <1>3, <1>7, MarkType
<1>9. IsReqs(canceled)
  BY <1>1, <1>5, <1>8, MarkType
<1>. QED  BY <1>6, <1>9, MarkSuccessesType

\* A comparison keeps to the baseline, or to what it builds from there.
LEMMA ComparisonFacts ==
  ASSUME NEW reqs, IsReqs(reqs), NEW baseline, Solvent(baseline), NEW candidate,
         NEW c, c = Comparison(reqs, baseline, candidate)
  PROVE  /\ c.type # "none" /\ IsReqs(c.reqs)
         /\ c.type \in {"some-overlap", "no-overlap"} =>
              Solvent(c.outcome) /\ Funds(c.outcome) = Funds(baseline)
<1>1. PICK overlap : overlap = {k \in Loaded(reqs) \ CancellationDefunds(reqs) :
                                  k[2] \in ChangedApps(baseline, candidate)}
  OBVIOUS
<1>2. PICK built : built = BuildOutcome(reqs, baseline, overlap)
  OBVIOUS
<1>3. IsReqs(built.reqs) /\ Solvent(built.outcome) /\ Funds(built.outcome) = Funds(baseline)
  BY <1>2, BuildType, BuildKeepsFunds
<1>. DEFINE Is(t, r, o) == c = [type |-> t, reqs |-> r, outcome |-> o]
<1>4. \/ Is("full-agreement", reqs, candidate)
      \/ Is("cancellation error", reqs, baseline)
      \/ Is("no-overlap", reqs, baseline)
      \/ Is("some-overlap", built.reqs, built.outcome)
      \/ Is("full-agreement", built.reqs, candidate)
      \/ Is("outcomes inconsistent", built.reqs, baseline)
  BY <1>1, <1>2 DEF Comparison
<1>. HIDE DEF Is
<1>5. \E t, r, o : /\ Is(t, r, o)
                   /\ t # "none" /\ (r = reqs \/ r = built.reqs)
                   /\ t \in {"some-overlap", "no-overlap"} => o = baseline \/ o = built.outcome
  <2>1. CASE Is("full-agreement", reqs, candidate)
    BY <2>1
  <2>2. CASE Is("cancellation error", reqs, baseline)
    BY <2>2
  <2>3. CASE Is("no-overlap", reqs, baseline)
    BY <2>3
  <2>4. CASE Is("some-overlap", built.reqs, built.outcome)
    BY <2>4
  <2>5. CASE Is("full-agreement", built.reqs, candidate)
    BY <2>5
  <2>6. CASE Is("outcomes inconsistent", built.reqs, baseline)
    BY <2>6
  <2>. QED  BY <1>4, <2>1, <2>2, <2>3, <2>4, <2>5, <2>6
<1>6. PICK t, r, o : /\ Is(t, r, o)
                     /\ t # "none" /\ (r = reqs \/ r = built.reqs)
                     /\ t \in {"some-overlap", "no-overlap"} => o = baseline \/ o = built.outcome
  BY <1>5
<1>7. c.type = t /\ c.reqs = r /\ c.outcome = o
  BY <1>6 DEF Is
<1>. QED  BY <1>3, <1>6, <1>7

\* A state that a crank makes up: its outcome is worth what the given one is.
Builds(s, turnNum, outcome) ==
  \E o : Solvent(o) /\ Funds(o) = Funds(outcome) /\ s = ProtocolState(turnNum, o)

LEMMA LeaderCrank ==
  ASSUME NEW reqs, IsReqs(reqs), NEW agreed, Solvent(agreed.outcome), NEW before,
         NEW result, result = CrankAsLeaderInAgreement(reqs, agreed, before),
         result.error = "none"
  PROVE  /\ IsReqs(result.reqs)
         /\ \/ result.states = before
            \/ \E s : Builds(s, agreed.turnNum + 1, agreed.outcome) /\ result.states = Append(before, s)
<1>1. PICK processed : processed = ProcessAgreedState(reqs, agreed.outcome)
  OBVIOUS
<1>2. PICK built : built = BuildOutcome(processed, agreed.outcome, WithStatus(processed, "queued"))
  OBVIOUS
<1>3. IsReqs(built.reqs) /\ Solvent(built.outcome) /\ Funds(built.outcome) = Funds(agreed.outcome)
  BY <1>1, <1>2, ProcessType, BuildType, BuildKeepsFunds
<1>4. \/ result = Thrown("process")
      \/ result = Cranked(built.reqs, before)
      \/ result = Cranked(MarkPending(built.reqs, built.outcome),
                          Append(before, ProtocolState(agreed.turnNum + 1, built.outcome)))
  BY <1>1, <1>2 DEF CrankAsLeaderInAgreement
<1>5. result # Thrown("process")
  BY DEF Thrown
<1>6. IsReqs(MarkPending(built.reqs, built.outcome))
  BY <1>3, MarkPendingType
<1>7. Builds(ProtocolState(agreed.turnNum + 1, built.outcome), agreed.turnNum + 1, agreed.outcome)
  BY <1>3 DEF Builds
<1>. QED  BY <1>3, <1>4, <1>5, <1>6, <1>7 DEF Cranked

\* A list of two.
LEMMA AppendToOne ==
  ASSUME NEW x, NEW s
  PROVE  Append(<<x>>, s) = <<x, s>>
<1>1. PICK S : S = {x, s}
  OBVIOUS
<1>2. PICK b : b = <<x>>
  OBVIOUS
<1>3. b \in Seq(S) /\ Len(b) = 1 /\ b[1] = x /\ s \in S
  BY <1>1, <1>2
<1>4. PICK q : q = Append(b, s)
  OBVIOUS
<1>5. PICK p : p = <<x, s>>
  OBVIOUS
<1>6. p \in Seq(S) /\ Len(p) = 2 /\ p[1] = x /\ p[2] = s
  BY <1>1, <1>5
<1>7. q \in Seq(S) /\ Len(q) = Len(b) + 1 /\ q[Len(b) + 1] = s /\ q[1] = b[1]
  <2>1. b \in Seq(S) /\ s \in S
    BY <1>3
  <2>2. Append(b, s) \in Seq(S)
    BY <2>1
  <2>3. Len(Append(b, s)) = Len(b) + 1
    BY <2>1
  <2>4. Append(b, s)[Len(b) + 1] = s
    BY <2>1
  <2>5. \A i \in 1 .. Len(b) : Append(b, s)[i] = b[i]
    BY <2>1
  <2>6. 1 \in 1 .. Len(b)
    BY <1>3
  <2>. QED  BY <1>4, <2>2, <2>3, <2>4, <2>5, <2>6, Zenon
<1>8. q[1] = x /\ q[2] = s /\ Len(q) = 2
  BY <1>3, <1>7
<1>9. \A i \in 1 .. Len(q) : i = 1 \/ i = 2
  BY <1>8
<1>10. \A i \in 1 .. Len(q) : q[i] = p[i]
  BY <1>6, <1>8, <1>9
<1>11. q = p
  BY <1>6, <1>7, <1>8, <1>10, SeqEqual
<1>. QED  BY <1>2, <1>4, <1>5, <1>11

LEMMA LeaderCounterCrank ==
  ASSUME NEW reqs, IsReqs(reqs), NEW agreed, Solvent(agreed.outcome),
         NEW counter, Solvent(counter.outcome),
         NEW result, result = CrankAsLeaderInCounterProposal(reqs, agreed, counter),
         result.error = "none"
  PROVE  /\ IsReqs(result.reqs)
         /\ \/ result.states = <<counter>>
            \/ \E s : Builds(s, counter.turnNum + 1, counter.outcome) /\ result.states = <<counter, s>>
<1>1. PICK c : c = Comparison(reqs, agreed.outcome, counter.outcome)
  OBVIOUS
<1>2. c.type # "none" /\ IsReqs(c.reqs)
  BY <1>1, ComparisonFacts
<1>3. \/ result = Thrown(c.type)
      \/ result = CrankAsLeaderInAgreement(c.reqs, counter, <<counter>>)
  BY <1>1 DEF CrankAsLeaderInCounterProposal
<1>4. result # Thrown(c.type)
  BY <1>2 DEF Thrown
<1>5. result = CrankAsLeaderInAgreement(c.reqs, counter, <<counter>>)
  BY <1>3, <1>4
<1>6. PICK before : before = <<counter>>
  OBVIOUS
<1>7. result = CrankAsLeaderInAgreement(c.reqs, counter, before)
  BY <1>5, <1>6
<1>8. /\ IsReqs(result.reqs)
      /\ \/ result.states = before
         \/ \E s : Builds(s, counter.turnNum + 1, counter.outcome) /\ result.states = Append(before, s)
  BY <1>2, <1>7, LeaderCrank
<1>9. \A s : Append(before, s) = <<counter, s>>
  BY <1>6, AppendToOne
<1>. QED  BY <1>6, <1>8, <1>9

LEMMA FollowerCrank ==
  ASSUME NEW reqs, IsReqs(reqs), NEW agreed,
         NEW result, result = CrankAsFollowerInAgreement(reqs, agreed), result.error = "none"
  PROVE  IsReqs(result.reqs) /\ result.states = <<>>
<1>1. \/ result = Thrown("process")
      \/ result = Cranked(ProcessAgreedState(reqs, agreed.outcome), <<>>)
  BY DEF CrankAsFollowerInAgreement
<1>. QED  BY <1>1, ProcessType DEF Thrown, Cranked

LEMMA FollowerProposalCrank ==
  ASSUME NEW reqs, IsReqs(reqs), NEW agreed, Solvent(agreed.outcome), NEW proposed,
         NEW result, result = CrankAsFollowerInProposal(reqs, agreed, proposed),
         result.error = "none"
  PROVE  /\ IsReqs(result.reqs)
         /\ \/ result.states = <<proposed>>
            \/ \E s : Builds(s, proposed.turnNum + 1, agreed.outcome) /\ result.states = <<s>>
<1>1. PICK c : c = Comparison(ProcessAgreedState(reqs, agreed.outcome), agreed.outcome,
                              proposed.outcome)
  OBVIOUS
<1>2. /\ c.type # "none" /\ IsReqs(c.reqs)
      /\ c.type \in {"some-overlap", "no-overlap"} =>
           Solvent(c.outcome) /\ Funds(c.outcome) = Funds(agreed.outcome)
  BY <1>1, ProcessType, ComparisonFacts
<1>3. \/ result = Thrown("process")
      \/ result = Cranked(ProcessAgreedState(c.reqs, proposed.outcome), <<proposed>>)
      \/ /\ c.type \in {"some-overlap", "no-overlap"}
         /\ result = Cranked(MarkPending(c.reqs, c.outcome),
                             <<ProtocolState(proposed.turnNum + 1, c.outcome)>>)
      \/ result = Thrown(c.type)
  BY <1>1 DEF CrankAsFollowerInProposal
<1>4. result # Thrown("process") /\ result # Thrown(c.type)
  BY <1>2 DEF Thrown
<1>5. IsReqs(ProcessAgreedState(c.reqs, proposed.outcome)) /\ IsReqs(MarkPending(c.reqs, c.outcome))
  BY <1>2, ProcessType, MarkPendingType
<1>6. c.type \in {"some-overlap", "no-overlap"} =>
        Builds(ProtocolState(proposed.turnNum + 1, c.outcome), proposed.turnNum + 1, agreed.outcome)
  BY <1>2 DEF Builds
<1>. QED  BY <1>3, <1>4, <1>5, <1>6 DEF Cranked

\* Which states a crank of w comes to, and from which stored ones.
LeaderSigns(states) ==
  \/ \E a \in stored[Leader] :
       /\ IsAgreement(Leader, a)
       /\ \E s : Builds(s, a.turnNum + 1, a.outcome) /\ states = <<s>>
  \/ \E a, p, c \in stored[Leader] :
       /\ IsCounterProposal(Leader, a, p, c)
       /\ \/ states = <<Content(c)>>
          \/ \E s : Builds(s, c.turnNum + 1, c.outcome) /\ states = <<Content(c), s>>

FollowerSigns(states) ==
  \E a, p \in stored[Follower] :
    /\ IsProposal(Follower, a, p)
    /\ \/ states = <<Content(p)>>
       \/ \E s : Builds(s, p.turnNum + 1, a.outcome) /\ states = <<s>>

\* Without an outcome that leaves somebody less than nothing, in a store ...
SolventStore ==
  /\ \A w \in Wallet : \A s \in stored[w] : Solvent(s.outcome)
  /\ requests \in [Wallet -> [RequestKey -> RequestStatus \union {NotMade}]]

LEMMA ActiveType ==
  ASSUME SolventStore, NEW w \in Wallet
  PROVE  IsReqs(ActiveRequests(w))
<1>1. \A k \in RequestKey : requests[w][k] \in RequestStatus \union {NotMade}
  BY DEF SolventStore
<1>2. \A k \in RequestKey :
        (IF requests[w][k] \in {"queued", "pending"} THEN requests[w][k] ELSE NotLoaded)
          \in RequestStatus \union {NotLoaded}
  BY <1>1 DEF NotMade
<1>. QED  BY <1>2 DEF IsReqs, ActiveRequests

LEMMA ContentFields ==
  ASSUME NEW s
  PROVE  Content(s).turnNum = s.turnNum /\ Content(s).outcome = s.outcome
BY DEF Content, ProtocolState

LEMMA AppendToNone ==
  ASSUME NEW s
  PROVE  Append(<<>>, s) = <<s>>
OBVIOUS

\* ... the leader signs nothing, or one of these,
LEMMA LeaderCranks ==
  ASSUME SolventStore, NEW result \in CrankResults(Leader), result.error = "none"
  PROVE  IsReqs(result.reqs) /\ (result.states = <<>> \/ LeaderSigns(result.states))
<1>. PICK reqs : reqs = ActiveRequests(Leader)
  OBVIOUS
<1>1. IsReqs(reqs) /\ Leader \in Wallet
  BY ActiveType DEF Wallet
<1>2. \/ \E a \in stored[Leader] :
           IsAgreement(Leader, a) /\ result = CrankAsLeaderInAgreement(reqs, Content(a), <<>>)
      \/ \E a, p, c \in stored[Leader] :
           /\ IsCounterProposal(Leader, a, p, c)
           /\ result = CrankAsLeaderInCounterProposal(reqs, Content(a), Content(c))
  BY DEF CrankResults
<1>3. CASE \E a \in stored[Leader] :
             IsAgreement(Leader, a) /\ result = CrankAsLeaderInAgreement(reqs, Content(a), <<>>)
  <2>1. PICK a \in stored[Leader] :
          IsAgreement(Leader, a) /\ result = CrankAsLeaderInAgreement(reqs, Content(a), <<>>)
    BY <1>3
  <2>2. Solvent(Content(a).outcome) /\ Content(a).turnNum = a.turnNum /\ Content(a).outcome = a.outcome
    BY <1>1, ContentFields DEF SolventStore
  <2>3. PICK none : none = <<>>
    OBVIOUS
  <2>4. result = CrankAsLeaderInAgreement(reqs, Content(a), none)
    BY <2>1, <2>3
  <2>5. /\ IsReqs(result.reqs)
        /\ \/ result.states = none
           \/ \E s : Builds(s, a.turnNum + 1, a.outcome) /\ result.states = Append(none, s)
    BY <1>1, <2>2, <2>4, LeaderCrank
  <2>6. \A s : Append(none, s) = <<s>>
    BY <2>3, AppendToNone
  <2>. QED  BY <2>1, <2>3, <2>5, <2>6 DEF LeaderSigns
<1>4. CASE \E a, p, c \in stored[Leader] :
             /\ IsCounterProposal(Leader, a, p, c)
             /\ result = CrankAsLeaderInCounterProposal(reqs, Content(a), Content(c))
  <2>1. PICK a, p, c \in stored[Leader] :
          /\ IsCounterProposal(Leader, a, p, c)
          /\ result = CrankAsLeaderInCounterProposal(reqs, Content(a), Content(c))
    BY <1>4
  <2>2. /\ Solvent(Content(a).outcome) /\ Solvent(Content(c).outcome)
        /\ Content(c).turnNum = c.turnNum /\ Content(c).outcome = c.outcome
    BY <1>1, ContentFields DEF SolventStore
  <2>3. /\ IsReqs(result.reqs)
        /\ \/ result.states = <<Content(c)>>
           \/ \E s : /\ Builds(s, Content(c).turnNum + 1, Content(c).outcome)
                     /\ result.states = <<Content(c), s>>
    BY <1>1, <2>1, <2>2, LeaderCounterCrank
  <2>. QED  BY <2>1, <2>2, <2>3 DEF LeaderSigns
<1>. QED  BY <1>2, <1>3, <1>4

\* ... and the follower nothing, or one of these.
LEMMA FollowerCranks ==
  ASSUME SolventStore, NEW result \in CrankResults(Follower), result.error = "none"
  PROVE  IsReqs(result.reqs) /\ (result.states = <<>> \/ FollowerSigns(result.states))
<1>. PICK reqs : reqs = ActiveRequests(Follower)
  OBVIOUS
<1>1. IsReqs(reqs) /\ Follower \in Wallet /\ Follower # Leader
  BY ActiveType DEF Wallet, Leader, Follower
<1>2. \/ \E a \in stored[Follower] : result = CrankAsFollowerInAgreement(reqs, Content(a))
      \/ \E a, p \in stored[Follower] :
           IsProposal(Follower, a, p) /\ result = CrankAsFollowerInProposal(reqs, Content(a), Content(p))
  BY <1>1 DEF CrankResults
<1>3. CASE \E a \in stored[Follower] : result = CrankAsFollowerInAgreement(reqs, Content(a))
  BY <1>1, <1>3, FollowerCrank
<1>4. CASE \E a, p \in stored[Follower] :
             IsProposal(Follower, a, p) /\ result = CrankAsFollowerInProposal(reqs, Content(a), Content(p))
  <2>1. PICK a, p \in stored[Follower] :
          IsProposal(Follower, a, p) /\ result = CrankAsFollowerInProposal(reqs, Content(a), Content(p))
    BY <1>4
  <2>2. /\ Solvent(Content(a).outcome) /\ Content(a).outcome = a.outcome
        /\ Content(p).turnNum = p.turnNum
    BY <1>1, ContentFields DEF SolventStore
  <2>3. /\ IsReqs(result.reqs)
        /\ \/ result.states = <<Content(p)>>
           \/ \E s : /\ Builds(s, Content(p).turnNum + 1, Content(a).outcome)
                     /\ result.states = <<s>>
    BY <1>1, <2>1, <2>2, FollowerProposalCrank
  <2>. QED  BY <2>1, <2>2, <2>3 DEF FollowerSigns
<1>. QED  BY <1>2, <1>3, <1>4
------------------------------------------------------------------------------
(* What a store keeps. *)

\* The signatures of a state among several.
Signatures(c, states) == UNION {t.signers : t \in {u \in states : Content(u) = c}}

LEMMA SignedFields ==
  ASSUME NEW s, NEW signers
  PROVE  /\ Signed(s, signers).turnNum = s.turnNum /\ Signed(s, signers).outcome = s.outcome
         /\ Signed(s, signers).signers = signers /\ Content(Signed(s, signers)) = Content(s)
BY DEF Signed, Content, ProtocolState

LEMMA SameContent ==
  ASSUME NEW s, NEW t
  PROVE  Content(s) = Content(t) <=> s.turnNum = t.turnNum /\ s.outcome = t.outcome
<1>1. Content(s) = Content(t) => s.turnNum = t.turnNum /\ s.outcome = t.outcome
  BY ContentFields
<1>. QED  BY <1>1 DEF Content, ProtocolState

\* What is kept is one of the states there were, with all the signatures given.
LEMMA AddedAreJoined ==
  ASSUME NEW states, NEW more, NEW t \in AddStates(states, more)
  PROVE  \E s \in states \union more :
           Content(t) = Content(s) /\ t.signers = Signatures(Content(s), states \union more)
<1>1. PICK all : all = states \union more
  OBVIOUS
<1>2. PICK s \in all : t = Signed(s, Signatures(Content(s), all))
  BY <1>1 DEF AddStates, Signatures
<1>3. Content(t) = Content(s) /\ t.signers = Signatures(Content(s), all)
  BY <1>2, SignedFields
<1>. QED  BY <1>1, <1>2, <1>3

\* A signed state as FundsConserved asks for it.
SoundState(s) ==
  /\ s.turnNum \in 3 .. setting.maxTurnNum /\ Solvent(s.outcome)
  /\ s.signers \in (SUBSET Wallet) \ {{}}
  /\ Funds(s.outcome) = setting.balance[0] + setting.balance[1]

LEMMA AddedAreSound ==
  ASSUME NEW states, NEW more, \A s \in states \union more : SoundState(s),
         NEW t \in AddStates(states, more)
  PROVE  SoundState(t)
<1>1. PICK s \in states \union more :
        Content(t) = Content(s) /\ t.signers = Signatures(Content(s), states \union more)
  BY AddedAreJoined
<1>2. SoundState(s) /\ t.turnNum = s.turnNum /\ t.outcome = s.outcome
  BY <1>1, SameContent
<1>3. t.signers \subseteq Wallet
  BY <1>1 DEF Signatures, SoundState
<1>4. s.signers \subseteq t.signers /\ s.signers # {}
  BY <1>1, <1>2 DEF Signatures, SoundState
<1>. QED  BY <1>2, <1>3, <1>4 DEF SoundState

\* The inductive invariant behind FundsConserved.
FundsInv ==
  /\ setting \in Settings /\ DOMAIN stored = Wallet
  /\ requests \in [Wallet -> [RequestKey -> RequestStatus \union {NotMade}]]
  /\ \A s \in SignedStates : SoundState(s)

LEMMA FundsInvImplies == FundsInv => FundsConserved
<1>. SUFFICES ASSUME FundsInv PROVE FundsConserved
  OBVIOUS
<1>1. \A s \in SignedStates : SoundState(s)
  BY DEF FundsInv
<1>2. LedgerTypeOK
  BY <1>1 DEF FundsInv, LedgerTypeOK, SoundState, Solvent
<1>. QED  BY <1>1, <1>2 DEF FundsConserved, SoundState, Solvent

LEMMA FundsInvStores == FundsInv => SolventStore
<1>. SUFFICES ASSUME FundsInv PROVE SolventStore
  OBVIOUS
<1>1. \A w \in Wallet : stored[w] \subseteq SignedStates
  BY DEF SignedStates
<1>. QED  BY <1>1 DEF FundsInv, SolventStore, SoundState

LEMMA OpeningFacts ==
  ASSUME NEW balance \in [Wallet -> Nat]
  PROVE  /\ Solvent(Opening(balance).outcome) /\ Opening(balance).turnNum = 3
         /\ Funds(Opening(balance).outcome) = balance[0] + balance[1]
<1>1. PICK items : items = [x \in App |-> 0]
  OBVIOUS
<1>2. PICK o : o = [bal |-> balance, items |-> items]
  OBVIOUS
<1>3. Opening(balance).turnNum = 3 /\ Opening(balance).outcome = o
  BY <1>1, <1>2 DEF Opening, ProtocolState
<1>4. o \in Outcome /\ o.bal = balance /\ o.items = items /\ items \in [App -> Nat]
  BY <1>1, <1>2 DEF Outcome
<1>5. Value(items) \in [App -> Int] /\ IsFiniteSet(App)
  BY <1>4, ValueType, AmountFacts
<1>6. \A x \in App : Value(items)[x] = 0
  <2>1. \A c \in Nat : 0 * c = 0
    OBVIOUS
  <2>. QED  BY <1>1, <2>1, AmountFacts DEF Value
<1>7. SumAll(Value(items)) = 0
  BY <1>5, <1>6, SumZero
<1>8. Funds(o) = balance[0] + balance[1]
  <2>1. Funds(o) = balance[0] + balance[1] + 0
    BY <1>4, <1>7, FundsAreSums
  <2>. QED  BY <2>1, AmountFacts
<1>9. Solvent(o)
  BY <1>4 DEF Solvent
<1>. QED  BY <1>3, <1>8, <1>9

LEMMA FundsInit == Init => FundsInv
<1>. SUFFICES ASSUME Init PROVE FundsInv
  OBVIOUS
<1>1. setting \in Settings /\ setting.balance \in [Wallet -> Nat] /\ setting.maxTurnNum \in Nat
      /\ setting.maxTurnNum >= 3
  BY LedgerAssumption DEF Init
<1>2. DOMAIN stored = Wallet /\ requests \in [Wallet -> [RequestKey -> RequestStatus \union {NotMade}]]
  BY DEF Init
<1>3. ASSUME NEW s \in SignedStates PROVE SoundState(s)
  <2>1. s = Signed(Opening(setting.balance), Wallet)
    BY <1>3 DEF Init, SignedStates
  <2>2. s.turnNum = 3 /\ s.outcome = Opening(setting.balance).outcome /\ s.signers = Wallet
    BY <1>1, <2>1, SignedFields, OpeningFacts
  <2>3. Wallet # {} /\ 3 \in 3 .. setting.maxTurnNum
    BY <1>1, AmountFacts
  <2>. QED  BY <1>1, <2>2, <2>3, OpeningFacts DEF SoundState
<1>. QED  BY <1>1, <1>2, <1>3 DEF FundsInv

\* What a step stores and gives out: w adds some states to its own, and sends
\* some messages.
Stores(w, more, sent) ==
  /\ setting' = setting /\ DOMAIN stored' = DOMAIN stored
  /\ \A v \in DOMAIN stored : stored'[v] = IF v = w THEN AddStates(stored[v], more) ELSE stored[v]
  /\ messages' = messages \union sent

LEMMA StoresKeepsFunds ==
  ASSUME FundsInv, NEW w \in Wallet, NEW more, NEW sent, Stores(w, more, sent),
         \A s \in more : SoundState(s), \A m \in sent : m.states \subseteq more,
         requests' \in [Wallet -> [RequestKey -> RequestStatus \union {NotMade}]]
  PROVE  FundsInv'
<1>1. \A s : SoundState(s)' <=> SoundState(s)
  BY DEF Stores, SoundState
<1>2. (\A v \in Wallet : \A s \in stored[v] : SoundState(s)) /\ \A m \in messages : \A s \in m.states : SoundState(s)
  BY DEF FundsInv, SignedStates
<1>3. ASSUME NEW v \in Wallet, NEW s \in stored'[v] PROVE SoundState(s)
  <2>1. CASE v = w
    <3>1. s \in AddStates(stored[w], more) /\ \A t \in stored[w] \union more : SoundState(t)
      BY <1>2, <1>3, <2>1 DEF Stores, FundsInv
    <3>. QED  BY <3>1, AddedAreSound
  <2>2. CASE v # w
    BY <1>2, <1>3, <2>2 DEF Stores, FundsInv
  <2>. QED  BY <2>1, <2>2
<1>4. \A m \in messages' : \A s \in m.states : SoundState(s)
  BY <1>2 DEF Stores
<1>5. \A s \in SignedStates' : SoundState(s)
  BY <1>3, <1>4 DEF SignedStates
<1>. QED  BY <1>1, <1>5 DEF FundsInv, Stores

\* A message that is stored was sent, or is what the other one stores.
LEMMA PushStores ==
  ASSUME NEW w \in Wallet, NEW m, PushMessage(w, m), DOMAIN stored = Wallet
  PROVE  Stores(w, m.states, {})
BY DEF PushMessage, Stores

\* A crank that completes signs some states, stores them and sends them.
LEMMA CrankStores ==
  ASSUME DOMAIN stored = Wallet, NEW w \in Wallet, NEW result,
         stored' = Saved(w, result).stored, messages' = Saved(w, result).messages, setting' = setting
  PROVE  \/ Stores(w, SignedByMe(w, result.states), {Message(w, SignedByMe(w, result.states))})
         \/ Stores(w, SignedByMe(w, result.states), {}) /\ result.states = <<>>
<1>1. PICK more : more = SignedByMe(w, result.states)
  OBVIOUS
<1>2. stored' = [stored EXCEPT ![w] = AddStates(stored[w], more)]
  BY <1>1 DEF Saved
<1>3. messages' = IF result.states = <<>> THEN messages ELSE messages \union {Message(w, more)}
  BY <1>1 DEF Saved
<1>4. \A sent : messages' = messages \union sent => Stores(w, more, sent)
  BY <1>2 DEF Stores
<1>. QED  BY <1>1, <1>3, <1>4

LEMMA RangeOfOne == ASSUME NEW s PROVE Range(<<s>>) = {s}
BY DEF Range

LEMMA RangeOfTwo == ASSUME NEW s, NEW t PROVE Range(<<s, t>>) = {s, t}
BY DEF Range

\* Each is one it stores, or built on one.
LEMMA SignedContents ==
  ASSUME NEW states, LeaderSigns(states) \/ FollowerSigns(states), NEW c \in Range(states)
  PROVE  \E v \in Wallet : \E s, t \in stored[v] : c = Content(s) \/ Builds(c, s.turnNum + 1, t.outcome)
<1>1. Leader \in Wallet /\ Follower \in Wallet
  BY DEF Wallet
<1>2. CASE LeaderSigns(states)
  <2>1. CASE \E a \in stored[Leader] : \E s : Builds(s, a.turnNum + 1, a.outcome) /\ states = <<s>>
    <3>1. PICK a \in stored[Leader] : \E s : Builds(s, a.turnNum + 1, a.outcome) /\ states = <<s>>
      BY <2>1
    <3>2. PICK s : Builds(s, a.turnNum + 1, a.outcome) /\ states = <<s>>
      BY <3>1
    <3>3. c = s
      BY <3>2, RangeOfOne
    <3>. QED  BY <1>1, <3>2, <3>3
  <2>2. CASE \E b \in stored[Leader] : states = <<Content(b)>>
    <3>1. PICK b \in stored[Leader] : states = <<Content(b)>>
      BY <2>2
    <3>2. c = Content(b)
      BY <3>1, RangeOfOne
    <3>. QED  BY <1>1, <3>2
  <2>3. CASE \E b \in stored[Leader] :
               \E s : Builds(s, b.turnNum + 1, b.outcome) /\ states = <<Content(b), s>>
    <3>1. PICK b \in stored[Leader] :
            \E s : Builds(s, b.turnNum + 1, b.outcome) /\ states = <<Content(b), s>>
      BY <2>3
    <3>2. PICK s : Builds(s, b.turnNum + 1, b.outcome) /\ states = <<Content(b), s>>
      BY <3>1
    <3>3. c = Content(b) \/ c = s
      BY <3>2, RangeOfTwo
    <3>. QED  BY <1>1, <3>2, <3>3
  <2>. QED  BY <1>2, <2>1, <2>2, <2>3 DEF LeaderSigns
<1>3. CASE FollowerSigns(states)
  <2>1. PICK a, p \in stored[Follower] :
          states = <<Content(p)>> \/ \E s : Builds(s, p.turnNum + 1, a.outcome) /\ states = <<s>>
    BY <1>3 DEF FollowerSigns
  <2>2. CASE states = <<Content(p)>>
    <3>1. c = Content(p)
      BY <2>2, RangeOfOne
    <3>. QED  BY <1>1, <3>1
  <2>3. CASE \E s : Builds(s, p.turnNum + 1, a.outcome) /\ states = <<s>>
    <3>1. PICK s : Builds(s, p.turnNum + 1, a.outcome) /\ states = <<s>>
      BY <2>3
    <3>2. c = s
      BY <3>1, RangeOfOne
    <3>. QED  BY <1>1, <3>1, <3>2
  <2>. QED  BY <2>1, <2>2, <2>3
<1>. QED  BY <1>2, <1>3

\* They are sound, when the bound on turn numbers leaves room for them.
LEMMA SignedAreSound ==
  ASSUME FundsInv, NEW w \in Wallet, NEW result \in CompletedCranks(w)
  PROVE  \A s \in SignedByMe(w, result.states) : SoundState(s)
<1>. USE FundsInvStores
<1>1. SolventStore /\ result \in CrankResults(w) /\ result.error = "none"
  BY DEF CompletedCranks
<1>2. \A n \in DOMAIN result.states : result.states[n].turnNum <= setting.maxTurnNum
  BY DEF CompletedCranks
<1>3. \A c \in Range(result.states) : c.turnNum <= setting.maxTurnNum
  BY <1>2 DEF Range
<1>4. \A v \in Wallet : \A s \in stored[v] : SoundState(s)
  BY DEF FundsInv, SignedStates
<1>5. ASSUME NEW v \in Wallet, NEW s \in stored[v], NEW t \in stored[v], NEW c,
             Builds(c, s.turnNum + 1, t.outcome)
      PROVE  /\ c.turnNum = s.turnNum + 1 /\ Solvent(c.outcome)
             /\ Funds(c.outcome) = setting.balance[0] + setting.balance[1]
  <2>1. SoundState(t)
    BY <1>4
  <2>. QED  BY <1>5, <2>1 DEF Builds, ProtocolState, SoundState
<1>6. ASSUME NEW c \in Range(result.states)
      PROVE  /\ c.turnNum \in Nat /\ c.turnNum >= 3 /\ Solvent(c.outcome)
             /\ Funds(c.outcome) = setting.balance[0] + setting.balance[1]
  <2>1. \/ \E v \in Wallet : \E s \in stored[v] : c = Content(s)
        \/ \E v \in Wallet : \E s, t \in stored[v] : Builds(c, s.turnNum + 1, t.outcome)
    <3>1. w = Leader \/ w = Follower
      BY DEF Wallet
    <3>2. result.states = <<>> \/ LeaderSigns(result.states) \/ FollowerSigns(result.states)
      BY <1>1, <3>1, LeaderCranks, FollowerCranks
    <3>3. result.states # <<>>
      BY <1>6 DEF Range
    <3>. QED  BY <3>2, <3>3, SignedContents
  <2>2. CASE \E v \in Wallet : \E s \in stored[v] : c = Content(s)
    BY <1>4, <2>2, ContentFields DEF SoundState
  <2>3. CASE \E v \in Wallet : \E s, t \in stored[v] : Builds(c, s.turnNum + 1, t.outcome)
    <3>1. PICK v \in Wallet : \E s, t \in stored[v] : Builds(c, s.turnNum + 1, t.outcome)
      BY <2>3
    <3>2. PICK s \in stored[v], t \in stored[v] : Builds(c, s.turnNum + 1, t.outcome)
      BY <3>1
    <3>3. /\ c.turnNum = s.turnNum + 1 /\ Solvent(c.outcome)
          /\ Funds(c.outcome) = setting.balance[0] + setting.balance[1]
      BY <1>5, <3>2
    <3>4. s.turnNum \in Nat /\ s.turnNum >= 3
      BY <1>4 DEF SoundState
    <3>. QED  BY <3>3, <3>4
  <2>. QED  BY <2>1, <2>2, <2>3
<1>7. ASSUME NEW s \in SignedByMe(w, result.states) PROVE SoundState(s)
  <2>1. PICK c \in Range(result.states) : s = Signed(c, {w})
    BY DEF SignedByMe
  <2>2. s.turnNum = c.turnNum /\ s.outcome = c.outcome /\ s.signers = {w}
    BY <2>1, SignedFields
  <2>3. c.turnNum <= setting.maxTurnNum /\ setting.maxTurnNum \in Nat
    BY <1>3, LedgerAssumption DEF FundsInv
  <2>. QED  BY <1>6, <2>2, <2>3 DEF SoundState
<1>. QED  BY <1>7

\* A wallet makes a request, or a crank of w writes those back that it loaded.
MayAsk(w, k) ==
  \A x \in App : k = Defund(x) =>
    /\ requests[w][Fund(x)] # NotMade
    /\ setting.earlyClose \/ \A v \in Wallet : requests[v][Fund(x)] = "succeeded"
Asks(w, k) ==
  /\ requests[w][k] = NotMade /\ MayAsk(w, k)
  /\ requests' = [requests EXCEPT ![w][k] = "queued"]
Answers(w, reqs) ==
  \A v \in Wallet, k \in RequestKey :
    requests'[v][k] = IF v # w \/ reqs[k] = NotLoaded THEN requests[v][k] ELSE reqs[k]

\* Asking for a channel changes a request and nothing else.
LEMMA AskKeepsFunds ==
  ASSUME FundsInv, NEW w \in Wallet, NEW x \in App,
         RequestLedgerFunding(w, x) \/ RequestLedgerDefunding(w, x)
  PROVE  FundsInv' /\ UNCHANGED <<setting, stored, messages>> /\ \E k \in RequestKey : Asks(w, k)
<1>1. UNCHANGED <<setting, stored, messages>>
  BY DEF RequestLedgerFunding, RequestLedgerDefunding
<1>2. requests' \in [Wallet -> [RequestKey -> RequestStatus \union {NotMade}]]
  <2>1. Fund(x) \in RequestKey /\ Defund(x) \in RequestKey /\ "queued" \in RequestStatus
    BY DEF Fund, Defund, RequestKey, RequestStatus
  <2>2. \E k \in RequestKey : requests' = [requests EXCEPT ![w][k] = "queued"]
    BY <2>1 DEF RequestLedgerFunding, RequestLedgerDefunding
  <2>3. requests \in [Wallet -> [RequestKey -> RequestStatus \union {NotMade}]]
    BY DEF FundsInv
  <2>. QED  BY <2>1, <2>2, <2>3
<1>3. \A s \in SignedStates' : SoundState(s)'
  BY <1>1 DEF FundsInv, SignedStates, SoundState
<1>4. \E k \in RequestKey : Asks(w, k)
  <2>1. CASE RequestLedgerFunding(w, x)
    <3>1. Fund(x) \in RequestKey /\ MayAsk(w, Fund(x))
      BY DEF Fund, Defund, RequestKey, MayAsk
    <3>. QED  BY <2>1, <3>1 DEF RequestLedgerFunding, Asks
  <2>2. CASE RequestLedgerDefunding(w, x)
    <3>1. Defund(x) \in RequestKey /\ \A y : Defund(x) = Defund(y) => x = y
      BY DEF Defund, RequestKey
    <3>2. MayAsk(w, Defund(x))
      BY <2>2, <3>1 DEF RequestLedgerDefunding, MayAsk
    <3>. QED  BY <2>2, <3>1, <3>2 DEF RequestLedgerDefunding, Asks
  <2>. QED  BY <2>1, <2>2
<1>. QED  BY <1>1, <1>2, <1>3, <1>4 DEF FundsInv

LEMMA PushKeepsFunds ==
  ASSUME FundsInv, NEW w \in Wallet, NEW m, PushMessage(w, m), m.states \subseteq SignedStates
  PROVE  FundsInv' /\ Stores(w, m.states, {}) /\ UNCHANGED requests
<1>1. Stores(w, m.states, {})
  BY PushStores DEF FundsInv
<1>2. requests' \in [Wallet -> [RequestKey -> RequestStatus \union {NotMade}]]
  BY DEF PushMessage, FundsInv
<1>3. \A s \in m.states : SoundState(s)
  BY DEF FundsInv
<1>4. PICK more : more = m.states
  OBVIOUS
<1>5. PICK sent : sent = {}
  OBVIOUS
<1>6. FundsInv'
  BY <1>1, <1>2, <1>3, <1>4, <1>5, StoresKeepsFunds
<1>. QED  BY <1>1, <1>6 DEF PushMessage

LEMMA SyncPushes ==
  ASSUME NEW w \in Wallet, SyncChannel(w)
  PROVE  \E m : PushMessage(w, m) /\ m.states \subseteq SignedStates /\ m.states = stored[Other(w)]
<1>1. Message(Other(w), stored[Other(w)]).states = stored[Other(w)]
  BY DEF Message
<1>2. Other(w) \in Wallet
  BY DEF Wallet, Leader, Follower, Other
<1>3. stored[Other(w)] \subseteq SignedStates
  BY <1>2 DEF SignedStates
<1>. QED  BY <1>1, <1>3 DEF SyncChannel

\* How a crank changes the store, the messages and the requests.
Cranks(w, result) ==
  /\ result \in CompletedCranks(w) /\ Answers(w, result.reqs)
  /\ \/ Stores(w, SignedByMe(w, result.states), {Message(w, SignedByMe(w, result.states))})
     \/ Stores(w, SignedByMe(w, result.states), {}) /\ result.states = <<>>

LEMMA CrankKeepsFunds ==
  ASSUME FundsInv, NEW w \in Wallet, LedgerCrank(w)
  PROVE  FundsInv' /\ \E result : Cranks(w, result)
<1>1. PICK result \in CompletedCranks(w) :
        /\ stored' = Saved(w, result).stored /\ requests' = Saved(w, result).requests
        /\ messages' = Saved(w, result).messages /\ UNCHANGED setting
  BY DEF LedgerCrank
<1>2. PICK more : more = SignedByMe(w, result.states)
  OBVIOUS
<1>3. \/ Stores(w, more, {Message(w, more)})
      \/ Stores(w, more, {}) /\ result.states = <<>>
  BY <1>1, <1>2, CrankStores DEF FundsInv
<1>4. \A s \in more : SoundState(s)
  BY <1>2, SignedAreSound
<1>5. requests' \in [Wallet -> [RequestKey -> RequestStatus \union {NotMade}]]
  <2>1. IsReqs(result.reqs)
    <3>1. SolventStore /\ result \in CrankResults(w) /\ result.error = "none"
      BY FundsInvStores DEF CompletedCranks
    <3>2. w = Leader \/ w = Follower
      BY DEF Wallet
    <3>. QED  BY <3>1, <3>2, LeaderCranks, FollowerCranks
  <2>2. PICK saved : saved = [k \in RequestKey |->
                                IF result.reqs[k] = NotLoaded THEN requests[w][k] ELSE result.reqs[k]]
    OBVIOUS
  <2>3. requests \in [Wallet -> [RequestKey -> RequestStatus \union {NotMade}]]
    BY DEF FundsInv
  <2>4. saved \in [RequestKey -> RequestStatus \union {NotMade}]
    BY <2>1, <2>2, <2>3 DEF IsReqs
  <2>5. requests' = [requests EXCEPT ![w] = saved]
    BY <1>1, <2>2 DEF Saved
  <2>. QED  BY <2>3, <2>4, <2>5
<1>6. Message(w, more).states = more
  BY DEF Message
<1>7. PICK sent : Stores(w, more, sent) /\ \A m \in sent : m.states \subseteq more
  BY <1>3, <1>6
<1>8. FundsInv'
  BY <1>4, <1>5, <1>7, StoresKeepsFunds
<1>9. Answers(w, result.reqs)
  <2>1. PICK saved : saved = [k \in RequestKey |->
                                IF result.reqs[k] = NotLoaded THEN requests[w][k] ELSE result.reqs[k]]
    OBVIOUS
  <2>2. requests' = [requests EXCEPT ![w] = saved] /\ DOMAIN requests = Wallet
    BY <1>1, <2>1 DEF Saved, FundsInv
  <2>3. requests'[w] = saved /\ \A v \in Wallet : v # w => requests'[v] = requests[v]
    BY <2>2
  <2>. QED  BY <2>1, <2>3 DEF Answers
<1>. QED  BY <1>1, <1>2, <1>3, <1>8, <1>9 DEF Cranks

\* What a step is, in terms of what it stores.
LEMMA Steps ==
  ASSUME FundsInv, [Next]_ledgerVars
  PROVE  /\ FundsInv'
         /\ \/ /\ UNCHANGED <<setting, stored, messages>>
               /\ UNCHANGED requests \/ \E w \in Wallet : \E k \in RequestKey : Asks(w, k)
            \/ \E w \in Wallet : \E more :
                 /\ Stores(w, more, {}) /\ UNCHANGED requests
                 /\ (\E m \in messages : m.states = more) \/ more = stored[Other(w)]
            \/ \E w \in Wallet : \E result : Cranks(w, result)
<1>1. CASE UNCHANGED ledgerVars
  <2>1. \A s \in SignedStates' : SoundState(s)'
    BY <1>1 DEF FundsInv, SignedStates, SoundState, ledgerVars
  <2>. QED  BY <1>1, <2>1 DEF FundsInv, ledgerVars
<1>2. CASE \E w \in Wallet, x \in App : RequestLedgerFunding(w, x) \/ RequestLedgerDefunding(w, x)
  BY <1>2, AskKeepsFunds
<1>3. CASE \E w \in Wallet : \E m \in messages : PushMessage(w, m)
  <2>1. PICK w \in Wallet, m \in messages : PushMessage(w, m)
    BY <1>3
  <2>2. m.states \subseteq SignedStates
    BY DEF SignedStates
  <2>. QED  BY <2>1, <2>2, PushKeepsFunds
<1>4. CASE \E w \in Wallet : SyncChannel(w)
  BY <1>4, SyncPushes, PushKeepsFunds
<1>5. CASE \E w \in Wallet : LedgerCrank(w)
  BY <1>5, CrankKeepsFunds
<1>. QED  BY <1>1, <1>2, <1>3, <1>4, <1>5 DEF Next

\* No signed state makes or loses money, or leaves a party with less than nothing:
\* what the cranks build, store and send is always worth what the ledger opened with.
THEOREM MoneyIsConserved == Spec => []FundsConserved
<1>1. Init => FundsInv
  BY FundsInit
<1>2. FundsInv /\ [Next]_ledgerVars => FundsInv'
  BY Steps
<1>3. FundsInv => FundsConserved
  BY FundsInvImplies
<1>. QED  BY <1>1, <1>2, <1>3, PTL DEF Spec
------------------------------------------------------------------------------
(* One state for each turn number. *)

\* The largest of the turn numbers of sound states.
LEMMA LatestFacts ==
  ASSUME NEW states, states # {}, \A s \in states : SoundState(s), setting \in Settings
  PROVE  /\ \E s \in states : s.turnNum = LatestTurnNum(states)
         /\ \A s \in states : s.turnNum <= LatestTurnNum(states)
         /\ LatestTurnNum(states) \in Nat
<1>1. PICK T : T = {s.turnNum : s \in states}
  OBVIOUS
<1>2. setting.maxTurnNum \in Nat
  BY LedgerAssumption
<1>3. T \in SUBSET Nat /\ T # {} /\ \A x \in T : x <= setting.maxTurnNum
  BY <1>1, <1>2 DEF SoundState
<1>4. \E x \in T : \A y \in T : y <= x
  BY <1>2, <1>3, BoundedMax
<1>5. \E x \in T : \A y \in T : x >= y
  BY <1>3, <1>4
<1>6. Max(T) \in T /\ \A y \in T : Max(T) >= y
  BY <1>5 DEF Max
<1>7. LatestTurnNum(states) = Max(T)
  BY <1>1 DEF LatestTurnNum
<1>. QED  BY <1>1, <1>3, <1>6, <1>7

\* What is added is there afterwards, with its signatures, unless a later state is
\* supported; there is a supported one, and one of each content.
LEMMA AddedStay ==
  ASSUME NEW states, NEW more, \A s \in states \union more : SoundState(s), setting \in Settings,
         \E s \in states : FullySigned(s)
  PROVE  /\ \A s \in states \union more : \E t \in AddStates(states, more) :
              \/ Content(t) = Content(s) /\ s.signers \subseteq t.signers
              \/ FullySigned(t) /\ t.turnNum > s.turnNum
         /\ \E t \in AddStates(states, more) : FullySigned(t)
         /\ \A s, t \in AddStates(states, more) : Content(s) = Content(t) => s = t
<1>1. PICK all : all = states \union more
  OBVIOUS
<1>2. PICK merged : merged = {Signed(s, Signatures(Content(s), all)) : s \in all}
  OBVIOUS
<1>3. AddStates(states, more) = {t \in merged : t.turnNum >= SupportedTurn(merged)}
  BY <1>1, <1>2 DEF AddStates, Signatures
<1>4. ASSUME NEW s \in all
      PROVE  /\ s.signers \subseteq Signatures(Content(s), all)
             /\ SoundState(Signed(s, Signatures(Content(s), all)))
  <2>1. s.signers \subseteq Signatures(Content(s), all)
    BY DEF Signatures
  <2>2. Signatures(Content(s), all) \subseteq Wallet /\ SoundState(s)
    BY <1>1 DEF Signatures, SoundState
  <2>3. Signatures(Content(s), all) # {}
    BY <2>1, <2>2 DEF SoundState
  <2>. QED  BY <2>1, <2>2, <2>3, SignedFields DEF SoundState
<1>5. PICK full : full = {t \in merged : FullySigned(t)}
  OBVIOUS
<1>6. (\A t \in merged : SoundState(t)) /\ \A t \in full : SoundState(t)
  BY <1>2, <1>4, <1>5
<1>7. full # {}
  <2>1. PICK u \in all : u.signers = Wallet
    BY <1>1 DEF FullySigned
  <2>2. PICK t : t = Signed(u, Signatures(Content(u), all))
    OBVIOUS
  <2>3. t \in merged /\ t.signers = Signatures(Content(u), all) /\ SoundState(t)
    BY <1>2, <1>6, <2>2, SignedFields
  <2>4. t.signers = Wallet
    BY <1>4, <2>1, <2>3 DEF SoundState
  <2>. QED  BY <1>5, <2>3, <2>4 DEF FullySigned
<1>8. /\ \E t \in full : t.turnNum = SupportedTurn(merged)
      /\ \A t \in full : t.turnNum <= SupportedTurn(merged)
      /\ SupportedTurn(merged) \in Nat
  BY <1>5, <1>6, <1>7, LatestFacts DEF SupportedTurn
<1>9. PICK top \in merged : FullySigned(top) /\ top.turnNum = SupportedTurn(merged)
  BY <1>5, <1>8
<1>10. top \in AddStates(states, more)
  BY <1>3, <1>8, <1>9
<1>11. ASSUME NEW s \in all
       PROVE  \E t \in AddStates(states, more) :
                \/ Content(t) = Content(s) /\ s.signers \subseteq t.signers
                \/ FullySigned(t) /\ t.turnNum > s.turnNum
  <2>1. PICK t : t = Signed(s, Signatures(Content(s), all))
    OBVIOUS
  <2>2. /\ t \in merged /\ Content(t) = Content(s) /\ s.signers \subseteq t.signers
        /\ t.turnNum = s.turnNum /\ t.turnNum \in Nat
    BY <1>2, <1>4, <1>6, <2>1, SignedFields DEF SoundState
  <2>3. CASE t.turnNum >= SupportedTurn(merged)
    BY <1>3, <2>2, <2>3
  <2>4. CASE ~ (t.turnNum >= SupportedTurn(merged))
    <3>1. top.turnNum > s.turnNum
      BY <1>8, <1>9, <2>2, <2>4
    <3>. QED  BY <1>9, <1>10, <3>1
  <2>. QED  BY <2>3, <2>4
<1>12. ASSUME NEW s \in merged, NEW t \in merged, Content(s) = Content(t) PROVE s = t
  <2>1. PICK a \in all : s = Signed(a, Signatures(Content(a), all))
    BY <1>2
  <2>2. PICK b \in all : t = Signed(b, Signatures(Content(b), all))
    BY <1>2
  <2>3. Content(a) = Content(b) /\ a.turnNum = b.turnNum /\ a.outcome = b.outcome
    BY <1>12, <2>1, <2>2, SignedFields, SameContent
  <2>. QED  BY <2>1, <2>2, <2>3 DEF Signed
<1>. QED  BY <1>1, <1>3, <1>9, <1>10, <1>11, <1>12

\* The states that w has signed: the one the ledger opens with, and those it sent.
Given(w) ==
  {Opening(setting.balance)}
    \union {Content(s) : s \in UNION {m.states : m \in {n \in messages : n.from = w}}}

\* A message holds the sender's signatures.
OwnSignatures == \A m \in messages : m.from \in Wallet /\ \A s \in m.states : s.signers = {m.from}

\* A signature in a store has been given.
KeptAsGiven == \A w \in Wallet : \A s \in stored[w] : \A v \in s.signers : Content(s) \in Given(v)

HasSupport == \A w \in Wallet : \E s \in stored[w] : FullySigned(s)

OneOfEach == \A w \in Wallet : \A s, t \in stored[w] : Content(s) = Content(t) => s = t

\* A wallet stores what it has signed until a later state is supported.
Remembers(w, c) ==
  \E s \in stored[w] : \/ Content(s) = c /\ w \in s.signers
                       \/ FullySigned(s) /\ s.turnNum > c.turnNum
Remembered == \A w \in Wallet : \A c \in Given(w) : Remembers(w, c)

\* What the two have signed, by turn numbers: there is one state for each; if the
\* follower signed two in a row, then the second is the leader's too; and the leader
\* goes no further than one after the follower.
OnePerTurn(mine, theirs) ==
  \A c, d \in mine \union theirs : c.turnNum = d.turnNum => c = d
SecondIsLeaders(leaders, followers) ==
  \A c, d \in followers : d.turnNum = c.turnNum + 1 => d \in leaders
FollowersGround(leaders, followers) ==
  \A c \in leaders :
    c.turnNum > 3 => c \in followers \/ \E d \in followers : d.turnNum + 1 = c.turnNum

InTurn(leaders, followers) ==
  /\ OnePerTurn(leaders, followers) /\ SecondIsLeaders(leaders, followers)
  /\ FollowersGround(leaders, followers)
  /\ \A c \in leaders \union followers : c.turnNum \in Nat

SigningInv ==
  /\ FundsInv /\ OwnSignatures /\ KeptAsGiven /\ HasSupport /\ OneOfEach /\ Remembered
  /\ InTurn(Given(Leader), Given(Follower))

\* Every signature has been given, so there is one content for each turn number.
LEMMA SigningInvImplies == SigningInv => OneStatePerTurn
<1>. SUFFICES ASSUME SigningInv PROVE OneStatePerTurn
  OBVIOUS
<1>1. ASSUME NEW s \in SignedStates PROVE Content(s) \in Given(Leader) \union Given(Follower)
  <2>1. CASE \E w \in Wallet : s \in stored[w]
    <3>1. SoundState(s)
      BY DEF SigningInv, FundsInv
    <3>2. PICK v \in s.signers : v \in Wallet
      BY <3>1 DEF SoundState
    <3>3. Content(s) \in Given(v)
      BY <2>1, <3>2 DEF SigningInv, KeptAsGiven
    <3>. QED  BY <3>2, <3>3 DEF Wallet
  <2>2. CASE \E m \in messages : s \in m.states
    <3>1. PICK m \in messages : s \in m.states
      BY <2>2
    <3>2. m.from \in Wallet
      BY DEF SigningInv, OwnSignatures
    <3>3. Content(s) \in Given(m.from)
      BY <3>1 DEF Given
    <3>. QED  BY <3>2, <3>3 DEF Wallet
  <2>. QED  BY <2>1, <2>2 DEF SignedStates
<1>2. ASSUME NEW s \in SignedStates, NEW t \in SignedStates, s.turnNum = t.turnNum
      PROVE  Content(s) = Content(t)
  BY <1>1, <1>2, ContentFields DEF SigningInv, InTurn, OnePerTurn
<1>. QED  BY <1>2 DEF OneStatePerTurn

LEMMA SigningInit == Init => SigningInv
<1>. SUFFICES ASSUME Init PROVE SigningInv
  OBVIOUS
<1>1. FundsInv
  BY FundsInit
<1>2. PICK s : s = Signed(Opening(setting.balance), Wallet)
  OBVIOUS
<1>3. messages = {} /\ \A w \in Wallet : stored[w] = {s}
  BY <1>2 DEF Init
<1>4. s.signers = Wallet /\ Content(s) = Content(Opening(setting.balance))
  BY <1>2, SignedFields
<1>5. Content(Opening(setting.balance)) = Opening(setting.balance)
  BY DEF Content, Opening, ProtocolState
<1>6. \A w \in Wallet : Given(w) = {Opening(setting.balance)}
  BY <1>3 DEF Given
<1>7. Opening(setting.balance).turnNum = 3
  BY LedgerAssumption, OpeningFacts DEF FundsInv, Init
<1>8. Leader \in Wallet /\ Follower \in Wallet
  BY DEF Wallet
<1>9. OwnSignatures /\ KeptAsGiven /\ HasSupport /\ OneOfEach /\ Remembered
  BY <1>3, <1>4, <1>5, <1>6
     DEF OwnSignatures, KeptAsGiven, HasSupport, OneOfEach, Remembered, Remembers, FullySigned
<1>10. InTurn(Given(Leader), Given(Follower))
  BY <1>6, <1>7, <1>8 DEF InTurn, OnePerTurn, SecondIsLeaders, FollowersGround
<1>. QED  BY <1>1, <1>9, <1>10 DEF SigningInv

\* What w has signed is no later than what it stores.
LEMMA GivenBeforeLatest ==
  ASSUME SigningInv, NEW w \in Wallet, NEW c \in Given(w)
  PROVE  c.turnNum <= LatestTurnNum(stored[w])
<1>1. /\ stored[w] # {} /\ (\A s \in stored[w] : SoundState(s)) /\ setting \in Settings
      /\ c.turnNum \in Nat
  BY DEF SigningInv, HasSupport, FundsInv, SignedStates, InTurn, Wallet
<1>2. (\A s \in stored[w] : s.turnNum <= LatestTurnNum(stored[w])) /\ LatestTurnNum(stored[w]) \in Nat
  BY <1>1, LatestFacts
<1>3. PICK s \in stored[w] : Content(s) = c \/ s.turnNum > c.turnNum
  BY DEF SigningInv, Remembered, Remembers
<1>4. s.turnNum \in Nat /\ s.turnNum <= LatestTurnNum(stored[w]) /\ s.turnNum >= c.turnNum
  BY <1>1, <1>2, <1>3, ContentFields DEF SoundState
<1>. QED  BY <1>1, <1>2, <1>4

\* The leader may sign what the follower has signed, and one state more behind a state
\* of the follower's, if it is the latest.
LEMMA LeaderStaysInTurn ==
  ASSUME NEW leaders, NEW followers, InTurn(leaders, followers), NEW top \in followers,
         \A c \in leaders : c.turnNum <= top.turnNum,
         NEW next, next.turnNum = top.turnNum + 1,
         NEW new, new \in SUBSET {top, next}
  PROVE  InTurn(leaders \union new, followers)
<1>1. PICK all : all = leaders \union followers
  OBVIOUS
<1>2. top.turnNum \in Nat /\ \A c \in all : c.turnNum \in Nat
  BY <1>1 DEF InTurn
<1>3. \A c \in all : c.turnNum # top.turnNum + 1
  <2>1. \A c \in followers : c.turnNum = top.turnNum + 1 => c \in leaders
    BY DEF InTurn, SecondIsLeaders
  <2>2. \A c \in leaders : c.turnNum # top.turnNum + 1
    <3>. TAKE c \in leaders
    <3>1. c.turnNum <= top.turnNum /\ c.turnNum \in Nat
      BY <1>1, <1>2
    <3>. QED  BY <1>2, <3>1
  <2>. QED  BY <1>1, <2>1, <2>2
<1>4. OnePerTurn(leaders \union new, followers)
  <2>1. \A c, d \in all : c.turnNum = d.turnNum => c = d
    BY <1>1 DEF InTurn, OnePerTurn
  <2>2. (leaders \union new) \union followers \subseteq all \union {next}
    BY <1>1
  <2>. QED  BY <1>3, <2>1, <2>2 DEF OnePerTurn
<1>5. SecondIsLeaders(leaders \union new, followers)
  BY DEF InTurn, SecondIsLeaders
<1>6. FollowersGround(leaders \union new, followers)
  <2>1. top \in followers /\ top.turnNum + 1 = next.turnNum
    OBVIOUS
  <2>. QED  BY <2>1 DEF InTurn, FollowersGround
<1>7. \A c \in (leaders \union new) \union followers : c.turnNum \in Nat
  BY <1>1, <1>2
<1>. QED  BY <1>4, <1>5, <1>6, <1>7 DEF InTurn

\* The follower may sign a state of the leader's that is later than all of its own, or
\* one more behind it.
LEMMA FollowerStaysInTurn ==
  ASSUME NEW leaders, NEW followers, InTurn(leaders, followers), NEW top \in leaders,
         \A c \in followers : c.turnNum < top.turnNum,
         NEW next, next.turnNum = top.turnNum + 1, top.turnNum >= 3,
         NEW new, new = top \/ new = next
  PROVE  InTurn(leaders, followers \union {new})
<1>1. PICK all : all = leaders \union followers
  OBVIOUS
<1>2. top.turnNum \in Nat /\ \A c \in all : c.turnNum \in Nat
  BY <1>1 DEF InTurn
<1>3. \A c \in followers : c.turnNum # top.turnNum /\ c.turnNum # top.turnNum + 1 /\ c.turnNum # top.turnNum + 2
  <2>. TAKE c \in followers
  <2>1. c.turnNum < top.turnNum /\ c.turnNum \in Nat
    BY <1>1, <1>2
  <2>. QED  BY <1>2, <2>1
<1>4. \A c \in all : c.turnNum # top.turnNum + 1
  <2>1. ASSUME NEW c \in leaders, c.turnNum = top.turnNum + 1 PROVE FALSE
    <3>1. c.turnNum > 3
      BY <1>2, <2>1
    <3>2. c \in followers \/ \E d \in followers : d.turnNum + 1 = c.turnNum
      BY <3>1 DEF InTurn, FollowersGround
    <3>3. PICK d \in followers : d.turnNum + 1 = c.turnNum
      BY <1>3, <2>1, <3>2
    <3>4. d.turnNum = top.turnNum
      BY <1>1, <1>2, <2>1, <3>3
    <3>. QED  BY <1>3, <3>4
  <2>. QED  BY <1>1, <1>3, <2>1
<1>5. OnePerTurn(leaders, followers \union {new})
  <2>1. \A c, d \in all : c.turnNum = d.turnNum => c = d
    BY <1>1 DEF InTurn, OnePerTurn
  <2>2. leaders \union (followers \union {new}) \subseteq all \union {next} /\ top \in all
    BY <1>1
  <2>. QED  BY <1>4, <2>1, <2>2 DEF OnePerTurn
<1>6. SecondIsLeaders(leaders, followers \union {new})
  <2>1. ASSUME NEW c \in followers \union {new}, NEW d \in followers \union {new},
               d.turnNum = c.turnNum + 1
        PROVE  d \in leaders
    <3>1. CASE c \in followers /\ d \in followers
      BY <2>1, <3>1 DEF InTurn, SecondIsLeaders
    <3>2. CASE new = top /\ d = top
      BY <3>2
    <3>3. CASE c = new /\ d \in followers
      <4>1. d.turnNum = top.turnNum + 1 \/ d.turnNum = (top.turnNum + 1) + 1
        BY <2>1, <3>3
      <4>. QED  BY <1>2, <1>3, <3>3, <4>1
    <3>4. CASE new = next /\ d = next /\ c \in followers
      <4>1. c.turnNum = top.turnNum
        BY <1>1, <1>2, <2>1, <3>4
      <4>. QED  BY <1>3, <3>4, <4>1
    <3>5. CASE new = next /\ d = next /\ c = next
      BY <1>2, <2>1, <3>5
    <3>. QED  BY <3>1, <3>2, <3>3, <3>4, <3>5
  <2>. QED  BY <2>1 DEF SecondIsLeaders
<1>7. FollowersGround(leaders, followers \union {new})
  BY DEF InTurn, FollowersGround
<1>8. \A c \in leaders \union (followers \union {new}) : c.turnNum \in Nat
  BY <1>1, <1>2
<1>. QED  BY <1>5, <1>6, <1>7, <1>8 DEF InTurn

\* What w gives out by a step that signs the given states.
GivesOut(w, given) ==
  \A v \in Wallet : Given(v)' = IF v = w THEN Given(v) \union given ELSE Given(v)

\* A step that stores sound states, whose signatures have been given out, and stores
\* what it gives out itself.
LEMMA StoresKeepsSigning ==
  ASSUME SigningInv, FundsInv', NEW w \in Wallet, NEW more, NEW sent, Stores(w, more, sent),
         \A s \in more : SoundState(s), NEW given, GivesOut(w, given),
         \A s \in more : \A v \in s.signers : Content(s) \in Given(v)',
         \A c \in given : \E s \in more : Content(s) = c /\ w \in s.signers,
         OwnSignatures', InTurn(Given(Leader)', Given(Follower)')
  PROVE  SigningInv'
<1>1. /\ DOMAIN stored = Wallet /\ setting \in Settings /\ setting' = setting
      /\ stored'[w] = AddStates(stored[w], more)
      /\ \A v \in Wallet : v # w => stored'[v] = stored[v]
  BY DEF SigningInv, FundsInv, Stores
<1>2. \A v \in Wallet : \A s \in stored[v] : SoundState(s)
  BY DEF SigningInv, FundsInv, SignedStates
<1>3. \A v \in Wallet : Given(v) \subseteq Given(v)'
  BY DEF GivesOut
<1>4. PICK mine : mine = stored[w]
  OBVIOUS
<1>5. (\A s \in mine \union more : SoundState(s)) /\ \E s \in mine : FullySigned(s)
  BY <1>2, <1>4 DEF SigningInv, HasSupport
<1>6. /\ \A s \in mine \union more : \E t \in AddStates(mine, more) :
           \/ Content(t) = Content(s) /\ s.signers \subseteq t.signers
           \/ FullySigned(t) /\ t.turnNum > s.turnNum
      /\ \E t \in AddStates(mine, more) : FullySigned(t)
      /\ \A s, t \in AddStates(mine, more) : Content(s) = Content(t) => s = t
  BY <1>1, <1>5, AddedStay
<1>7. ASSUME NEW v \in Wallet, NEW t \in stored'[v], NEW u \in t.signers
      PROVE  Content(t) \in Given(u)'
  <2>1. ASSUME NEW s \in stored[v], u \in s.signers, Content(s) = Content(t)
        PROVE  Content(t) \in Given(u)'
    <3>1. Content(s) \in Given(u) /\ u \in Wallet
      BY <1>2, <2>1 DEF SigningInv, KeptAsGiven, SoundState
    <3>. QED  BY <1>3, <2>1, <3>1
  <2>2. CASE v # w
    BY <1>1, <1>7, <2>1, <2>2
  <2>3. CASE v = w
    <3>1. t \in AddStates(mine, more)
      BY <1>1, <1>4, <1>7, <2>3
    <3>2. PICK s \in mine \union more :
            Content(t) = Content(s) /\ t.signers = Signatures(Content(s), mine \union more)
      BY <3>1, AddedAreJoined
    <3>3. PICK x \in mine \union more : Content(x) = Content(t) /\ u \in x.signers
      BY <1>7, <3>2 DEF Signatures
    <3>. QED  BY <1>4, <2>1, <2>3, <3>3
  <2>. QED  BY <2>2, <2>3
<1>8. KeptAsGiven'
  BY <1>7 DEF KeptAsGiven, Content
<1>9. HasSupport' /\ OneOfEach'
  BY <1>1, <1>4, <1>6 DEF SigningInv, HasSupport, OneOfEach, FullySigned, Content
<1>10. ASSUME NEW v \in Wallet, NEW c \in Given(v)' PROVE Remembers(v, c)'
  <2>1. CASE v # w
    <3>1. Remembers(v, c)
      BY <1>10, <2>1 DEF GivesOut, SigningInv, Remembered
    <3>. QED  BY <1>1, <2>1, <3>1 DEF Remembers, FullySigned, Content
  <2>2. CASE v = w
    <3>1. \E t \in AddStates(mine, more) :
            \/ Content(t) = c /\ w \in t.signers
            \/ FullySigned(t) /\ t.turnNum > c.turnNum
      <4>1. CASE \E s \in mine \union more : Content(s) = c /\ w \in s.signers
        <5>1. PICK s \in mine \union more : Content(s) = c /\ w \in s.signers
          BY <4>1
        <5>2. PICK t \in AddStates(mine, more) :
                \/ Content(t) = Content(s) /\ s.signers \subseteq t.signers
                \/ FullySigned(t) /\ t.turnNum > s.turnNum
          BY <1>6
        <5>3. s.turnNum = c.turnNum
          BY <5>1, ContentFields
        <5>. QED  BY <5>1, <5>2, <5>3
      <4>2. CASE \E s \in mine : FullySigned(s) /\ s.turnNum > c.turnNum
        <5>1. PICK s \in mine : FullySigned(s) /\ s.turnNum > c.turnNum
          BY <4>2
        <5>2. PICK t \in AddStates(mine, more) :
                \/ Content(t) = Content(s) /\ s.signers \subseteq t.signers
                \/ FullySigned(t) /\ t.turnNum > s.turnNum
          BY <1>6
        <5>3. t \in stored'[w]
          BY <1>1, <1>4
        <5>4. SoundState(t)
          <6>1. SoundState(t)'
            BY <5>3 DEF FundsInv, SignedStates
          <6>. QED  BY <1>1, <6>1 DEF SoundState
        <5>5. SoundState(s) /\ c.turnNum \in Nat
          <6>1. c.turnNum \in Nat
            BY <1>10 DEF InTurn, Wallet
          <6>. QED  BY <1>5, <6>1
        <5>6. s.turnNum \in Nat /\ t.turnNum \in Nat /\ c.turnNum \in Nat
          BY <5>4, <5>5 DEF SoundState
        <5>7. CASE Content(t) = Content(s) /\ s.signers \subseteq t.signers
          <6>1. t.turnNum = s.turnNum
            BY <5>7, SameContent
          <6>2. FullySigned(t)
            BY <5>1, <5>4, <5>7 DEF FullySigned, SoundState
          <6>. QED  BY <5>1, <6>1, <6>2
        <5>8. CASE FullySigned(t) /\ t.turnNum > s.turnNum
          <6>1. t.turnNum > c.turnNum
            BY <5>1, <5>6, <5>8
          <6>. QED  BY <5>8, <6>1
        <5>. QED  BY <5>2, <5>7, <5>8
      <4>3. c \in Given(w) \/ c \in given
        BY <1>10, <2>2 DEF GivesOut
      <4>4. c \in Given(w) => Remembers(w, c)
        BY DEF SigningInv, Remembered
      <4>. QED  BY <1>4, <4>1, <4>2, <4>3, <4>4 DEF Remembers
    <3>. QED  BY <1>1, <1>4, <2>2, <3>1 DEF Remembers, FullySigned, Content
  <2>. QED  BY <2>1, <2>2
<1>11. Remembered'
  BY <1>10 DEF Remembered
<1>. QED  BY <1>8, <1>9, <1>11 DEF SigningInv

\* A step that gives out nothing keeps what is given.
LEMMA NothingGiven ==
  ASSUME SigningInv, setting' = setting, messages' = messages
  PROVE  /\ \A v : Given(v)' = Given(v)
         /\ OwnSignatures' /\ InTurn(Given(Leader)', Given(Follower)')
<1>1. \A v : Given(v)' = Given(v)
  BY DEF Given, Content
<1>2. OwnSignatures'
  BY DEF SigningInv, OwnSignatures
<1>. QED  BY <1>1, <1>2 DEF SigningInv

LEMMA PushKeepsSigning ==
  ASSUME SigningInv, FundsInv', NEW w \in Wallet, NEW more, Stores(w, more, {}),
         (\E m \in messages : m.states = more) \/ more = stored[Other(w)]
  PROVE  SigningInv'
<1>1. setting' = setting /\ messages' = messages
  BY DEF Stores
<1>2. /\ \A v : Given(v)' = Given(v)
      /\ OwnSignatures' /\ InTurn(Given(Leader)', Given(Follower)')
  BY <1>1, NothingGiven
<1>3. \A s \in more : SoundState(s) /\ \A v \in s.signers : Content(s) \in Given(v)
  <2>1. CASE \E m \in messages : m.states = more
    <3>1. PICK m \in messages : m.states = more
      BY <2>1
    <3>2. ASSUME NEW s \in more, NEW v \in s.signers PROVE Content(s) \in Given(v)
      <4>1. v = m.from
        BY <3>1, <3>2 DEF SigningInv, OwnSignatures
      <4>. QED  BY <3>1, <3>2, <4>1 DEF Given
    <3>3. \A s \in more : SoundState(s)
      BY <3>1 DEF SigningInv, FundsInv, SignedStates
    <3>. QED  BY <3>2, <3>3
  <2>2. CASE more = stored[Other(w)]
    <3>1. Other(w) \in Wallet
      BY DEF Wallet, Leader, Follower, Other
    <3>2. \A s \in more : SoundState(s)
      BY <2>2, <3>1 DEF SigningInv, FundsInv, SignedStates
    <3>3. \A s \in more : \A v \in s.signers : Content(s) \in Given(v)
      BY <2>2, <3>1 DEF SigningInv, KeptAsGiven
    <3>. QED  BY <3>2, <3>3
  <2>. QED  BY <2>1, <2>2
<1>4. PICK given : given = {}
  OBVIOUS
<1>5. PICK sent : sent = {}
  OBVIOUS
<1>6. GivesOut(w, given)
  BY <1>2, <1>4 DEF GivesOut
<1>7. Stores(w, more, sent) /\ \A c \in given : \E s \in more : Content(s) = c /\ w \in s.signers
  BY <1>4, <1>5
<1>. QED  BY <1>2, <1>3, <1>6, <1>7, StoresKeepsSigning

\* A crank gives out the states it comes to.
LEMMA CrankGivesOut ==
  ASSUME SigningInv, NEW w \in Wallet, NEW result, Cranks(w, result)
  PROVE  GivesOut(w, {Content(s) : s \in SignedByMe(w, result.states)}) /\ OwnSignatures'
<1>1. PICK more : more = SignedByMe(w, result.states)
  OBVIOUS
<1>2. PICK m : m = Message(w, more)
  OBVIOUS
<1>3. m.from = w /\ m.states = more
  BY <1>2 DEF Message
<1>4. \A s \in more : s.signers = {w}
  BY <1>1, SignedFields DEF SignedByMe
<1>5. CASE Stores(w, more, {m})
  <2>1. messages' = messages \union {m} /\ setting' = setting
    BY <1>5 DEF Stores
  <2>2. ASSUME NEW v \in Wallet
        PROVE  Given(v)' = IF v = w THEN Given(v) \union {Content(s) : s \in more} ELSE Given(v)
    BY <1>3, <2>1 DEF Given, Content
  <2>3. OwnSignatures'
    BY <1>3, <1>4, <2>1 DEF SigningInv, OwnSignatures
  <2>. QED  BY <1>1, <2>2, <2>3 DEF GivesOut
<1>6. CASE Stores(w, more, {}) /\ result.states = <<>>
  <2>1. more = {}
    BY <1>1, <1>6 DEF SignedByMe, Range
  <2>2. setting' = setting /\ messages' = messages
    BY <1>6 DEF Stores
  <2>3. (\A v : Given(v)' = Given(v)) /\ OwnSignatures'
    BY <2>2, NothingGiven
  <2>. QED  BY <1>1, <2>1, <2>3 DEF GivesOut
<1>. QED  BY <1>1, <1>2, <1>5, <1>6 DEF Cranks

\* The contents of the states that a crank of w signs.
LEMMA CrankContents ==
  ASSUME NEW w, NEW states, \A c \in Range(states) : Content(c) = c
  PROVE  {Content(s) : s \in SignedByMe(w, states)} = Range(states)
<1>1. \A c : Content(Signed(c, {w})) = Content(c)
  BY SignedFields
<1>2. SignedByMe(w, states) = {Signed(c, {w}) : c \in Range(states)}
  BY DEF SignedByMe
<1>. QED  BY <1>1, <1>2

LEMMA ContentOfContent == \A s : Content(Content(s)) = Content(s)
BY DEF Content, ProtocolState

LEMMA BuiltContent ==
  ASSUME NEW s, NEW turnNum, NEW o, Builds(s, turnNum, o)
  PROVE  Content(s) = s /\ s.turnNum = turnNum
BY DEF Builds, Content, ProtocolState

\* The leader cranks behind its latest state, which the follower has signed.
LEMMA LeaderSignsInTurn ==
  ASSUME SigningInv, NEW states, LeaderSigns(states)
  PROVE  /\ \A c \in Range(states) : Content(c) = c
         /\ InTurn(Given(Leader) \union Range(states), Given(Follower))
<1>1. Leader \in Wallet /\ Follower \in Wallet /\ InTurn(Given(Leader), Given(Follower))
  BY DEF SigningInv, Wallet
<1>2. ASSUME NEW a \in stored[Leader], a.turnNum = LatestTurnNum(stored[Leader]), Follower \in a.signers
      PROVE  Content(a) \in Given(Follower) /\ \A c \in Given(Leader) : c.turnNum <= Content(a).turnNum
  <2>1. Content(a) \in Given(Follower)
    BY <1>1, <1>2 DEF SigningInv, KeptAsGiven
  <2>2. \A c \in Given(Leader) : c.turnNum <= Content(a).turnNum
    BY <1>1, <1>2, GivenBeforeLatest, ContentFields
  <2>. QED  BY <2>1, <2>2
<1>3. CASE \E a \in stored[Leader] :
             IsAgreement(Leader, a) /\ \E s : Builds(s, a.turnNum + 1, a.outcome) /\ states = <<s>>
  <2>1. PICK a \in stored[Leader] :
          IsAgreement(Leader, a) /\ \E s : Builds(s, a.turnNum + 1, a.outcome) /\ states = <<s>>
    BY <1>3
  <2>2. PICK s : Builds(s, a.turnNum + 1, a.outcome) /\ states = <<s>>
    BY <2>1
  <2>3. PICK top : top = Content(a)
    OBVIOUS
  <2>4. a.turnNum = LatestTurnNum(stored[Leader]) /\ Follower \in a.signers
    BY <1>1, <2>1 DEF IsAgreement, At, FullySigned
  <2>5. top \in Given(Follower) /\ \A c \in Given(Leader) : c.turnNum <= top.turnNum
    BY <1>2, <2>3, <2>4
  <2>6. Content(s) = s /\ s.turnNum = top.turnNum + 1
    BY <2>2, <2>3, BuiltContent, ContentFields
  <2>7. PICK new : new = Range(states)
    OBVIOUS
  <2>8. new = {s}
    BY <2>2, <2>7, RangeOfOne
  <2>9. new \in SUBSET {top, s}
    BY <2>8
  <2>10. InTurn(Given(Leader) \union new, Given(Follower))
    BY <1>1, <2>5, <2>6, <2>9, LeaderStaysInTurn
  <2>. QED  BY <2>6, <2>7, <2>8, <2>10
<1>4. CASE \E a, p, b \in stored[Leader] :
             /\ IsCounterProposal(Leader, a, p, b)
             /\ \/ states = <<Content(b)>>
                \/ \E s : Builds(s, b.turnNum + 1, b.outcome) /\ states = <<Content(b), s>>
  <2>1. PICK b \in stored[Leader] :
          /\ b.turnNum = LatestTurnNum(stored[Leader]) /\ Follower \in b.signers
          /\ \/ states = <<Content(b)>>
             \/ \E s : Builds(s, b.turnNum + 1, b.outcome) /\ states = <<Content(b), s>>
    BY <1>4 DEF IsCounterProposal, At
  <2>2. PICK top : top = Content(b)
    OBVIOUS
  <2>3. /\ top \in Given(Follower) /\ \A c \in Given(Leader) : c.turnNum <= top.turnNum
        /\ Content(top) = top /\ top.turnNum = b.turnNum
    BY <1>2, <2>1, <2>2, ContentOfContent, ContentFields
  <2>4. PICK new : new = Range(states)
    OBVIOUS
  <2>5. CASE states = <<top>>
    <3>1. PICK next : next = ProtocolState(top.turnNum + 1, top.outcome)
      OBVIOUS
    <3>2. next.turnNum = top.turnNum + 1
      BY <3>1 DEF ProtocolState
    <3>3. new = {top}
      BY <2>4, <2>5, RangeOfOne
    <3>4. new \in SUBSET {top, next}
      BY <3>3
    <3>5. InTurn(Given(Leader) \union new, Given(Follower))
      BY <1>1, <2>3, <3>2, <3>4, LeaderStaysInTurn
    <3>. QED  BY <2>3, <2>4, <3>3, <3>5
  <2>6. CASE \E s : Builds(s, b.turnNum + 1, b.outcome) /\ states = <<top, s>>
    <3>1. PICK s : Builds(s, b.turnNum + 1, b.outcome) /\ states = <<top, s>>
      BY <2>6
    <3>2. Content(s) = s /\ s.turnNum = top.turnNum + 1
      BY <2>3, <3>1, BuiltContent
    <3>3. new = {top, s}
      BY <2>4, <3>1, RangeOfTwo
    <3>4. new \in SUBSET {top, s}
      BY <3>3
    <3>5. InTurn(Given(Leader) \union new, Given(Follower))
      BY <1>1, <2>3, <3>2, <3>4, LeaderStaysInTurn
    <3>. QED  BY <2>3, <2>4, <3>2, <3>3, <3>5
  <2>. QED  BY <2>1, <2>2, <2>5, <2>6
<1>. QED  BY <1>3, <1>4 DEF LeaderSigns

\* The follower cranks when the leader's latest state is later than all it has signed.
LEMMA FollowerSignsInTurn ==
  ASSUME SigningInv, NEW states, FollowerSigns(states)
  PROVE  /\ \A c \in Range(states) : Content(c) = c
         /\ InTurn(Given(Leader), Given(Follower) \union Range(states))
<1>1. Leader \in Wallet /\ Follower \in Wallet /\ InTurn(Given(Leader), Given(Follower))
  BY DEF SigningInv, Wallet
<1>2. PICK a, p \in stored[Follower] :
        /\ IsProposal(Follower, a, p)
        /\ \/ states = <<Content(p)>>
           \/ \E s : Builds(s, p.turnNum + 1, a.outcome) /\ states = <<s>>
  BY DEF FollowerSigns
<1>3. /\ p.turnNum = LatestTurnNum(stored[Follower]) /\ Leader \in p.signers /\ ~ FullySigned(p)
      /\ SoundState(p) /\ setting \in Settings /\ \A s \in stored[Follower] : SoundState(s)
  BY <1>1, <1>2 DEF IsProposal, At, SigningInv, FundsInv, SignedStates
<1>4. Follower \notin p.signers
  BY <1>3 DEF FullySigned, SoundState, Wallet
<1>5. PICK top : top = Content(p)
  OBVIOUS
<1>6. top \in Given(Leader) /\ top.turnNum = p.turnNum /\ Content(top) = top
  BY <1>1, <1>3, <1>5, ContentFields, ContentOfContent DEF SigningInv, KeptAsGiven
<1>7. top.turnNum \in Nat /\ top.turnNum >= 3
  BY <1>3, <1>6 DEF SoundState
<1>8. ASSUME NEW c \in Given(Follower) PROVE c.turnNum < top.turnNum
  <2>1. c.turnNum <= top.turnNum /\ c.turnNum \in Nat
    BY <1>1, <1>3, <1>6, GivenBeforeLatest DEF InTurn
  <2>2. ASSUME c.turnNum = top.turnNum PROVE FALSE
    <3>1. c = top
      BY <1>1, <1>6, <2>2 DEF InTurn, OnePerTurn
    <3>2. PICK s \in stored[Follower] : \/ Content(s) = c /\ Follower \in s.signers
                                        \/ FullySigned(s) /\ s.turnNum > c.turnNum
      BY <1>1 DEF SigningInv, Remembered, Remembers
    <3>3. ~ (s.turnNum > c.turnNum)
      <4>1. s.turnNum <= p.turnNum /\ s.turnNum \in Nat
        BY <1>3, LatestFacts DEF SoundState
      <4>. QED  BY <1>6, <1>7, <2>2, <4>1
    <3>4. Content(s) = Content(p) /\ Follower \in s.signers
      BY <1>5, <3>1, <3>2, <3>3
    <3>5. s = p
      BY <1>1, <3>4 DEF SigningInv, OneOfEach
    <3>. QED  BY <1>4, <3>4, <3>5
  <2>. QED  BY <1>7, <2>1, <2>2
<1>9. ASSUME NEW new, NEW next, next.turnNum = top.turnNum + 1, new = top \/ new = next,
             Range(states) = {new}, Content(new) = new
      PROVE  /\ \A c \in Range(states) : Content(c) = c
             /\ InTurn(Given(Leader), Given(Follower) \union Range(states))
  BY <1>1, <1>6, <1>7, <1>8, <1>9, FollowerStaysInTurn
<1>10. CASE states = <<top>>
  <2>1. PICK next : next = ProtocolState(top.turnNum + 1, top.outcome)
    OBVIOUS
  <2>2. next.turnNum = top.turnNum + 1
    BY <2>1 DEF ProtocolState
  <2>3. Range(states) = {top}
    BY <1>10, RangeOfOne
  <2>. QED  BY <1>6, <1>9, <2>2, <2>3
<1>11. CASE \E s : Builds(s, p.turnNum + 1, a.outcome) /\ states = <<s>>
  <2>1. PICK s : Builds(s, p.turnNum + 1, a.outcome) /\ states = <<s>>
    BY <1>11
  <2>2. Content(s) = s /\ s.turnNum = top.turnNum + 1
    BY <1>6, <2>1, BuiltContent
  <2>3. Range(states) = {s}
    BY <2>1, RangeOfOne
  <2>. QED  BY <1>9, <2>2, <2>3
<1>. QED  BY <1>2, <1>5, <1>10, <1>11

LEMMA CrankKeepsSigning ==
  ASSUME SigningInv, FundsInv', NEW w \in Wallet, NEW result, Cranks(w, result)
  PROVE  SigningInv' /\ GivesOut(w, Range(result.states))
<1>1. result \in CompletedCranks(w) /\ FundsInv /\ SolventStore
  BY FundsInvStores DEF Cranks, SigningInv
<1>2. \A s \in SignedByMe(w, result.states) : SoundState(s)
  BY <1>1, SignedAreSound
<1>3. PICK more : more = SignedByMe(w, result.states)
  OBVIOUS
<1>4. PICK given : given = Range(result.states)
  OBVIOUS
<1>5. w = Leader \/ w = Follower
  BY DEF Wallet
<1>6. /\ result.states = <<>> \/ \/ w = Leader /\ LeaderSigns(result.states)
                                 \/ w = Follower /\ FollowerSigns(result.states)
  BY <1>1, <1>5, LeaderCranks, FollowerCranks DEF CompletedCranks
<1>7. result.states = <<>> => given = {}
  BY <1>4 DEF Range
<1>8. InTurn(Given(Leader), Given(Follower)) /\ Leader # Follower
  BY DEF SigningInv, Leader, Follower
<1>9. /\ \A c \in given : Content(c) = c
      /\ w = Leader => InTurn(Given(Leader) \union given, Given(Follower))
      /\ w = Follower => InTurn(Given(Leader), Given(Follower) \union given)
  <2>1. CASE result.states = <<>>
    <3>1. Given(Leader) \union given = Given(Leader) /\ Given(Follower) \union given = Given(Follower)
      BY <1>7, <2>1
    <3>. QED  BY <1>7, <1>8, <2>1, <3>1
  <2>2. CASE w = Leader /\ LeaderSigns(result.states)
    BY <1>4, <1>8, <2>2, LeaderSignsInTurn
  <2>3. CASE w = Follower /\ FollowerSigns(result.states)
    BY <1>4, <1>8, <2>3, FollowerSignsInTurn
  <2>. QED  BY <1>6, <2>1, <2>2, <2>3
<1>10. {Content(s) : s \in more} = given
  BY <1>3, <1>4, <1>9, CrankContents
<1>11. GivesOut(w, given) /\ OwnSignatures'
  BY <1>3, <1>10, CrankGivesOut
<1>12. InTurn(Given(Leader)', Given(Follower)')
  <2>1. Leader \in Wallet /\ Follower \in Wallet
    BY DEF Wallet
  <2>2. CASE w = Leader
    <3>1. Given(Leader)' = Given(Leader) \union given /\ Given(Follower)' = Given(Follower)
      BY <1>8, <1>11, <2>1, <2>2 DEF GivesOut
    <3>. QED  BY <1>9, <2>2, <3>1
  <2>3. CASE w = Follower
    <3>1. Given(Follower)' = Given(Follower) \union given /\ Given(Leader)' = Given(Leader)
      BY <1>8, <1>11, <2>1, <2>3 DEF GivesOut
    <3>. QED  BY <1>9, <2>3, <3>1
  <2>. QED  BY <1>5, <2>2, <2>3
<1>13. \A s \in more : s.signers = {w}
  BY <1>3, SignedFields DEF SignedByMe
<1>14. \A s \in more : \A v \in s.signers : Content(s) \in Given(v)'
  BY <1>10, <1>11, <1>13 DEF GivesOut
<1>15. \A c \in given : \E s \in more : Content(s) = c /\ w \in s.signers
  BY <1>10, <1>13
<1>16. \E sent : Stores(w, more, sent)
  BY <1>3 DEF Cranks
<1>17. SigningInv'
  BY <1>2, <1>3, <1>11, <1>12, <1>14, <1>15, <1>16, StoresKeepsSigning
<1>. QED  BY <1>4, <1>11, <1>17

\* What a step signs: nothing, whatever is stored or asked for; or what a crank comes to.
LEMMA SigningSteps ==
  ASSUME SigningInv, [Next]_ledgerVars
  PROVE  /\ SigningInv'
         /\ \/ /\ \A v : Given(v)' = Given(v)
               /\ UNCHANGED requests \/ \E w \in Wallet : \E k \in RequestKey : Asks(w, k)
            \/ \E w \in Wallet : \E result :
                 Cranks(w, result) /\ GivesOut(w, Range(result.states))
<1>1. /\ FundsInv'
      /\ \/ /\ UNCHANGED <<setting, stored, messages>>
            /\ UNCHANGED requests \/ \E w \in Wallet : \E k \in RequestKey : Asks(w, k)
         \/ \E w \in Wallet : \E more :
              /\ Stores(w, more, {}) /\ UNCHANGED requests
              /\ (\E m \in messages : m.states = more) \/ more = stored[Other(w)]
         \/ \E w \in Wallet : \E result : Cranks(w, result)
  BY Steps DEF SigningInv
<1>2. CASE /\ UNCHANGED <<setting, stored, messages>>
           /\ UNCHANGED requests \/ \E w \in Wallet : \E k \in RequestKey : Asks(w, k)
  <2>1. /\ \A v : Given(v)' = Given(v)
        /\ OwnSignatures' /\ InTurn(Given(Leader)', Given(Follower)')
    BY <1>2, NothingGiven
  <2>2. KeptAsGiven' /\ HasSupport' /\ OneOfEach' /\ Remembered'
    BY <1>2, <2>1 DEF SigningInv, KeptAsGiven, HasSupport, OneOfEach, Remembered, Remembers,
                      FullySigned, Content
  <2>3. SigningInv'
    BY <1>1, <2>1, <2>2 DEF SigningInv
  <2>. QED  BY <1>2, <2>1, <2>3
<1>3. CASE \E w \in Wallet : \E more :
             /\ Stores(w, more, {}) /\ UNCHANGED requests
             /\ (\E m \in messages : m.states = more) \/ more = stored[Other(w)]
  <2>1. PICK w \in Wallet : \E more :
             /\ Stores(w, more, {}) /\ UNCHANGED requests
             /\ (\E m \in messages : m.states = more) \/ more = stored[Other(w)]
    BY <1>3
  <2>2. setting' = setting /\ messages' = messages
    BY <2>1 DEF Stores
  <2>3. \A v : Given(v)' = Given(v)
    BY <2>2, NothingGiven
  <2>4. SigningInv'
    BY <1>1, <2>1, PushKeepsSigning
  <2>. QED  BY <2>1, <2>3, <2>4
<1>4. CASE \E w \in Wallet : \E result : Cranks(w, result)
  BY <1>1, <1>4, CrankKeepsSigning
<1>. QED  BY <1>1, <1>2, <1>3, <1>4

\* The wallets never sign two different states with one turn number, whatever is lost,
\* repeated or comes late, so a store never has to refuse a message.
THEOREM OneStateForEachTurn == Spec => []OneStatePerTurn
<1>1. Init => SigningInv
  BY SigningInit
<1>2. SigningInv /\ [Next]_ledgerVars => SigningInv'
  BY SigningSteps
<1>3. SigningInv => OneStatePerTurn
  BY SigningInvImplies
<1>. QED  BY <1>1, <1>2, <1>3, PTL DEF Spec
------------------------------------------------------------------------------
(* What both have signed changes as the abstract ledger allows. *)

\* A crank loads no request that was not loaded before, and drops none.
SameLoaded(reqs, new) == \A k \in RequestKey : reqs[k] = NotLoaded <=> new[k] = NotLoaded

LEMMA RequestKeys ==
  ASSUME NEW x \in App
  PROVE  /\ Fund(x) \in RequestKey /\ Defund(x) \in RequestKey
         /\ Fund(x)[1] = "fund" /\ Defund(x)[1] = "defund" /\ Fund(x)[2] = x /\ Defund(x)[2] = x
         /\ \A y : Fund(x) # Defund(y) /\ Defund(x) # Fund(y)
BY DEF Fund, Defund, RequestKey

LEMMA MarkFacts ==
  ASSUME NEW reqs, NEW keys, NEW st \in RequestStatus
  PROVE  /\ keys \subseteq Loaded(reqs) => SameLoaded(reqs, Mark(reqs, keys, st))
         /\ \A k \in RequestKey :
              Mark(reqs, keys, st)[k] = IF k \in keys THEN st ELSE reqs[k]
<1>1. \A k \in RequestKey : Mark(reqs, keys, st)[k] = IF k \in keys THEN st ELSE reqs[k]
  BY DEF Mark
<1>2. st # NotLoaded
  BY DEF RequestStatus, Terminal, NotLoaded
<1>. QED  BY <1>1, <1>2 DEF SameLoaded, Loaded

LEMMA SameLoadedFacts ==
  ASSUME NEW a, NEW b
  PROVE  /\ SameLoaded(a, a) /\ (SameLoaded(a, b) => Loaded(b) = Loaded(a))
         /\ \A c : SameLoaded(a, b) /\ SameLoaded(b, c) => SameLoaded(a, c)
BY DEF SameLoaded, Loaded

Statuses == {"queued", "pending", "succeeded", "cancelled", "insufficient-funds", "inconsistent"}
LEMMA StatusFacts == RequestStatus = Statuses /\ NotLoaded \notin Statuses /\ NotMade \notin Statuses
BY DEF Statuses, RequestStatus, Terminal, NotLoaded, NotMade

LEMMA MarkedStayLoaded ==
  ASSUME NEW reqs, NEW outcome
  PROVE  /\ \A keys : keys \subseteq Loaded(reqs) => SameLoaded(reqs, MarkSuccesses(reqs, keys, outcome))
         /\ SameLoaded(reqs, MarkPending(reqs, outcome))
<1>1. "succeeded" \in RequestStatus /\ "pending" \in RequestStatus
  BY StatusFacts DEF Statuses
<1>2. \A keys : keys \subseteq Loaded(reqs) => SameLoaded(reqs, MarkSuccesses(reqs, keys, outcome))
  BY <1>1, MarkFacts DEF MarkSuccesses
<1>3. WithStatus(reqs, "queued") \subseteq Loaded(reqs)
  BY DEF WithStatus, Loaded, NotLoaded
<1>4. SameLoaded(reqs, MarkPending(reqs, outcome))
  BY <1>1, <1>3, MarkFacts DEF MarkPending
<1>. QED  BY <1>2, <1>4

\* After an agreed state is processed, no request is queued for what it funds.
LEMMA ProcessFacts ==
  ASSUME NEW reqs, NEW outcome, NEW processed, processed = ProcessAgreedState(reqs, outcome)
  PROVE  /\ SameLoaded(reqs, processed)
         /\ \A x \in App : processed[Fund(x)] = "queued" => ~ (outcome.items[x] > 0)
<1>1. PICK cancels : cancels = CancellationDefunds(reqs)
  OBVIOUS
<1>2. PICK judged : judged = MarkSuccesses(reqs, Loaded(reqs) \ cancels, outcome)
  OBVIOUS
<1>3. PICK reset : reset = Mark(judged, WithStatus(judged, "pending"), "queued")
  OBVIOUS
<1>4. PICK applied : applied = {k \in cancels : reset[Fund(k[2])] = "queued"}
  OBVIOUS
<1>5. PICK both : both = applied \union {Fund(k[2]) : k \in applied}
  OBVIOUS
<1>6. PICK canceled : canceled = Mark(reset, both, "cancelled")
  OBVIOUS
<1>7. processed = MarkSuccesses(canceled, cancels \ applied, outcome)
  BY <1>1, <1>2, <1>3, <1>4, <1>5, <1>6 DEF ProcessAgreedState
<1>8. "queued" \in RequestStatus /\ "cancelled" \in RequestStatus /\ "succeeded" \in RequestStatus
  BY StatusFacts DEF Statuses
<1>9. SameLoaded(reqs, judged)
  BY <1>2, MarkedStayLoaded
<1>10. SameLoaded(judged, reset)
  <2>1. WithStatus(judged, "pending") \subseteq Loaded(judged)
    BY DEF WithStatus, Loaded, NotLoaded
  <2>. QED  BY <1>3, <1>8, <2>1, MarkFacts
<1>11. Loaded(reset) = Loaded(reqs)
  BY <1>9, <1>10, SameLoadedFacts
<1>12. cancels \subseteq Loaded(reqs) /\ \A k \in cancels : Fund(k[2]) \in Loaded(reqs) /\ k[1] = "defund"
  BY <1>1, RequestKeys DEF CancellationDefunds
<1>13. SameLoaded(reset, canceled)
  <2>1. both \subseteq Loaded(reset)
    BY <1>4, <1>5, <1>11, <1>12
  <2>. QED  BY <1>6, <1>8, <2>1, MarkFacts
<1>14. SameLoaded(canceled, processed)
  <2>1. Loaded(canceled) = Loaded(reqs)
    BY <1>11, <1>13, SameLoadedFacts
  <2>. QED  BY <1>7, <1>12, <2>1, MarkedStayLoaded
<1>15. SameLoaded(reqs, processed)
  BY <1>9, <1>10, <1>13, <1>14, SameLoadedFacts
<1>16. ASSUME NEW x \in App, processed[Fund(x)] = "queued" PROVE ~ (outcome.items[x] > 0)
  <2>1. PICK f : f = Fund(x)
    OBVIOUS
  <2>2. f \in RequestKey /\ f[1] = "fund" /\ f[2] = x /\ f \notin cancels
    BY <1>12, <2>1, RequestKeys
  <2>3. canceled[f] = "queued"
    <3>1. processed[f] = canceled[f] \/ processed[f] = "succeeded"
      BY <1>7, <1>8, <2>2, MarkFacts DEF MarkSuccesses
    <3>. QED  BY <1>16, <2>1, <3>1
  <2>4. reset[f] = "queued"
    <3>1. canceled[f] = reset[f] \/ canceled[f] = "cancelled"
      BY <1>6, <1>8, <2>2, MarkFacts
    <3>. QED  BY <2>3, <3>1
  <2>5. judged[f] \in {"queued", "pending"}
    <3>1. reset[f] = judged[f] \/ f \in WithStatus(judged, "pending")
      BY <1>3, <1>8, <2>2, MarkFacts
    <3>. QED  BY <2>4, <3>1 DEF WithStatus
  <2>6. f \in Loaded(reqs)
    BY <1>9, <2>2, <2>5 DEF SameLoaded, Loaded, NotLoaded
  <2>7. SUFFICES ASSUME outcome.items[x] > 0 PROVE FALSE
    OBVIOUS
  <2>8. judged[f] = "succeeded"
    <3>1. (f[1] = "fund") = (outcome.items[f[2]] > 0)
      BY <2>2, <2>7
    <3>. QED  BY <1>2, <1>8, <2>2, <2>6, <3>1, MarkFacts DEF MarkSuccesses
  <2>. QED  BY <2>5, <2>8
<1>. QED  BY <1>15, <1>16

\* What becomes of an outcome when channels are given back and funded.
Changed(o, funded, returned) == AddItems(RemoveItems(o, returned), funded)

LEMMA ChangedItems ==
  ASSUME NEW o, NEW funded, NEW returned, NEW x \in App
  PROVE  Changed(o, funded, returned).items[x]
           = (o.items[x] - (IF x \in returned THEN 1 ELSE 0)) + (IF x \in funded THEN 1 ELSE 0)
BY DEF Changed, AddItems, RemoveItems

\* What is built changes the outcome for some of the requests it is given.
LEMMA BuildFacts ==
  ASSUME NEW reqs, NEW o, NEW keys \in SUBSET Loaded(reqs), NEW built, built = BuildOutcome(reqs, o, keys)
  PROVE  /\ SameLoaded(reqs, built.reqs)
         /\ \E funded, returned \in SUBSET App :
              /\ built.outcome = Changed(o, funded, returned)
              /\ \A x \in funded : Fund(x) \in keys
              /\ \A x \in returned : /\ Defund(x) \in keys /\ o.items[x] > 0
                                     /\ built.reqs[Defund(x)] = reqs[Defund(x)]
<1>1. PICK defunds : defunds = {x \in App : <<"defund", x>> \in keys}
  OBVIOUS
<1>2. PICK removed : removed = {x \in defunds : CanRemove(o, x)}
  OBVIOUS
<1>3. PICK rest : rest = RemoveItems(o, removed)
  OBVIOUS
<1>4. PICK funds : funds = {x \in App : <<"fund", x>> \in keys}
  OBVIOUS
<1>5. PICK added : added = Affordable(rest, funds)
  OBVIOUS
<1>6. PICK a : a = {Defund(x) : x \in defunds \ removed}
  OBVIOUS
<1>7. PICK b : b = {Fund(x) : x \in funds \ added}
  OBVIOUS
<1>8. /\ built.outcome = AddItems(rest, added)
      /\ built.reqs = Mark(Mark(reqs, a, "inconsistent"), b, "insufficient-funds")
  BY <1>1, <1>2, <1>3, <1>4, <1>5, <1>6, <1>7 DEF BuildOutcome
<1>9. added \in SUBSET funds
  <2>1. funds \in SUBSET App
    BY <1>4
  <2>2. \E f \in SUBSET funds :
          \A x \in funds : x \in f <=> CanAdd(AddItems(rest, {y \in f : y < x}), x)
    BY <2>1, AffordableExists
  <2>. QED  BY <1>5, <2>2 DEF Affordable
<1>10. a \subseteq Loaded(reqs) /\ b \subseteq Loaded(reqs)
  BY <1>1, <1>4, <1>6, <1>7 DEF Fund, Defund
<1>11. "inconsistent" \in RequestStatus /\ "insufficient-funds" \in RequestStatus
  BY StatusFacts DEF Statuses
<1>12. PICK r : r = Mark(reqs, a, "inconsistent")
  OBVIOUS
<1>13. SameLoaded(reqs, r) /\ \A k \in RequestKey : r[k] = IF k \in a THEN "inconsistent" ELSE reqs[k]
  BY <1>10, <1>11, <1>12, MarkFacts
<1>14. /\ SameLoaded(r, built.reqs)
       /\ \A k \in RequestKey : built.reqs[k] = IF k \in b THEN "insufficient-funds" ELSE r[k]
  <2>1. b \subseteq Loaded(r)
    BY <1>10, <1>13, SameLoadedFacts
  <2>. QED  BY <1>8, <1>11, <1>12, <2>1, MarkFacts
<1>15. SameLoaded(reqs, built.reqs)
  BY <1>13, <1>14, SameLoadedFacts
<1>16. ASSUME NEW x \in removed
       PROVE  /\ Defund(x) \in keys /\ o.items[x] > 0
              /\ built.reqs[Defund(x)] = reqs[Defund(x)]
  <2>1. x \in App /\ Defund(x) \in keys /\ o.items[x] > 0
    BY <1>1, <1>2 DEF Defund, CanRemove
  <2>2. Defund(x) \in RequestKey /\ Defund(x) \notin b
    BY <1>7, <2>1, RequestKeys
  <2>3. Defund(x) \notin a
    <3>1. \A y \in defunds \ removed : Defund(y) # Defund(x)
      BY DEF Defund
    <3>. QED  BY <1>6, <3>1
  <2>. QED  BY <1>13, <1>14, <2>1, <2>2, <2>3
<1>17. \A x \in added : Fund(x) \in keys
  BY <1>4, <1>9 DEF Fund
<1>18. added \in SUBSET App /\ removed \in SUBSET App /\ built.outcome = Changed(o, added, removed)
  BY <1>1, <1>2, <1>3, <1>4, <1>8, <1>9 DEF Changed
<1>. QED  BY <1>15, <1>16, <1>17, <1>18

\* The follower's counterproposal to q: what it wants of the channels that q changes.
Counters(reqs, o, q, new) ==
  \/ new = o
  \/ \E funded, returned \in SUBSET App :
       /\ new = Changed(o, funded, returned)
       /\ \A x \in funded : Fund(x) \in Loaded(reqs) /\ x \in ChangedApps(o, q)
       /\ \A x \in returned : /\ Defund(x) \in Loaded(reqs) /\ x \in ChangedApps(o, q)
                              /\ o.items[x] > 0
       /\ funded \intersect returned = {}

\* A comparison agrees to no change but what it finds among the loaded requests;
\* and what it proposes instead is built from them.
LEMMA CompareFacts ==
  ASSUME NEW reqs, NEW o, o \in Outcome, NEW q, NEW c, c = Comparison(reqs, o, q)
  PROVE  /\ SameLoaded(reqs, c.reqs)
         /\ c.type = "full-agreement" =>
              \/ ChangedApps(o, q) = {}
              \/ \E funded, returned \in SUBSET App :
                   /\ q = Changed(o, funded, returned)
                   /\ \A x \in funded : Fund(x) \in Loaded(reqs)
                   /\ \A x \in returned : Defund(x) \in Loaded(reqs) /\ o.items[x] > 0
         /\ c.type \in {"some-overlap", "no-overlap"} => Counters(reqs, o, q, c.outcome)
<1>1. PICK changed : changed = ChangedApps(o, q)
  OBVIOUS
<1>2. PICK overlap : overlap = {k \in Loaded(reqs) \ CancellationDefunds(reqs) : k[2] \in changed}
  OBVIOUS
<1>3. PICK built : built = BuildOutcome(reqs, o, overlap)
  OBVIOUS
<1>4. overlap \in SUBSET Loaded(reqs)
  BY <1>2
<1>5. /\ SameLoaded(reqs, built.reqs)
      /\ \E funded, returned \in SUBSET App :
           /\ built.outcome = Changed(o, funded, returned)
           /\ \A x \in funded : Fund(x) \in overlap
           /\ \A x \in returned : Defund(x) \in overlap /\ o.items[x] > 0
  BY <1>3, <1>4, BuildFacts
<1>6. PICK funded, returned \in SUBSET App :
        /\ built.outcome = Changed(o, funded, returned)
        /\ \A x \in funded : Fund(x) \in overlap
        /\ \A x \in returned : Defund(x) \in overlap /\ o.items[x] > 0
  BY <1>5
<1>7. /\ \A x \in funded : Fund(x) \in Loaded(reqs) /\ x \in changed
      /\ \A x \in returned : Defund(x) \in Loaded(reqs) /\ x \in changed
  BY <1>2, <1>6, RequestKeys
<1>8. funded \intersect returned = {}
  <2>. SUFFICES ASSUME NEW x \in funded, x \in returned PROVE FALSE
    OBVIOUS
  <2>1. x \in App /\ Fund(x) \in Loaded(reqs) /\ Defund(x) \in Loaded(reqs)
    BY <1>7
  <2>2. Defund(x) \in CancellationDefunds(reqs)
    BY <2>1 DEF CancellationDefunds
  <2>. QED  BY <1>2, <1>6, <2>2
<1>. DEFINE Is(t, r, outcome) == c = [type |-> t, reqs |-> r, outcome |-> outcome]
<1>9. \/ Is("full-agreement", reqs, q) /\ changed = {}
      \/ Is("cancellation error", reqs, o)
      \/ Is("no-overlap", reqs, o)
      \/ Is("some-overlap", built.reqs, built.outcome)
      \/ Is("full-agreement", built.reqs, q) /\ built.outcome = q
      \/ Is("outcomes inconsistent", built.reqs, o)
  BY <1>1, <1>2, <1>3 DEF Comparison
<1>. HIDE DEF Is
<1>10. \E t, r, p : /\ Is(t, r, p) /\ (r = reqs \/ r = built.reqs)
                    /\ t = "full-agreement" => changed = {} \/ built.outcome = q
                    /\ t \in {"some-overlap", "no-overlap"} => p = o \/ p = built.outcome
  <2>1. CASE Is("full-agreement", reqs, q) /\ changed = {}
    BY <2>1
  <2>2. CASE Is("cancellation error", reqs, o)
    BY <2>2
  <2>3. CASE Is("no-overlap", reqs, o)
    BY <2>3
  <2>4. CASE Is("some-overlap", built.reqs, built.outcome)
    BY <2>4
  <2>5. CASE Is("full-agreement", built.reqs, q) /\ built.outcome = q
    BY <2>5
  <2>6. CASE Is("outcomes inconsistent", built.reqs, o)
    BY <2>6
  <2>. QED  BY <1>9, <2>1, <2>2, <2>3, <2>4, <2>5, <2>6
<1>11. PICK t, r, p : /\ Is(t, r, p) /\ (r = reqs \/ r = built.reqs)
                      /\ t = "full-agreement" => changed = {} \/ built.outcome = q
                      /\ t \in {"some-overlap", "no-overlap"} => p = o \/ p = built.outcome
  BY <1>10
<1>12. c.type = t /\ c.reqs = r /\ c.outcome = p
  BY <1>11 DEF Is
<1>13. SameLoaded(reqs, c.reqs)
  BY <1>5, <1>11, <1>12, SameLoadedFacts
<1>14. c.type = "full-agreement" =>
         \/ ChangedApps(o, q) = {}
         \/ \E fs, rs \in SUBSET App :
              /\ q = Changed(o, fs, rs)
              /\ \A x \in fs : Fund(x) \in Loaded(reqs)
              /\ \A x \in rs : Defund(x) \in Loaded(reqs) /\ o.items[x] > 0
  BY <1>1, <1>6, <1>7, <1>11, <1>12
<1>15. Counters(reqs, o, q, built.outcome) /\ Counters(reqs, o, q, o)
  BY <1>1, <1>6, <1>7, <1>8 DEF Counters
<1>. QED  BY <1>11, <1>12, <1>13, <1>14, <1>15

\* A channel is in the ledger once, or not at all.
Plain(o) == \A x \in App : o.items[x] \in {0, 1}

\* What w wants, and how far that is from o.
Wants(reqs, o, funded, returned) ==
  /\ \A x \in funded : Fund(x) \in Loaded(reqs) /\ o.items[x] = 0
  /\ \A x \in returned : Defund(x) \in Loaded(reqs) /\ o.items[x] = 1

\* A change is agreed to only by who wants it.
LEMMA AgreedIsWanted ==
  ASSUME NEW reqs, NEW o, o \in Outcome, Plain(o),
         NEW funded \in SUBSET App, NEW returned \in SUBSET App,
         \A x \in funded : o.items[x] = 0, \A x \in returned : o.items[x] = 1,
         NEW q, q = Changed(o, funded, returned),
         NEW c, c = Comparison(reqs, o, q), c.type = "full-agreement"
  PROVE  Wants(reqs, o, funded, returned)
<1>1. \A x \in App : q.items[x] = IF x \in funded THEN 1 ELSE IF x \in returned THEN 0 ELSE o.items[x]
  <2>. TAKE x \in App
  <2>1. q.items[x] = (o.items[x] - (IF x \in returned THEN 1 ELSE 0)) + (IF x \in funded THEN 1 ELSE 0)
    BY ChangedItems
  <2>2. o.items[x] = 0 \/ o.items[x] = 1
    BY DEF Plain
  <2>3. x \in funded => x \notin returned
    OBVIOUS
  <2>. QED  BY <2>1, <2>2, <2>3
<1>2. CASE ChangedApps(o, q) = {}
  <2>1. ASSUME NEW x \in funded \union returned PROVE FALSE
    <3>1. (o.items[x] > 0) # (q.items[x] > 0)
      <4>1. CASE x \in funded
        BY <1>1, <4>1
      <4>2. CASE x \in returned
        <5>1. x \notin funded /\ o.items[x] = 1 /\ q.items[x] = 0
          BY <1>1, <4>2
        <5>. QED  BY <5>1
      <4>. QED  BY <4>1, <4>2
    <3>. QED  BY <1>2, <3>1 DEF ChangedApps
  <2>. QED  BY <2>1 DEF Wants
<1>3. CASE \E fs, rs \in SUBSET App :
             /\ q = Changed(o, fs, rs)
             /\ \A x \in fs : Fund(x) \in Loaded(reqs)
             /\ \A x \in rs : Defund(x) \in Loaded(reqs) /\ o.items[x] > 0
  <2>1. PICK fs, rs \in SUBSET App :
             /\ q = Changed(o, fs, rs)
             /\ \A x \in fs : Fund(x) \in Loaded(reqs)
             /\ \A x \in rs : Defund(x) \in Loaded(reqs) /\ o.items[x] > 0
    BY <1>3
  <2>2. \A x \in App : q.items[x] = (o.items[x] - (IF x \in rs THEN 1 ELSE 0)) + (IF x \in fs THEN 1 ELSE 0)
    BY <2>1, ChangedItems
  <2>3. ASSUME NEW x \in funded PROVE x \in fs
    <3>1. o.items[x] = 0 /\ q.items[x] = 1 /\ x \notin rs
      BY <1>1, <2>1
    <3>. QED  BY <2>2, <3>1
  <2>4. ASSUME NEW x \in returned PROVE x \in rs
    <3>1. o.items[x] = 1 /\ q.items[x] = 0
      <4>1. x \notin funded
        OBVIOUS
      <4>. QED  BY <1>1, <4>1
    <3>. QED  BY <2>2, <3>1
  <2>. QED  BY <2>1, <2>3, <2>4 DEF Wants
<1>. QED  BY <1>2, <1>3, CompareFacts

\* The leader's proposal: what it wants, with the defunds still to be answered.
Proposes(reqs, new, o, q) ==
  \E funded, returned \in SUBSET App :
    /\ Wants(reqs, o, funded, returned) /\ q = Changed(o, funded, returned)
    /\ \A x \in returned : new[Defund(x)] \in {"queued", "pending"}

\* What the leader comes to in agreement.
Advances(reqs, result, agreed, before) ==
  /\ SameLoaded(reqs, result.reqs) /\ NoDuplicates(Loaded(reqs), agreed.outcome)
  /\ \/ result.states = before
     \/ \E s : /\ result.states = Append(before, s) /\ s.turnNum = agreed.turnNum + 1
               /\ Content(s) = s
               /\ Plain(agreed.outcome) =>
                    Proposes(reqs, result.reqs, agreed.outcome, s.outcome)

LEMMA LeaderProposes ==
  ASSUME NEW reqs, NEW agreed, agreed.outcome \in Outcome, NEW before,
         NEW result, result = CrankAsLeaderInAgreement(reqs, agreed, before), result.error = "none"
  PROVE  Advances(reqs, result, agreed, before)
<1>1. PICK o : o = agreed.outcome
  OBVIOUS
<1>2. PICK processed : processed = ProcessAgreedState(reqs, o)
  OBVIOUS
<1>3. PICK keys : keys = WithStatus(processed, "queued")
  OBVIOUS
<1>4. PICK built : built = BuildOutcome(processed, o, keys)
  OBVIOUS
<1>5. PICK s : s = ProtocolState(agreed.turnNum + 1, built.outcome)
  OBVIOUS
<1>6. /\ ~ ProcessAgreedStateThrows(reqs, o)
      /\ \/ result = Cranked(built.reqs, before)
         \/ result = Cranked(MarkPending(built.reqs, built.outcome), Append(before, s))
  <2>1. \/ result = Thrown("process")
        \/ /\ ~ ProcessAgreedStateThrows(reqs, o)
           /\ \/ result = Cranked(built.reqs, before)
              \/ result = Cranked(MarkPending(built.reqs, built.outcome), Append(before, s))
    BY <1>1, <1>2, <1>3, <1>4, <1>5 DEF CrankAsLeaderInAgreement
  <2>2. result # Thrown("process")
    BY DEF Thrown
  <2>. QED  BY <2>1, <2>2
<1>7. NoDuplicates(Loaded(reqs), o)
  BY <1>6 DEF ProcessAgreedStateThrows
<1>8. SameLoaded(reqs, processed) /\ \A x \in App : processed[Fund(x)] = "queued" => ~ (o.items[x] > 0)
  BY <1>2, ProcessFacts
<1>9. keys \in SUBSET Loaded(processed)
  BY <1>3 DEF WithStatus, Loaded, NotLoaded
<1>10. /\ SameLoaded(processed, built.reqs)
       /\ \E funded, returned \in SUBSET App :
            /\ built.outcome = Changed(o, funded, returned)
            /\ \A x \in funded : Fund(x) \in keys
            /\ \A x \in returned : /\ Defund(x) \in keys /\ o.items[x] > 0
                                   /\ built.reqs[Defund(x)] = processed[Defund(x)]
  BY <1>4, <1>9, BuildFacts
<1>11. PICK r : r = MarkPending(built.reqs, built.outcome)
  OBVIOUS
<1>12. SameLoaded(reqs, built.reqs) /\ SameLoaded(reqs, r)
  BY <1>8, <1>10, <1>11, MarkedStayLoaded, SameLoadedFacts
<1>13. ASSUME Plain(o) PROVE Proposes(reqs, r, o, built.outcome)
  <2>1. PICK funded, returned \in SUBSET App :
            /\ built.outcome = Changed(o, funded, returned)
            /\ \A x \in funded : Fund(x) \in keys
            /\ \A x \in returned : /\ Defund(x) \in keys /\ o.items[x] > 0
                                   /\ built.reqs[Defund(x)] = processed[Defund(x)]
    BY <1>10
  <2>2. \A k \in keys : k \in Loaded(reqs) /\ processed[k] = "queued"
    BY <1>3, <1>8, <1>9, SameLoadedFacts DEF WithStatus
  <2>3. ASSUME NEW x \in funded PROVE Fund(x) \in Loaded(reqs) /\ o.items[x] = 0
    <3>1. Fund(x) \in keys /\ x \in App
      BY <2>1
    <3>2. ~ (o.items[x] > 0) /\ (o.items[x] = 0 \/ o.items[x] = 1)
      BY <1>8, <1>13, <2>2, <3>1 DEF Plain
    <3>. QED  BY <2>2, <3>1, <3>2
  <2>4. ASSUME NEW x \in returned
        PROVE  /\ Defund(x) \in Loaded(reqs) /\ o.items[x] = 1 /\ r[Defund(x)] \in {"queued", "pending"}
    <3>1. Defund(x) \in keys /\ x \in App /\ o.items[x] > 0 /\ built.reqs[Defund(x)] = processed[Defund(x)]
      BY <2>1
    <3>2. o.items[x] = 1
      BY <1>13, <3>1 DEF Plain
    <3>3. built.reqs[Defund(x)] = "queued" /\ Defund(x) \in RequestKey
      BY <2>2, <3>1, RequestKeys
    <3>4. "pending" \in RequestStatus
      BY StatusFacts DEF Statuses
    <3>5. r[Defund(x)] \in {"queued", "pending"}
      BY <1>11, <3>3, <3>4, MarkFacts DEF MarkPending
    <3>. QED  BY <2>2, <3>1, <3>2, <3>5
  <2>. QED  BY <2>1, <2>3, <2>4 DEF Proposes, Wants
<1>14. s.turnNum = agreed.turnNum + 1 /\ s.outcome = built.outcome /\ Content(s) = s
  BY <1>5 DEF ProtocolState, Content
<1>15. CASE result = Cranked(built.reqs, before)
  <2>1. result.reqs = built.reqs /\ result.states = before
    BY <1>15 DEF Cranked
  <2>. QED  BY <1>1, <1>7, <1>12, <2>1 DEF Advances
<1>16. CASE result = Cranked(r, Append(before, s))
  <2>1. result.reqs = r /\ result.states = Append(before, s)
    BY <1>16 DEF Cranked
  <2>. QED  BY <1>1, <1>7, <1>12, <1>13, <1>14, <2>1 DEF Advances
<1>. QED  BY <1>6, <1>11, <1>15, <1>16

LEMMA LeaderAccepts ==
  ASSUME NEW reqs, NEW o, o \in Outcome, NEW agreed, agreed.outcome = o,
         NEW counter, counter.outcome \in Outcome,
         NEW result, result = CrankAsLeaderInCounterProposal(reqs, agreed, counter),
         result.error = "none", NEW before, before = <<counter>>
  PROVE  /\ Comparison(reqs, o, counter.outcome).type = "full-agreement"
         /\ Advances(reqs, result, counter, before)
<1>1. PICK c : c = Comparison(reqs, o, counter.outcome)
  OBVIOUS
<1>2. SameLoaded(reqs, c.reqs)
  BY <1>1, CompareFacts
<1>4. c.type = "full-agreement" /\ result = CrankAsLeaderInAgreement(c.reqs, counter, before)
  <2>1. \/ c.type # "full-agreement" /\ result = Thrown(c.type)
        \/ c.type = "full-agreement" /\ result = CrankAsLeaderInAgreement(c.reqs, counter, before)
    BY <1>1 DEF CrankAsLeaderInCounterProposal
  <2>2. c.type # "none"
    BY <1>1 DEF Comparison
  <2>3. result # Thrown(c.type)
    BY <2>2 DEF Thrown
  <2>. QED  BY <2>1, <2>3
<1>5. Advances(c.reqs, result, counter, before)
  BY <1>4, LeaderProposes
<1>6. Loaded(c.reqs) = Loaded(reqs)
      /\ \A r, q : Proposes(c.reqs, r, counter.outcome, q) => Proposes(reqs, r, counter.outcome, q)
  BY <1>2, SameLoadedFacts DEF Proposes, Wants
<1>7. \A r : SameLoaded(c.reqs, r) => SameLoaded(reqs, r)
  BY <1>2, SameLoadedFacts
<1>8. Advances(reqs, result, counter, before)
  BY <1>5, <1>6, <1>7 DEF Advances
<1>. QED  BY <1>1, <1>4, <1>8

\* What the follower comes to when it finds a proposal.
Replies(reqs, result, agreed, proposed) ==
  /\ SameLoaded(reqs, result.reqs)
  /\ \/ /\ result.states = <<proposed>>
        /\ \E loaded : /\ SameLoaded(reqs, loaded)
                       /\ Comparison(loaded, agreed.outcome, proposed.outcome).type
                            = "full-agreement"
     \/ \E s : /\ result.states = <<s>> /\ s.turnNum = proposed.turnNum + 1
               /\ Content(s) = s
               /\ Counters(reqs, agreed.outcome, proposed.outcome, s.outcome)

LEMMA FollowerAnswers ==
  ASSUME NEW reqs, NEW agreed, agreed.outcome \in Outcome, NEW proposed,
         NEW result, result = CrankAsFollowerInProposal(reqs, agreed, proposed),
         result.error = "none"
  PROVE  Replies(reqs, result, agreed, proposed)
<1>1. PICK o : o = agreed.outcome
  OBVIOUS
<1>2. PICK q : q = proposed.outcome
  OBVIOUS
<1>3. PICK loaded : loaded = ProcessAgreedState(reqs, o)
  OBVIOUS
<1>4. PICK c : c = Comparison(loaded, o, q)
  OBVIOUS
<1>5. PICK s : s = ProtocolState(proposed.turnNum + 1, c.outcome)
  OBVIOUS
<1>6. SameLoaded(reqs, loaded) /\ SameLoaded(loaded, c.reqs)
  BY <1>1, <1>3, <1>4, ProcessFacts, CompareFacts
<1>7. \/ /\ c.type = "full-agreement"
         /\ result = Cranked(ProcessAgreedState(c.reqs, q), <<proposed>>)
      \/ /\ c.type \in {"some-overlap", "no-overlap"}
         /\ result = Cranked(MarkPending(c.reqs, c.outcome), <<s>>)
  <2>1. \/ result = Thrown("process")
        \/ /\ c.type = "full-agreement"
           /\ result = Cranked(ProcessAgreedState(c.reqs, q), <<proposed>>)
        \/ /\ c.type \in {"some-overlap", "no-overlap"}
           /\ result = Cranked(MarkPending(c.reqs, c.outcome), <<s>>)
        \/ result = Thrown(c.type)
    BY <1>1, <1>2, <1>3, <1>4, <1>5 DEF CrankAsFollowerInProposal
  <2>2. c.type # "none"
    BY <1>4 DEF Comparison
  <2>3. result # Thrown("process") /\ result # Thrown(c.type)
    BY <2>2 DEF Thrown
  <2>. QED  BY <2>1, <2>3
<1>8. CASE /\ c.type = "full-agreement"
           /\ result = Cranked(ProcessAgreedState(c.reqs, q), <<proposed>>)
  <2>1. result.states = <<proposed>> /\ result.reqs = ProcessAgreedState(c.reqs, q)
    BY <1>8 DEF Cranked
  <2>2. SameLoaded(c.reqs, result.reqs)
    BY <2>1, ProcessFacts
  <2>3. SameLoaded(reqs, result.reqs)
    BY <1>6, <2>2, SameLoadedFacts
  <2>4. Comparison(loaded, agreed.outcome, proposed.outcome).type = "full-agreement"
    BY <1>1, <1>2, <1>4, <1>8
  <2>. QED  BY <1>6, <2>1, <2>3, <2>4 DEF Replies
<1>9. CASE /\ c.type \in {"some-overlap", "no-overlap"}
           /\ result = Cranked(MarkPending(c.reqs, c.outcome), <<s>>)
  <2>1. result.states = <<s>> /\ result.reqs = MarkPending(c.reqs, c.outcome)
    BY <1>9 DEF Cranked
  <2>2. SameLoaded(reqs, result.reqs)
    BY <1>6, <2>1, MarkedStayLoaded, SameLoadedFacts
  <2>3. s.turnNum = proposed.turnNum + 1 /\ s.outcome = c.outcome /\ Content(s) = s
    BY <1>5 DEF ProtocolState, Content
  <2>4. Loaded(loaded) = Loaded(reqs)
    BY <1>6, SameLoadedFacts
  <2>5. Counters(loaded, o, q, c.outcome)
    BY <1>1, <1>4, <1>9, CompareFacts
  <2>6. Counters(reqs, o, q, c.outcome)
    BY <2>4, <2>5 DEF Counters
  <2>. QED  BY <1>1, <1>2, <2>1, <2>2, <2>3, <2>6 DEF Replies
<1>. QED  BY <1>7, <1>8, <1>9
------------------------------------------------------------------------------
(* What both are bound to, and what is under way. *)

Bound == Given(Leader) \intersect Given(Follower)

Asked(w, k) == requests[w][k] # NotMade
Pursued(k) == requests[Leader][k] \in {"queued", "pending"}

Wanted(w, o, funded, returned) ==
  /\ \A x \in funded : Asked(w, Fund(x)) /\ o.items[x] = 0
  /\ \A x \in returned : Asked(w, Defund(x)) /\ o.items[x] = 1

\* A proposal of the leader has what the leader wants, and what it takes out is still
\* to be answered.
Proposed(o, q) ==
  \E funded, returned \in SUBSET App :
    /\ Wanted(Leader, o, funded, returned) /\ q = Changed(o, funded, returned)
    /\ \A x \in returned : Pursued(Defund(x))

\* A counterproposal has what the follower wants; or a channel twice, but then one
\* that the leader wants to take out.
Countered(o, q) ==
  \/ \E funded, returned \in SUBSET App :
       Wanted(Follower, o, funded, returned) /\ q = Changed(o, funded, returned)
  \/ \E x \in App : q.items[x] > 1 /\ Pursued(Defund(x))

\* Beyond a there is nothing but a proposal of the next turn, and a counterproposal to it.
LeaderBeyond(a) ==
  \A p \in Given(Leader) :
    p.turnNum <= a.turnNum \/ (p.turnNum = a.turnNum + 1 /\ Proposed(a.outcome, p.outcome))
FollowerBeyond(a) ==
  \A c \in Given(Follower) :
    \/ c.turnNum <= a.turnNum
    \/ /\ c.turnNum = a.turnNum + 2 /\ Countered(a.outcome, c.outcome)
       /\ \E p \in Given(Leader) : p.turnNum = a.turnNum + 1

Outstanding(a) == a \in Bound /\ Plain(a.outcome) /\ LeaderBeyond(a) /\ FollowerBeyond(a)

AgreementInv == SigningInv /\ \E a : Outstanding(a)

LEMMA GivenFacts ==
  ASSUME SigningInv, NEW w \in Wallet, NEW c \in Given(w)
  PROVE  /\ Content(c) = c /\ c.turnNum \in Nat /\ c.turnNum >= 3
         /\ Solvent(c.outcome) /\ c.outcome \in Outcome
<1>1. CASE c = Opening(setting.balance)
  <2>1. setting.balance \in [Wallet -> Nat]
    BY LedgerAssumption DEF SigningInv, FundsInv
  <2>2. Content(c) = c
    BY <1>1 DEF Content, Opening, ProtocolState
  <2>. QED  BY <1>1, <2>1, <2>2, OpeningFacts DEF Solvent
<1>2. CASE c # Opening(setting.balance)
  <2>1. PICK m \in messages : \E s \in m.states : c = Content(s)
    BY <1>2 DEF Given
  <2>2. PICK s \in m.states : c = Content(s)
    BY <2>1
  <2>3. SoundState(s)
    BY <2>1, <2>2 DEF SigningInv, FundsInv, SignedStates
  <2>4. Content(c) = c
    BY <2>2, ContentOfContent
  <2>. QED  BY <2>2, <2>3, <2>4, ContentFields DEF SoundState, Solvent
<1>. QED  BY <1>1, <1>2

LEMMA OutstandingIsLast ==
  ASSUME SigningInv, NEW a, Outstanding(a)
  PROVE  \A c \in Bound : c.turnNum <= a.turnNum
<1>. TAKE c \in Bound
<1>1. Leader \in Wallet /\ c \in Given(Leader) /\ c \in Given(Follower) /\ a \in Given(Leader)
  BY DEF Bound, Outstanding, Wallet
<1>2. c.turnNum \in Nat /\ a.turnNum \in Nat
  BY <1>1, GivenFacts
<1>3. c.turnNum <= a.turnNum \/ c.turnNum = a.turnNum + 1
  BY <1>1 DEF Outstanding, LeaderBeyond
<1>4. c.turnNum <= a.turnNum \/ c.turnNum = a.turnNum + 2
  BY <1>1 DEF Outstanding, FollowerBeyond
<1>. QED  BY <1>2, <1>3, <1>4

LEMMA OneOfATurn ==
  ASSUME SigningInv, NEW c \in Given(Leader) \union Given(Follower),
         NEW d \in Given(Leader) \union Given(Follower), c.turnNum = d.turnNum
  PROVE  c = d
BY DEF SigningInv, InTurn, OnePerTurn

\* What both have signed, both have given out; and the other way round, but for the
\* opening state, which takes no message.
LEMMA AgreedIsBound ==
  ASSUME SigningInv
  PROVE  Agreed \subseteq Bound /\ \A c \in Bound : c # Opening(setting.balance) => c \in Agreed
<1>1. Leader \in Wallet /\ Follower \in Wallet /\ Wallet = {Leader, Follower}
  BY DEF Wallet
<1>2. ASSUME NEW s \in SignedStates, NEW w \in s.signers PROVE Content(s) \in Given(w)
  <2>1. CASE \E v \in Wallet : s \in stored[v]
    BY <2>1 DEF SigningInv, KeptAsGiven
  <2>2. CASE \E m \in messages : s \in m.states
    <3>1. PICK m \in messages : s \in m.states
      BY <2>2
    <3>2. w = m.from
      BY <3>1 DEF SigningInv, OwnSignatures
    <3>. QED  BY <3>1, <3>2 DEF Given
  <2>. QED  BY <2>1, <2>2 DEF SignedStates
<1>3. ASSUME NEW c \in Agreed, NEW w \in Wallet PROVE c \in Given(w)
  <2>1. w \in SignersOf(c)
    BY <1>3 DEF Agreed
  <2>2. PICK s \in SignedStates : Content(s) = c /\ w \in s.signers
    BY <2>1 DEF SignersOf
  <2>. QED  BY <1>2, <2>2
<1>4. ASSUME NEW c \in Bound, c # Opening(setting.balance) PROVE c \in Agreed
  <2>1. ASSUME NEW w \in Wallet PROVE \E s \in SignedStates : Content(s) = c /\ w \in s.signers
    <3>1. c \in Given(w)
      BY <1>1 DEF Bound
    <3>2. PICK m \in messages : m.from = w /\ \E s \in m.states : c = Content(s)
      BY <1>4, <3>1 DEF Given
    <3>3. PICK s \in m.states : c = Content(s)
      BY <3>2
    <3>4. s.signers = {w} /\ s \in SignedStates
      BY <3>2 DEF SigningInv, OwnSignatures, SignedStates
    <3>. QED  BY <3>3, <3>4
  <2>2. c \in {Content(s) : s \in SignedStates} /\ Wallet \subseteq SignersOf(c)
    BY <1>1, <2>1 DEF SignersOf
  <2>3. SignersOf(c) \subseteq Wallet
    BY DEF SignersOf, SigningInv, FundsInv, SoundState
  <2>. QED  BY <2>2, <2>3 DEF Agreed
<1>. QED  BY <1>1, <1>3, <1>4 DEF Bound

\* The agreed states are those that both have given out.
OutstandingIsAgreed == \A a : Outstanding(a) => LatestAgreed = a

LEMMA LatestIsOutstanding == SigningInv => OutstandingIsAgreed
<1>. SUFFICES ASSUME SigningInv, NEW a, Outstanding(a) PROVE LatestAgreed = a
  BY DEF OutstandingIsAgreed
<1>1. Leader \in Wallet /\ Follower \in Wallet /\ Wallet = {Leader, Follower}
  BY DEF Wallet
<1>2. a \in Given(Leader) /\ a \in Given(Follower) /\ \A c \in Bound : c.turnNum <= a.turnNum
  BY OutstandingIsLast DEF Outstanding, Bound
<1>4. Agreed \subseteq Bound
  BY AgreedIsBound
<1>5. ASSUME a = Opening(setting.balance) PROVE a \in Agreed
  <2>1. PICK s \in stored[Leader] : FullySigned(s)
    BY <1>1 DEF SigningInv, HasSupport
  <2>2. s \in SignedStates /\ s.signers = Wallet
    BY <1>1, <2>1 DEF SignedStates, FullySigned
  <2>3. Content(s) \in Agreed
    <3>1. Wallet \subseteq SignersOf(Content(s))
      BY <2>2 DEF SignersOf
    <3>2. SignersOf(Content(s)) \subseteq Wallet
      BY DEF SignersOf, SigningInv, FundsInv, SoundState
    <3>. QED  BY <2>2, <3>1, <3>2 DEF Agreed
  <2>4. s.turnNum \in Nat /\ s.turnNum >= 3
    BY <2>2 DEF SigningInv, FundsInv, SoundState
  <2>5. a.turnNum = 3
    BY <1>5 DEF Opening, ProtocolState
  <2>6. Content(s).turnNum = a.turnNum
    BY <1>2, <1>4, <2>3, <2>4, <2>5, ContentFields
  <2>7. Content(s) = a
    BY <1>2, <1>4, <2>3, <2>6, OneOfATurn DEF Bound
  <2>. QED  BY <2>3, <2>7
<1>6. a \in Agreed
  BY <1>5, AgreedIsBound DEF Outstanding
<1>7. \A d \in Agreed : d.turnNum <= a.turnNum
  BY <1>2, <1>4
<1>8. ASSUME NEW c \in Agreed, \A d \in Agreed : d.turnNum <= c.turnNum PROVE c = a
  <2>1. c \in Given(Leader) /\ c.turnNum <= a.turnNum /\ a.turnNum <= c.turnNum
    BY <1>4, <1>6, <1>7, <1>8 DEF Bound
  <2>2. c.turnNum \in Nat /\ a.turnNum \in Nat
    BY <1>1, <1>2, <2>1, GivenFacts
  <2>3. c.turnNum = a.turnNum
    BY <2>1, <2>2
  <2>. QED  BY <1>2, <2>1, <2>3, OneOfATurn
<1>. QED  BY <1>6, <1>7, <1>8 DEF LatestAgreed

\* The latest state of a store, if its owner has not signed it, is one that the owner
\* never signed.
LEMMA UnsignedLatest ==
  ASSUME SigningInv, NEW w \in Wallet, NEW s \in stored[w],
         s.turnNum = LatestTurnNum(stored[w]), w \notin s.signers
  PROVE  Content(s) \notin Given(w)
<1>. SUFFICES ASSUME Content(s) \in Given(w) PROVE FALSE
  OBVIOUS
<1>1. PICK t \in stored[w] : \/ Content(t) = Content(s) /\ w \in t.signers
                             \/ FullySigned(t) /\ t.turnNum > s.turnNum
  BY ContentFields DEF SigningInv, Remembered, Remembers
<1>2. setting \in Settings /\ \A u \in stored[w] : SoundState(u)
  BY DEF SigningInv, FundsInv, SignedStates
<1>3. t.turnNum <= s.turnNum /\ t.turnNum \in Nat /\ s.turnNum \in Nat
  BY <1>2, LatestFacts DEF SoundState
<1>4. ~ (t.turnNum > s.turnNum)
  BY <1>3
<1>5. t = s
  BY <1>1, <1>4 DEF SigningInv, OneOfEach
<1>. QED  BY <1>1, <1>4, <1>5

\* What the wallets find in their stores when they crank.
LEMMA LeaderInAgreement ==
  ASSUME SigningInv, NEW a, Outstanding(a), NEW s \in stored[Leader], IsAgreement(Leader, s)
  PROVE  /\ Content(s) = a /\ \A p \in Given(Leader) : p.turnNum <= a.turnNum
         /\ \A c \in Given(Follower) : c.turnNum <= a.turnNum
<1>1. Leader \in Wallet /\ Follower \in Wallet /\ a \in Given(Leader)
  BY DEF Wallet, Outstanding, Bound
<1>2. s.turnNum = LatestTurnNum(stored[Leader]) /\ s.signers = Wallet
  BY DEF IsAgreement, At, FullySigned
<1>3. Content(s) \in Bound /\ Content(s).turnNum = s.turnNum
  BY <1>1, <1>2, ContentFields DEF SigningInv, KeptAsGiven, Bound
<1>4. Content(s).turnNum <= a.turnNum /\ a.turnNum <= s.turnNum
  BY <1>1, <1>2, <1>3, OutstandingIsLast, GivenBeforeLatest
<1>5. s.turnNum \in Nat /\ a.turnNum \in Nat /\ s.turnNum = a.turnNum
  BY <1>1, <1>3, <1>4, GivenFacts DEF Bound
<1>6. Content(s) = a
  BY <1>1, <1>3, <1>5, OneOfATurn DEF Bound
<1>7. \A p \in Given(Leader) : p.turnNum <= a.turnNum
  BY <1>1, <1>2, <1>5, GivenBeforeLatest
<1>8. \A p \in Given(Leader) : p.turnNum # a.turnNum + 1
  BY <1>1, <1>5, <1>7, GivenFacts
<1>9. \A c \in Given(Follower) : c.turnNum <= a.turnNum
  BY <1>8 DEF Outstanding, FollowerBeyond
<1>. QED  BY <1>6, <1>7, <1>9

LEMMA LeaderInCounterProposal ==
  ASSUME SigningInv, NEW a, Outstanding(a),
         NEW s \in stored[Leader], NEW p, NEW c \in stored[Leader], IsCounterProposal(Leader, s, p, c)
  PROVE  /\ Content(s) = a /\ Content(c) \in Given(Follower) /\ c.turnNum = a.turnNum + 2
         /\ Countered(a.outcome, c.outcome)
<1>1. Leader \in Wallet /\ Follower \in Wallet /\ a \in Given(Leader) /\ Wallet = {Leader, Follower}
  BY DEF Wallet, Outstanding, Bound
<1>2. /\ c.turnNum = LatestTurnNum(stored[Leader]) /\ Follower \in c.signers /\ c.signers # Wallet
      /\ s.turnNum = c.turnNum - 2 /\ s.signers = Wallet
  BY DEF IsCounterProposal, At, FullySigned
<1>3. SoundState(c) /\ SoundState(s)
  BY <1>1 DEF SigningInv, FundsInv, SignedStates
<1>4. Leader \notin c.signers
  BY <1>1, <1>2, <1>3 DEF SoundState
<1>5. Content(c) \in Given(Follower) /\ Content(c) \notin Given(Leader)
  BY <1>1, <1>2, <1>4, UnsignedLatest DEF SigningInv, KeptAsGiven
<1>6. Content(c).turnNum = c.turnNum /\ Content(c).outcome = c.outcome /\ Content(s).turnNum = s.turnNum
  BY ContentFields
<1>7. c.turnNum \in Nat /\ a.turnNum \in Nat /\ a.turnNum <= c.turnNum
  BY <1>1, <1>2, <1>5, <1>6, GivenFacts, GivenBeforeLatest
<1>8. ~ (c.turnNum <= a.turnNum)
  <2>. SUFFICES ASSUME c.turnNum <= a.turnNum PROVE FALSE
    OBVIOUS
  <2>1. Content(c).turnNum = a.turnNum
    BY <1>6, <1>7
  <2>2. Content(c) = a
    BY <1>1, <1>5, <2>1, OneOfATurn
  <2>. QED  BY <1>1, <1>5, <2>2
<1>9. c.turnNum = a.turnNum + 2 /\ Countered(a.outcome, c.outcome)
  BY <1>5, <1>6, <1>8 DEF Outstanding, FollowerBeyond
<1>10. s.turnNum = a.turnNum
  BY <1>2, <1>7, <1>9
<1>11. Content(s) \in Given(Leader)
  BY <1>1, <1>2 DEF SigningInv, KeptAsGiven
<1>12. Content(s) = a
  BY <1>1, <1>6, <1>10, <1>11, OneOfATurn
<1>. QED  BY <1>5, <1>9, <1>12

LEMMA FollowerInProposal ==
  ASSUME SigningInv, NEW a, Outstanding(a),
         NEW s \in stored[Follower], NEW p \in stored[Follower], IsProposal(Follower, s, p)
  PROVE  /\ Content(s) = a /\ Content(p) \in Given(Leader) /\ p.turnNum = a.turnNum + 1
         /\ Proposed(a.outcome, p.outcome) /\ \A c \in Given(Follower) : c.turnNum <= a.turnNum
<1>1. Leader \in Wallet /\ Follower \in Wallet /\ a \in Given(Follower) /\ Wallet = {Leader, Follower}
  BY DEF Wallet, Outstanding, Bound
<1>2. /\ p.turnNum = LatestTurnNum(stored[Follower]) /\ Leader \in p.signers /\ p.signers # Wallet
      /\ s.turnNum = p.turnNum - 1 /\ s.signers = Wallet
  BY DEF IsProposal, At, FullySigned
<1>3. SoundState(p) /\ SoundState(s)
  BY <1>1 DEF SigningInv, FundsInv, SignedStates
<1>4. Follower \notin p.signers
  BY <1>1, <1>2, <1>3 DEF SoundState
<1>5. Content(p) \in Given(Leader) /\ Content(p) \notin Given(Follower)
  BY <1>1, <1>2, <1>4, UnsignedLatest DEF SigningInv, KeptAsGiven
<1>6. Content(p).turnNum = p.turnNum /\ Content(p).outcome = p.outcome /\ Content(s).turnNum = s.turnNum
  BY ContentFields
<1>7. p.turnNum \in Nat /\ a.turnNum \in Nat /\ a.turnNum <= p.turnNum
  BY <1>1, <1>2, <1>5, <1>6, GivenFacts, GivenBeforeLatest
<1>8. ~ (p.turnNum <= a.turnNum)
  <2>. SUFFICES ASSUME p.turnNum <= a.turnNum PROVE FALSE
    OBVIOUS
  <2>1. Content(p).turnNum = a.turnNum
    BY <1>6, <1>7
  <2>2. Content(p) = a
    BY <1>1, <1>5, <2>1, OneOfATurn
  <2>. QED  BY <1>1, <1>5, <2>2
<1>9. p.turnNum = a.turnNum + 1 /\ Proposed(a.outcome, p.outcome)
  BY <1>5, <1>6, <1>8 DEF Outstanding, LeaderBeyond
<1>10. s.turnNum = a.turnNum
  BY <1>2, <1>7, <1>9
<1>11. Content(s) \in Given(Follower)
  BY <1>1, <1>2 DEF SigningInv, KeptAsGiven
<1>12. Content(s) = a
  BY <1>1, <1>6, <1>10, <1>11, OneOfATurn
<1>13. ASSUME NEW c \in Given(Follower) PROVE c.turnNum <= a.turnNum
  <2>1. c.turnNum <= p.turnNum /\ c.turnNum \in Nat
    BY <1>1, <1>2, GivenFacts, GivenBeforeLatest
  <2>2. c.turnNum <= a.turnNum \/ c.turnNum = a.turnNum + 2
    BY DEF Outstanding, FollowerBeyond
  <2>. QED  BY <1>7, <1>9, <2>1, <2>2
<1>. QED  BY <1>5, <1>9, <1>12, <1>13
------------------------------------------------------------------------------
(* How a step changes what both are bound to. *)

LEMMA MovedNothing == \A amount, w : Moved(amount, {}, w) = 0
<1>1. ASSUME NEW amount, NEW w PROVE Moved(amount, {}, w) = 0
  <2>1. PICK f : f = Amounts(amount, w)
    OBVIOUS
  <2>2. Moved(amount, {}, w) = SumOn(f, {})
    BY <2>1, MovedIsSum
  <2>3. PICK g : g = [y \in {} |-> f[y]]
    OBVIOUS
  <2>4. g \in [{} -> Int] /\ IsFiniteSet({}) /\ \A x \in {} : g[x] = 0
    BY <2>3, FS_EmptySet
  <2>5. SumAll(g) = 0
    BY <2>4, SumZero
  <2>. QED  BY <2>2, <2>3, <2>5 DEF SumOn
<1>. QED  BY <1>1

\* A change in terms of the abstract ledger.
LEMMA ChangeOf ==
  ASSUME NEW o \in Outcome, Plain(o), NEW funded \in SUBSET App, NEW returned \in SUBSET App,
         \A x \in funded : o.items[x] = 0, \A x \in returned : o.items[x] = 1
  PROVE  /\ Changed(o, funded, returned) =
              [bal   |-> [w \in Wallet |-> o.bal[w] + Moved(RefundAmount, returned, w)
                                                    - Moved(FundAmount, funded, w)],
               items |-> [x \in App |-> IF x \in funded THEN 1
                                        ELSE IF x \in returned THEN 0 ELSE o.items[x]]]
         /\ Plain(Changed(o, funded, returned))
<1>1. PICK rest : rest = RemoveItems(o, returned)
  OBVIOUS
<1>2. PICK bal : bal = [w \in Wallet |-> o.bal[w] + Moved(RefundAmount, returned, w)
                                                  - Moved(FundAmount, funded, w)]
  OBVIOUS
<1>3. PICK items : items = [x \in App |-> IF x \in funded THEN 1
                                          ELSE IF x \in returned THEN 0 ELSE o.items[x]]
  OBVIOUS
<1>4. [w \in Wallet |-> rest.bal[w] - Moved(FundAmount, funded, w)] = bal
  <2>1. \A w \in Wallet : rest.bal[w] = o.bal[w] + Moved(RefundAmount, returned, w)
    BY <1>1 DEF RemoveItems
  <2>2. ASSUME NEW w \in Wallet PROVE rest.bal[w] - Moved(FundAmount, funded, w) = bal[w]
    <3>1. bal[w] = o.bal[w] + Moved(RefundAmount, returned, w) - Moved(FundAmount, funded, w)
      BY <1>2
    <3>2. rest.bal[w] = o.bal[w] + Moved(RefundAmount, returned, w)
      BY <2>1
    <3>3. /\ o.bal[w] \in Int /\ Moved(RefundAmount, returned, w) \in Nat
          /\ Moved(FundAmount, funded, w) \in Nat
      BY MovedFacts DEF Outcome
    <3>. QED  BY <3>1, <3>2, <3>3
  <2>3. bal = [w \in Wallet |-> bal[w]]
    BY <1>2
  <2>. QED  BY <2>2, <2>3
<1>5. [x \in App |-> rest.items[x] + (IF x \in funded THEN 1 ELSE 0)] = items
  <2>1. ASSUME NEW x \in App
        PROVE  rest.items[x] + (IF x \in funded THEN 1 ELSE 0) = items[x]
    <3>1. rest.items[x] = o.items[x] - (IF x \in returned THEN 1 ELSE 0)
      BY <1>1 DEF RemoveItems
    <3>2. o.items[x] = 0 \/ o.items[x] = 1
      BY DEF Plain
    <3>3. x \in funded => x \notin returned
      OBVIOUS
    <3>. QED  BY <1>3, <3>1, <3>2, <3>3
  <2>. QED  BY <1>3, <2>1
<1>6. Changed(o, funded, returned) = [bal |-> bal, items |-> items]
  BY <1>1, <1>4, <1>5 DEF Changed, AddItems
<1>7. Plain(Changed(o, funded, returned))
  <2>1. \A x \in App : items[x] = 0 \/ items[x] = 1
    BY <1>3 DEF Plain
  <2>. QED  BY <1>6, <2>1 DEF Plain
<1>. QED  BY <1>2, <1>3, <1>6, <1>7

LEMMA NothingChanged ==
  ASSUME NEW o \in Outcome, Plain(o)
  PROVE  Changed(o, {}, {}) = o
<1>1. PICK q : q = Changed(o, {}, {})
  OBVIOUS
<1>2. q = [bal   |-> [w \in Wallet |-> o.bal[w] + Moved(RefundAmount, {}, w) - Moved(FundAmount, {}, w)],
           items |-> [x \in App |-> IF x \in {} THEN 1 ELSE IF x \in {} THEN 0 ELSE o.items[x]]]
  BY <1>1, ChangeOf
<1>3. o.bal \in [Wallet -> Int] /\ o.items \in [App -> Nat] /\ o = [bal |-> o.bal, items |-> o.items]
  BY DEF Outcome
<1>4. [w \in Wallet |-> o.bal[w] + Moved(RefundAmount, {}, w) - Moved(FundAmount, {}, w)] = o.bal
  <2>1. \A w \in Wallet : o.bal[w] + 0 - 0 = o.bal[w]
    BY <1>3
  <2>. QED  BY <1>3, <2>1, MovedNothing
<1>5. [x \in App |-> IF x \in {} THEN 1 ELSE IF x \in {} THEN 0 ELSE o.items[x]] = o.items
  BY <1>3
<1>. QED  BY <1>1, <1>2, <1>3, <1>4, <1>5

\* Cranks forget no request; the leader's pursues what it proposes to take out.
LEMMA CrankAnswers ==
  ASSUME FundsInv, NEW w \in Wallet, NEW reqs, reqs = ActiveRequests(w),
         NEW new, IsReqs(new), SameLoaded(reqs, new), Answers(w, new)
  PROVE  /\ \A v \in Wallet, k \in RequestKey : Asked(v, k)' <=> Asked(v, k)
         /\ \A k \in Loaded(reqs) : Asked(w, k) /\ requests'[w][k] = new[k]
         /\ w # Leader => \A k \in RequestKey : Pursued(k)' <=> Pursued(k)
<1>1. \A k \in RequestKey :
        /\ reqs[k] = NotLoaded => new[k] = NotLoaded
        /\ reqs[k] # NotLoaded => new[k] # NotLoaded /\ requests[w][k] \in {"queued", "pending"}
  BY DEF SameLoaded, ActiveRequests
<1>2. \A k \in RequestKey : new[k] \in RequestStatus \union {NotLoaded}
  BY DEF IsReqs
<1>3. NotMade \notin RequestStatus /\ "queued" # NotMade /\ "pending" # NotMade
  BY DEF RequestStatus, Terminal, NotMade
<1>4. \A v \in Wallet, k \in RequestKey : Asked(v, k)' <=> Asked(v, k)
  <2>. TAKE v \in Wallet, k \in RequestKey
  <2>1. CASE v # w \/ new[k] = NotLoaded
    BY <2>1 DEF Answers, Asked
  <2>2. CASE v = w /\ new[k] # NotLoaded
    <3>1. requests'[v][k] = new[k] /\ new[k] \in RequestStatus
      BY <1>2, <2>2 DEF Answers
    <3>2. requests[v][k] \in {"queued", "pending"}
      BY <1>1, <2>2
    <3>. QED  BY <1>3, <3>1, <3>2 DEF Asked
  <2>. QED  BY <2>1, <2>2
<1>5. \A k \in Loaded(reqs) : Asked(w, k) /\ requests'[w][k] = new[k]
  <2>. TAKE k \in Loaded(reqs)
  <2>1. k \in RequestKey /\ new[k] # NotLoaded /\ requests[w][k] \in {"queued", "pending"}
    BY <1>1 DEF Loaded
  <2>. QED  BY <1>3, <2>1 DEF Asked, Answers
<1>6. w # Leader => \A k \in RequestKey : Pursued(k)' <=> Pursued(k)
  <2>1. Leader \in Wallet
    BY DEF Wallet
  <2>. QED  BY <2>1 DEF Answers, Pursued
<1>. QED  BY <1>4, <1>5, <1>6

\* Nothing that was asked for is forgotten, and the leader pursues what it did.
Remembering ==
  /\ \A w \in Wallet, k \in RequestKey : Asked(w, k) => Asked(w, k)'
  /\ \A k \in RequestKey : Pursued(k) => Pursued(k)'

LEMMA ProposalsStay ==
  ASSUME Remembering, NEW o, NEW q
  PROVE  (Proposed(o, q) => Proposed(o, q)') /\ (Countered(o, q) => Countered(o, q)')
<1>1. Leader \in Wallet /\ Follower \in Wallet
  BY DEF Wallet
<1>2. ASSUME NEW w \in Wallet, NEW funded \in SUBSET App, NEW returned \in SUBSET App,
             Wanted(w, o, funded, returned)
      PROVE  Wanted(w, o, funded, returned)'
  <2>1. \A x \in funded : Asked(w, Fund(x)) /\ Fund(x) \in RequestKey
    BY <1>2, RequestKeys DEF Wanted
  <2>2. \A x \in returned : Asked(w, Defund(x)) /\ Defund(x) \in RequestKey
    BY <1>2, RequestKeys DEF Wanted
  <2>3. (\A x \in funded : Asked(w, Fund(x))') /\ \A x \in returned : Asked(w, Defund(x))'
    BY <2>1, <2>2 DEF Remembering
  <2>. QED  BY <1>2, <2>3 DEF Wanted
<1>3. \A x \in App : Pursued(Defund(x)) => Pursued(Defund(x))'
  BY RequestKeys DEF Remembering
<1>4. ASSUME Proposed(o, q) PROVE Proposed(o, q)'
  <2>1. PICK funded, returned \in SUBSET App :
          /\ Wanted(Leader, o, funded, returned) /\ q = Changed(o, funded, returned)
          /\ \A x \in returned : Pursued(Defund(x))
    BY <1>4 DEF Proposed
  <2>2. Wanted(Leader, o, funded, returned)' /\ \A x \in returned : Pursued(Defund(x))'
    BY <1>1, <1>2, <1>3, <2>1
  <2>. QED  BY <2>1, <2>2 DEF Proposed
<1>5. ASSUME Countered(o, q) PROVE Countered(o, q)'
  <2>1. CASE \E funded, returned \in SUBSET App :
               Wanted(Follower, o, funded, returned) /\ q = Changed(o, funded, returned)
    <3>1. PICK funded, returned \in SUBSET App :
            Wanted(Follower, o, funded, returned) /\ q = Changed(o, funded, returned)
      BY <2>1
    <3>2. Wanted(Follower, o, funded, returned)'
      BY <1>1, <1>2, <3>1
    <3>. QED  BY <3>1, <3>2 DEF Countered
  <2>2. CASE \E x \in App : q.items[x] > 1 /\ Pursued(Defund(x))
    BY <1>3, <2>2 DEF Countered
  <2>. QED  BY <1>5, <2>1, <2>2 DEF Countered
<1>. QED  BY <1>4, <1>5

LEMMA OutstandingStays ==
  ASSUME Remembering, NEW a, Outstanding(a), \A w \in Wallet : Given(w)' = Given(w)
  PROVE  Outstanding(a)'
<1>1. Given(Leader)' = Given(Leader) /\ Given(Follower)' = Given(Follower)
  BY DEF Wallet
<1>2. \A o, q : (Proposed(o, q) => Proposed(o, q)') /\ (Countered(o, q) => Countered(o, q)')
  BY ProposalsStay
<1>3. LeaderBeyond(a)'
  BY <1>1, <1>2 DEF Outstanding, LeaderBeyond
<1>4. FollowerBeyond(a)'
  BY <1>1, <1>2 DEF Outstanding, FollowerBeyond
<1>. QED  BY <1>1, <1>3, <1>4 DEF Outstanding, Bound, Plain

\* Both wanted the difference between a and b.
BothWanted(a, b) ==
  \E funded, returned \in SUBSET App :
    /\ \A w \in Wallet : Wanted(w, a.outcome, funded, returned)
    /\ b.outcome = Changed(a.outcome, funded, returned)

LEMMA WantedIsLoaded ==
  ASSUME FundsInv, NEW w \in Wallet, NEW o, NEW funded \in SUBSET App, NEW returned \in SUBSET App,
         Wants(ActiveRequests(w), o, funded, returned)
  PROVE  Wanted(w, o, funded, returned)
<1>1. \A k \in Loaded(ActiveRequests(w)) : Asked(w, k)
  BY DEF Loaded, ActiveRequests, Asked, NotMade
<1>. QED  BY <1>1 DEF Wants, Wanted

\* With the leader's signature, what it proposes is under way.
LEMMA ProposesIsProposed ==
  ASSUME FundsInv, NEW reqs, reqs = ActiveRequests(Leader), NEW new, IsReqs(new),
         SameLoaded(reqs, new), Answers(Leader, new), NEW o, NEW q, Proposes(reqs, new, o, q)
  PROVE  Proposed(o, q)'
<1>1. Leader \in Wallet
  BY DEF Wallet
<1>2. /\ \A v \in Wallet, k \in RequestKey : Asked(v, k)' <=> Asked(v, k)
      /\ \A k \in Loaded(reqs) : Asked(Leader, k) /\ requests'[Leader][k] = new[k]
  BY <1>1, CrankAnswers
<1>3. PICK funded, returned \in SUBSET App :
        /\ Wants(reqs, o, funded, returned) /\ q = Changed(o, funded, returned)
        /\ \A x \in returned : new[Defund(x)] \in {"queued", "pending"}
  BY DEF Proposes
<1>4. \A k \in Loaded(reqs) : Asked(Leader, k)'
  BY <1>1, <1>2 DEF Loaded
<1>5. Wanted(Leader, o, funded, returned)'
  BY <1>3, <1>4 DEF Wants, Wanted
<1>6. \A x \in returned : Pursued(Defund(x))'
  BY <1>2, <1>3 DEF Wants, Pursued
<1>. QED  BY <1>3, <1>5, <1>6 DEF Proposed

\* A counterproposal is what the follower wants, unless it has a channel twice.
LEMMA CounterIsCountered ==
  ASSUME FundsInv, NEW o \in Outcome, Plain(o), NEW q, Proposed(o, q),
         NEW new, Counters(ActiveRequests(Follower), o, q, new)
  PROVE  Countered(o, new)
<1>. PICK reqs : reqs = ActiveRequests(Follower)
  OBVIOUS
<1>1. Follower \in Wallet
  BY DEF Wallet
<1>2. CASE new = o
  <2>1. Changed(o, {}, {}) = o /\ Wanted(Follower, o, {}, {})
    BY NothingChanged DEF Wanted
  <2>2. PICK none : none = {}
    OBVIOUS
  <2>3. none \in SUBSET App /\ Wanted(Follower, o, none, none) /\ new = Changed(o, none, none)
    BY <1>2, <2>1, <2>2
  <2>. QED  BY <2>3 DEF Countered
<1>3. ASSUME NEW funded \in SUBSET App, NEW returned \in SUBSET App,
             new = Changed(o, funded, returned),
             \A x \in funded : Fund(x) \in Loaded(reqs) /\ x \in ChangedApps(o, q),
             \A x \in returned : Defund(x) \in Loaded(reqs) /\ o.items[x] > 0,
             funded \intersect returned = {}
      PROVE  Countered(o, new)
  <2>1. CASE \A x \in funded : o.items[x] = 0
    <3>1. \A x \in returned : o.items[x] = 1
      BY <1>3 DEF Plain
    <3>2. Wants(reqs, o, funded, returned)
      BY <1>3, <2>1, <3>1 DEF Wants
    <3>3. Wanted(Follower, o, funded, returned)
      BY <1>1, <3>2, WantedIsLoaded
    <3>. QED  BY <1>3, <3>3 DEF Countered
  <2>2. ASSUME NEW x \in funded, o.items[x] # 0 PROVE Countered(o, new)
    <3>1. x \in App /\ x \notin returned /\ o.items[x] = 1
      BY <1>3, <2>2 DEF Plain
    <3>2. (o.items[x] > 0) # (q.items[x] > 0)
      BY <1>3 DEF ChangedApps
    <3>3. ~ (q.items[x] > 0)
      BY <3>1, <3>2
    <3>4. PICK fs, rs \in SUBSET App :
            q = Changed(o, fs, rs) /\ \A y \in rs : Pursued(Defund(y))
      BY DEF Proposed
    <3>5. q.items[x] = (o.items[x] - (IF x \in rs THEN 1 ELSE 0)) + (IF x \in fs THEN 1 ELSE 0)
      BY <3>1, <3>4, ChangedItems
    <3>6. x \in rs
      BY <3>1, <3>3, <3>5
    <3>7. new.items[x] = (o.items[x] - (IF x \in returned THEN 1 ELSE 0))
                           + (IF x \in funded THEN 1 ELSE 0)
      BY <1>3, <3>1, ChangedItems
    <3>8. new.items[x] > 1
      BY <2>2, <3>1, <3>7
    <3>. QED  BY <3>1, <3>4, <3>6, <3>8 DEF Countered
  <2>. QED  BY <2>1, <2>2
<1>4. \/ new = o
      \/ \E funded, returned \in SUBSET App :
           /\ new = Changed(o, funded, returned)
           /\ \A x \in funded : Fund(x) \in Loaded(reqs) /\ x \in ChangedApps(o, q)
           /\ \A x \in returned : Defund(x) \in Loaded(reqs) /\ o.items[x] > 0
           /\ funded \intersect returned = {}
  BY DEF Counters
<1>. QED  BY <1>2, <1>3, <1>4

\* What is agreed after a step: the same, or what both wanted.
MovesTo(a, b) == Outstanding(b)' /\ (b = a \/ BothWanted(a, b)) /\ Bound' = Bound \union {b}
MovesOn(a) == \E b : MovesTo(a, b)

LEMMA NothingMoves ==
  ASSUME Remembering, NEW a, Outstanding(a), \A w \in Wallet : Given(w)' = Given(w)
  PROVE  MovesTo(a, a)
<1>1. Outstanding(a)'
  BY OutstandingStays
<1>2. Bound' = Bound
  BY DEF Bound, Wallet
<1>. QED  BY <1>1, <1>2 DEF MovesTo, Outstanding

\* The leader agrees to what it signs, and proposes one state more.
LEMMA LeaderMoves ==
  ASSUME SigningInv, NEW a, Outstanding(a), NEW result, GivesOut(Leader, Range(result.states)),
         NEW b, b \in Given(Follower), Plain(b.outcome), b = a \/ BothWanted(a, b),
         b \in Given(Leader)', \A p \in Given(Leader) : p.turnNum <= b.turnNum,
         \A c \in Given(Follower) : c.turnNum <= b.turnNum,
         \A s \in Range(result.states) :
           s = b \/ (s.turnNum = b.turnNum + 1 /\ Proposed(b.outcome, s.outcome)')
  PROVE  MovesTo(a, b)
<1>1. Leader \in Wallet /\ Follower \in Wallet /\ Leader # Follower
  BY DEF Wallet, Leader, Follower
<1>2. Given(Leader)' = Given(Leader) \union Range(result.states) /\ Given(Follower)' = Given(Follower)
  BY <1>1 DEF GivesOut
<1>3. b.turnNum <= b.turnNum
  BY <1>1, GivenFacts
<1>4. LeaderBeyond(b)'
  BY <1>2, <1>3 DEF LeaderBeyond
<1>5. FollowerBeyond(b)'
  BY <1>2 DEF FollowerBeyond
<1>6. (b \in Bound)' /\ Plain(b.outcome)'
  BY <1>2 DEF Bound, Plain
<1>7. Bound' = Bound \union {b}
  <2>1. ASSUME NEW s \in Range(result.states), s \in Given(Follower) PROVE s = b
    <3>1. s.turnNum <= b.turnNum /\ b.turnNum \in Nat
      BY <1>1, <2>1, GivenFacts
    <3>. QED  BY <3>1
  <2>. QED  BY <1>2, <2>1 DEF Bound
<1>. QED  BY <1>4, <1>5, <1>6, <1>7 DEF Outstanding, MovesTo

\* The leader's crank, when it finds what both have agreed to ...
LEMMA LeaderMovesInAgreement ==
  ASSUME SigningInv, NEW a, Outstanding(a),
         NEW result, result.error = "none", GivesOut(Leader, Range(result.states)),
         IsReqs(result.reqs), Answers(Leader, result.reqs),
         NEW reqs, reqs = ActiveRequests(Leader), NEW before, before = <<>>,
         NEW agreed \in stored[Leader], IsAgreement(Leader, agreed),
         result = CrankAsLeaderInAgreement(reqs, a, before)
  PROVE  MovesTo(a, a) /\ SameLoaded(reqs, result.reqs)
<1>1. /\ \A p \in Given(Leader) : p.turnNum <= a.turnNum
      /\ \A c \in Given(Follower) : c.turnNum <= a.turnNum
  BY LeaderInAgreement
<1>2. Leader \in Wallet /\ a \in Given(Leader) /\ a \in Given(Follower) /\ Plain(a.outcome)
  BY DEF Wallet, Outstanding, Bound
<1>3. a.outcome \in Outcome
  BY <1>2, GivenFacts
<1>4. Advances(reqs, result, a, before)
  BY <1>3, LeaderProposes
<1>5. /\ SameLoaded(reqs, result.reqs) /\ NoDuplicates(Loaded(reqs), a.outcome)
      /\ \/ result.states = before
         \/ \E s : /\ result.states = Append(before, s) /\ s.turnNum = a.turnNum + 1
                   /\ Content(s) = s
                   /\ Plain(a.outcome) => Proposes(reqs, result.reqs, a.outcome, s.outcome)
  BY <1>4 DEF Advances
<1>6. a \in Given(Leader)'
  BY <1>2 DEF GivesOut
<1>7. CASE result.states = before
  <2>1. Range(result.states) = {}
    BY <1>7 DEF Range
  <2>2. \A s \in Range(result.states) :
          s = a \/ (s.turnNum = a.turnNum + 1 /\ Proposed(a.outcome, s.outcome)')
    BY <2>1
  <2>. QED  BY <1>1, <1>2, <1>5, <1>6, <2>2, LeaderMoves
<1>8. ASSUME NEW s, result.states = Append(before, s), s.turnNum = a.turnNum + 1,
             Proposes(reqs, result.reqs, a.outcome, s.outcome)
      PROVE  MovesTo(a, a) /\ SameLoaded(reqs, result.reqs)
  <2>1. result.states = <<s>>
    BY <1>8, AppendToNone
  <2>2. Range(result.states) = {s}
    BY <2>1, RangeOfOne
  <2>3. FundsInv
    BY DEF SigningInv
  <2>4. Proposed(a.outcome, s.outcome)'
    BY <1>5, <1>8, <2>3, ProposesIsProposed
  <2>5. \A u \in Range(result.states) :
          u = a \/ (u.turnNum = a.turnNum + 1 /\ Proposed(a.outcome, u.outcome)')
    BY <1>8, <2>2, <2>4
  <2>. QED  BY <1>1, <1>2, <1>5, <1>6, <2>5, LeaderMoves
<1>. QED  BY <1>2, <1>5, <1>7, <1>8

\* ... and when it finds a counterproposal, which it agrees to only if it wants that too.
LEMMA LeaderMovesToCounter ==
  ASSUME SigningInv, NEW a, Outstanding(a),
         NEW result, result.error = "none", GivesOut(Leader, Range(result.states)),
         IsReqs(result.reqs), Answers(Leader, result.reqs),
         NEW agreed \in stored[Leader], NEW p, NEW c \in stored[Leader], IsCounterProposal(Leader, agreed, p, c),
         NEW b, b = Content(c), NEW reqs, reqs = ActiveRequests(Leader),
         result = CrankAsLeaderInCounterProposal(reqs, a, b)
  PROVE  MovesTo(a, b) /\ SameLoaded(reqs, result.reqs)
<1>1. /\ b \in Given(Follower) /\ b.turnNum = a.turnNum + 2
      /\ Countered(a.outcome, b.outcome)
  BY LeaderInCounterProposal, ContentFields
<1>2. /\ Leader \in Wallet /\ Follower \in Wallet /\ Wallet = {Leader, Follower}
      /\ a \in Given(Leader) /\ a \in Given(Follower) /\ Plain(a.outcome)
  BY DEF Wallet, Outstanding, Bound
<1>3. /\ a.outcome \in Outcome /\ b.outcome \in Outcome /\ a.turnNum \in Nat /\ b.turnNum \in Nat
      /\ FundsInv
  BY <1>1, <1>2, GivenFacts DEF SigningInv
<1>5. PICK o : a.outcome = o
  OBVIOUS
<1>4. o \in Outcome
  BY <1>3, <1>5
<1>. PICK before : before = <<b>>
  OBVIOUS
<1>6. Comparison(reqs, o, b.outcome).type = "full-agreement" /\ Advances(reqs, result, b, before)
  BY <1>3, <1>4, <1>5, LeaderAccepts
<1>7. PICK q : q = b.outcome
  OBVIOUS
<1>8. ~ \E x \in App : q.items[x] > 1 /\ Pursued(Defund(x))
  <2>. SUFFICES ASSUME NEW x \in App, q.items[x] > 1, Pursued(Defund(x)) PROVE FALSE
    OBVIOUS
  <2>1. PICK k : k = Defund(x)
    OBVIOUS
  <2>2. k \in RequestKey /\ k[1] = "defund" /\ k[2] = x
    BY <2>1, RequestKeys
  <2>3. k \in Loaded(reqs)
    BY <2>1, <2>2 DEF Pursued, Loaded, ActiveRequests, NotLoaded
  <2>4. q.items[x] <= 1
    BY <1>6, <1>7, <2>2, <2>3 DEF NoDuplicates, Advances
  <2>5. q.items[x] \in Nat
    BY <1>3, <1>7 DEF Outcome
  <2>. QED  BY <2>4, <2>5
<1>9. PICK funded, returned \in SUBSET App :
        Wanted(Follower, o, funded, returned) /\ q = Changed(o, funded, returned)
  BY <1>1, <1>5, <1>7, <1>8 DEF Countered
<1>10. PICK compared : compared = Comparison(reqs, o, q)
  OBVIOUS
<1>11. Wants(reqs, o, funded, returned)
  BY <1>2, <1>3, <1>5, <1>6, <1>7, <1>9, <1>10, AgreedIsWanted DEF Wanted
<1>12. Wanted(Leader, o, funded, returned)
  BY <1>2, <1>3, <1>11, WantedIsLoaded
<1>13. BothWanted(a, b)
  BY <1>2, <1>5, <1>7, <1>9, <1>12 DEF BothWanted
<1>14. Plain(b.outcome)
  BY <1>2, <1>3, <1>5, <1>7, <1>9, ChangeOf DEF Wanted
<1>15. \A d \in Given(Leader) : d.turnNum <= b.turnNum
  <2>. TAKE d \in Given(Leader)
  <2>1. d.turnNum \in Nat /\ (d.turnNum <= a.turnNum \/ d.turnNum = a.turnNum + 1)
    BY <1>2, GivenFacts DEF Outstanding, LeaderBeyond
  <2>. QED  BY <1>1, <1>3, <2>1
<1>16. \A d \in Given(Follower) : d.turnNum <= b.turnNum
  <2>. TAKE d \in Given(Follower)
  <2>1. d.turnNum \in Nat /\ (d.turnNum <= a.turnNum \/ d.turnNum = a.turnNum + 2)
    BY <1>2, GivenFacts DEF Outstanding, FollowerBeyond
  <2>. QED  BY <1>1, <1>3, <2>1
<1>17. /\ SameLoaded(reqs, result.reqs)
       /\ \/ result.states = <<b>>
          \/ \E s : /\ result.states = <<b, s>> /\ s.turnNum = b.turnNum + 1
                    /\ Proposes(reqs, result.reqs, b.outcome, s.outcome)
  BY <1>6, <1>14, AppendToOne DEF Advances
<1>18. CASE result.states = <<b>>
  <2>1. Range(result.states) = {b}
    BY <1>18, RangeOfOne
  <2>2. b \in Given(Leader)'
    BY <1>2, <2>1 DEF GivesOut
  <2>3. \A s \in Range(result.states) :
          s = b \/ (s.turnNum = b.turnNum + 1 /\ Proposed(b.outcome, s.outcome)')
    BY <2>1
  <2>. QED  BY <1>1, <1>13, <1>14, <1>15, <1>16, <1>17, <2>2, <2>3, LeaderMoves
<1>19. ASSUME NEW s, result.states = <<b, s>>, s.turnNum = b.turnNum + 1,
              Proposes(reqs, result.reqs, b.outcome, s.outcome)
       PROVE  MovesTo(a, b) /\ SameLoaded(reqs, result.reqs)
  <2>1. Range(result.states) = {b, s}
    BY <1>19, RangeOfTwo
  <2>2. b \in Given(Leader)'
    BY <1>2, <2>1 DEF GivesOut
  <2>3. Proposed(b.outcome, s.outcome)'
    BY <1>3, <1>19, <1>17, ProposesIsProposed
  <2>4. \A u \in Range(result.states) :
          u = b \/ (u.turnNum = b.turnNum + 1 /\ Proposed(b.outcome, u.outcome)')
    BY <1>19, <2>1, <2>3
  <2>. QED  BY <1>1, <1>13, <1>14, <1>15, <1>16, <1>17, <2>2, <2>4, LeaderMoves
<1>. QED  BY <1>18, <1>19, <1>17

\* The follower's cranks forget nothing.
LEMMA FollowerRemembers ==
  ASSUME FundsInv, NEW reqs, reqs = ActiveRequests(Follower), NEW new, IsReqs(new),
         SameLoaded(reqs, new), Answers(Follower, new)
  PROVE  Remembering
<1>1. Follower \in Wallet /\ Follower # Leader
  BY DEF Wallet, Leader, Follower
<1>. QED  BY <1>1, CrankAnswers DEF Remembering

\* The follower's crank, when it finds a proposal: it agrees to what it wants too,
LEMMA FollowerMovesOn ==
  ASSUME SigningInv, NEW a, Outstanding(a), NEW q, q \in Given(Leader), q.turnNum = a.turnNum + 1,
         Proposed(a.outcome, q.outcome), \A c \in Given(Follower) : c.turnNum <= a.turnNum,
         NEW result, GivesOut(Follower, Range(result.states)), result.states = <<q>>,
         NEW reqs, reqs = ActiveRequests(Follower), NEW loaded, SameLoaded(reqs, loaded),
         Comparison(loaded, a.outcome, q.outcome).type = "full-agreement"
  PROVE  MovesTo(a, q)
<1>1. /\ Leader \in Wallet /\ Follower \in Wallet /\ Wallet = {Leader, Follower} /\ Follower # Leader
      /\ a \in Given(Leader) /\ Plain(a.outcome)
  BY DEF Wallet, Outstanding, Bound, Leader, Follower
<1>2. /\ a.outcome \in Outcome /\ a.turnNum \in Nat /\ q.turnNum \in Nat /\ FundsInv
  BY <1>1, GivenFacts DEF SigningInv
<1>3. PICK o : a.outcome = o
  OBVIOUS
<1>4. PICK p : p = q.outcome
  OBVIOUS
<1>5. PICK compared : compared = Comparison(loaded, o, p)
  OBVIOUS
<1>6. o \in Outcome /\ Plain(o) /\ compared.type = "full-agreement"
  BY <1>1, <1>2, <1>3, <1>4, <1>5
<1>7. PICK funded, returned \in SUBSET App :
        Wanted(Leader, o, funded, returned) /\ p = Changed(o, funded, returned)
  BY <1>3, <1>4 DEF Proposed
<1>8. (\A x \in funded : o.items[x] = 0) /\ (\A x \in returned : o.items[x] = 1)
  BY <1>7 DEF Wanted
<1>9. Wants(loaded, o, funded, returned)
  BY <1>5, <1>6, <1>7, <1>8, AgreedIsWanted
<1>10. Wants(reqs, o, funded, returned)
  BY <1>9, SameLoadedFacts DEF Wants
<1>11. Wanted(Follower, o, funded, returned)
  BY <1>1, <1>2, <1>10, WantedIsLoaded
<1>12. BothWanted(a, q)
  BY <1>1, <1>3, <1>4, <1>7, <1>11 DEF BothWanted
<1>13. Plain(p)
  BY <1>6, <1>7, <1>8, ChangeOf
<1>14. Given(Follower)' = Given(Follower) \union {q} /\ Given(Leader)' = Given(Leader)
  BY <1>1, RangeOfOne DEF GivesOut
<1>15. ASSUME NEW d \in Given(Leader) PROVE d.turnNum <= q.turnNum
  <2>1. d.turnNum \in Nat /\ (d.turnNum <= a.turnNum \/ d.turnNum = a.turnNum + 1)
    BY <1>1, GivenFacts DEF Outstanding, LeaderBeyond
  <2>. QED  BY <1>2, <2>1
<1>16. ASSUME NEW d \in Given(Follower) \union {q} PROVE d.turnNum <= q.turnNum
  <2>1. d = q \/ (d.turnNum \in Nat /\ d.turnNum <= a.turnNum)
    BY <1>1, GivenFacts
  <2>. QED  BY <1>2, <2>1
<1>17. (q \in Bound)' /\ Plain(q.outcome)'
  BY <1>4, <1>13, <1>14 DEF Bound, Plain
<1>18. LeaderBeyond(q)' /\ FollowerBeyond(q)'
  BY <1>14, <1>15, <1>16 DEF LeaderBeyond, FollowerBeyond
<1>19. Bound' = Bound \union {q}
  BY <1>14 DEF Bound
<1>. QED  BY <1>12, <1>17, <1>18, <1>19 DEF MovesTo, Outstanding

\* ... and makes a counterproposal otherwise.
LEMMA FollowerCounters ==
  ASSUME SigningInv, NEW a, Outstanding(a), NEW q, q \in Given(Leader), q.turnNum = a.turnNum + 1,
         Proposed(a.outcome, q.outcome), \A c \in Given(Follower) : c.turnNum <= a.turnNum,
         NEW result, GivesOut(Follower, Range(result.states)), Remembering,
         NEW s, result.states = <<s>>, s.turnNum = q.turnNum + 1,
         Counters(ActiveRequests(Follower), a.outcome, q.outcome, s.outcome)
  PROVE  MovesTo(a, a)
<1>1. /\ Leader \in Wallet /\ Follower \in Wallet /\ Follower # Leader
      /\ a \in Given(Leader) /\ a \in Given(Follower) /\ Plain(a.outcome)
  BY DEF Wallet, Outstanding, Bound, Leader, Follower
<1>2. /\ a.outcome \in Outcome /\ a.turnNum \in Nat /\ FundsInv
  BY <1>1, GivenFacts DEF SigningInv
<1>3. Countered(a.outcome, s.outcome)
  BY <1>1, <1>2, CounterIsCountered
<1>4. \A o, r : (Proposed(o, r) => Proposed(o, r)') /\ (Countered(o, r) => Countered(o, r)')
  BY ProposalsStay
<1>5. Given(Follower)' = Given(Follower) \union {s} /\ Given(Leader)' = Given(Leader)
  BY <1>1, RangeOfOne DEF GivesOut
<1>6. s.turnNum = a.turnNum + 2 /\ Countered(a.outcome, s.outcome)'
  BY <1>2, <1>3, <1>4
<1>7. LeaderBeyond(a)'
  BY <1>4, <1>5 DEF Outstanding, LeaderBeyond
<1>8. FollowerBeyond(a)'
  BY <1>5, <1>6 DEF FollowerBeyond
<1>9. (a \in Bound)' /\ Plain(a.outcome)'
  BY <1>1, <1>5 DEF Bound, Plain
<1>10. Bound' = Bound \union {a}
  <2>1. s \notin Given(Leader)
    <3>1. \A p \in Given(Leader) : p.turnNum <= a.turnNum \/ p.turnNum = a.turnNum + 1
      BY DEF Outstanding, LeaderBeyond
    <3>2. \A p \in Given(Leader) : p.turnNum \in Nat
      BY <1>1, GivenFacts
    <3>. QED  BY <1>2, <1>6, <3>1, <3>2
  <2>. QED  BY <1>1, <1>5, <2>1 DEF Bound
<1>. QED  BY <1>7, <1>8, <1>9, <1>10 DEF MovesTo, Outstanding

\* So does every crank.
LEMMA LeaderCrankMoves ==
  ASSUME SigningInv, NEW a, Outstanding(a), NEW result, Cranks(Leader, result),
         GivesOut(Leader, Range(result.states))
  PROVE  MovesOn(a) /\ SameLoaded(ActiveRequests(Leader), result.reqs) /\ IsReqs(result.reqs)
<1>. PICK reqs : reqs = ActiveRequests(Leader)
  OBVIOUS
<1>1. /\ result \in CrankResults(Leader) /\ result.error = "none" /\ Answers(Leader, result.reqs)
      /\ IsReqs(result.reqs)
  BY FundsInvStores, LeaderCranks DEF Cranks, CompletedCranks, SigningInv
<1>2. \/ \E s \in stored[Leader] :
           IsAgreement(Leader, s) /\ result = CrankAsLeaderInAgreement(reqs, Content(s), <<>>)
      \/ \E s, p, c \in stored[Leader] :
           /\ IsCounterProposal(Leader, s, p, c)
           /\ result = CrankAsLeaderInCounterProposal(reqs, Content(s), Content(c))
  BY <1>1 DEF CrankResults
<1>3. CASE \E s \in stored[Leader] :
             IsAgreement(Leader, s) /\ result = CrankAsLeaderInAgreement(reqs, Content(s), <<>>)
  <2>1. PICK s \in stored[Leader] :
          IsAgreement(Leader, s) /\ result = CrankAsLeaderInAgreement(reqs, Content(s), <<>>)
    BY <1>3
  <2>2. Content(s) = a
    BY <2>1, LeaderInAgreement
  <2>3. PICK before : before = <<>>
    OBVIOUS
  <2>4. result = CrankAsLeaderInAgreement(reqs, a, before)
    BY <2>1, <2>2, <2>3
  <2>. QED  BY <1>1, <2>1, <2>3, <2>4, LeaderMovesInAgreement DEF MovesOn
<1>4. CASE \E s, p, c \in stored[Leader] :
             /\ IsCounterProposal(Leader, s, p, c)
             /\ result = CrankAsLeaderInCounterProposal(reqs, Content(s), Content(c))
  <2>1. PICK s, p, c \in stored[Leader] :
          /\ IsCounterProposal(Leader, s, p, c)
          /\ result = CrankAsLeaderInCounterProposal(reqs, Content(s), Content(c))
    BY <1>4
  <2>2. Content(s) = a
    BY <2>1, LeaderInCounterProposal
  <2>3. PICK b : b = Content(c)
    OBVIOUS
  <2>4. result = CrankAsLeaderInCounterProposal(reqs, a, b)
    BY <2>1, <2>2, <2>3
  <2>. QED  BY <1>1, <2>1, <2>3, <2>4, LeaderMovesToCounter DEF MovesOn
<1>. QED  BY <1>1, <1>2, <1>3, <1>4

LEMMA FollowerCrankMoves ==
  ASSUME SigningInv, NEW a, Outstanding(a), NEW result, Cranks(Follower, result),
         GivesOut(Follower, Range(result.states))
  PROVE  MovesOn(a) /\ SameLoaded(ActiveRequests(Follower), result.reqs) /\ IsReqs(result.reqs)
<1>. PICK reqs : reqs = ActiveRequests(Follower)
  OBVIOUS
<1>1. /\ result \in CrankResults(Follower) /\ result.error = "none" /\ Answers(Follower, result.reqs)
      /\ IsReqs(result.reqs) /\ FundsInv
  BY FundsInvStores, FollowerCranks DEF Cranks, CompletedCranks, SigningInv
<1>2. Follower \in Wallet /\ Leader \in Wallet /\ Follower # Leader /\ a \in Given(Follower)
  BY DEF Wallet, Leader, Follower, Outstanding, Bound
<1>3. \/ \E s \in stored[Follower] : result = CrankAsFollowerInAgreement(reqs, Content(s))
      \/ \E s, p \in stored[Follower] :
           IsProposal(Follower, s, p) /\ result = CrankAsFollowerInProposal(reqs, Content(s), Content(p))
  BY <1>1, <1>2 DEF CrankResults
<1>4. CASE \E s \in stored[Follower] : result = CrankAsFollowerInAgreement(reqs, Content(s))
  <2>1. PICK s \in stored[Follower] : result = CrankAsFollowerInAgreement(reqs, Content(s))
    BY <1>4
  <2>2. PICK processed : processed = ProcessAgreedState(reqs, Content(s).outcome)
    OBVIOUS
  <2>3. result = Thrown("process") \/ result = Cranked(processed, <<>>)
    BY <2>1, <2>2 DEF CrankAsFollowerInAgreement
  <2>4. result.reqs = processed /\ result.states = <<>>
    BY <1>1, <2>3 DEF Thrown, Cranked
  <2>5. SameLoaded(reqs, result.reqs)
    BY <2>2, <2>4, ProcessFacts
  <2>6. Range(result.states) = {}
    BY <2>4 DEF Range
  <2>7. \A w \in Wallet : Given(w)' = Given(w)
    BY <2>6 DEF GivesOut
  <2>8. Remembering
    BY <1>1, <2>5, FollowerRemembers
  <2>9. MovesTo(a, a)
    BY <2>7, <2>8, NothingMoves
  <2>. QED  BY <1>1, <2>5, <2>9 DEF MovesOn
<1>5. CASE \E s, p \in stored[Follower] :
             /\ IsProposal(Follower, s, p)
             /\ result = CrankAsFollowerInProposal(reqs, Content(s), Content(p))
  <2>1. PICK s, p \in stored[Follower] :
          /\ IsProposal(Follower, s, p)
          /\ result = CrankAsFollowerInProposal(reqs, Content(s), Content(p))
    BY <1>5
  <2>2. PICK q : q = Content(p)
    OBVIOUS
  <2>3. /\ Content(s) = a /\ q \in Given(Leader) /\ q.turnNum = a.turnNum + 1
        /\ Proposed(a.outcome, q.outcome) /\ \A c \in Given(Follower) : c.turnNum <= a.turnNum
    BY <2>1, <2>2, FollowerInProposal, ContentFields
  <2>4. a.outcome \in Outcome /\ result = CrankAsFollowerInProposal(reqs, a, q)
    BY <1>2, <2>1, <2>2, <2>3, GivenFacts
  <2>5. Replies(reqs, result, a, q)
    BY <1>1, <2>4, FollowerAnswers
  <2>6. SameLoaded(reqs, result.reqs)
    BY <2>5 DEF Replies
  <2>7. Remembering
    BY <1>1, <2>6, FollowerRemembers
  <2>8. ASSUME NEW loaded, result.states = <<q>>, SameLoaded(reqs, loaded),
               Comparison(loaded, a.outcome, q.outcome).type = "full-agreement"
        PROVE  MovesOn(a)
    BY <2>3, <2>8, FollowerMovesOn DEF MovesOn
  <2>9. ASSUME NEW t, result.states = <<t>>, t.turnNum = q.turnNum + 1,
               Counters(reqs, a.outcome, q.outcome, t.outcome)
        PROVE  MovesOn(a)
    BY <2>3, <2>7, <2>9, FollowerCounters DEF MovesOn
  <2>10. MovesOn(a)
    BY <2>5, <2>8, <2>9 DEF Replies
  <2>. QED  BY <1>1, <2>6, <2>10
<1>. QED  BY <1>1, <1>3, <1>4, <1>5

\* What the wallets have asked for, and what a step adds to it.
Asking == [w \in Wallet |-> {k \in RequestKey : Asked(w, k)}]

LEMMA StepsMove ==
  ASSUME SigningInv, [Next]_ledgerVars, NEW a, Outstanding(a)
  PROVE  \/ MovesOn(a) /\ Asking' = Asking
         \/ /\ Outstanding(a)'
            /\ \E w \in Wallet, k \in RequestKey :
                 /\ k \notin Asking[w] /\ Asking' = [Asking EXCEPT ![w] = @ \union {k}]
<1>1. \/ /\ \A v : Given(v)' = Given(v)
         /\ UNCHANGED requests \/ \E w \in Wallet : \E k \in RequestKey : Asks(w, k)
      \/ \E w \in Wallet : \E result : Cranks(w, result) /\ GivesOut(w, Range(result.states))
  BY SigningSteps
<1>2. requests \in [Wallet -> [RequestKey -> RequestStatus \union {NotMade}]] /\ FundsInv
  BY DEF SigningInv, FundsInv
<1>3. ASSUME \A v : Given(v)' = Given(v), UNCHANGED requests
      PROVE  MovesOn(a) /\ Asking' = Asking
  <2>1. Remembering /\ Asking' = Asking
    BY <1>3 DEF Remembering, Asked, Pursued, Asking
  <2>. QED  BY <1>3, <2>1, NothingMoves DEF MovesOn
<1>4. ASSUME \A v : Given(v)' = Given(v), NEW w \in Wallet, NEW k \in RequestKey, Asks(w, k)
      PROVE  /\ Outstanding(a)' /\ k \notin Asking[w]
             /\ Asking' = [Asking EXCEPT ![w] = @ \union {k}]
  <2>1. requests[w][k] = NotMade /\ k \notin Asking[w]
    BY <1>4 DEF Asks, Asking, Asked
  <2>2. \A v \in Wallet, l \in RequestKey :
          requests'[v][l] = IF v = w /\ l = k THEN "queued" ELSE requests[v][l]
    BY <1>2, <1>4 DEF Asks
  <2>3. "queued" # NotMade /\ "pending" # NotMade
    BY DEF NotMade
  <2>4. \A v \in Wallet, l \in RequestKey : Asked(v, l)' <=> Asked(v, l) \/ (v = w /\ l = k)
    BY <2>2, <2>3 DEF Asked
  <2>5. Leader \in Wallet
    BY DEF Wallet
  <2>6. \A l \in RequestKey : Pursued(l) => Pursued(l)'
    BY <2>2, <2>5 DEF Pursued
  <2>7. Remembering
    BY <2>4, <2>6 DEF Remembering
  <2>8. ASSUME NEW v \in Wallet
        PROVE  Asking'[v] = IF v = w THEN Asking[v] \union {k} ELSE Asking[v]
    BY <2>4, <2>8 DEF Asking
  <2>9. Asking' = [v \in Wallet |-> Asking'[v]] /\ Asking = [v \in Wallet |-> Asking[v]]
    BY DEF Asking
  <2>10. Asking' = [Asking EXCEPT ![w] = @ \union {k}]
    BY <2>8, <2>9
  <2>. QED  BY <1>4, <2>1, <2>7, <2>10, OutstandingStays
<1>5. ASSUME NEW w \in Wallet, NEW result, Cranks(w, result), GivesOut(w, Range(result.states))
      PROVE  MovesOn(a) /\ Asking' = Asking
  <2>1. w = Leader \/ w = Follower
    BY DEF Wallet
  <2>2. MovesOn(a) /\ SameLoaded(ActiveRequests(w), result.reqs) /\ IsReqs(result.reqs)
    BY <1>5, <2>1, LeaderCrankMoves, FollowerCrankMoves
  <2>3. Answers(w, result.reqs)
    BY <1>5 DEF Cranks
  <2>4. \A v \in Wallet, k \in RequestKey : Asked(v, k)' <=> Asked(v, k)
    BY <1>2, <2>2, <2>3, CrankAnswers
  <2>. QED  BY <2>2, <2>4 DEF Asking
<1>. QED  BY <1>1, <1>3, <1>4, <1>5

LEMMA AgreementInit == Init => AgreementInv
<1>. SUFFICES ASSUME Init PROVE AgreementInv
  OBVIOUS
<1>. PICK a : a = Opening(setting.balance)
  OBVIOUS
<1>1. SigningInv
  BY SigningInit
<1>2. \A w : Given(w) = {a}
  BY DEF Init, Given
<1>3. a \in Given(Leader) /\ a.turnNum \in Nat
  <2>1. Leader \in Wallet
    BY DEF Wallet
  <2>. QED  BY <1>1, <1>2, <2>1, GivenFacts
<1>4. \A x \in App : a.outcome.items[x] = 0
  BY DEF Opening, ProtocolState
<1>5. a \in Bound /\ Plain(a.outcome)
  BY <1>2, <1>4 DEF Bound, Plain
<1>6. LeaderBeyond(a) /\ FollowerBeyond(a)
  BY <1>2, <1>3 DEF LeaderBeyond, FollowerBeyond
<1>. QED  BY <1>1, <1>5, <1>6 DEF AgreementInv, Outstanding

LEMMA LeaderIsSolvent == SigningInv => \A c \in Given(Leader) : Solvent(c.outcome)
<1>1. Leader \in Wallet
  BY DEF Wallet
<1>. QED  BY <1>1, GivenFacts

\* A step from what a is bound to, as a step of the abstract ledger.
LEMMA AgreementSteps ==
  ASSUME SigningInv, SigningInv', NEW a, Outstanding(a), NEW b, Outstanding(b)',
         LatestAgreed = a, LatestAgreed' = b,
         \/ (b = a \/ BothWanted(a, b)) /\ Asking' = Asking
         \/ /\ b = a
            /\ \E w \in Wallet, k \in RequestKey :
                 k \notin Asking[w] /\ Asking' = [Asking EXCEPT ![w] = @ \union {k}]
  PROVE  [Ledger!AgreementNext]_(Ledger!agreementVars)
<1>1. /\ Ledger!Wallet = Wallet /\ Ledger!RequestKey = RequestKey
      /\ \A x : Ledger!Fund(x) = Fund(x) /\ Ledger!Defund(x) = Defund(x)
  BY DEF Ledger!Wallet, Ledger!RequestKey, Wallet, RequestKey, Ledger!Fund, Ledger!Defund, Fund,
         Defund, Ledger!Leader, Ledger!Follower, Leader, Follower
<1>2. \A amount, apps, w : Ledger!Moved(amount, apps, w) = Moved(amount, apps, w)
  BY DEF Ledger!Moved, Moved, Ledger!FoldFunction, Ledger!FoldFunctionOnSet, Ledger!MapThenFoldSet,
         FoldFunction, FoldFunctionOnSet, MapThenFoldSet
<1>3. /\ Asking = [w \in Wallet |-> {k \in RequestKey : requests[w][k] # NotMade}]
      /\ Asking' = [w \in Wallet |-> {k \in RequestKey : requests'[w][k] # NotMade}]
  BY DEF Asking, Asked
<1>4. /\ a \in Given(Leader) /\ Leader \in Wallet /\ Plain(a.outcome)
      /\ b \in Given(Leader)'
  BY DEF Outstanding, Bound, Wallet
<1>5. a.outcome \in Outcome
  BY <1>4, GivenFacts
<1>6. \A w \in Wallet : b.outcome.bal[w] >= 0
  <2>1. (SigningInv => \A c \in Given(Leader) : Solvent(c.outcome))'
    BY LeaderIsSolvent, PTL
  <2>. QED  BY <1>4, <2>1 DEF Solvent
<1>7. CASE b = a /\ Asking' = Asking
  BY <1>3, <1>7 DEF Ledger!agreementVars
<1>8. CASE /\ b = a
           /\ \E w \in Wallet, k \in RequestKey :
                k \notin Asking[w] /\ Asking' = [Asking EXCEPT ![w] = @ \union {k}]
  <2>1. PICK w \in Wallet, k \in RequestKey :
                k \notin Asking[w] /\ Asking' = [Asking EXCEPT ![w] = @ \union {k}]
    BY <1>8
  <2>2. Ledger!Ask(w, k)
    BY <1>3, <1>8, <2>1 DEF Ledger!Ask
  <2>. QED  BY <1>1, <2>2 DEF Ledger!AgreementNext
<1>9. CASE BothWanted(a, b) /\ Asking' = Asking
  <2>1. PICK funded, returned \in SUBSET App :
          /\ \A w \in Wallet : Wanted(w, a.outcome, funded, returned)
          /\ b.outcome = Changed(a.outcome, funded, returned)
    BY <1>9 DEF BothWanted
  <2>2. /\ \A x \in funded : a.outcome.items[x] = 0 /\ \A w \in Wallet : Fund(x) \in Asking[w]
        /\ \A x \in returned : a.outcome.items[x] = 1 /\ \A w \in Wallet : Defund(x) \in Asking[w]
    BY <1>4, <2>1, RequestKeys DEF Wanted, Asking
  <2>3. PICK o : a.outcome = o
    OBVIOUS
  <2>4. Changed(o, funded, returned) =
              [bal   |-> [w \in Wallet |-> o.bal[w] + Moved(RefundAmount, returned, w)
                                                    - Moved(FundAmount, funded, w)],
               items |-> [x \in App |-> IF x \in funded THEN 1
                                        ELSE IF x \in returned THEN 0 ELSE o.items[x]]]
    BY <1>4, <1>5, <2>2, <2>3, ChangeOf
  <2>5. b.outcome =
              [bal   |-> [w \in Wallet |-> a.outcome.bal[w] + Moved(RefundAmount, returned, w)
                                                    - Moved(FundAmount, funded, w)],
               items |-> [x \in App |-> IF x \in funded THEN 1
                                        ELSE IF x \in returned THEN 0 ELSE a.outcome.items[x]]]
    BY <2>1, <2>3, <2>4
  <2>6. \A x \in funded : Ledger!BothAsked(Fund(x)) /\ LatestAgreed.outcome.items[x] = 0
    BY <1>1, <1>3, <2>2 DEF Ledger!BothAsked
  <2>7. \A x \in returned : Ledger!BothAsked(Defund(x)) /\ LatestAgreed.outcome.items[x] = 1
    BY <1>1, <1>3, <2>2 DEF Ledger!BothAsked
  <2>9. LatestAgreed'.outcome =
              [bal   |-> [w \in Ledger!Wallet |->
                            LatestAgreed.outcome.bal[w] + Ledger!Moved(RefundAmount, returned, w)
                                                        - Ledger!Moved(FundAmount, funded, w)],
               items |-> [x \in App |-> IF x \in funded THEN 1
                                        ELSE IF x \in returned THEN 0
                                        ELSE LatestAgreed.outcome.items[x]]]
    BY <1>1, <1>2, <2>5
  <2>10. \A w \in Ledger!Wallet : LatestAgreed'.outcome.bal[w] >= 0
    BY <1>1, <1>6
  <2>8. Ledger!Agree(funded, returned)
    BY <1>1, <1>3, <1>9, <2>6, <2>7, <2>9, <2>10 DEF Ledger!Agree
  <2>. QED  BY <2>8 DEF Ledger!AgreementNext
<1>. QED  BY <1>7, <1>8, <1>9

\* The outcome that both wallets are bound to moves as the abstract ledger does: a
\* channel is taken in or given back once, with the amounts asked for, and only when
\* both have asked for that; whatever messages are lost, repeated or come late.
THEOREM LedgerKeepsAgreement == Spec => AgreementSpec
<1>1. Init => Ledger!AgreementInit
  <2>. SUFFICES ASSUME Init PROVE Ledger!AgreementInit
    OBVIOUS
  <2>1. PICK a : Outstanding(a) /\ LatestAgreed = a
    BY AgreementInit, LatestIsOutstanding DEF AgreementInv, OutstandingIsAgreed
  <2>2. a = Opening(setting.balance)
    BY <2>1 DEF Init, Outstanding, Bound, Given
  <2>3. LatestAgreed.outcome = [bal |-> setting.balance, items |-> [x \in App |-> 0]]
    BY <2>1, <2>2 DEF Opening, ProtocolState
  <2>4. setting.balance \in {x.balance : x \in Settings}
    BY DEF Init
  <2>5. [w \in Wallet |-> {k \in RequestKey : requests[w][k] # NotMade}] = [w \in Wallet |-> {}]
    BY DEF Init
  <2>6. Ledger!Wallet = Wallet
    BY DEF Ledger!Wallet, Ledger!Leader, Ledger!Follower, Wallet, Leader, Follower
  <2>. QED  BY <2>3, <2>4, <2>5, <2>6 DEF Ledger!AgreementInit
<1>2. Init => AgreementInv
  BY AgreementInit
<1>3. ASSUME AgreementInv, [Next]_ledgerVars
      PROVE  AgreementInv' /\ [Ledger!AgreementNext]_(Ledger!agreementVars)
  <2>1. PICK a : Outstanding(a) /\ LatestAgreed = a
    BY <1>3, LatestIsOutstanding DEF AgreementInv, OutstandingIsAgreed
  <2>2. SigningInv /\ SigningInv'
    BY <1>3, SigningSteps DEF AgreementInv
  <2>3. (SigningInv => OutstandingIsAgreed)'
    BY LatestIsOutstanding, PTL
  <2>4. ASSUME NEW b, Outstanding(b)',
               \/ (b = a \/ BothWanted(a, b)) /\ Asking' = Asking
               \/ /\ b = a
                  /\ \E w \in Wallet, k \in RequestKey :
                       k \notin Asking[w] /\ Asking' = [Asking EXCEPT ![w] = @ \union {k}]
        PROVE  AgreementInv' /\ [Ledger!AgreementNext]_(Ledger!agreementVars)
    <3>1. LatestAgreed' = b
      BY <2>2, <2>3, <2>4 DEF OutstandingIsAgreed
    <3>2. [Ledger!AgreementNext]_(Ledger!agreementVars)
      BY <2>1, <2>2, <2>4, <3>1, AgreementSteps
    <3>. QED  BY <2>2, <2>4, <3>2 DEF AgreementInv
  <2>. QED  BY <1>3, <2>1, <2>2, <2>4, StepsMove DEF MovesOn, MovesTo
<1>. QED  BY <1>1, <1>2, <1>3, PTL DEF Spec, AgreementSpec, Ledger!AgreementSpec
------------------------------------------------------------------------------
(* What a crank tells of the requests it loaded. *)

InHand == {"queued", "pending"}

\* The requests of one channel, after an agreed state is processed.
FundJudged(reqs, o, x) ==
  IF Fund(x) \notin Loaded(reqs) THEN NotLoaded
  ELSE IF o.items[x] > 0 THEN "succeeded"
  ELSE IF reqs[Fund(x)] \notin InHand THEN reqs[Fund(x)]
  ELSE IF Defund(x) \in Loaded(reqs) THEN "cancelled" ELSE "queued"
DefundJudged(reqs, o, x) ==
  IF Defund(x) \notin Loaded(reqs) THEN NotLoaded
  ELSE IF ~ (o.items[x] > 0)
       THEN IF reqs[Fund(x)] \in InHand THEN "cancelled" ELSE "succeeded"
  ELSE IF reqs[Defund(x)] \in InHand THEN "queued" ELSE reqs[Defund(x)]

LEMMA ProcessJudges ==
  ASSUME NEW reqs, IsReqs(reqs), NEW o, NEW processed, processed = ProcessAgreedState(reqs, o), NEW x \in App
  PROVE  processed[Fund(x)] = FundJudged(reqs, o, x) /\ processed[Defund(x)] = DefundJudged(reqs, o, x)
<1>1. PICK cancels : cancels = CancellationDefunds(reqs)
  OBVIOUS
<1>2. PICK judged : judged = MarkSuccesses(reqs, Loaded(reqs) \ cancels, o)
  OBVIOUS
<1>3. PICK reset : reset = Mark(judged, WithStatus(judged, "pending"), "queued")
  OBVIOUS
<1>4. PICK applied : applied = {k \in cancels : reset[Fund(k[2])] = "queued"}
  OBVIOUS
<1>5. PICK both : both = applied \union {Fund(k[2]) : k \in applied}
  OBVIOUS
<1>6. PICK canceled : canceled = Mark(reset, both, "cancelled")
  OBVIOUS
<1>7. processed = MarkSuccesses(canceled, cancels \ applied, o)
  BY <1>1, <1>2, <1>3, <1>4, <1>5, <1>6 DEF ProcessAgreedState
<1>8. "queued" \in RequestStatus /\ "cancelled" \in RequestStatus /\ "succeeded" \in RequestStatus
  BY StatusFacts DEF Statuses
<1>. PICK f : f = Fund(x)
  OBVIOUS
<1>. PICK d : d = Defund(x)
  OBVIOUS
<1>9. /\ f \in RequestKey /\ d \in RequestKey /\ f # d
      /\ f[1] = "fund" /\ d[1] = "defund" /\ f[2] = x /\ d[2] = x
  BY RequestKeys
<1>10. f \notin cancels /\ (d \in cancels <=> f \in Loaded(reqs) /\ d \in Loaded(reqs))
  <2>1. \A y \in App : f # Defund(y) /\ (Defund(y) = d => y = x)
    BY RequestKeys DEF Defund
  <2>. QED  BY <1>1, <2>1 DEF CancellationDefunds
<1>11. judged[f] = IF f \in Loaded(reqs) /\ o.items[x] > 0 THEN "succeeded" ELSE reqs[f]
  BY <1>2, <1>8, <1>9, <1>10, MarkFacts DEF MarkSuccesses
<1>12. judged[d] = IF d \in Loaded(reqs) /\ f \notin Loaded(reqs) /\ ~ (o.items[x] > 0)
                   THEN "succeeded" ELSE reqs[d]
  BY <1>2, <1>8, <1>9, <1>10, MarkFacts DEF MarkSuccesses
<1>13. \A k \in {f, d} : reset[k] = IF judged[k] = "pending" THEN "queued" ELSE judged[k]
  BY <1>3, <1>8, <1>9, MarkFacts DEF WithStatus
<1>14. d \in applied <=> d \in cancels /\ reset[f] = "queued"
  BY <1>4, <1>9
<1>15. f \in both <=> d \in applied
  <2>1. f \notin applied
    BY <1>4, <1>10
  <2>2. ASSUME NEW k \in applied, f = Fund(k[2]) PROVE k = d
    <3>1. k \in cancels
      BY <1>4
    <3>2. PICK y \in App : k = Defund(y)
      BY <1>1, <3>1 DEF CancellationDefunds
    <3>3. y = x
      BY <1>9, <2>2, <3>2, RequestKeys
    <3>. QED  BY <3>2, <3>3
  <2>3. d \in applied => f \in {Fund(k[2]) : k \in applied}
    BY <1>9
  <2>. QED  BY <1>5, <2>1, <2>2, <2>3
<1>16. d \in both <=> d \in applied
  <2>1. \A y : d # Fund(y)
    BY RequestKeys
  <2>. QED  BY <1>5, <2>1
<1>17. \A k \in {f, d} : canceled[k] = IF d \in applied THEN "cancelled" ELSE reset[k]
  BY <1>6, <1>8, <1>9, <1>15, <1>16, MarkFacts
<1>18. processed[f] = canceled[f]
  BY <1>7, <1>8, <1>9, <1>10, MarkFacts DEF MarkSuccesses
<1>19. processed[d] = IF d \in cancels \ applied /\ ~ (o.items[x] > 0) THEN "succeeded" ELSE canceled[d]
  BY <1>7, <1>8, <1>9, MarkFacts DEF MarkSuccesses
<1>20. /\ reqs[f] \in Statuses \union {NotLoaded} /\ reqs[d] \in Statuses \union {NotLoaded}
       /\ (f \in Loaded(reqs) <=> reqs[f] # NotLoaded) /\ (d \in Loaded(reqs) <=> reqs[d] # NotLoaded)
  BY <1>9, StatusFacts DEF IsReqs, Loaded
<1>21. reset[f] = "queued" <=> /\ f \in Loaded(reqs) /\ reqs[f] \in InHand /\ ~ (o.items[x] > 0)
  BY <1>11, <1>13, <1>20 DEF InHand, NotLoaded
<1>22. processed[f] = FundJudged(reqs, o, x)
  <2>1. processed[f] = IF d \in Loaded(reqs) /\ reset[f] = "queued" THEN "cancelled" ELSE reset[f]
    BY <1>9, <1>10, <1>14, <1>17, <1>18, <1>21
  <2>2. reset[f] = IF f \notin Loaded(reqs) THEN NotLoaded
                   ELSE IF o.items[x] > 0 THEN "succeeded"
                   ELSE IF reqs[f] \notin InHand THEN reqs[f] ELSE "queued"
    BY <1>11, <1>13, <1>20 DEF InHand, NotLoaded
  <2>. QED  BY <1>21, <2>1, <2>2, <1>9 DEF FundJudged
<1>23. processed[d] = DefundJudged(reqs, o, x)
  <2>1. processed[d] = IF d \in cancels /\ reset[f] = "queued" THEN "cancelled"
                       ELSE IF d \in cancels /\ ~ (o.items[x] > 0) THEN "succeeded" ELSE reset[d]
    BY <1>9, <1>14, <1>17, <1>19
  <2>2. reset[d] = IF d \notin Loaded(reqs) THEN NotLoaded
                   ELSE IF f \notin Loaded(reqs) /\ ~ (o.items[x] > 0) THEN "succeeded"
                   ELSE IF reqs[d] \in InHand THEN "queued" ELSE reqs[d]
    BY <1>12, <1>13, <1>20 DEF InHand, NotLoaded
  <2>3. reqs[f] \in InHand => f \in Loaded(reqs)
    BY <1>20 DEF InHand, NotLoaded
  <2>. QED  BY <1>10, <1>20, <1>21, <2>1, <2>2, <2>3 DEF DefundJudged
<1>. QED  BY <1>22, <1>23

\* Which of the given requests an outcome is built from, and what becomes of the others.
BuiltFrom(reqs, o, keys, new, q) ==
  \E funded, returned \in SUBSET App :
    /\ q = Changed(o, funded, returned)
    /\ \A x \in App :
         /\ x \in funded => Fund(x) \in keys
         /\ x \in returned <=> Defund(x) \in keys /\ o.items[x] > 0
         /\ new[Fund(x)] = IF Fund(x) \in keys /\ x \notin funded THEN "insufficient-funds"
                           ELSE reqs[Fund(x)]
         /\ new[Defund(x)] = IF Defund(x) \in keys /\ x \notin returned THEN "inconsistent"
                             ELSE reqs[Defund(x)]

LEMMA BuildJudges ==
  ASSUME NEW reqs, NEW o, NEW keys, NEW built, built = BuildOutcome(reqs, o, keys)
  PROVE  BuiltFrom(reqs, o, keys, built.reqs, built.outcome)
<1>1. PICK defunds : defunds = {x \in App : <<"defund", x>> \in keys}
  OBVIOUS
<1>2. PICK removed : removed = {x \in defunds : CanRemove(o, x)}
  OBVIOUS
<1>3. PICK rest : rest = RemoveItems(o, removed)
  OBVIOUS
<1>4. PICK funds : funds = {x \in App : <<"fund", x>> \in keys}
  OBVIOUS
<1>5. PICK added : added = Affordable(rest, funds)
  OBVIOUS
<1>6. PICK a : a = {Defund(x) : x \in defunds \ removed}
  OBVIOUS
<1>7. PICK b : b = {Fund(x) : x \in funds \ added}
  OBVIOUS
<1>8. /\ built.outcome = AddItems(rest, added)
      /\ built.reqs = Mark(Mark(reqs, a, "inconsistent"), b, "insufficient-funds")
  BY <1>1, <1>2, <1>3, <1>4, <1>5, <1>6, <1>7 DEF BuildOutcome
<1>9. added \in SUBSET funds
  <2>1. funds \in SUBSET App
    BY <1>4
  <2>2. \E f \in SUBSET funds :
          \A x \in funds : x \in f <=> CanAdd(AddItems(rest, {y \in f : y < x}), x)
    BY <2>1, AffordableExists
  <2>. QED  BY <1>5, <2>2 DEF Affordable
<1>10. "inconsistent" \in RequestStatus /\ "insufficient-funds" \in RequestStatus
  BY StatusFacts DEF Statuses
<1>11. PICK r : r = Mark(reqs, a, "inconsistent")
  OBVIOUS
<1>12. \A k \in RequestKey : r[k] = IF k \in a THEN "inconsistent" ELSE reqs[k]
  BY <1>10, <1>11, MarkFacts
<1>13. \A k \in RequestKey : built.reqs[k] = IF k \in b THEN "insufficient-funds" ELSE r[k]
  BY <1>8, <1>10, <1>11, MarkFacts
<1>14. added \in SUBSET App /\ removed \in SUBSET App /\ built.outcome = Changed(o, added, removed)
  BY <1>1, <1>2, <1>3, <1>4, <1>8, <1>9 DEF Changed
<1>15. ASSUME NEW x \in App
       PROVE  /\ x \in added => Fund(x) \in keys
              /\ x \in removed <=> Defund(x) \in keys /\ o.items[x] > 0
              /\ built.reqs[Fund(x)] = IF Fund(x) \in keys /\ x \notin added THEN "insufficient-funds"
                                       ELSE reqs[Fund(x)]
              /\ built.reqs[Defund(x)] = IF Defund(x) \in keys /\ x \notin removed THEN "inconsistent"
                                         ELSE reqs[Defund(x)]
  <2>1. Fund(x) \in RequestKey /\ Defund(x) \in RequestKey
    BY RequestKeys
  <2>2. (x \in funds <=> Fund(x) \in keys) /\ (x \in defunds <=> Defund(x) \in keys)
    BY <1>1, <1>4 DEF Fund, Defund
  <2>3. x \in removed <=> Defund(x) \in keys /\ o.items[x] > 0
    BY <1>2, <2>2 DEF CanRemove
  <2>4. Fund(x) \in b <=> Fund(x) \in keys /\ x \notin added
    <3>1. \A y : Fund(y) = Fund(x) => y = x
      BY DEF Fund
    <3>. QED  BY <1>7, <2>2, <3>1
  <2>5. Defund(x) \in a <=> Defund(x) \in keys /\ x \notin removed
    <3>1. \A y : Defund(y) = Defund(x) => y = x
      BY DEF Defund
    <3>. QED  BY <1>6, <2>2, <3>1
  <2>6. Fund(x) \notin a /\ Defund(x) \notin b
    BY <1>1, <1>4, <1>6, <1>7, <1>9, RequestKeys
  <2>. QED  BY <1>9, <1>12, <1>13, <2>1, <2>2, <2>3, <2>4, <2>5, <2>6
<1>. QED  BY <1>14, <1>15 DEF BuiltFrom

\* An outcome that is built has a channel more or a channel less for a request only.
LEMMA BuiltItems ==
  ASSUME NEW reqs, NEW o \in Outcome, NEW keys, NEW new, NEW q, BuiltFrom(reqs, o, keys, new, q),
         NEW x \in App, ~ (Fund(x) \in keys /\ Defund(x) \in keys)
  PROVE  /\ ~ (o.items[x] > 0) /\ q.items[x] > 0 => Fund(x) \in keys /\ new[Fund(x)] = reqs[Fund(x)]
         /\ o.items[x] > 0 /\ ~ (q.items[x] > 0) =>
              Defund(x) \in keys /\ new[Defund(x)] = reqs[Defund(x)]
<1>1. PICK funded, returned \in SUBSET App :
        /\ q = Changed(o, funded, returned)
        /\ x \in funded => Fund(x) \in keys
        /\ x \in returned <=> Defund(x) \in keys /\ o.items[x] > 0
        /\ new[Fund(x)] = IF Fund(x) \in keys /\ x \notin funded THEN "insufficient-funds"
                          ELSE reqs[Fund(x)]
        /\ new[Defund(x)] = IF Defund(x) \in keys /\ x \notin returned THEN "inconsistent"
                            ELSE reqs[Defund(x)]
  BY DEF BuiltFrom
<1>2. q.items[x] = (o.items[x] - (IF x \in returned THEN 1 ELSE 0)) + (IF x \in funded THEN 1 ELSE 0)
  BY <1>1, ChangedItems
<1>3. o.items[x] \in Nat
  BY DEF Outcome
<1>4. ~ (o.items[x] > 0) /\ q.items[x] > 0 => x \in funded
  BY <1>2, <1>3
<1>5. o.items[x] > 0 /\ ~ (q.items[x] > 0) => x \in returned
  BY <1>2, <1>3
<1>. QED  BY <1>1, <1>4, <1>5

\* Who has reqs in hand agrees to fund what it wants funded, and gives back nothing that
\* it still wants funded.
Agrees(reqs, o, q) ==
  \A x \in App : /\ ~ (o.items[x] > 0) /\ q.items[x] > 0 => Fund(x) \in Loaded(reqs)
                 /\ o.items[x] > 0 /\ ~ (q.items[x] > 0) => Fund(x) \notin Loaded(reqs)
SameStatus(reqs, new) == \A k \in RequestKey : new[k] = reqs[k]

\* What is proposed instead.
CountersWith(reqs, o, new, q) ==
  /\ CancellationsQueued(reqs) /\ Agrees(reqs, o, q)
  /\ \A x \in App :
       /\ ~ (o.items[x] > 0) /\ q.items[x] > 0 => new[Fund(x)] = reqs[Fund(x)]
       /\ new[Fund(x)] \in {reqs[Fund(x)], "insufficient-funds"}
       /\ new[Defund(x)] \in {reqs[Defund(x)], "inconsistent"}

LEMMA CompareJudges ==
  ASSUME NEW reqs, NEW o \in Outcome, NEW q, NEW c, c = Comparison(reqs, o, q)
  PROVE  /\ c.type = "full-agreement" => Agrees(reqs, o, q) /\ SameStatus(reqs, c.reqs)
         /\ c.type \in {"some-overlap", "no-overlap"} => CountersWith(reqs, o, c.reqs, c.outcome)
<1>1. PICK changed : changed = ChangedApps(o, q)
  OBVIOUS
<1>2. PICK overlap : overlap = {k \in Loaded(reqs) \ CancellationDefunds(reqs) : k[2] \in changed}
  OBVIOUS
<1>3. PICK built : built = BuildOutcome(reqs, o, overlap)
  OBVIOUS
<1>. DEFINE Is(t, r, outcome) == c = [type |-> t, reqs |-> r, outcome |-> outcome]
<1>4. \/ Is("full-agreement", reqs, q) /\ changed = {}
      \/ Is("cancellation error", reqs, o)
      \/ Is("no-overlap", reqs, o) /\ CancellationsQueued(reqs)
      \/ Is("some-overlap", built.reqs, built.outcome) /\ CancellationsQueued(reqs)
      \/ Is("full-agreement", built.reqs, q) /\ built.outcome = q
      \/ Is("outcomes inconsistent", built.reqs, o)
  BY <1>1, <1>2, <1>3 DEF Comparison
<1>5. \A t, r, p : Is(t, r, p) => c.type = t /\ c.reqs = r /\ c.outcome = p
  OBVIOUS
<1>. HIDE DEF Is
<1>6. ASSUME NEW x \in App
      PROVE  /\ Fund(x) \in overlap <=> Fund(x) \in Loaded(reqs) /\ x \in changed
             /\ Defund(x) \in overlap <=> /\ Defund(x) \in Loaded(reqs) /\ Fund(x) \notin Loaded(reqs)
                                          /\ x \in changed
  <2>1. /\ Fund(x)[2] = x /\ Defund(x)[2] = x
        /\ \A y \in App : Fund(x) # Defund(y) /\ (Defund(y) = Defund(x) => y = x)
    BY RequestKeys DEF Defund
  <2>2. Fund(x) \notin CancellationDefunds(reqs)
    BY <2>1 DEF CancellationDefunds
  <2>3. Defund(x) \in CancellationDefunds(reqs) <=> Fund(x) \in Loaded(reqs) /\ Defund(x) \in Loaded(reqs)
    BY <2>1 DEF CancellationDefunds
  <2>. QED  BY <1>2, <2>1, <2>2, <2>3
<1>7. BuiltFrom(reqs, o, overlap, built.reqs, built.outcome)
  BY <1>3, BuildJudges
<1>8. ASSUME NEW x \in App
      PROVE  /\ ~ (o.items[x] > 0) /\ built.outcome.items[x] > 0 =>
                   Fund(x) \in Loaded(reqs) /\ built.reqs[Fund(x)] = reqs[Fund(x)]
             /\ o.items[x] > 0 /\ ~ (built.outcome.items[x] > 0) =>
                   Fund(x) \notin Loaded(reqs) /\ built.reqs[Defund(x)] = reqs[Defund(x)]
             /\ built.reqs[Fund(x)] \in {reqs[Fund(x)], "insufficient-funds"}
             /\ built.reqs[Defund(x)] \in {reqs[Defund(x)], "inconsistent"}
             /\ Fund(x) \notin overlap => built.reqs[Fund(x)] = reqs[Fund(x)]
             /\ Defund(x) \notin overlap => built.reqs[Defund(x)] = reqs[Defund(x)]
  <2>1. ~ (Fund(x) \in overlap /\ Defund(x) \in overlap)
    BY <1>6
  <2>2. /\ ~ (o.items[x] > 0) /\ built.outcome.items[x] > 0 =>
                   Fund(x) \in overlap /\ built.reqs[Fund(x)] = reqs[Fund(x)]
        /\ o.items[x] > 0 /\ ~ (built.outcome.items[x] > 0) =>
                   Defund(x) \in overlap /\ built.reqs[Defund(x)] = reqs[Defund(x)]
    BY <1>7, <2>1, BuiltItems
  <2>3. /\ built.reqs[Fund(x)] \in {reqs[Fund(x)], "insufficient-funds"}
        /\ built.reqs[Defund(x)] \in {reqs[Defund(x)], "inconsistent"}
        /\ Fund(x) \notin overlap => built.reqs[Fund(x)] = reqs[Fund(x)]
        /\ Defund(x) \notin overlap => built.reqs[Defund(x)] = reqs[Defund(x)]
    BY <1>7 DEF BuiltFrom
  <2>. QED  BY <1>6, <2>2, <2>3
<1>9. CASE Is("full-agreement", reqs, q) /\ changed = {}
  <2>1. Agrees(reqs, o, q)
    BY <1>1, <1>9 DEF Agrees, ChangedApps
  <2>. QED  BY <1>5, <1>9, <2>1 DEF SameStatus
<1>10. CASE Is("no-overlap", reqs, o) /\ CancellationsQueued(reqs)
  <2>1. Agrees(reqs, o, o)
    BY DEF Agrees
  <2>2. CountersWith(reqs, o, reqs, o)
    BY <1>10, <2>1 DEF CountersWith
  <2>. QED  BY <1>5, <1>10, <2>2
<1>11. CASE Is("some-overlap", built.reqs, built.outcome) /\ CancellationsQueued(reqs)
  <2>1. Agrees(reqs, o, built.outcome)
    BY <1>8 DEF Agrees
  <2>2. CountersWith(reqs, o, built.reqs, built.outcome)
    BY <1>8, <1>11, <2>1 DEF CountersWith
  <2>. QED  BY <1>5, <1>11, <2>2
<1>12. CASE Is("full-agreement", built.reqs, q) /\ built.outcome = q
  <2>1. Agrees(reqs, o, q)
    BY <1>8, <1>12 DEF Agrees
  <2>2. ASSUME NEW k \in RequestKey PROVE built.reqs[k] = reqs[k]
    <3>1. PICK x \in App : k = Fund(x) \/ k = Defund(x)
      BY DEF RequestKey, Fund, Defund
    <3>2. x \in changed <=> (o.items[x] > 0) # (q.items[x] > 0)
      BY <1>1 DEF ChangedApps
    <3>3. CASE k = Fund(x)
      BY <1>6, <1>8, <1>12, <3>2, <3>3
    <3>4. CASE k = Defund(x)
      BY <1>6, <1>8, <1>12, <3>2, <3>4
    <3>. QED  BY <3>1, <3>3, <3>4
  <2>. QED  BY <1>5, <1>12, <2>1, <2>2 DEF SameStatus
<1>13. CASE Is("cancellation error", reqs, o) \/ Is("outcomes inconsistent", built.reqs, o)
  BY <1>5, <1>13
<1>. QED  BY <1>4, <1>9, <1>10, <1>11, <1>12, <1>13

LEMMA PendingJudges ==
  ASSUME NEW reqs, NEW q, NEW new, new = MarkPending(reqs, q), NEW k \in RequestKey
  PROVE  new[k] = reqs[k] \/ (reqs[k] = "queued" /\ new[k] = "pending")
<1>1. "pending" \in RequestStatus
  BY StatusFacts DEF Statuses
<1>2. new[k] = reqs[k] \/ (k \in WithStatus(reqs, "queued") /\ new[k] = "pending")
  BY <1>1, MarkFacts DEF MarkPending
<1>. QED  BY <1>2 DEF WithStatus

\* Requests as they are loaded: none is terminal yet.
Fresh(reqs) == IsReqs(reqs) /\ \A k \in RequestKey : reqs[k] \in InHand \union {NotLoaded}

\* What a crank that moves from a to b tells of the requests.
Judges(reqs, new, a, b) ==
  \A x \in App :
    /\ new[Fund(x)] = "cancelled" =>
         Fund(x) \in Loaded(reqs) /\ ~ (a.items[x] > 0) /\ ~ (b.items[x] > 0)
    /\ new[Fund(x)] = "succeeded" => a.items[x] > 0 \/ b.items[x] > 0
    /\ new[Defund(x)] = "succeeded" => ~ (b.items[x] > 0) /\ new[Fund(x)] \notin InHand
    /\ Fund(x) \in Loaded(reqs) /\ b.items[x] > 0 =>
         new[Fund(x)] \in {"succeeded", "insufficient-funds"}

\* What is signed beyond o has the channels whose funding is in hand, and keeps those
\* whose funding is.
SignsFor(new, o, q) ==
  \A x \in App : /\ ~ (o.items[x] > 0) /\ q.items[x] > 0 => new[Fund(x)] \in InHand
                 /\ o.items[x] > 0 /\ ~ (q.items[x] > 0) => new[Fund(x)] \notin InHand

LEMMA FreshStatus ==
  ASSUME NEW reqs, Fresh(reqs), NEW x \in App
  PROVE  /\ Fund(x) \in Loaded(reqs) <=> reqs[Fund(x)] \in InHand
         /\ Defund(x) \in Loaded(reqs) <=> reqs[Defund(x)] \in InHand
         /\ NotLoaded \notin InHand /\ "succeeded" \notin InHand /\ "cancelled" \notin InHand
         /\ "inconsistent" \notin InHand /\ "insufficient-funds" \notin InHand
         /\ "queued" \in InHand /\ "pending" \in InHand
         /\ NotLoaded \notin {"queued", "succeeded", "cancelled"}
BY RequestKeys DEF Fresh, Loaded, InHand, NotLoaded

LEMMA LeaderJudges ==
  ASSUME NEW reqs, Fresh(reqs), NEW agreed, NEW o \in Outcome, o = agreed.outcome, NEW before,
         NEW result, result = CrankAsLeaderInAgreement(reqs, agreed, before), result.error = "none"
  PROVE  /\ Judges(reqs, result.reqs, o, o)
         /\ \/ result.states = before
            \/ \E s : result.states = Append(before, s) /\ SignsFor(result.reqs, o, s.outcome)
<1>1. PICK processed : processed = ProcessAgreedState(reqs, o)
  OBVIOUS
<1>2. PICK keys : keys = WithStatus(processed, "queued")
  OBVIOUS
<1>3. PICK built : built = BuildOutcome(processed, o, keys)
  OBVIOUS
<1>4. PICK s : s = ProtocolState(agreed.turnNum + 1, built.outcome)
  OBVIOUS
<1>5. PICK marked : marked = MarkPending(built.reqs, built.outcome)
  OBVIOUS
<1>6. \/ result = Cranked(built.reqs, before)
      \/ result = Cranked(marked, Append(before, s))
  <2>1. \/ result = Thrown("process")
        \/ result = Cranked(built.reqs, before)
        \/ result = Cranked(marked, Append(before, s))
    BY <1>1, <1>2, <1>3, <1>4, <1>5 DEF CrankAsLeaderInAgreement
  <2>2. result # Thrown("process")
    BY DEF Thrown
  <2>. QED  BY <2>1, <2>2
<1>7. \/ result.reqs = built.reqs /\ result.states = before
      \/ result.reqs = marked /\ result.states = Append(before, s)
  BY <1>6 DEF Cranked
<1>. PICK new : new = result.reqs
  OBVIOUS
<1>8. \A k \in RequestKey : \/ new[k] = built.reqs[k]
                            \/ built.reqs[k] = "queued" /\ new[k] = "pending"
  BY <1>5, <1>7, PendingJudges
<1>9. BuiltFrom(processed, o, keys, built.reqs, built.outcome)
  BY <1>3, BuildJudges
<1>10. ASSUME NEW x \in App
       PROVE  /\ new[Fund(x)] = "cancelled" => Fund(x) \in Loaded(reqs) /\ ~ (o.items[x] > 0)
              /\ new[Fund(x)] = "succeeded" => o.items[x] > 0
              /\ new[Defund(x)] = "succeeded" => ~ (o.items[x] > 0) /\ new[Fund(x)] \notin InHand
              /\ o.items[x] > 0 =>
                   new[Fund(x)] = IF Fund(x) \in Loaded(reqs) THEN "succeeded" ELSE NotLoaded
              /\ ~ (o.items[x] > 0) /\ built.outcome.items[x] > 0 => new[Fund(x)] \in InHand
  <2>. PICK f : f = Fund(x)
    OBVIOUS
  <2>. PICK d : d = Defund(x)
    OBVIOUS
  <2>1. f \in RequestKey /\ d \in RequestKey
    BY RequestKeys
  <2>2. /\ f \in Loaded(reqs) <=> reqs[f] \in InHand
        /\ d \in Loaded(reqs) <=> reqs[d] \in InHand
        /\ NotLoaded \notin InHand /\ "succeeded" \notin InHand /\ "cancelled" \notin InHand
        /\ "inconsistent" \notin InHand /\ "insufficient-funds" \notin InHand
        /\ "queued" \in InHand /\ "pending" \in InHand
        /\ NotLoaded \notin {"queued", "succeeded", "cancelled"}
    BY FreshStatus
  <2>3. IsReqs(reqs)
    BY DEF Fresh
  <2>4. processed[f] = IF f \notin Loaded(reqs) THEN NotLoaded
                       ELSE IF o.items[x] > 0 THEN "succeeded"
                       ELSE IF d \in Loaded(reqs) THEN "cancelled" ELSE "queued"
    BY <1>1, <2>2, <2>3, ProcessJudges DEF FundJudged
  <2>5. processed[d] = IF d \notin Loaded(reqs) THEN NotLoaded
                       ELSE IF ~ (o.items[x] > 0)
                            THEN IF f \in Loaded(reqs) THEN "cancelled" ELSE "succeeded"
                       ELSE "queued"
    BY <1>1, <2>2, <2>3, ProcessJudges DEF DefundJudged
  <2>6. (f \in keys <=> processed[f] = "queued") /\ (d \in keys <=> processed[d] = "queued")
    BY <1>2, <2>1 DEF WithStatus
  <2>7. /\ built.reqs[f] = processed[f] \/ (f \in keys /\ built.reqs[f] = "insufficient-funds")
        /\ built.reqs[d] = processed[d] \/ (d \in keys /\ built.reqs[d] = "inconsistent")
    BY <1>9 DEF BuiltFrom
  <2>8. ~ (f \in keys /\ d \in keys)
    BY <2>2, <2>4, <2>5, <2>6
  <2>9. ~ (o.items[x] > 0) /\ built.outcome.items[x] > 0 => f \in keys /\ built.reqs[f] = processed[f]
    BY <1>9, <2>8, BuiltItems
  <2>10. /\ new[f] = built.reqs[f] \/ (built.reqs[f] = "queued" /\ new[f] = "pending")
         /\ new[d] = built.reqs[d] \/ (built.reqs[d] = "queued" /\ new[d] = "pending")
    BY <1>8, <2>1
  <2>11. new[f] = "cancelled" => f \in Loaded(reqs) /\ ~ (o.items[x] > 0)
    BY <2>2, <2>4, <2>6, <2>7, <2>10
  <2>12. new[f] = "succeeded" => o.items[x] > 0
    BY <2>2, <2>4, <2>6, <2>7, <2>10
  <2>13. new[d] = "succeeded" => ~ (o.items[x] > 0) /\ f \notin Loaded(reqs)
    BY <2>2, <2>5, <2>6, <2>7, <2>10
  <2>14. f \notin Loaded(reqs) => new[f] = NotLoaded
    BY <2>2, <2>4, <2>6, <2>7, <2>10
  <2>15. o.items[x] > 0 => new[f] = IF f \in Loaded(reqs) THEN "succeeded" ELSE NotLoaded
    BY <2>2, <2>4, <2>6, <2>7, <2>10
  <2>16. ~ (o.items[x] > 0) /\ built.outcome.items[x] > 0 => new[f] \in InHand
    BY <2>2, <2>6, <2>9, <2>10
  <2>. QED  BY <2>2, <2>11, <2>12, <2>13, <2>14, <2>15, <2>16
<1>11. "succeeded" \notin InHand /\ NotLoaded \notin InHand
  BY DEF InHand, NotLoaded
<1>12. Judges(reqs, new, o, o)
  BY <1>10 DEF Judges
<1>13. SignsFor(new, o, s.outcome)
  <2>1. s.outcome = built.outcome
    BY <1>4 DEF ProtocolState
  <2>. QED  BY <1>10, <1>11, <2>1 DEF SignsFor
<1>. QED  BY <1>7, <1>12, <1>13

\* The leader's crank, when it accepts a counterproposal.
LEMMA LeaderJudgesCounter ==
  ASSUME NEW reqs, Fresh(reqs), NEW agreed, NEW o, Solvent(o), agreed.outcome = o,
         NEW counter, counter.outcome \in Outcome,
         NEW result, result = CrankAsLeaderInCounterProposal(reqs, agreed, counter),
         result.error = "none", NEW before, before = <<counter>>
  PROVE  /\ Agrees(reqs, o, counter.outcome) /\ Judges(reqs, result.reqs, o, counter.outcome)
         /\ \/ result.states = before
            \/ \E s : result.states = Append(before, s) /\ SignsFor(result.reqs, counter.outcome, s.outcome)
<1>. PICK q : q = counter.outcome
  OBVIOUS
<1>1. PICK c : c = Comparison(reqs, o, q)
  OBVIOUS
<1>2. o \in Outcome /\ IsReqs(reqs) /\ q \in Outcome
  BY DEF Solvent, Fresh
<1>3. IsReqs(c.reqs) /\ c.type # "none"
  BY <1>1, <1>2, ComparisonFacts
<1>4. c.type = "full-agreement" /\ result = CrankAsLeaderInAgreement(c.reqs, counter, before)
  <2>1. \/ c.type # "full-agreement" /\ result = Thrown(c.type)
        \/ c.type = "full-agreement" /\ result = CrankAsLeaderInAgreement(c.reqs, counter, before)
    BY <1>1 DEF CrankAsLeaderInCounterProposal
  <2>2. result # Thrown(c.type)
    BY <1>3 DEF Thrown
  <2>. QED  BY <2>1, <2>2
<1>5. Agrees(reqs, o, q) /\ SameStatus(reqs, c.reqs)
  BY <1>1, <1>2, <1>4, CompareJudges
<1>6. Fresh(c.reqs) /\ Loaded(c.reqs) = Loaded(reqs)
  BY <1>3, <1>5 DEF Fresh, SameStatus, Loaded
<1>7. /\ Judges(c.reqs, result.reqs, q, q)
      /\ \/ result.states = before
         \/ \E s : result.states = Append(before, s) /\ SignsFor(result.reqs, q, s.outcome)
  <2>1. PICK r : r = c.reqs
    OBVIOUS
  <2>2. Fresh(r) /\ result = CrankAsLeaderInAgreement(r, counter, before)
    BY <1>4, <1>6, <2>1
  <2>3. /\ Judges(r, result.reqs, q, q)
        /\ \/ result.states = before
           \/ \E s : result.states = Append(before, s) /\ SignsFor(result.reqs, q, s.outcome)
    BY <1>2, <2>2, LeaderJudges
  <2>. QED  BY <2>1, <2>3
<1>8. Judges(reqs, result.reqs, o, q)
  BY <1>5, <1>6, <1>7 DEF Judges, Agrees
<1>. QED  BY <1>5, <1>7, <1>8

\* The follower's crank in agreement.
LEMMA FollowerJudges ==
  ASSUME NEW reqs, Fresh(reqs), NEW o, NEW new, new = ProcessAgreedState(reqs, o)
  PROVE  Judges(reqs, new, o, o)
<1>1. ASSUME NEW x \in App
      PROVE  /\ new[Fund(x)] = "cancelled" => Fund(x) \in Loaded(reqs) /\ ~ (o.items[x] > 0)
             /\ new[Fund(x)] = "succeeded" => o.items[x] > 0
             /\ new[Defund(x)] = "succeeded" => ~ (o.items[x] > 0) /\ new[Fund(x)] \notin InHand
             /\ Fund(x) \in Loaded(reqs) /\ o.items[x] > 0 => new[Fund(x)] = "succeeded"
  <2>1. new[Fund(x)] = FundJudged(reqs, o, x) /\ new[Defund(x)] = DefundJudged(reqs, o, x)
    BY ProcessJudges DEF Fresh
  <2>. QED  BY <2>1, FreshStatus DEF FundJudged, DefundJudged
<1>. QED  BY <1>1 DEF Judges

\* The follower's crank, when it accepts the proposal q: the agreed state is processed,
\* and then the proposal.
LEMMA FollowerJudgesProposal ==
  ASSUME NEW reqs, Fresh(reqs), NEW o, NEW q, NEW loaded, loaded = ProcessAgreedState(reqs, o),
         NEW compared, SameStatus(loaded, compared), IsReqs(compared), Agrees(loaded, o, q),
         NEW new, new = ProcessAgreedState(compared, q)
  PROVE  Agrees(reqs, o, q) /\ Judges(reqs, new, o, q)
<1>1. Loaded(loaded) = Loaded(reqs) /\ Loaded(compared) = Loaded(reqs)
  <2>1. Loaded(loaded) = Loaded(reqs)
    BY ProcessFacts, SameLoadedFacts
  <2>. QED  BY <2>1 DEF Loaded, SameStatus
<1>2. Agrees(reqs, o, q)
  BY <1>1 DEF Agrees
<1>3. ASSUME NEW x \in App
      PROVE  /\ new[Fund(x)] = "cancelled" =>
                  Fund(x) \in Loaded(reqs) /\ ~ (o.items[x] > 0) /\ ~ (q.items[x] > 0)
             /\ new[Fund(x)] = "succeeded" => o.items[x] > 0 \/ q.items[x] > 0
             /\ new[Defund(x)] = "succeeded" => ~ (q.items[x] > 0) /\ new[Fund(x)] \notin InHand
             /\ Fund(x) \in Loaded(reqs) /\ q.items[x] > 0 => new[Fund(x)] = "succeeded"
  <2>. PICK f : f = Fund(x)
    OBVIOUS
  <2>. PICK d : d = Defund(x)
    OBVIOUS
  <2>1. f \in RequestKey /\ d \in RequestKey
    BY RequestKeys
  <2>2. /\ f \in Loaded(reqs) <=> reqs[f] \in InHand
        /\ d \in Loaded(reqs) <=> reqs[d] \in InHand
        /\ NotLoaded \notin InHand /\ "succeeded" \notin InHand /\ "cancelled" \notin InHand
        /\ "queued" \in InHand /\ NotLoaded \notin {"queued", "succeeded", "cancelled"}
    BY FreshStatus
  <2>3. loaded[f] = IF f \notin Loaded(reqs) THEN NotLoaded
                    ELSE IF o.items[x] > 0 THEN "succeeded"
                    ELSE IF d \in Loaded(reqs) THEN "cancelled" ELSE "queued"
    BY <2>2, ProcessJudges DEF FundJudged, Fresh
  <2>4. loaded[d] = IF d \notin Loaded(reqs) THEN NotLoaded
                    ELSE IF ~ (o.items[x] > 0)
                         THEN IF f \in Loaded(reqs) THEN "cancelled" ELSE "succeeded"
                    ELSE "queued"
    BY <2>2, ProcessJudges DEF DefundJudged, Fresh
  <2>5. compared[f] = loaded[f] /\ compared[d] = loaded[d]
    BY <2>1 DEF SameStatus
  <2>6. new[f] = FundJudged(compared, q, x) /\ new[d] = DefundJudged(compared, q, x)
    BY ProcessJudges
  <2>7. new[f] = IF f \notin Loaded(reqs) THEN NotLoaded
                 ELSE IF q.items[x] > 0 THEN "succeeded"
                 ELSE IF loaded[f] \notin InHand THEN loaded[f]
                 ELSE IF d \in Loaded(reqs) THEN "cancelled" ELSE "queued"
    BY <1>1, <2>5, <2>6 DEF FundJudged
  <2>8. new[d] = IF d \notin Loaded(reqs) THEN NotLoaded
                 ELSE IF ~ (q.items[x] > 0)
                      THEN IF loaded[f] \in InHand THEN "cancelled" ELSE "succeeded"
                 ELSE IF loaded[d] \in InHand THEN "queued" ELSE loaded[d]
    BY <1>1, <2>5, <2>6 DEF DefundJudged
  <2>9. /\ ~ (o.items[x] > 0) /\ q.items[x] > 0 => f \in Loaded(reqs)
        /\ o.items[x] > 0 /\ ~ (q.items[x] > 0) => f \notin Loaded(reqs)
    BY <1>2 DEF Agrees
  <2>10. new[f] = "cancelled" => f \in Loaded(reqs) /\ ~ (o.items[x] > 0) /\ ~ (q.items[x] > 0)
    BY <2>2, <2>3, <2>7, <2>9
  <2>11. new[f] = "succeeded" => o.items[x] > 0 \/ q.items[x] > 0
    BY <2>2, <2>3, <2>7
  <2>12. new[d] = "succeeded" => ~ (q.items[x] > 0) /\ new[f] \notin InHand
    BY <2>2, <2>3, <2>4, <2>7, <2>8, <2>9
  <2>13. f \in Loaded(reqs) /\ q.items[x] > 0 => new[f] = "succeeded"
    BY <2>7
  <2>. QED  BY <2>10, <2>11, <2>12, <2>13
<1>. QED  BY <1>2, <1>3 DEF Judges

\* The follower's crank, when it makes a counterproposal.
LEMMA FollowerJudgesCounter ==
  ASSUME NEW reqs, Fresh(reqs), NEW o, NEW loaded, loaded = ProcessAgreedState(reqs, o),
         NEW compared, NEW q, CountersWith(loaded, o, compared, q),
         NEW new, new = MarkPending(compared, q)
  PROVE  Judges(reqs, new, o, o) /\ SignsFor(new, o, q)
<1>1. Loaded(loaded) = Loaded(reqs)
  BY ProcessFacts, SameLoadedFacts
<1>2. ASSUME NEW x \in App
      PROVE  /\ new[Fund(x)] = "cancelled" => Fund(x) \in Loaded(reqs) /\ ~ (o.items[x] > 0)
             /\ new[Fund(x)] = "succeeded" => o.items[x] > 0
             /\ new[Defund(x)] = "succeeded" => ~ (o.items[x] > 0) /\ new[Fund(x)] \notin InHand
             /\ Fund(x) \in Loaded(reqs) /\ o.items[x] > 0 =>
                  new[Fund(x)] \in {"succeeded", "insufficient-funds"}
             /\ ~ (o.items[x] > 0) /\ q.items[x] > 0 => new[Fund(x)] \in InHand
             /\ o.items[x] > 0 /\ ~ (q.items[x] > 0) => new[Fund(x)] \notin InHand
  <2>. PICK f : f = Fund(x)
    OBVIOUS
  <2>. PICK d : d = Defund(x)
    OBVIOUS
  <2>1. f \in RequestKey /\ d \in RequestKey
    BY RequestKeys
  <2>2. /\ f \in Loaded(reqs) <=> reqs[f] \in InHand
        /\ d \in Loaded(reqs) <=> reqs[d] \in InHand
        /\ NotLoaded \notin InHand /\ "succeeded" \notin InHand /\ "cancelled" \notin InHand
        /\ "insufficient-funds" \notin InHand
        /\ "queued" \in InHand /\ "pending" \in InHand
        /\ NotLoaded \notin {"queued", "succeeded", "cancelled"}
    BY FreshStatus
  <2>3. loaded[f] = IF f \notin Loaded(reqs) THEN NotLoaded
                    ELSE IF o.items[x] > 0 THEN "succeeded"
                    ELSE IF d \in Loaded(reqs) THEN "cancelled" ELSE "queued"
    BY <2>2, ProcessJudges DEF FundJudged, Fresh
  <2>4. loaded[d] = IF d \notin Loaded(reqs) THEN NotLoaded
                    ELSE IF ~ (o.items[x] > 0)
                         THEN IF f \in Loaded(reqs) THEN "cancelled" ELSE "succeeded"
                    ELSE "queued"
    BY <2>2, ProcessJudges DEF DefundJudged, Fresh
  <2>5. f \in Loaded(reqs) /\ d \in Loaded(reqs) => loaded[d] = "queued"
    <3>1. f \in Loaded(reqs) /\ d \in Loaded(reqs) => d \in CancellationDefunds(loaded)
      BY <1>1 DEF CancellationDefunds
    <3>. QED  BY <3>1 DEF CountersWith, CancellationsQueued
  <2>6. /\ ~ (o.items[x] > 0) /\ q.items[x] > 0 => compared[f] = loaded[f] /\ f \in Loaded(reqs)
        /\ o.items[x] > 0 /\ ~ (q.items[x] > 0) => f \notin Loaded(reqs)
        /\ compared[f] \in {loaded[f], "insufficient-funds"}
        /\ compared[d] \in {loaded[d], "inconsistent"}
    BY <1>1 DEF CountersWith, Agrees
  <2>7. /\ new[f] = compared[f] \/ (compared[f] = "queued" /\ new[f] = "pending")
        /\ new[d] = compared[d] \/ (compared[d] = "queued" /\ new[d] = "pending")
    BY <2>1, PendingJudges
  <2>8. f \notin Loaded(reqs) => new[f] \notin InHand
    BY <2>2, <2>3, <2>6, <2>7
  <2>9. new[f] = "cancelled" => f \in Loaded(reqs) /\ ~ (o.items[x] > 0)
    BY <2>2, <2>3, <2>6, <2>7
  <2>10. new[f] = "succeeded" => o.items[x] > 0
    BY <2>2, <2>3, <2>6, <2>7
  <2>11. new[d] = "succeeded" => ~ (o.items[x] > 0) /\ f \notin Loaded(reqs)
    BY <2>2, <2>4, <2>6, <2>7
  <2>12. f \in Loaded(reqs) /\ o.items[x] > 0 => new[f] \in {"succeeded", "insufficient-funds"}
    BY <2>2, <2>3, <2>6, <2>7
  <2>13. ~ (o.items[x] > 0) /\ q.items[x] > 0 => new[f] \in InHand
    BY <2>2, <2>3, <2>4, <2>5, <2>6, <2>7
  <2>14. o.items[x] > 0 /\ ~ (q.items[x] > 0) => new[f] \notin InHand
    BY <2>6, <2>8
  <2>. QED  BY <2>8, <2>9, <2>10, <2>11, <2>12, <2>13, <2>14
<1>. QED  BY <1>2 DEF Judges, SignsFor

\* What the follower's reply to a proposal comes to.
RepliesWith(reqs, new, states, o, proposed) ==
  \/ /\ states = <<proposed>> /\ Agrees(reqs, o, proposed.outcome)
     /\ Judges(reqs, new, o, proposed.outcome)
  \/ /\ Judges(reqs, new, o, o)
     /\ \E s : /\ states = <<s>> /\ s.turnNum = proposed.turnNum + 1
               /\ SignsFor(new, o, s.outcome)

LEMMA FollowerReplies ==
  ASSUME NEW reqs, Fresh(reqs), NEW agreed, NEW o, Solvent(o), o = agreed.outcome, NEW proposed,
         NEW result, result = CrankAsFollowerInProposal(reqs, agreed, proposed),
         result.error = "none"
  PROVE  RepliesWith(reqs, result.reqs, result.states, o, proposed)
<1>1. PICK q : q = proposed.outcome
  OBVIOUS
<1>2. PICK loaded : loaded = ProcessAgreedState(reqs, o)
  OBVIOUS
<1>3. PICK c : c = Comparison(loaded, o, q)
  OBVIOUS
<1>4. PICK s : s = ProtocolState(proposed.turnNum + 1, c.outcome)
  OBVIOUS
<1>. PICK r : r = c.reqs
  OBVIOUS
<1>. PICK accepted : accepted = ProcessAgreedState(r, q)
  OBVIOUS
<1>. PICK countered : countered = MarkPending(r, c.outcome)
  OBVIOUS
<1>5. o \in Outcome /\ IsReqs(loaded)
  BY <1>2, ProcessType DEF Solvent, Fresh
<1>6. IsReqs(r) /\ c.type # "none"
  BY <1>3, <1>5, ComparisonFacts
<1>7. \/ c.type = "full-agreement" /\ result = Cranked(accepted, <<proposed>>)
      \/ c.type \in {"some-overlap", "no-overlap"} /\ result = Cranked(countered, <<s>>)
  <2>1. \/ result = Thrown("process")
        \/ c.type = "full-agreement" /\ result = Cranked(accepted, <<proposed>>)
        \/ c.type \in {"some-overlap", "no-overlap"} /\ result = Cranked(countered, <<s>>)
        \/ result = Thrown(c.type)
    BY <1>1, <1>2, <1>3, <1>4 DEF CrankAsFollowerInProposal
  <2>2. result # Thrown("process") /\ result # Thrown(c.type)
    BY <1>6 DEF Thrown
  <2>. QED  BY <2>1, <2>2
<1>8. /\ c.type = "full-agreement" => Agrees(loaded, o, q) /\ SameStatus(loaded, r)
      /\ c.type \in {"some-overlap", "no-overlap"} => CountersWith(loaded, o, r, c.outcome)
  BY <1>3, <1>5, CompareJudges
<1>9. CASE c.type = "full-agreement" /\ result = Cranked(accepted, <<proposed>>)
  <2>1. result.reqs = accepted /\ result.states = <<proposed>>
    BY <1>9 DEF Cranked
  <2>2. Agrees(reqs, o, q) /\ Judges(reqs, accepted, o, q)
    BY <1>2, <1>6, <1>8, <1>9, FollowerJudgesProposal
  <2>. QED  BY <1>1, <2>1, <2>2 DEF RepliesWith
<1>10. CASE c.type \in {"some-overlap", "no-overlap"} /\ result = Cranked(countered, <<s>>)
  <2>1. /\ result.reqs = countered /\ result.states = <<s>>
        /\ s.turnNum = proposed.turnNum + 1 /\ s.outcome = c.outcome
    BY <1>4, <1>10 DEF Cranked, ProtocolState
  <2>2. PICK p : p = c.outcome
    OBVIOUS
  <2>3. CountersWith(loaded, o, r, p) /\ countered = MarkPending(r, p)
    BY <1>8, <1>10, <2>2
  <2>4. Judges(reqs, countered, o, o) /\ SignsFor(countered, o, p)
    BY <1>2, <2>3, FollowerJudgesCounter
  <2>. QED  BY <2>1, <2>2, <2>4 DEF RepliesWith
<1>. QED  BY <1>7, <1>9, <1>10
(* What a wallet has been told is true of what both are bound to. *)

Active(w, k) == requests[w][k] \in InHand

\* The channels that the ledger funds or has funded, as both have agreed.
EverFunded(x) == \E c \in Bound : c.outcome.items[x] > 0

\* The last two make this inductive: a request that is not terminal can only be for a
\* channel that is funded now, and a defund is asked for after the fund.
Told(w, a) ==
  \A x \in App :
    /\ requests[w][Fund(x)] = "cancelled" => ~ EverFunded(x)
    /\ requests[w][Fund(x)] = "succeeded" => EverFunded(x)
    /\ requests[w][Defund(x)] = "succeeded" =>
         ~ (a.outcome.items[x] > 0) /\ ~ Active(w, Fund(x))
    /\ EverFunded(x) => \/ requests[w][Fund(x)] \in {"succeeded", "insufficient-funds"}
                        \/ Active(w, Fund(x)) /\ a.outcome.items[x] > 0
    /\ Asked(w, Defund(x)) => Asked(w, Fund(x))

\* Of a wallet that would move from o to q.
Keeps(w, o, q) ==
  \A x \in App : /\ ~ (o.items[x] > 0) /\ q.items[x] > 0 => Active(w, Fund(x))
                 /\ o.items[x] > 0 /\ ~ (q.items[x] > 0) => ~ Active(w, Fund(x))

LEMMA ActiveIsFresh ==
  ASSUME FundsInv, NEW w \in Wallet
  PROVE  Fresh(ActiveRequests(w))
<1>. PICK reqs : reqs = ActiveRequests(w)
  OBVIOUS
<1>1. \A l \in RequestKey : reqs[l] = IF requests[w][l] \in InHand THEN requests[w][l] ELSE NotLoaded
  BY DEF ActiveRequests, InHand
<1>2. IsReqs(reqs)
  BY FundsInvStores, ActiveType
<1>. QED  BY <1>1, <1>2 DEF Fresh

LEMMA ActiveIsLoaded ==
  ASSUME FundsInv, NEW w \in Wallet, NEW k \in RequestKey
  PROVE  k \in Loaded(ActiveRequests(w)) <=> Active(w, k)
<1>. PICK reqs : reqs = ActiveRequests(w)
  OBVIOUS
<1>1. reqs[k] = IF requests[w][k] \in InHand THEN requests[w][k] ELSE NotLoaded
  BY DEF ActiveRequests, InHand
<1>2. NotLoaded \notin InHand
  BY DEF InHand, NotLoaded
<1>. QED  BY <1>1, <1>2 DEF Loaded, Active

LEMMA MovesFund ==
  ASSUME NEW a, NEW b, MovesTo(a, b), NEW x
  PROVE  EverFunded(x)' <=> EverFunded(x) \/ b.outcome.items[x] > 0
BY DEF MovesTo, EverFunded

\* A crank tells its wallet the truth ...
LEMMA CrankTells ==
  ASSUME FundsInv, NEW w \in Wallet, NEW reqs, reqs = ActiveRequests(w), NEW new, IsReqs(new),
         SameLoaded(reqs, new), Answers(w, new), NEW a, a \in Bound, NEW b, MovesTo(a, b), Told(w, a),
         Agrees(reqs, a.outcome, b.outcome), Judges(reqs, new, a.outcome, b.outcome)
  PROVE  Told(w, b)'
<1>1. SUFFICES ASSUME NEW x \in App
      PROVE  /\ requests'[w][Fund(x)] = "cancelled" => ~ EverFunded(x)'
             /\ requests'[w][Fund(x)] = "succeeded" => EverFunded(x)'
             /\ requests'[w][Defund(x)] = "succeeded" =>
                  ~ (b.outcome.items[x] > 0) /\ ~ Active(w, Fund(x))'
             /\ EverFunded(x)' => \/ requests'[w][Fund(x)] \in {"succeeded", "insufficient-funds"}
                                  \/ Active(w, Fund(x))' /\ b.outcome.items[x] > 0
             /\ Asked(w, Defund(x))' => Asked(w, Fund(x))'
  BY DEF Told
<1>. PICK f : f = Fund(x)
  OBVIOUS
<1>. PICK d : d = Defund(x)
  OBVIOUS
<1>2. f \in RequestKey /\ d \in RequestKey
  BY RequestKeys
<1>3. (f \in Loaded(reqs) <=> Active(w, f)) /\ (d \in Loaded(reqs) <=> Active(w, d))
  BY <1>2, ActiveIsLoaded
<1>4. \A k \in RequestKey :
        requests'[w][k] = IF k \in Loaded(reqs) THEN new[k] ELSE requests[w][k]
  BY DEF Answers, SameLoaded, Loaded
<1>. PICK before : before \in BOOLEAN /\ (before <=> a.outcome.items[x] > 0)
  OBVIOUS
<1>. PICK after : after \in BOOLEAN /\ (after <=> b.outcome.items[x] > 0)
  OBVIOUS
<1>5. EverFunded(x)' <=> EverFunded(x) \/ after
  BY MovesFund
<1>6. before => EverFunded(x)
  BY DEF EverFunded
<1>7. /\ requests[w][f] = "cancelled" => ~ EverFunded(x)
      /\ requests[w][f] = "succeeded" => EverFunded(x)
      /\ requests[w][d] = "succeeded" => ~ before /\ ~ Active(w, f)
      /\ EverFunded(x) => \/ requests[w][f] \in {"succeeded", "insufficient-funds"}
                          \/ Active(w, f) /\ before
      /\ Asked(w, d) => Asked(w, f)
  BY DEF Told
<1>8. /\ ~ before /\ after => f \in Loaded(reqs)
      /\ before /\ ~ after => f \notin Loaded(reqs)
  BY DEF Agrees
<1>9. /\ new[f] = "cancelled" => f \in Loaded(reqs) /\ ~ before /\ ~ after
      /\ new[f] = "succeeded" => before \/ after
      /\ new[d] = "succeeded" => ~ after /\ new[f] \notin InHand
      /\ f \in Loaded(reqs) /\ after => new[f] \in {"succeeded", "insufficient-funds"}
  BY DEF Judges
<1>10. (Active(w, f) <=> requests[w][f] \in InHand) /\ (Active(w, f)' <=> requests'[w][f] \in InHand)
  BY DEF Active
<1>11. "succeeded" \notin InHand /\ "insufficient-funds" \notin InHand
  BY DEF InHand
<1>12. requests'[w][f] = "cancelled" => ~ EverFunded(x)'
  BY <1>2, <1>3, <1>4, <1>5, <1>6, <1>7, <1>8, <1>9, <1>10, <1>11
<1>13. requests'[w][f] = "succeeded" => EverFunded(x)'
  BY <1>2, <1>4, <1>5, <1>6, <1>7, <1>9
<1>14. requests'[w][d] = "succeeded" => ~ after /\ ~ Active(w, f)'
  BY <1>2, <1>3, <1>4, <1>7, <1>8, <1>9, <1>10
<1>15. EverFunded(x)' => \/ requests'[w][f] \in {"succeeded", "insufficient-funds"}
                         \/ Active(w, f)' /\ after
  BY <1>2, <1>3, <1>4, <1>5, <1>6, <1>7, <1>8, <1>9, <1>10, <1>11
<1>16. Asked(w, d)' => Asked(w, f)'
  BY <1>2, <1>7, CrankAnswers
<1>. QED  BY <1>12, <1>13, <1>14, <1>15, <1>16

\* ... and keeps true what the other wallet was told.
LEMMA MovesTell ==
  ASSUME NEW v \in Wallet, \A k \in RequestKey : requests'[v][k] = requests[v][k],
         NEW a, a \in Bound, NEW b, MovesTo(a, b), Told(v, a), Keeps(v, a.outcome, b.outcome)
  PROVE  Told(v, b)'
<1>1. SUFFICES ASSUME NEW x \in App
      PROVE  /\ requests'[v][Fund(x)] = "cancelled" => ~ EverFunded(x)'
             /\ requests'[v][Fund(x)] = "succeeded" => EverFunded(x)'
             /\ requests'[v][Defund(x)] = "succeeded" =>
                  ~ (b.outcome.items[x] > 0) /\ ~ Active(v, Fund(x))'
             /\ EverFunded(x)' => \/ requests'[v][Fund(x)] \in {"succeeded", "insufficient-funds"}
                                  \/ Active(v, Fund(x))' /\ b.outcome.items[x] > 0
             /\ Asked(v, Defund(x))' => Asked(v, Fund(x))'
  BY DEF Told
<1>. PICK f : f = Fund(x)
  OBVIOUS
<1>. PICK d : d = Defund(x)
  OBVIOUS
<1>2. f \in RequestKey /\ d \in RequestKey
  BY RequestKeys
<1>3. requests'[v][f] = requests[v][f] /\ requests'[v][d] = requests[v][d]
  BY <1>2
<1>4. (Active(v, f)' <=> Active(v, f)) /\ (Asked(v, d)' <=> Asked(v, d)) /\ (Asked(v, f)' <=> Asked(v, f))
  BY <1>3 DEF Active, Asked
<1>. PICK before : before \in BOOLEAN /\ (before <=> a.outcome.items[x] > 0)
  OBVIOUS
<1>. PICK after : after \in BOOLEAN /\ (after <=> b.outcome.items[x] > 0)
  OBVIOUS
<1>5. EverFunded(x)' <=> EverFunded(x) \/ after
  BY MovesFund
<1>6. before => EverFunded(x)
  BY DEF EverFunded
<1>7. /\ requests[v][f] = "cancelled" => ~ EverFunded(x)
      /\ requests[v][f] = "succeeded" => EverFunded(x)
      /\ requests[v][d] = "succeeded" => ~ before /\ ~ Active(v, f)
      /\ EverFunded(x) => \/ requests[v][f] \in {"succeeded", "insufficient-funds"}
                          \/ Active(v, f) /\ before
      /\ Asked(v, d) => Asked(v, f)
  BY DEF Told
<1>8. (~ before /\ after => Active(v, f)) /\ (before /\ ~ after => ~ Active(v, f))
  BY DEF Keeps
<1>9. Active(v, f) => requests[v][f] # "cancelled"
  BY DEF Active, InHand
<1>. QED  BY <1>3, <1>4, <1>5, <1>6, <1>7, <1>8, <1>9

\* What a wallet has signed beyond a, its requests still stand for.
Intends(a) ==
  \A v \in Wallet : \A c \in Given(v) :
    c.turnNum > a.turnNum => Keeps(v, a.outcome, c.outcome)

Honest(a) == Outstanding(a) /\ (\A w \in Wallet : Told(w, a)) /\ Intends(a)

LEMMA SignedIsIntended ==
  ASSUME FundsInv, NEW w \in Wallet, NEW reqs, reqs = ActiveRequests(w), NEW new,
         SameLoaded(reqs, new), Answers(w, new), NEW o, NEW q, SignsFor(new, o, q)
  PROVE  Keeps(w, o, q)'
<1>1. ASSUME NEW x \in App PROVE Active(w, Fund(x))' <=> new[Fund(x)] \in InHand
  <2>. PICK f : f = Fund(x)
    OBVIOUS
  <2>1. f \in RequestKey
    BY RequestKeys
  <2>2. (f \in Loaded(reqs) <=> Active(w, f)) /\ (f \in Loaded(reqs) <=> new[f] # NotLoaded)
    BY <2>1, ActiveIsLoaded DEF SameLoaded, Loaded
  <2>3. requests'[w][f] = IF new[f] = NotLoaded THEN requests[w][f] ELSE new[f]
    BY <2>1 DEF Answers
  <2>4. NotLoaded \notin InHand
    BY DEF InHand, NotLoaded
  <2>. QED  BY <2>2, <2>3, <2>4 DEF Active
<1>. QED  BY <1>1 DEF SignsFor, Keeps

\* What a crank has to do for the wallets to stay honestly informed.
LEMMA CrankStaysHonest ==
  ASSUME FundsInv, NEW w \in Wallet, NEW reqs, reqs = ActiveRequests(w), NEW new, IsReqs(new),
         SameLoaded(reqs, new), Answers(w, new), NEW states, GivesOut(w, states),
         NEW a, Honest(a), NEW b, MovesTo(a, b),
         Agrees(reqs, a.outcome, b.outcome), Judges(reqs, new, a.outcome, b.outcome),
         \A v \in Wallet : v # w => Keeps(v, a.outcome, b.outcome),
         \A c \in Given(w) : ~ (c.turnNum > b.turnNum),
         \A s \in states : s.turnNum > b.turnNum => SignsFor(new, b.outcome, s.outcome),
         \A v \in Wallet : v # w =>
           \A c \in Given(v) : c.turnNum > b.turnNum => Keeps(v, b.outcome, c.outcome)
  PROVE  Honest(b)'
<1>1. a \in Bound /\ Outstanding(b)'
  BY DEF Honest, Outstanding, MovesTo
<1>2. ASSUME NEW v \in Wallet, v # w PROVE \A k \in RequestKey : requests'[v][k] = requests[v][k]
  BY <1>2 DEF Answers
<1>3. ASSUME NEW v \in Wallet PROVE Told(v, b)'
  <2>1. Told(v, a)
    BY DEF Honest
  <2>2. CASE v = w
    BY <1>1, <2>1, <2>2, CrankTells
  <2>3. CASE v # w
    <3>1. Keeps(v, a.outcome, b.outcome)
      BY <2>3
    <3>. QED  BY <1>1, <1>2, <2>1, <2>3, <3>1, MovesTell
  <2>. QED  BY <2>2, <2>3
<1>4. ASSUME NEW v \in Wallet, NEW c \in Given(v)', c.turnNum > b.turnNum
      PROVE  Keeps(v, b.outcome, c.outcome)'
  <2>1. CASE v = w
    <3>1. c \in states
      BY <1>4, <2>1 DEF GivesOut
    <3>2. SignsFor(new, b.outcome, c.outcome)
      BY <1>4, <3>1
    <3>. QED  BY <2>1, <3>2, SignedIsIntended
  <2>2. CASE v # w
    <3>1. c \in Given(v)
      BY <1>4, <2>2 DEF GivesOut
    <3>2. Keeps(v, b.outcome, c.outcome)
      BY <1>4, <2>2, <3>1
    <3>3. \A x \in App : Active(v, Fund(x))' <=> Active(v, Fund(x))
      BY <1>2, <2>2, RequestKeys DEF Active
    <3>. QED  BY <3>2, <3>3 DEF Keeps
  <2>. QED  BY <2>1, <2>2
<1>5. Intends(b)'
  BY <1>4 DEF Intends
<1>. QED  BY <1>1, <1>3, <1>5 DEF Honest

LEMMA FollowerInAgreement ==
  ASSUME SigningInv, NEW a, Outstanding(a), NEW s \in stored[Follower], IsAgreement(Follower, s)
  PROVE  Content(s) = a /\ \A c \in Given(Follower) : c.turnNum <= a.turnNum
<1>1. Leader \in Wallet /\ Follower \in Wallet /\ a \in Given(Follower)
  BY DEF Wallet, Outstanding, Bound
<1>2. s.turnNum = LatestTurnNum(stored[Follower]) /\ s.signers = Wallet
  BY DEF IsAgreement, At, FullySigned
<1>3. Content(s) \in Bound /\ Content(s).turnNum = s.turnNum
  BY <1>1, <1>2, ContentFields DEF SigningInv, KeptAsGiven, Bound
<1>4. Content(s).turnNum <= a.turnNum /\ a.turnNum <= s.turnNum
  BY <1>1, <1>2, <1>3, OutstandingIsLast, GivenBeforeLatest
<1>5. s.turnNum \in Nat /\ a.turnNum \in Nat /\ s.turnNum = a.turnNum
  BY <1>1, <1>3, <1>4, GivenFacts DEF Bound
<1>6. Content(s) = a
  BY <1>1, <1>3, <1>5, OneOfATurn DEF Bound
<1>7. \A c \in Given(Follower) : c.turnNum <= a.turnNum
  BY <1>1, <1>2, <1>5, GivenBeforeLatest
<1>. QED  BY <1>6, <1>7

LEMMA NotBeyond ==
  ASSUME SigningInv, NEW v \in Wallet, NEW n \in Nat, \A c \in Given(v) : c.turnNum <= n
  PROVE  \A c \in Given(v) : ~ (c.turnNum > n)
<1>1. \A c \in Given(v) : c.turnNum \in Nat
  BY GivenFacts
<1>. QED  BY <1>1

HonestlyTo(a, b) == MovesTo(a, b) /\ Honest(b)'

LEMMA LeaderHonestInAgreement ==
  ASSUME SigningInv, NEW a, Honest(a),
         NEW result, result.error = "none", GivesOut(Leader, Range(result.states)),
         IsReqs(result.reqs), Answers(Leader, result.reqs),
         NEW reqs, reqs = ActiveRequests(Leader), NEW before, before = <<>>,
         NEW agreed \in stored[Leader], IsAgreement(Leader, agreed),
         result = CrankAsLeaderInAgreement(reqs, a, before)
  PROVE  HonestlyTo(a, a)
<1>1. Outstanding(a) /\ FundsInv /\ Leader \in Wallet /\ a \in Given(Leader) /\ a.turnNum \in Nat
  <2>1. Outstanding(a) /\ FundsInv /\ Leader \in Wallet
    BY DEF Honest, SigningInv, Wallet
  <2>. QED  BY <2>1, GivenFacts DEF Outstanding, Bound
<1>2. MovesTo(a, a) /\ SameLoaded(reqs, result.reqs)
  BY <1>1, LeaderMovesInAgreement
<1>3. \A v \in Wallet : \A c \in Given(v) : ~ (c.turnNum > a.turnNum)
  <2>1. \A v \in Wallet : \A c \in Given(v) : c.turnNum <= a.turnNum
    BY <1>1, LeaderInAgreement DEF Wallet
  <2>. QED  BY <1>1, <2>1, NotBeyond
<1>4. PICK o \in Outcome : a.outcome = o
  BY <1>1, GivenFacts
<1>5. Fresh(reqs)
  BY <1>1, ActiveIsFresh
<1>6. /\ Judges(reqs, result.reqs, o, o)
      /\ \/ result.states = before
         \/ \E s : result.states = Append(before, s) /\ SignsFor(result.reqs, o, s.outcome)
  BY <1>4, <1>5, LeaderJudges
<1>7. \A s \in Range(result.states) : SignsFor(result.reqs, o, s.outcome)
  <2>1. CASE result.states = before
    BY <2>1 DEF Range
  <2>2. ASSUME NEW s, result.states = Append(before, s), SignsFor(result.reqs, o, s.outcome)
        PROVE  \A t \in Range(result.states) : SignsFor(result.reqs, o, t.outcome)
    <3>1. Range(result.states) = {s}
      BY <2>2, AppendToNone, RangeOfOne
    <3>. QED  BY <2>2, <3>1
  <2>. QED  BY <1>6, <2>1, <2>2
<1>8. Agrees(reqs, o, o) /\ \A v : Keeps(v, o, o)
  BY DEF Agrees, Keeps
<1>9. Honest(a)'
  BY <1>1, <1>2, <1>3, <1>4, <1>6, <1>7, <1>8, CrankStaysHonest
<1>. QED  BY <1>2, <1>9 DEF HonestlyTo

LEMMA LeaderHonestToCounter ==
  ASSUME SigningInv, NEW a, Honest(a),
         NEW result, result.error = "none", GivesOut(Leader, Range(result.states)),
         IsReqs(result.reqs), Answers(Leader, result.reqs),
         NEW agreed \in stored[Leader], NEW p, NEW c \in stored[Leader], IsCounterProposal(Leader, agreed, p, c),
         NEW b, b = Content(c), NEW reqs, reqs = ActiveRequests(Leader),
         result = CrankAsLeaderInCounterProposal(reqs, a, b)
  PROVE  HonestlyTo(a, b)
<1>1. /\ Outstanding(a) /\ FundsInv /\ Leader \in Wallet /\ Follower \in Wallet
      /\ Wallet = {Leader, Follower} /\ a \in Given(Leader)
  BY DEF Honest, SigningInv, Wallet, Outstanding, Bound
<1>2. /\ b \in Given(Follower) /\ b.turnNum = a.turnNum + 2
  BY <1>1, LeaderInCounterProposal, ContentFields
<1>3. a.turnNum \in Nat /\ b.turnNum \in Nat /\ Solvent(a.outcome)
  BY <1>1, <1>2, GivenFacts
<1>4. MovesTo(a, b) /\ SameLoaded(reqs, result.reqs)
  BY <1>1, LeaderMovesToCounter
<1>5. \A v \in Wallet : \A d \in Given(v) : ~ (d.turnNum > b.turnNum)
  <2>1. ASSUME NEW v \in Wallet, NEW d \in Given(v) PROVE d.turnNum <= b.turnNum
    <3>1. d.turnNum \in Nat /\ (d.turnNum <= a.turnNum \/ d.turnNum \in {a.turnNum + 1, a.turnNum + 2})
      BY <1>1, <2>1, GivenFacts DEF Outstanding, LeaderBeyond, FollowerBeyond
    <3>. QED  BY <1>2, <1>3, <3>1
  <2>. QED  BY <1>3, <2>1, NotBeyond
<1>6. PICK o : Solvent(o) /\ a.outcome = o
  BY <1>3
<1>7. PICK q \in Outcome : q = b.outcome
  BY <1>1, <1>2, GivenFacts
<1>. PICK before : before = <<b>>
  OBVIOUS
<1>8. Fresh(reqs)
  BY <1>1, ActiveIsFresh
<1>9. /\ Agrees(reqs, o, q) /\ Judges(reqs, result.reqs, o, q)
      /\ \/ result.states = before
         \/ \E s : result.states = Append(before, s) /\ SignsFor(result.reqs, q, s.outcome)
  <2>1. b.outcome \in Outcome
    BY <1>7
  <2>2. /\ Agrees(reqs, o, b.outcome) /\ Judges(reqs, result.reqs, o, b.outcome)
        /\ \/ result.states = before
           \/ \E s : result.states = Append(before, s) /\ SignsFor(result.reqs, b.outcome, s.outcome)
    BY <1>6, <1>8, <2>1, LeaderJudgesCounter
  <2>. QED  BY <1>7, <2>2
<1>10. \A s \in Range(result.states) : s.turnNum > b.turnNum => SignsFor(result.reqs, q, s.outcome)
  <2>1. CASE result.states = before
    <3>1. Range(result.states) = {b}
      BY <2>1, RangeOfOne
    <3>. QED  BY <1>3, <3>1
  <2>2. ASSUME NEW s, result.states = Append(before, s), SignsFor(result.reqs, q, s.outcome)
        PROVE  \A t \in Range(result.states) : t.turnNum > b.turnNum => SignsFor(result.reqs, q, t.outcome)
    <3>1. Range(result.states) = {b, s}
      <4>1. result.states = <<b, s>>
        BY <2>2, AppendToOne
      <4>. QED  BY <4>1, RangeOfTwo
    <3>. QED  BY <1>3, <2>2, <3>1
  <2>. QED  BY <1>9, <2>1, <2>2
<1>11. \A v \in Wallet : v # Leader => Keeps(v, o, q)
  <2>1. b.turnNum > a.turnNum
    BY <1>2, <1>3
  <2>2. Keeps(Follower, a.outcome, b.outcome)
    BY <1>1, <1>2, <2>1 DEF Honest, Intends
  <2>. QED  BY <1>1, <1>6, <1>7, <2>2
<1>12. Honest(b)'
  BY <1>1, <1>4, <1>5, <1>6, <1>7, <1>9, <1>10, <1>11, CrankStaysHonest
<1>. QED  BY <1>4, <1>12 DEF HonestlyTo

LEMMA FollowerHonestInAgreement ==
  ASSUME SigningInv, NEW a, Honest(a), NEW result, GivesOut(Follower, Range(result.states)),
         result.states = <<>>, IsReqs(result.reqs), Answers(Follower, result.reqs),
         NEW reqs, reqs = ActiveRequests(Follower),
         NEW agreed \in stored[Follower], IsAgreement(Follower, agreed),
         result.reqs = ProcessAgreedState(reqs, a.outcome)
  PROVE  HonestlyTo(a, a)
<1>1. /\ Outstanding(a) /\ FundsInv /\ Follower \in Wallet /\ a \in Given(Follower)
      /\ Wallet = {Leader, Follower} /\ Leader # Follower
  BY DEF Honest, SigningInv, Wallet, Outstanding, Bound, Leader, Follower
<1>2. a.turnNum \in Nat
  BY <1>1, GivenFacts
<1>3. PICK o : a.outcome = o
  OBVIOUS
<1>4. SameLoaded(reqs, result.reqs) /\ Judges(reqs, result.reqs, o, o)
  <2>1. result.reqs = ProcessAgreedState(reqs, o) /\ Fresh(reqs)
    BY <1>1, <1>3, ActiveIsFresh
  <2>2. PICK new : new = result.reqs
    OBVIOUS
  <2>. QED  BY <2>1, <2>2, ProcessFacts, FollowerJudges
<1>5. Range(result.states) = {}
  BY DEF Range
<1>6. MovesTo(a, a)
  <2>1. \A w \in Wallet : Given(w)' = Given(w)
    BY <1>5 DEF GivesOut
  <2>2. Remembering
    BY <1>1, <1>4, FollowerRemembers
  <2>. QED  BY <1>1, <2>1, <2>2, NothingMoves
<1>7. \A c \in Given(Follower) : ~ (c.turnNum > a.turnNum)
  BY <1>1, <1>2, FollowerInAgreement, NotBeyond
<1>8. Agrees(reqs, o, o) /\ \A v : Keeps(v, o, o)
  BY DEF Agrees, Keeps
<1>9. \A c \in Given(Leader) : c.turnNum > a.turnNum => Keeps(Leader, o, c.outcome)
  BY <1>1, <1>3 DEF Honest, Intends
<1>10. Honest(a)'
  BY <1>1, <1>3, <1>4, <1>5, <1>6, <1>7, <1>8, <1>9, CrankStaysHonest
<1>. QED  BY <1>6, <1>10 DEF HonestlyTo

LEMMA FollowerHonestInProposal ==
  ASSUME SigningInv, NEW a, Honest(a), NEW result, result.error = "none",
         GivesOut(Follower, Range(result.states)),
         IsReqs(result.reqs), Answers(Follower, result.reqs),
         NEW agreed \in stored[Follower], NEW p \in stored[Follower], IsProposal(Follower, agreed, p),
         NEW q, q = Content(p), NEW reqs, reqs = ActiveRequests(Follower),
         result = CrankAsFollowerInProposal(reqs, a, q)
  PROVE  HonestlyTo(a, a) \/ HonestlyTo(a, q)
<1>1. /\ Outstanding(a) /\ FundsInv /\ Leader \in Wallet /\ Follower \in Wallet
      /\ Wallet = {Leader, Follower} /\ Leader # Follower /\ a \in Given(Leader)
  BY DEF Honest, SigningInv, Wallet, Outstanding, Bound, Leader, Follower
<1>2. /\ q \in Given(Leader) /\ q.turnNum = a.turnNum + 1
      /\ Proposed(a.outcome, q.outcome) /\ \A c \in Given(Follower) : c.turnNum <= a.turnNum
  BY <1>1, FollowerInProposal, ContentFields
<1>3. a.turnNum \in Nat /\ q.turnNum \in Nat /\ Solvent(a.outcome) /\ a.outcome \in Outcome
  BY <1>1, <1>2, GivenFacts
<1>4. PICK o : Solvent(o) /\ o = a.outcome
  BY <1>3
<1>5. Replies(reqs, result, a, q)
  BY <1>3, FollowerAnswers
<1>6. SameLoaded(reqs, result.reqs) /\ Remembering
  <2>1. SameLoaded(reqs, result.reqs)
    BY <1>5 DEF Replies
  <2>. QED  BY <1>1, <2>1, FollowerRemembers
<1>7. RepliesWith(reqs, result.reqs, result.states, o, q)
  <2>1. Fresh(reqs)
    BY <1>1, ActiveIsFresh
  <2>. QED  BY <1>4, <2>1, FollowerReplies
<1>8. \A c \in Given(Follower) : ~ (c.turnNum > a.turnNum) /\ ~ (c.turnNum > q.turnNum)
  <2>1. \A c \in Given(Follower) : c.turnNum \in Nat
    BY <1>1, GivenFacts
  <2>. QED  BY <1>2, <1>3, <2>1
<1>10. ASSUME result.states = <<q>>, Agrees(reqs, o, q.outcome), Judges(reqs, result.reqs, o, q.outcome)
       PROVE  HonestlyTo(a, q)
  <2>1. PICK loaded : /\ SameLoaded(reqs, loaded)
                      /\ Comparison(loaded, a.outcome, q.outcome).type = "full-agreement"
    <3>1. \A s : result.states = <<s>> => s.turnNum # q.turnNum + 1
      BY <1>3, <1>10
    <3>. QED  BY <1>5, <3>1 DEF Replies
  <2>2. MovesTo(a, q)
    BY <1>1, <1>2, <1>10, <2>1, FollowerMovesOn
  <2>3. Keeps(Leader, o, q.outcome)
    <3>1. q.turnNum > a.turnNum
      BY <1>2, <1>3
    <3>. QED  BY <1>1, <1>2, <1>4, <3>1 DEF Honest, Intends
  <2>4. \A c \in Given(Leader) : ~ (c.turnNum > q.turnNum)
    <3>1. \A c \in Given(Leader) : c.turnNum \in Nat /\ (c.turnNum <= a.turnNum \/ c.turnNum = a.turnNum + 1)
      BY <1>1, GivenFacts DEF Outstanding, LeaderBeyond
    <3>. QED  BY <1>2, <1>3, <3>1
  <2>5. \A s \in Range(result.states) : ~ (s.turnNum > q.turnNum)
    BY <1>3, <1>10, RangeOfOne
  <2>6. Honest(q)'
    BY <1>1, <1>4, <1>6, <1>8, <1>10, <2>2, <2>3, <2>4, <2>5, CrankStaysHonest
  <2>. QED  BY <2>2, <2>6 DEF HonestlyTo
<1>11. ASSUME NEW s, result.states = <<s>>, s.turnNum = q.turnNum + 1,
              SignsFor(result.reqs, o, s.outcome), Judges(reqs, result.reqs, o, o)
       PROVE  HonestlyTo(a, a)
  <2>1. s # q
    BY <1>3, <1>11
  <2>2. Counters(reqs, a.outcome, q.outcome, s.outcome)
    <3>1. PICK t : result.states = <<t>> /\ Counters(reqs, a.outcome, q.outcome, t.outcome)
      BY <1>5, <1>11, <2>1 DEF Replies
    <3>2. t = s
      BY <1>11, <3>1
    <3>. QED  BY <3>1, <3>2
  <2>3. MovesTo(a, a)
    BY <1>1, <1>2, <1>6, <1>11, <2>2, FollowerCounters
  <2>4. \A c \in Given(Leader) : c.turnNum > a.turnNum => Keeps(Leader, o, c.outcome)
    BY <1>1, <1>4 DEF Honest, Intends
  <2>5. \A t \in Range(result.states) : t.turnNum > a.turnNum => SignsFor(result.reqs, o, t.outcome)
    BY <1>11, RangeOfOne
  <2>6. Agrees(reqs, o, o) /\ \A v : Keeps(v, o, o)
    BY DEF Agrees, Keeps
  <2>7. Honest(a)'
    BY <1>1, <1>4, <1>6, <1>8, <1>11, <2>3, <2>4, <2>5, <2>6, CrankStaysHonest
  <2>. QED  BY <2>3, <2>7 DEF HonestlyTo
<1>. QED  BY <1>7, <1>10, <1>11 DEF RepliesWith

\* Every crank keeps the wallets honestly informed,
LEMMA LeaderCrankHonest ==
  ASSUME SigningInv, NEW a, Honest(a), NEW result, Cranks(Leader, result),
         GivesOut(Leader, Range(result.states))
  PROVE  \E b : HonestlyTo(a, b)
<1>. PICK reqs : reqs = ActiveRequests(Leader)
  OBVIOUS
<1>1. /\ result \in CrankResults(Leader) /\ result.error = "none" /\ Answers(Leader, result.reqs)
      /\ IsReqs(result.reqs) /\ Outstanding(a)
  BY FundsInvStores, LeaderCranks DEF Cranks, CompletedCranks, SigningInv, Honest
<1>2. \/ \E s \in stored[Leader] :
           IsAgreement(Leader, s) /\ result = CrankAsLeaderInAgreement(reqs, Content(s), <<>>)
      \/ \E s, p, c \in stored[Leader] :
           /\ IsCounterProposal(Leader, s, p, c)
           /\ result = CrankAsLeaderInCounterProposal(reqs, Content(s), Content(c))
  BY <1>1 DEF CrankResults
<1>3. CASE \E s \in stored[Leader] :
             IsAgreement(Leader, s) /\ result = CrankAsLeaderInAgreement(reqs, Content(s), <<>>)
  <2>1. PICK s \in stored[Leader] :
          IsAgreement(Leader, s) /\ result = CrankAsLeaderInAgreement(reqs, Content(s), <<>>)
    BY <1>3
  <2>2. Content(s) = a
    BY <1>1, <2>1, LeaderInAgreement
  <2>3. PICK before : before = <<>>
    OBVIOUS
  <2>4. result = CrankAsLeaderInAgreement(reqs, a, before)
    BY <2>1, <2>2, <2>3
  <2>5. HonestlyTo(a, a)
    BY <1>1, <2>1, <2>3, <2>4, LeaderHonestInAgreement
  <2>. QED  BY <2>5
<1>4. CASE \E s, p, c \in stored[Leader] :
             /\ IsCounterProposal(Leader, s, p, c)
             /\ result = CrankAsLeaderInCounterProposal(reqs, Content(s), Content(c))
  <2>1. PICK s, p, c \in stored[Leader] :
          /\ IsCounterProposal(Leader, s, p, c)
          /\ result = CrankAsLeaderInCounterProposal(reqs, Content(s), Content(c))
    BY <1>4
  <2>2. Content(s) = a
    BY <1>1, <2>1, LeaderInCounterProposal
  <2>3. PICK b : b = Content(c)
    OBVIOUS
  <2>4. result = CrankAsLeaderInCounterProposal(reqs, a, b)
    BY <2>1, <2>2, <2>3
  <2>5. HonestlyTo(a, b)
    BY <1>1, <2>1, <2>3, <2>4, LeaderHonestToCounter
  <2>. QED  BY <2>5
<1>. QED  BY <1>2, <1>3, <1>4

LEMMA FollowerCrankHonest ==
  ASSUME SigningInv, NEW a, Honest(a), NEW result, Cranks(Follower, result),
         GivesOut(Follower, Range(result.states))
  PROVE  \E b : HonestlyTo(a, b)
<1>. PICK reqs : reqs = ActiveRequests(Follower)
  OBVIOUS
<1>1. /\ result \in CrankResults(Follower) /\ result.error = "none" /\ Answers(Follower, result.reqs)
      /\ IsReqs(result.reqs) /\ Outstanding(a)
  BY FundsInvStores, FollowerCranks DEF Cranks, CompletedCranks, SigningInv, Honest
<1>2. Follower # Leader
  BY DEF Leader, Follower
<1>3. \/ \E s \in stored[Follower] :
           IsAgreement(Follower, s) /\ result = CrankAsFollowerInAgreement(reqs, Content(s))
      \/ \E s, p \in stored[Follower] :
           IsProposal(Follower, s, p) /\ result = CrankAsFollowerInProposal(reqs, Content(s), Content(p))
  BY <1>1, <1>2 DEF CrankResults
<1>4. CASE \E s \in stored[Follower] :
             IsAgreement(Follower, s) /\ result = CrankAsFollowerInAgreement(reqs, Content(s))
  <2>1. PICK s \in stored[Follower] :
          IsAgreement(Follower, s) /\ result = CrankAsFollowerInAgreement(reqs, Content(s))
    BY <1>4
  <2>2. Content(s) = a
    BY <1>1, <2>1, FollowerInAgreement
  <2>3. PICK processed : processed = ProcessAgreedState(reqs, a.outcome)
    OBVIOUS
  <2>4. result = Thrown("process") \/ result = Cranked(processed, <<>>)
    BY <2>1, <2>2, <2>3 DEF CrankAsFollowerInAgreement
  <2>5. result.reqs = processed /\ result.states = <<>>
    BY <1>1, <2>4 DEF Thrown, Cranked
  <2>6. HonestlyTo(a, a)
    BY <1>1, <2>1, <2>3, <2>5, FollowerHonestInAgreement
  <2>. QED  BY <2>6
<1>5. CASE \E s, p \in stored[Follower] :
             /\ IsProposal(Follower, s, p)
             /\ result = CrankAsFollowerInProposal(reqs, Content(s), Content(p))
  <2>1. PICK s, p \in stored[Follower] :
          /\ IsProposal(Follower, s, p)
          /\ result = CrankAsFollowerInProposal(reqs, Content(s), Content(p))
    BY <1>5
  <2>2. PICK q : q = Content(p)
    OBVIOUS
  <2>3. Content(s) = a
    BY <1>1, <2>1, FollowerInProposal
  <2>4. result = CrankAsFollowerInProposal(reqs, a, q)
    BY <2>1, <2>2, <2>3
  <2>5. HonestlyTo(a, a) \/ HonestlyTo(a, q)
    BY <1>1, <2>1, <2>2, <2>4, FollowerHonestInProposal
  <2>. QED  BY <2>5
<1>. QED  BY <1>3, <1>4, <1>5

\* and so does a new request: before it was made, nothing was signed for it.
LEMMA AskStaysHonest ==
  ASSUME SigningInv, NEW a, Honest(a), \A v : Given(v)' = Given(v),
         NEW w \in Wallet, NEW k \in RequestKey, Asks(w, k)
  PROVE  Honest(a)'
<1>1. requests \in [Wallet -> [RequestKey -> RequestStatus \union {NotMade}]]
  BY DEF SigningInv, FundsInv
<1>2. \A v \in Wallet, l \in RequestKey :
        requests'[v][l] = IF v = w /\ l = k THEN "queued" ELSE requests[v][l]
  BY <1>1 DEF Asks
<1>3. /\ requests[w][k] = NotMade /\ NotMade \notin InHand /\ "queued" \in InHand
      /\ NotMade # "queued" /\ NotMade # "succeeded" /\ NotMade # "insufficient-funds"
  BY DEF Asks, NotMade, InHand
<1>4. Bound' = Bound /\ \A x : EverFunded(x)' <=> EverFunded(x)
  BY DEF Bound, EverFunded
<1>5. Outstanding(a)'
  <2>1. \A v \in Wallet, l \in RequestKey : Asked(v, l) => Asked(v, l)'
    BY <1>2, <1>3 DEF Asked
  <2>2. \A l \in RequestKey : Pursued(l) => Pursued(l)'
    BY <1>2 DEF Pursued, Wallet
  <2>. QED  BY <2>1, <2>2, OutstandingStays DEF Remembering, Honest
<1>6. ASSUME NEW x \in App, k = Fund(x)
      PROVE  ~ EverFunded(x) /\ ~ (a.outcome.items[x] > 0)
  <2>1. ~ EverFunded(x)
    BY <1>3, <1>6 DEF Honest, Told, Active
  <2>. QED  BY <2>1 DEF EverFunded, Honest, Outstanding
<1>7. ASSUME NEW v \in Wallet PROVE Told(v, a)'
  <2>1. Told(v, a)
    BY DEF Honest
  <2>2. ASSUME NEW x \in App
        PROVE  /\ requests'[v][Fund(x)] = "cancelled" => ~ EverFunded(x)'
               /\ requests'[v][Fund(x)] = "succeeded" => EverFunded(x)'
               /\ requests'[v][Defund(x)] = "succeeded" =>
                    ~ (a.outcome.items[x] > 0) /\ ~ Active(v, Fund(x))'
               /\ EverFunded(x)' => \/ requests'[v][Fund(x)] \in {"succeeded", "insufficient-funds"}
                                    \/ Active(v, Fund(x))' /\ a.outcome.items[x] > 0
               /\ Asked(v, Defund(x))' => Asked(v, Fund(x))'
    <3>. PICK f : f = Fund(x)
      OBVIOUS
    <3>. PICK d : d = Defund(x)
      OBVIOUS
    <3>1. f \in RequestKey /\ d \in RequestKey /\ f # d
      BY RequestKeys DEF Fund, Defund
    <3>2. /\ requests[v][f] = "cancelled" => ~ EverFunded(x)
          /\ requests[v][f] = "succeeded" => EverFunded(x)
          /\ requests[v][d] = "succeeded" => ~ (a.outcome.items[x] > 0) /\ ~ Active(v, f)
          /\ EverFunded(x) => \/ requests[v][f] \in {"succeeded", "insufficient-funds"}
                              \/ Active(v, f) /\ a.outcome.items[x] > 0
          /\ Asked(v, d) => Asked(v, f)
      BY <2>1 DEF Told
    <3>3. (Active(v, f) <=> requests[v][f] \in InHand) /\ (Active(v, f)' <=> requests'[v][f] \in InHand)
      BY DEF Active
    <3>4. /\ Asked(v, d) <=> requests[v][d] # NotMade
          /\ Asked(v, f) <=> requests[v][f] # NotMade
          /\ Asked(v, d)' <=> requests'[v][d] # NotMade
          /\ Asked(v, f)' <=> requests'[v][f] # NotMade
      BY DEF Asked
    <3>5. k = d => requests[w][f] # NotMade
      BY DEF Asks, MayAsk
    <3>6. k = f => ~ EverFunded(x) /\ ~ (a.outcome.items[x] > 0)
      BY <1>6
    <3>7. CASE v = w /\ k = f
      BY <1>2, <1>3, <1>4, <3>1, <3>2, <3>3, <3>4, <3>6, <3>7
    <3>8. CASE v = w /\ k = d
      BY <1>2, <1>3, <1>4, <3>1, <3>2, <3>3, <3>4, <3>5, <3>8
    <3>9. CASE ~ (v = w /\ k = f) /\ ~ (v = w /\ k = d)
      BY <1>2, <1>4, <3>1, <3>2, <3>3, <3>4, <3>9
    <3>. QED  BY <3>7, <3>8, <3>9
  <2>. QED  BY <2>2 DEF Told
<1>8. ASSUME NEW v \in Wallet, NEW c \in Given(v)', c.turnNum > a.turnNum
      PROVE  Keeps(v, a.outcome, c.outcome)'
  <2>1. Keeps(v, a.outcome, c.outcome)
    BY <1>8 DEF Honest, Intends
  <2>2. ASSUME NEW x \in App
        PROVE  /\ Active(v, Fund(x)) => Active(v, Fund(x))'
               /\ a.outcome.items[x] > 0 /\ ~ Active(v, Fund(x)) => ~ Active(v, Fund(x))'
    <3>. PICK f : f = Fund(x)
      OBVIOUS
    <3>1. f \in RequestKey
      BY RequestKeys
    <3>2. k = f => ~ (a.outcome.items[x] > 0)
      BY <1>6
    <3>. QED  BY <1>2, <1>3, <3>1, <3>2 DEF Active
  <2>. QED  BY <2>1, <2>2 DEF Keeps
<1>9. Intends(a)'
  BY <1>8 DEF Intends
<1>. QED  BY <1>5, <1>7, <1>9 DEF Honest

LEMMA HonestSteps ==
  ASSUME SigningInv, [Next]_ledgerVars, NEW a, Honest(a)
  PROVE  \E b : Honest(b)'
<1>1. \/ /\ \A v : Given(v)' = Given(v)
         /\ UNCHANGED requests \/ \E w \in Wallet : \E k \in RequestKey : Asks(w, k)
      \/ \E w \in Wallet : \E result : Cranks(w, result) /\ GivesOut(w, Range(result.states))
  BY SigningSteps
<1>2. ASSUME \A v : Given(v)' = Given(v), UNCHANGED requests PROVE Honest(a)'
  BY <1>2 DEF Honest, Outstanding, Bound, Plain, LeaderBeyond, FollowerBeyond, Proposed, Countered,
              Wanted, Asked, Pursued, Told, EverFunded, Active, Intends, Keeps
<1>3. ASSUME \A v : Given(v)' = Given(v), NEW w \in Wallet, NEW k \in RequestKey, Asks(w, k)
      PROVE  Honest(a)'
  BY <1>3, AskStaysHonest
<1>4. ASSUME NEW w \in Wallet, NEW result, Cranks(w, result), GivesOut(w, Range(result.states))
      PROVE  \E b : Honest(b)'
  <2>1. w = Leader \/ w = Follower
    BY DEF Wallet
  <2>2. \E b : HonestlyTo(a, b)
    BY <1>4, <2>1, LeaderCrankHonest, FollowerCrankHonest
  <2>. QED  BY <2>2 DEF HonestlyTo
<1>. QED  BY <1>1, <1>2, <1>3, <1>4

HonestInv == SigningInv /\ \E a : Honest(a)

LEMMA HonestInit == Init => HonestInv
<1>. SUFFICES ASSUME Init PROVE HonestInv
  OBVIOUS
<1>. PICK a : a = Opening(setting.balance)
  OBVIOUS
<1>1. SigningInv
  BY SigningInit
<1>2. \A w : Given(w) = {a}
  BY DEF Init, Given
<1>3. a.turnNum = 3 /\ \A x \in App : ~ (a.outcome.items[x] > 0)
  BY DEF Opening, ProtocolState
<1>4. Outstanding(a)
  <2>1. PICK b : Outstanding(b)
    BY AgreementInit DEF AgreementInv
  <2>2. b = a
    BY <1>2, <2>1 DEF Outstanding, Bound
  <2>. QED  BY <2>1, <2>2
<1>5. \A x \in App : ~ EverFunded(x)
  BY <1>2, <1>3 DEF EverFunded, Bound
<1>6. \A w \in Wallet, k \in RequestKey : requests[w][k] = NotMade
  BY DEF Init
<1>7. ASSUME NEW w \in Wallet PROVE Told(w, a)
  <2>1. \A x \in App : Fund(x) \in RequestKey /\ Defund(x) \in RequestKey
    BY RequestKeys
  <2>2. NotMade # "cancelled" /\ NotMade # "succeeded"
    BY DEF NotMade
  <2>. QED  BY <1>5, <1>6, <2>1, <2>2 DEF Told, Asked
<1>8. Intends(a)
  BY <1>2, <1>3 DEF Intends
<1>. QED  BY <1>1, <1>4, <1>7, <1>8 DEF HonestInv, Honest

LEMMA HonestInvImplies == HonestInv => SuccessIsAgreed
<1>. SUFFICES ASSUME SigningInv, NEW a, Honest(a) PROVE SuccessIsAgreed
  BY DEF HonestInv
<1>1. Outstanding(a) /\ LatestAgreed = a /\ Leader \in Wallet
  BY LatestIsOutstanding DEF Honest, OutstandingIsAgreed, Wallet
<1>2. ASSUME NEW c \in Bound, NEW x \in App PROVE c.outcome.items[x] > 0 \/ c.outcome.items[x] = 0
  <2>1. c.outcome \in Outcome
    BY <1>1, GivenFacts DEF Bound
  <2>. QED  BY <2>1 DEF Outcome
<1>3. ASSUME NEW w \in Wallet, NEW x \in App, requests[w][Fund(x)] = "cancelled", NEW c \in Agreed
      PROVE  c.outcome.items[x] = 0
  BY <1>2, <1>3, AgreedIsBound DEF Honest, Told, EverFunded
<1>4. ASSUME NEW w \in Wallet, NEW x \in App, requests[w][Fund(x)] = "succeeded"
      PROVE  \E c \in Agreed : c.outcome.items[x] > 0
  <2>1. PICK c \in Bound : c.outcome.items[x] > 0
    BY <1>4 DEF Honest, Told, EverFunded
  <2>2. Opening(setting.balance).outcome.items[x] = 0
    BY DEF Opening, ProtocolState
  <2>3. c # Opening(setting.balance)
    BY <2>1, <2>2
  <2>. QED  BY <2>1, <2>3, AgreedIsBound
<1>5. ASSUME NEW w \in Wallet, NEW x \in App, requests[w][Defund(x)] = "succeeded"
      PROVE  LatestAgreed.outcome.items[x] = 0
  BY <1>1, <1>2, <1>5 DEF Honest, Told, Outstanding
<1>. QED  BY <1>3, <1>4, <1>5 DEF SuccessIsAgreed, CancelledNeverFunded

\* A wallet is told the truth of its requests: one that succeeded is signed by both,
\* and one that was cancelled can no longer come into force, not even by a signature
\* that was given out before and is late.
THEOREM WalletsAreToldTheTruth == Spec => []SuccessIsAgreed
<1>1. Init => HonestInv
  BY HonestInit
<1>2. HonestInv /\ [Next]_ledgerVars => HonestInv'
  BY SigningSteps, HonestSteps DEF HonestInv
<1>3. HonestInv => SuccessIsAgreed
  BY HonestInvImplies
<1>. QED  BY <1>1, <1>2, <1>3, PTL DEF Spec

------------------------------------------------------------------------------
(* That a crank of wallets that close no channel early throws no error. *)

\* Of channels that can all be afforded, the greedy choice leaves out none.
LEMMA AffordableInFull ==
  ASSUME NEW o \in Outcome, NEW apps \in SUBSET App, Solvent(AddItems(o, apps))
  PROVE  Affordable(o, apps) = apps
<1>1. App \in SUBSET Nat /\ IsFiniteSet(App) /\ apps \in SUBSET Nat
  BY AmountFacts
<1>2. ASSUME NEW x \in apps PROVE CanAdd(AddItems(o, {y \in apps : y < x}), x)
  <2>1. PICK before : before = {y \in apps : y < x}
    OBVIOUS
  <2>2. ASSUME NEW w \in Wallet PROVE AddItems(o, before).bal[w] >= FundAmount[x][w]
    <3>1. PICK f : f = Amounts(FundAmount, w)
      OBVIOUS
    <3>2. f \in [App -> Nat] /\ f \in [App -> Int] /\ f[x] = FundAmount[x][w]
      BY <3>1, AmountFacts DEF Amounts
    <3>3. before \in SUBSET App /\ x \in App \ before
      <4>1. x \in Nat /\ ~ (x < x)
        BY <1>1
      <4>. QED  BY <2>1, <4>1
    <3>4. PICK upto : upto = before \union {x}
      OBVIOUS
    <3>5. PICK after : after = apps \ upto
      OBVIOUS
    <3>6. upto \in SUBSET App /\ after \in SUBSET App /\ upto \intersect after = {} /\ upto \union after = apps
      BY <2>1, <3>3, <3>4, <3>5
    <3>7. SumOn(f, apps) = SumOn(f, upto) + SumOn(f, after)
      <4>1. IsFiniteSet(App) /\ f \in [App -> Int]
        BY <1>1, <3>2
      <4>2. SumOn(f, upto \union after) = SumOn(f, upto) + SumOn(f, after)
        BY <3>6, <4>1, SumDisjoint
      <4>. QED  BY <3>6, <4>2
    <3>8. SumOn(f, upto) = f[x] + SumOn(f, before)
      <4>1. IsFiniteSet(App) /\ f \in [App -> Int]
        BY <1>1, <3>2
      <4>2. SumOn(f, before \union {x}) = f[x] + SumOn(f, before)
        BY <3>3, <4>1, SumOnFacts
      <4>. QED  BY <3>4, <4>2
    <3>9. SumOn(f, after) \in Nat /\ SumOn(f, before) \in Nat /\ f[x] \in Nat
      BY <1>1, <3>2, <3>3, <3>6, SumOnNat
    <3>10. Moved(FundAmount, apps, w) = SumOn(f, apps) /\ Moved(FundAmount, before, w) = SumOn(f, before)
      BY <3>1, <3>3, MovedIsSum
    <3>11. /\ AddItems(o, apps).bal[w] = o.bal[w] - SumOn(f, apps)
           /\ AddItems(o, before).bal[w] = o.bal[w] - SumOn(f, before)
      BY <3>10 DEF AddItems
    <3>12. AddItems(o, apps).bal[w] >= 0 /\ o.bal[w] \in Int
      BY DEF Solvent, Outcome
    <3>. QED  BY <3>2, <3>7, <3>8, <3>9, <3>11, <3>12
  <2>. QED  BY <2>1, <2>2 DEF CanAdd
<1>3. PICK funded : funded = Affordable(o, apps)
  OBVIOUS
<1>4. /\ funded \in SUBSET apps
      /\ \A x \in apps : x \in funded <=> CanAdd(AddItems(o, {y \in funded : y < x}), x)
  BY <1>3, AffordableExists DEF Affordable
<1>5. ASSUME funded # apps PROVE FALSE
  <2>1. apps \ funded \in SUBSET Nat /\ apps \ funded # {}
    BY <1>1, <1>4, <1>5
  <2>2. PICK x \in apps \ funded : \A y \in apps \ funded : x <= y
    BY <2>1, LeastElement
  <2>3. {y \in funded : y < x} = {y \in apps : y < x}
    <3>1. ASSUME NEW y \in apps, y < x PROVE y \in funded
      <4>1. x \in Nat /\ y \in Nat /\ ~ (x <= y)
        BY <1>1, <3>1
      <4>. QED  BY <2>2, <4>1
    <3>. QED  BY <1>4, <3>1
  <2>4. CanAdd(AddItems(o, {y \in apps : y < x}), x)
    BY <1>2
  <2>5. x \in apps /\ x \notin funded
    OBVIOUS
  <2>. QED  BY <1>4, <2>3, <2>4, <2>5
<1>. QED  BY <1>3, <1>5

\* So what is asked for is built, if everybody can pay for it.
LEMMA BuiltInFull ==
  ASSUME NEW o \in Outcome, Plain(o), NEW funded \in SUBSET App, NEW returned \in SUBSET App,
         \A x \in returned : o.items[x] = 1, Solvent(Changed(o, funded, returned)),
         NEW keys, \A x \in App : (Fund(x) \in keys <=> x \in funded) /\ (Defund(x) \in keys <=> x \in returned),
         NEW reqs
  PROVE  BuildOutcome(reqs, o, keys).outcome = Changed(o, funded, returned)
<1>1. PICK defunds : defunds = {x \in App : <<"defund", x>> \in keys}
  OBVIOUS
<1>2. PICK removed : removed = {x \in defunds : CanRemove(o, x)}
  OBVIOUS
<1>3. PICK rest : rest = RemoveItems(o, removed)
  OBVIOUS
<1>4. PICK funds : funds = {x \in App : <<"fund", x>> \in keys}
  OBVIOUS
<1>5. BuildOutcome(reqs, o, keys).outcome = AddItems(rest, Affordable(rest, funds))
  BY <1>1, <1>2, <1>3, <1>4 DEF BuildOutcome
<1>6. defunds = returned /\ funds = funded
  BY <1>1, <1>4 DEF Fund, Defund
<1>7. removed = returned
  BY <1>2, <1>6 DEF CanRemove
<1>8. rest \in Outcome
  <2>1. \A x \in returned : CanRemove(o, x)
    BY DEF CanRemove
  <2>. QED  BY <1>3, <1>7, <2>1, RemoveKeepsFunds
<1>9. Affordable(rest, funded) = funded
  <2>1. Changed(o, funded, returned) = AddItems(rest, funded)
    BY <1>3, <1>7 DEF Changed
  <2>. QED  BY <1>8, <2>1, AffordableInFull
<1>. QED  BY <1>3, <1>5, <1>6, <1>7, <1>9 DEF Changed
\* The change that a comparison sees.
LEMMA ChangedAre ==
  ASSUME NEW o \in Outcome, Plain(o), NEW funded \in SUBSET App, NEW returned \in SUBSET App,
         \A x \in funded : o.items[x] = 0, \A x \in returned : o.items[x] = 1
  PROVE  /\ ChangedApps(o, Changed(o, funded, returned)) = funded \union returned
         /\ funded \intersect returned = {}
         /\ \A x \in funded : Changed(o, funded, returned).items[x] > 0
         /\ \A x \in returned : ~ (Changed(o, funded, returned).items[x] > 0)
<1>. PICK q : q = Changed(o, funded, returned)
  OBVIOUS
<1>1. ASSUME NEW x \in App
      PROVE  q.items[x] = IF x \in funded THEN 1 ELSE IF x \in returned THEN 0 ELSE o.items[x]
  BY ChangeOf
<1>2. \A x \in App : o.items[x] = 0 \/ o.items[x] = 1
  BY DEF Plain
<1>3. funded \intersect returned = {}
  OBVIOUS
<1>4. ChangedApps(o, q) = funded \union returned
  <2>1. ASSUME NEW x \in App
        PROVE  (o.items[x] > 0) # (q.items[x] > 0) <=> x \in funded \union returned
    <3>. PICK before : before \in BOOLEAN /\ (before <=> o.items[x] > 0)
      OBVIOUS
    <3>. PICK after : after \in BOOLEAN /\ (after <=> q.items[x] > 0)
      OBVIOUS
    <3>1. (x \in funded => ~ before /\ after) /\ (x \in returned => before /\ ~ after)
      BY <1>1, <1>3
    <3>2. x \notin funded /\ x \notin returned => (before <=> after)
      BY <1>1
    <3>3. before # after <=> x \in funded \union returned
      BY <3>1, <3>2
    <3>4. ((o.items[x] > 0) # (q.items[x] > 0)) <=> before # after
      OBVIOUS
    <3>. QED  BY <3>3, <3>4
  <2>. QED  BY <2>1 DEF ChangedApps
<1>. QED  BY <1>1, <1>3, <1>4

\* A comparison that finds nothing against the change, agrees to it, or to a part of it.
LEMMA CompareInFull ==
  ASSUME NEW o \in Outcome, Plain(o), NEW funded \in SUBSET App, NEW returned \in SUBSET App,
         \A x \in funded : o.items[x] = 0, \A x \in returned : o.items[x] = 1,
         NEW q, q = Changed(o, funded, returned), Solvent(q),
         NEW reqs, CancellationDefunds(reqs) = {},
         \A x \in funded : Defund(x) \notin Loaded(reqs),
         \A x \in returned : Fund(x) \notin Loaded(reqs),
         NEW c, c = Comparison(reqs, o, q)
  PROVE  /\ c.type \in {"full-agreement", "some-overlap", "no-overlap"}
         /\ (\A x \in funded : Fund(x) \in Loaded(reqs)) /\ (\A x \in returned : Defund(x) \in Loaded(reqs))
              => c.type = "full-agreement"
<1>1. PICK changed : changed = ChangedApps(o, q)
  OBVIOUS
<1>2. PICK overlap : overlap = {k \in Loaded(reqs) \ CancellationDefunds(reqs) : k[2] \in changed}
  OBVIOUS
<1>3. PICK built : built = BuildOutcome(reqs, o, overlap)
  OBVIOUS
<1>4. changed = funded \union returned /\ funded \intersect returned = {}
  <2>1. /\ ChangedApps(o, Changed(o, funded, returned)) = funded \union returned
        /\ funded \intersect returned = {}
    BY ChangedAre
  <2>. QED  BY <1>1, <2>1
<1>5. IsFiniteSet(changed)
  BY <1>4, AmountFacts, FS_Subset
<1>6. ASSUME NEW x \in App
      PROVE  /\ Fund(x) \in overlap <=> x \in funded /\ Fund(x) \in Loaded(reqs)
             /\ Defund(x) \in overlap <=> x \in returned /\ Defund(x) \in Loaded(reqs)
  <2>1. Fund(x)[2] = x /\ Defund(x)[2] = x
    BY RequestKeys
  <2>. QED  BY <1>2, <1>4, <2>1
<1>7. PICK wanted : wanted = {x \in changed : Fund(x) \in overlap \/ Defund(x) \in overlap}
  OBVIOUS
<1>8. Cardinality(overlap) = Cardinality(wanted)
  <2>1. PICK f : f = [x \in wanted |-> IF x \in funded THEN Fund(x) ELSE Defund(x)]
    OBVIOUS
  <2>2. ASSUME NEW x \in wanted PROVE f[x] \in overlap /\ f[x][2] = x
    BY <1>4, <1>6, <1>7, <2>1, RequestKeys
  <2>3. ASSUME NEW k \in overlap PROVE \E x \in wanted : f[x] = k
    <3>1. k \in RequestKey
      BY <1>2 DEF Loaded
    <3>2. PICK x \in App : k = Fund(x) \/ k = Defund(x)
      BY <3>1 DEF RequestKey, Fund, Defund
    <3>3. x \in wanted
      BY <1>4, <1>6, <1>7, <3>2
    <3>4. CASE k = Fund(x)
      BY <1>6, <2>1, <3>3, <3>4
    <3>5. CASE k = Defund(x)
      <4>1. x \notin funded
        BY <1>4, <1>6, <3>5
      <4>. QED  BY <2>1, <3>3, <3>5, <4>1
    <3>. QED  BY <3>2, <3>4, <3>5
  <2>4. f \in [wanted -> overlap]
    BY <2>1, <2>2
  <2>5. f \in Bijection(wanted, overlap)
    BY <2>2, <2>3, <2>4, Fun_IsBij
  <2>6. IsFiniteSet(wanted)
    BY <1>5, <1>7, FS_Subset
  <2>. QED  BY <2>5, <2>6, FS_Bijection DEF ExistsBijection
<1>9. Cardinality(overlap) = Cardinality(changed) => wanted = changed
  <2>1. wanted \in SUBSET changed
    BY <1>7
  <2>2. Cardinality(changed) = Cardinality(wanted) => changed = wanted
    BY <1>5, <2>1, FS_Subset
  <2>. QED  BY <1>8, <2>2
<1>10. wanted = changed => built.outcome = q
  <2>. SUFFICES ASSUME wanted = changed PROVE built.outcome = q
    OBVIOUS
  <2>1. ASSUME NEW x \in App
        PROVE  (Fund(x) \in overlap <=> x \in funded) /\ (Defund(x) \in overlap <=> x \in returned)
    BY <1>4, <1>6, <1>7
  <2>. QED  BY <1>3, <2>1, BuiltInFull
<1>11. CancellationsQueued(reqs)
  BY DEF CancellationsQueued
<1>12. \/ c.type = "full-agreement"
       \/ c.type = "no-overlap" /\ changed # {} /\ overlap = {}
       \/ c.type = "some-overlap" /\ Cardinality(overlap) # Cardinality(changed)
  BY <1>1, <1>2, <1>3, <1>9, <1>10, <1>11 DEF Comparison
<1>13. ASSUME \A x \in funded : Fund(x) \in Loaded(reqs), \A x \in returned : Defund(x) \in Loaded(reqs)
       PROVE  c.type = "full-agreement"
  <2>1. wanted = changed
    BY <1>4, <1>6, <1>7, <1>13
  <2>2. overlap = {} => changed = {}
    BY <1>7, <2>1
  <2>. QED  BY <1>8, <1>12, <2>1, <2>2
<1>. QED  BY <1>12, <1>13

\* A state that funds no channel twice is processed without a throw, unless a pair of
\* requests is cancelled.
LEMMA ProcessIsQuiet ==
  ASSUME NEW reqs, CancellationDefunds(reqs) = {}, NEW o, Plain(o)
  PROVE  ~ ProcessAgreedStateThrows(reqs, o)
<1>1. CancellationsQueued(reqs)
  BY DEF CancellationsQueued
<1>2. \A k \in Loaded(reqs) : k[2] \in App
  BY DEF Loaded, RequestKey
<1>3. \A k \in Loaded(reqs) : o.items[k[2]] <= 1
  BY <1>2 DEF Plain
<1>. QED  BY <1>1, <1>3 DEF ProcessAgreedStateThrows, NoDuplicates

\* Where no channel is closed early, whoever asks to give one back, both were told that
\* it was funded.
InOrder ==
  \A w \in Wallet, x \in App :
    Asked(w, Defund(x)) => \A v \in Wallet : requests[v][Fund(x)] = "succeeded"

\* A counterproposal c to p is a part of p.
PartOf(o, p, c) ==
  \E funded, returned \in SUBSET App :
    /\ c = Changed(o, funded, returned)
    /\ \A x \in funded : o.items[x] = 0 /\ p.items[x] > 0
    /\ \A x \in returned : o.items[x] = 1 /\ ~ (p.items[x] > 0)
Answering(a) ==
  \A c \in Given(Follower), p \in Given(Leader) :
    c.turnNum = a.turnNum + 2 /\ p.turnNum = a.turnNum + 1 => PartOf(a.outcome, p.outcome, c.outcome)

LEMMA NoCancellations ==
  ASSUME FundsInv, InOrder, NEW w \in Wallet, NEW reqs, reqs = ActiveRequests(w)
  PROVE  /\ CancellationDefunds(reqs) = {}
         /\ \A new : SameLoaded(reqs, new) => CancellationDefunds(new) = {}
<1>1. ASSUME NEW x \in App, Fund(x) \in Loaded(reqs), Defund(x) \in Loaded(reqs) PROVE FALSE
  <2>. PICK f : f = Fund(x)
    OBVIOUS
  <2>. PICK d : d = Defund(x)
    OBVIOUS
  <2>1. f \in RequestKey /\ d \in RequestKey
    BY RequestKeys
  <2>2. Active(w, f) /\ Active(w, d)
    BY <1>1, <2>1, ActiveIsLoaded
  <2>3. Asked(w, d)
    BY <2>2 DEF Active, Asked, InHand, NotMade
  <2>4. requests[w][f] = "succeeded"
    BY <2>3 DEF InOrder
  <2>. QED  BY <2>2, <2>4 DEF Active, InHand
<1>2. CancellationDefunds(reqs) = {}
  BY <1>1 DEF CancellationDefunds
<1>3. ASSUME NEW new, SameLoaded(reqs, new) PROVE CancellationDefunds(new) = {}
  <2>1. Loaded(new) = Loaded(reqs)
    BY <1>3, SameLoadedFacts
  <2>. QED  BY <1>1, <2>1 DEF CancellationDefunds
<1>. QED  BY <1>2, <1>3

\* Neither wallet throws on a state that both have agreed on,
LEMMA LeaderQuietInAgreement ==
  ASSUME SigningInv, NEW a, Outstanding(a), InOrder, NEW s \in stored[Leader], IsAgreement(Leader, s)
  PROVE  CrankAsLeaderInAgreement(ActiveRequests(Leader), Content(s), <<>>).error = "none"
<1>. PICK reqs : reqs = ActiveRequests(Leader)
  OBVIOUS
<1>1. Content(s) = a /\ Plain(a.outcome) /\ FundsInv /\ Leader \in Wallet
  BY LeaderInAgreement DEF Outstanding, SigningInv, Wallet
<1>2. CancellationDefunds(reqs) = {}
  BY <1>1, NoCancellations
<1>3. ~ ProcessAgreedStateThrows(reqs, Content(s).outcome)
  BY <1>1, <1>2, ProcessIsQuiet
<1>. QED  BY <1>3 DEF CrankAsLeaderInAgreement, Cranked

LEMMA FollowerQuietInAgreement ==
  ASSUME SigningInv, NEW a, Outstanding(a), InOrder, NEW s \in stored[Follower], IsAgreement(Follower, s)
  PROVE  CrankAsFollowerInAgreement(ActiveRequests(Follower), Content(s)).error = "none"
<1>. PICK reqs : reqs = ActiveRequests(Follower)
  OBVIOUS
<1>1. Content(s) = a /\ Plain(a.outcome) /\ FundsInv /\ Follower \in Wallet
  BY FollowerInAgreement DEF Outstanding, SigningInv, Wallet
<1>2. CancellationDefunds(reqs) = {}
  BY <1>1, NoCancellations
<1>3. ~ ProcessAgreedStateThrows(reqs, Content(s).outcome)
  BY <1>1, <1>2, ProcessIsQuiet
<1>. QED  BY <1>3 DEF CrankAsFollowerInAgreement, Cranked

\* nor the leader on a counterproposal, which is a part of what it wants,
LEMMA LeaderQuietInCounter ==
  ASSUME SigningInv, NEW a, Honest(a), InOrder, Answering(a),
         NEW s \in stored[Leader], NEW t \in stored[Leader], NEW u \in stored[Leader],
         IsCounterProposal(Leader, s, t, u)
  PROVE  CrankAsLeaderInCounterProposal(ActiveRequests(Leader), Content(s), Content(u)).error = "none"
<1>. PICK reqs : reqs = ActiveRequests(Leader)
  OBVIOUS
<1>1. Outstanding(a) /\ FundsInv /\ Leader \in Wallet /\ Follower \in Wallet /\ a \in Given(Leader)
  BY DEF Honest, Outstanding, Bound, SigningInv, Wallet
<1>2. Content(s) = a /\ Content(u) \in Given(Follower) /\ u.turnNum = a.turnNum + 2
  BY <1>1, LeaderInCounterProposal
<1>3. PICK p \in Given(Leader) : p = Content(t) /\ p.turnNum = t.turnNum
  BY <1>1, ContentFields DEF IsCounterProposal, SigningInv, KeptAsGiven
<1>4. PICK c \in Given(Follower) : c = Content(u) /\ c.turnNum = u.turnNum
  BY <1>2, ContentFields
<1>5. a.turnNum \in Nat /\ t.turnNum = u.turnNum - 1
  BY <1>1, GivenFacts DEF IsCounterProposal, At
<1>6. p.turnNum = a.turnNum + 1 /\ c.turnNum = a.turnNum + 2
  BY <1>2, <1>3, <1>4, <1>5
<1>7. PICK o \in Outcome : o = a.outcome /\ Plain(o)
  BY <1>1, GivenFacts DEF Outstanding
<1>8. PICK funded, returned \in SUBSET App :
        /\ c.outcome = Changed(o, funded, returned)
        /\ \A x \in funded : o.items[x] = 0 /\ p.outcome.items[x] > 0
        /\ \A x \in returned : o.items[x] = 1 /\ ~ (p.outcome.items[x] > 0)
  BY <1>6, <1>7 DEF Answering, PartOf
<1>9. \A x \in funded : Active(Leader, Fund(x))
  <2>1. Keeps(Leader, o, p.outcome)
    BY <1>1, <1>5, <1>6, <1>7 DEF Honest, Intends
  <2>. QED  BY <1>8, <2>1 DEF Keeps
<1>10. \A x \in returned : Active(Leader, Defund(x))
  <2>1. Proposed(o, p.outcome)
    BY <1>1, <1>5, <1>6, <1>7 DEF Outstanding, LeaderBeyond
  <2>2. PICK fs, rs \in SUBSET App :
          /\ Wanted(Leader, o, fs, rs) /\ p.outcome = Changed(o, fs, rs)
          /\ \A x \in rs : Pursued(Defund(x))
    BY <2>1 DEF Proposed
  <2>3. ASSUME NEW x \in returned PROVE x \in rs
    <3>1. Changed(o, fs, rs).items[x]
            = (o.items[x] - (IF x \in rs THEN 1 ELSE 0)) + (IF x \in fs THEN 1 ELSE 0)
      BY ChangedItems
    <3>2. o.items[x] = 1 /\ ~ (Changed(o, fs, rs).items[x] > 0)
      BY <1>8, <2>2
    <3>. QED  BY <3>1, <3>2
  <2>. QED  BY <2>2, <2>3 DEF Pursued, Active, InHand
<1>11. /\ \A x \in funded : Fund(x) \in Loaded(reqs)
       /\ \A x \in returned : Defund(x) \in Loaded(reqs)
  BY <1>1, <1>9, <1>10, RequestKeys, ActiveIsLoaded
<1>12. /\ CancellationDefunds(reqs) = {}
       /\ \A new : SameLoaded(reqs, new) => CancellationDefunds(new) = {}
  BY <1>1, NoCancellations
<1>13. /\ \A x \in funded : Defund(x) \notin Loaded(reqs)
       /\ \A x \in returned : Fund(x) \notin Loaded(reqs)
  BY <1>11, <1>12 DEF CancellationDefunds
<1>14. PICK q : q = Changed(o, funded, returned) /\ Solvent(q) /\ Plain(q)
  <2>1. Solvent(c.outcome)
    BY <1>1, GivenFacts
  <2>. QED  BY <1>7, <1>8, <2>1, ChangeOf
<1>15. PICK compared : compared = Comparison(reqs, o, q)
  OBVIOUS
<1>16. compared.type = "full-agreement" /\ SameLoaded(reqs, compared.reqs)
  <2>1. compared.type = "full-agreement"
    BY <1>7, <1>8, <1>11, <1>12, <1>13, <1>14, <1>15, CompareInFull
  <2>. QED  BY <1>15, <2>1, CompareFacts
<1>17. PICK rs : rs = compared.reqs
  OBVIOUS
<1>18. ~ ProcessAgreedStateThrows(rs, c.outcome)
  BY <1>8, <1>12, <1>14, <1>16, <1>17, ProcessIsQuiet
<1>19. CrankAsLeaderInAgreement(rs, c, <<c>>).error = "none"
  BY <1>18 DEF CrankAsLeaderInAgreement, Cranked
<1>20. CrankAsLeaderInCounterProposal(reqs, a, c).error = "none"
  BY <1>7, <1>8, <1>14, <1>15, <1>16, <1>17, <1>19 DEF CrankAsLeaderInCounterProposal
<1>. QED  BY <1>2, <1>4, <1>20
\* nor the follower on a proposal, with which its own requests go together.
LEMMA FollowerQuietInProposal ==
  ASSUME SigningInv, NEW a, Honest(a), InOrder,
         NEW s \in stored[Follower], NEW t \in stored[Follower], IsProposal(Follower, s, t)
  PROVE  CrankAsFollowerInProposal(ActiveRequests(Follower), Content(s), Content(t)).error = "none"
<1>. PICK reqs : reqs = ActiveRequests(Follower)
  OBVIOUS
<1>1. Outstanding(a) /\ FundsInv /\ Leader \in Wallet /\ Follower \in Wallet /\ a \in Given(Leader)
  BY DEF Honest, Outstanding, Bound, SigningInv, Wallet
<1>2. /\ Content(s) = a /\ Content(t) \in Given(Leader) /\ t.turnNum = a.turnNum + 1
      /\ Proposed(a.outcome, t.outcome)
  BY <1>1, FollowerInProposal
<1>3. PICK p \in Given(Leader) : p = Content(t) /\ p.turnNum = t.turnNum /\ p.outcome = t.outcome
  BY <1>2, ContentFields
<1>4. PICK o \in Outcome : o = a.outcome /\ Plain(o)
  BY <1>1, GivenFacts DEF Outstanding
<1>5. PICK funded, returned \in SUBSET App :
        Wanted(Leader, o, funded, returned) /\ p.outcome = Changed(o, funded, returned)
  BY <1>2, <1>3, <1>4 DEF Proposed
<1>6. (\A x \in funded : o.items[x] = 0) /\ (\A x \in returned : o.items[x] = 1)
  BY <1>5 DEF Wanted
<1>7. PICK q : q = Changed(o, funded, returned) /\ Solvent(q) /\ Plain(q)
  <2>1. Solvent(p.outcome)
    BY <1>1, GivenFacts
  <2>. QED  BY <1>4, <1>5, <1>6, <2>1, ChangeOf
<1>8. \A x \in funded : ~ Asked(Follower, Defund(x))
  <2>1. Keeps(Leader, o, q)
    <3>1. p.turnNum > a.turnNum
      <4>1. a.turnNum \in Nat
        BY <1>1, GivenFacts
      <4>. QED  BY <1>2, <1>3, <4>1
    <3>. QED  BY <1>1, <1>4, <1>5, <1>7, <3>1 DEF Honest, Intends
  <2>2. ASSUME NEW x \in funded PROVE Active(Leader, Fund(x))
    <3>1. Changed(o, funded, returned).items[x] > 0
      BY <1>4, <1>6, ChangedAre
    <3>. QED  BY <1>6, <1>7, <2>1, <3>1 DEF Keeps
  <2>. QED  BY <1>1, <2>2 DEF InOrder, Active, InHand
<1>9. \A x \in returned : ~ Active(Follower, Fund(x))
  BY <1>1, <1>5 DEF Wanted, InOrder, Active, InHand
<1>10. /\ \A x \in funded : Defund(x) \notin Loaded(reqs)
       /\ \A x \in returned : Fund(x) \notin Loaded(reqs)
  <2>1. \A x \in App : ~ Asked(Follower, Defund(x)) => ~ Active(Follower, Defund(x))
    BY DEF Asked, Active, InHand, NotMade
  <2>. QED  BY <1>1, <1>8, <1>9, <2>1, RequestKeys, ActiveIsLoaded
<1>11. /\ CancellationDefunds(reqs) = {}
       /\ \A new : SameLoaded(reqs, new) => CancellationDefunds(new) = {}
  BY <1>1, NoCancellations
<1>12. PICK loaded : loaded = ProcessAgreedState(reqs, o)
  OBVIOUS
<1>13. /\ SameLoaded(reqs, loaded) /\ Loaded(loaded) = Loaded(reqs)
       /\ CancellationDefunds(loaded) = {}
  BY <1>11, <1>12, ProcessFacts, SameLoadedFacts
<1>14. PICK compared : compared = Comparison(loaded, o, q)
  OBVIOUS
<1>15. /\ compared.type \in {"full-agreement", "some-overlap", "no-overlap"}
       /\ SameLoaded(loaded, compared.reqs)
  <2>1. compared.type \in {"full-agreement", "some-overlap", "no-overlap"}
    BY <1>4, <1>6, <1>7, <1>10, <1>13, <1>14, CompareInFull
  <2>. QED  BY <1>14, <2>1, CompareFacts
<1>16. PICK rs : rs = compared.reqs
  OBVIOUS
<1>17. CancellationDefunds(rs) = {}
  BY <1>11, <1>13, <1>15, <1>16, SameLoadedFacts
<1>18. ~ ProcessAgreedStateThrows(reqs, o) /\ ~ ProcessAgreedStateThrows(rs, q)
  BY <1>4, <1>7, <1>11, <1>17, ProcessIsQuiet
<1>19. p.outcome = q
  BY <1>5, <1>7
<1>20. PICK result : result = CrankAsFollowerInProposal(reqs, a, p)
  OBVIOUS
<1>21. \/ \E new, states : result = Cranked(new, states)
  BY <1>4, <1>12, <1>14, <1>15, <1>16, <1>18, <1>19, <1>20 DEF CrankAsFollowerInProposal
<1>22. result.error = "none"
  BY <1>21 DEF Cranked
<1>. QED  BY <1>2, <1>3, <1>20, <1>22

\* The order of the requests stays,
LEMMA OrderStays ==
  ASSUME SigningInv, [Next]_ledgerVars, NEW a, Outstanding(a), ~ setting.earlyClose, InOrder
  PROVE  InOrder'
<1>1. \/ UNCHANGED requests \/ \E w \in Wallet : \E k \in RequestKey : Asks(w, k)
      \/ \E w \in Wallet : \E result : Cranks(w, result) /\ GivesOut(w, Range(result.states))
  BY SigningSteps
<1>2. requests \in [Wallet -> [RequestKey -> RequestStatus \union {NotMade}]] /\ FundsInv
  BY DEF SigningInv, FundsInv
<1>3. CASE UNCHANGED requests
  BY <1>3 DEF InOrder, Asked
<1>4. ASSUME NEW w \in Wallet, NEW k \in RequestKey, Asks(w, k) PROVE InOrder'
  <2>1. \A v \in Wallet, l \in RequestKey :
          requests'[v][l] = IF v = w /\ l = k THEN "queued" ELSE requests[v][l]
    BY <1>2, <1>4 DEF Asks
  <2>2. SUFFICES ASSUME NEW v \in Wallet, NEW x \in App, Asked(v, Defund(x))', NEW u \in Wallet
        PROVE  requests'[u][Fund(x)] = "succeeded"
    BY DEF InOrder
  <2>. PICK f : f = Fund(x)
    OBVIOUS
  <2>. PICK d : d = Defund(x)
    OBVIOUS
  <2>3. f \in RequestKey /\ d \in RequestKey
    BY RequestKeys
  <2>4. requests[u][f] = "succeeded"
    <3>1. CASE v = w /\ d = k
      BY <1>4, <3>1 DEF Asks, MayAsk
    <3>2. CASE ~ (v = w /\ d = k)
      BY <2>1, <2>2, <2>3, <3>2 DEF InOrder, Asked
    <3>. QED  BY <3>1, <3>2
  <2>5. ~ (u = w /\ f = k)
    BY <1>4, <2>4 DEF Asks, NotMade
  <2>. QED  BY <2>1, <2>3, <2>4, <2>5
<1>5. ASSUME NEW w \in Wallet, NEW result, Cranks(w, result), GivesOut(w, Range(result.states))
      PROVE  InOrder'
  <2>. PICK new : new = result.reqs
    OBVIOUS
  <2>1. w = Leader \/ w = Follower
    BY DEF Wallet
  <2>2. Answers(w, new) /\ SameLoaded(ActiveRequests(w), new) /\ IsReqs(new)
    BY <1>5, <2>1, LeaderCrankMoves, FollowerCrankMoves DEF Cranks
  <2>3. \A v \in Wallet, k \in RequestKey : Asked(v, k)' <=> Asked(v, k)
    BY <1>2, <2>2, CrankAnswers
  <2>4. ASSUME NEW v \in Wallet, NEW k \in RequestKey, requests[v][k] = "succeeded"
        PROVE  requests'[v][k] = "succeeded"
    <3>1. v = w => ActiveRequests(w)[k] = NotLoaded
      BY <2>4 DEF ActiveRequests
    <3>2. v = w => new[k] = NotLoaded
      BY <2>2, <3>1 DEF SameLoaded
    <3>. QED  BY <2>2, <2>4, <3>2 DEF Answers
  <2>. QED  BY <2>3, <2>4, RequestKeys DEF InOrder
<1>. QED  BY <1>1, <1>3, <1>4, <1>5
\* and so does what counterproposals answer to.
LEMMA CountersInPart ==
  ASSUME SigningInv, NEW a, Outstanding(a), InOrder, NEW q, Proposed(a.outcome, q),
         NEW new, Counters(ActiveRequests(Follower), a.outcome, q, new)
  PROVE  PartOf(a.outcome, q, new)
<1>1. FundsInv /\ Leader \in Wallet /\ Follower \in Wallet /\ a \in Given(Leader)
  BY DEF Outstanding, Bound, SigningInv, Wallet
<1>2. PICK o \in Outcome : o = a.outcome /\ Plain(o)
  BY <1>1, GivenFacts DEF Outstanding
<1>3. CASE new = o
  <2>1. new = Changed(o, {}, {})
    BY <1>2, <1>3, NothingChanged
  <2>. QED  BY <1>2, <2>1 DEF PartOf
<1>4. CASE new # o
  <2>1. PICK funded, returned \in SUBSET App :
          /\ new = Changed(o, funded, returned)
          /\ \A x \in funded : Fund(x) \in Loaded(ActiveRequests(Follower)) /\ x \in ChangedApps(o, q)
          /\ \A x \in returned : x \in ChangedApps(o, q) /\ o.items[x] > 0
    BY <1>2, <1>4 DEF Counters
  <2>2. PICK fs, rs \in SUBSET App : Wanted(Leader, o, fs, rs) /\ q = Changed(o, fs, rs)
    BY <1>2 DEF Proposed
  <2>3. /\ ChangedApps(o, q) = fs \union rs
        /\ \A x \in fs : q.items[x] > 0
        /\ \A x \in rs : ~ (q.items[x] > 0)
    <3>1. (\A x \in fs : o.items[x] = 0) /\ (\A x \in rs : o.items[x] = 1)
      BY <2>2 DEF Wanted
    <3>2. ChangedApps(o, Changed(o, fs, rs)) = fs \union rs
      BY <1>2, <3>1, ChangedAre
    <3>3. \A x \in fs : Changed(o, fs, rs).items[x] > 0
      BY <1>2, <3>1, ChangedAre
    <3>4. \A x \in rs : ~ (Changed(o, fs, rs).items[x] > 0)
      BY <1>2, <3>1, ChangedAre
    <3>. QED  BY <2>2, <3>2, <3>3, <3>4
  <2>5. \A x \in funded : x \notin rs
    <3>1. \A x \in rs : ~ Active(Follower, Fund(x))
      BY <1>1, <2>2 DEF Wanted, InOrder, Active, InHand
    <3>2. \A x \in funded : Active(Follower, Fund(x))
      BY <1>1, <2>1, RequestKeys, ActiveIsLoaded
    <3>. QED  BY <3>1, <3>2
  <2>6. \A x \in funded : o.items[x] = 0 /\ q.items[x] > 0
    BY <2>1, <2>2, <2>3, <2>5 DEF Wanted
  <2>7. \A x \in returned : o.items[x] = 1 /\ ~ (q.items[x] > 0)
    <3>1. \A x \in fs : o.items[x] = 0
      BY <2>2 DEF Wanted
    <3>2. \A x \in returned : x \in rs
      BY <2>1, <2>3, <3>1
    <3>. QED  BY <2>2, <2>3, <3>2 DEF Wanted
  <2>. QED  BY <1>2, <2>1, <2>6, <2>7 DEF PartOf
<1>. QED  BY <1>3, <1>4

LEMMA FollowerSignsPart ==
  ASSUME SigningInv, NEW a, Outstanding(a), InOrder, NEW result, Cranks(Follower, result),
         NEW c \in Range(result.states), c.turnNum = a.turnNum + 2,
         NEW p \in Given(Leader), p.turnNum = a.turnNum + 1
  PROVE  PartOf(a.outcome, p.outcome, c.outcome)
<1>. PICK reqs : reqs = ActiveRequests(Follower)
  OBVIOUS
<1>1. /\ result \in CrankResults(Follower) /\ result.error = "none" /\ Follower # Leader
      /\ Leader \in Wallet /\ a \in Given(Leader)
  BY DEF Cranks, CompletedCranks, Leader, Follower, Wallet, Outstanding, Bound
<1>2. \/ \E s \in stored[Follower] : result = CrankAsFollowerInAgreement(reqs, Content(s))
      \/ \E s, t \in stored[Follower] :
           IsProposal(Follower, s, t) /\ result = CrankAsFollowerInProposal(reqs, Content(s), Content(t))
  BY <1>1 DEF CrankResults
<1>3. CASE \E s \in stored[Follower] : result = CrankAsFollowerInAgreement(reqs, Content(s))
  <2>1. result.states = <<>>
    BY <1>3 DEF CrankAsFollowerInAgreement, Thrown, Cranked
  <2>. QED  BY <2>1 DEF Range
<1>4. CASE \E s, t \in stored[Follower] :
             IsProposal(Follower, s, t) /\ result = CrankAsFollowerInProposal(reqs, Content(s), Content(t))
  <2>1. PICK s, t \in stored[Follower] :
          IsProposal(Follower, s, t) /\ result = CrankAsFollowerInProposal(reqs, Content(s), Content(t))
    BY <1>4
  <2>2. PICK q : q = Content(t)
    OBVIOUS
  <2>3. /\ Content(s) = a /\ q \in Given(Leader) /\ q.turnNum = a.turnNum + 1
        /\ Proposed(a.outcome, q.outcome)
    BY <2>1, <2>2, FollowerInProposal, ContentFields
  <2>4. q = p
    BY <2>3, OneOfATurn
  <2>5. Replies(reqs, result, a, q)
    <3>1. a.outcome \in Outcome /\ result = CrankAsFollowerInProposal(reqs, a, q)
      BY <1>1, <2>1, <2>2, <2>3, GivenFacts
    <3>. QED  BY <1>1, <3>1, FollowerAnswers
  <2>6. result.states # <<q>>
    <3>1. q.turnNum # a.turnNum + 2
      BY <1>1, <2>3, GivenFacts
    <3>. QED  BY <3>1, RangeOfOne
  <2>7. PICK u : result.states = <<u>> /\ Counters(reqs, a.outcome, q.outcome, u.outcome)
    BY <2>5, <2>6 DEF Replies
  <2>8. c = u
    BY <2>7, RangeOfOne
  <2>9. Counters(reqs, a.outcome, p.outcome, c.outcome) /\ Proposed(a.outcome, p.outcome)
    BY <2>3, <2>4, <2>7, <2>8
  <2>. QED  BY <2>9, CountersInPart
<1>. QED  BY <1>2, <1>3, <1>4

BoundInTurn ==
  /\ \A a : Outstanding(a) => \A c \in Bound : c.turnNum <= a.turnNum
  /\ \A c, d \in Given(Leader) \union Given(Follower) : c.turnNum = d.turnNum => c = d
  /\ \A c \in Given(Leader) \union Given(Follower) : c.turnNum \in Nat

LEMMA AreInTurn == SigningInv => BoundInTurn
<1>. SUFFICES ASSUME SigningInv PROVE BoundInTurn
  OBVIOUS
<1>1. \A c \in Given(Leader) \union Given(Follower) : c.turnNum \in Nat
  BY DEF SigningInv, InTurn
<1>. QED  BY <1>1, OutstandingIsLast, OneOfATurn DEF BoundInTurn

LEMMA CranksAnswer ==
  ASSUME SigningInv, SigningInv', NEW a, Outstanding(a), InOrder, Answering(a),
         NEW w \in Wallet, NEW result, Cranks(w, result), GivesOut(w, Range(result.states)),
         NEW b, MovesTo(a, b)
  PROVE  Answering(b)'
<1>1. Leader \in Wallet /\ Follower \in Wallet /\ Leader # Follower /\ (w = Leader \/ w = Follower)
  BY DEF Wallet, Leader, Follower
<1>2. SUFFICES ASSUME NEW c \in Given(Follower)', NEW p \in Given(Leader)',
                      c.turnNum = b.turnNum + 2, p.turnNum = b.turnNum + 1
               PROVE  PartOf(b.outcome, p.outcome, c.outcome)
  BY DEF Answering
<1>3. Given(Follower) \subseteq Given(Follower)' /\ Given(Leader) \subseteq Given(Leader)'
  BY <1>1 DEF GivesOut
<1>4. a \in Bound' /\ b \in Bound' /\ a \in Given(Leader) /\ Outstanding(b)'
  BY DEF MovesTo, Outstanding, Bound
<1>5. BoundInTurn /\ BoundInTurn'
  <2>1. (SigningInv => BoundInTurn)'
    BY AreInTurn, PTL
  <2>. QED  BY <2>1, AreInTurn
<1>6. a.turnNum <= b.turnNum /\ (a.turnNum = b.turnNum => a = b)
  <2>1. a \in Given(Leader)' /\ b \in Given(Leader)'
    BY <1>4 DEF Bound
  <2>. QED  BY <1>4, <1>5, <2>1 DEF BoundInTurn
<1>7. a.turnNum \in Nat /\ b.turnNum \in Nat /\ c.turnNum \in Nat /\ p.turnNum \in Nat
  BY <1>4, <1>5 DEF BoundInTurn, Bound
<1>8. CASE w = Leader
  <2>1. c \in Given(Follower)
    BY <1>1, <1>8 DEF GivesOut
  <2>2. c.turnNum = a.turnNum + 2 /\ \E t \in Given(Leader) : t.turnNum = a.turnNum + 1
    BY <1>2, <1>6, <1>7, <2>1 DEF Outstanding, FollowerBeyond
  <2>3. PICK t \in Given(Leader) : t.turnNum = a.turnNum + 1
    BY <2>2
  <2>4. a.turnNum = b.turnNum
    BY <1>2, <1>7, <2>2
  <2>5. t = p
    BY <1>2, <1>3, <1>5, <2>3, <2>4 DEF BoundInTurn
  <2>. QED  BY <1>2, <1>6, <2>1, <2>3, <2>4, <2>5 DEF Answering
<1>9. CASE w = Follower
  <2>1. p \in Given(Leader)
    BY <1>1, <1>9 DEF GivesOut
  <2>2. p.turnNum = a.turnNum + 1
    BY <1>2, <1>6, <1>7, <2>1 DEF Outstanding, LeaderBeyond
  <2>3. a.turnNum = b.turnNum
    BY <1>2, <1>7, <2>2
  <2>4. CASE c \in Given(Follower)
    BY <1>2, <1>6, <2>1, <2>3, <2>4 DEF Answering
  <2>5. CASE c \notin Given(Follower)
    <3>1. c \in Range(result.states)
      BY <1>1, <1>9, <2>5 DEF GivesOut
    <3>2. c.turnNum = a.turnNum + 2
      BY <1>2, <2>3
    <3>. QED  BY <1>6, <1>9, <2>1, <2>2, <2>3, <3>1, <3>2, FollowerSignsPart
  <2>. QED  BY <2>4, <2>5
<1>. QED  BY <1>1, <1>8, <1>9

\* Where channels may close early, no more is said than that what is told is true.
Orderly(a) == Honest(a) /\ (setting.earlyClose \/ (InOrder /\ Answering(a)))

OrderlyInv == SigningInv /\ \E a : Orderly(a)

LEMMA SettingStays == [Next]_ledgerVars => setting' = setting
<1>. SUFFICES ASSUME [Next]_ledgerVars PROVE setting' = setting
  OBVIOUS
<1>1. CASE UNCHANGED ledgerVars
  BY <1>1 DEF ledgerVars
<1>2. CASE Next
  BY <1>2 DEF Next, RequestLedgerFunding, RequestLedgerDefunding, PushMessage, SyncChannel, LedgerCrank
<1>. QED  BY <1>1, <1>2

LEMMA OrderlySteps ==
  ASSUME SigningInv, [Next]_ledgerVars, NEW a, Orderly(a)
  PROVE  \E b : Orderly(b)'
<1>1. /\ SigningInv'
      /\ \/ /\ \A v : Given(v)' = Given(v)
            /\ UNCHANGED requests \/ \E w \in Wallet : \E k \in RequestKey : Asks(w, k)
         \/ \E w \in Wallet : \E result : Cranks(w, result) /\ GivesOut(w, Range(result.states))
  BY SigningSteps
<1>2. Honest(a) /\ Outstanding(a) /\ setting' = setting
  BY SettingStays DEF Orderly, Honest
<1>3. CASE setting.earlyClose
  <2>1. PICK b : Honest(b)'
    BY <1>2, HonestSteps
  <2>2. setting'.earlyClose
    BY <1>2, <1>3
  <2>3. Orderly(b)'
    BY <2>1, <2>2 DEF Orderly
  <2>. QED  BY <2>3
<1>4. CASE ~ setting.earlyClose
  <2>1. InOrder /\ Answering(a) /\ InOrder'
    <3>1. InOrder /\ Answering(a)
      BY <1>4 DEF Orderly
    <3>. QED  BY <1>2, <1>4, <3>1, OrderStays
  <2>2. ASSUME \A v : Given(v)' = Given(v) PROVE Answering(a)'
    BY <2>1, <2>2 DEF Answering
  <2>3. ASSUME \A v : Given(v)' = Given(v), UNCHANGED requests PROVE Honest(a)'
    BY <1>2, <2>3 DEF Honest, Outstanding, Bound, Plain, LeaderBeyond, FollowerBeyond, Proposed,
                      Countered, Wanted, Asked, Pursued, Told, EverFunded, Active, Intends, Keeps
  <2>4. ASSUME \A v : Given(v)' = Given(v), NEW w \in Wallet, NEW k \in RequestKey, Asks(w, k)
        PROVE  Honest(a)'
    BY <1>2, <2>4, AskStaysHonest
  <2>5. ASSUME NEW w \in Wallet, NEW result, Cranks(w, result), GivesOut(w, Range(result.states))
        PROVE  \E b : Orderly(b)'
    <3>1. w = Leader \/ w = Follower
      BY DEF Wallet
    <3>2. PICK b : HonestlyTo(a, b)
      BY <1>2, <2>5, <3>1, LeaderCrankHonest, FollowerCrankHonest
    <3>3. MovesTo(a, b) /\ Honest(b)'
      BY <3>2 DEF HonestlyTo
    <3>4. Answering(b)'
      BY <1>1, <1>2, <2>1, <2>5, <3>3, CranksAnswer
    <3>. QED  BY <2>1, <3>3, <3>4 DEF Orderly
  <2>. QED  BY <1>1, <2>1, <2>2, <2>3, <2>4, <2>5 DEF Orderly
<1>. QED  BY <1>3, <1>4

LEMMA OrderlyInit == Init => OrderlyInv
<1>. SUFFICES ASSUME Init PROVE OrderlyInv
  OBVIOUS
<1>1. PICK a : SigningInv /\ Honest(a)
  BY HonestInit DEF HonestInv
<1>2. \A w \in Wallet, k \in RequestKey : ~ Asked(w, k)
  BY DEF Init, Asked
<1>3. InOrder
  BY <1>2, RequestKeys DEF InOrder
<1>4. Answering(a)
  <2>1. PICK o : \A w : Given(w) = {o}
    BY DEF Init, Given
  <2>2. o.turnNum \in Nat /\ a = o
    <3>1. Leader \in Wallet
      BY DEF Wallet
    <3>. QED  BY <1>1, <2>1, <3>1, GivenFacts DEF Honest, Outstanding, Bound
  <2>. QED  BY <2>1, <2>2 DEF Answering
<1>. QED  BY <1>1, <1>3, <1>4 DEF OrderlyInv, Orderly

LEMMA OrderlyInvImplies == OrderlyInv => NeverThrows
<1>. SUFFICES ASSUME SigningInv, NEW a, Honest(a), InOrder, Answering(a),
                     NEW w \in Wallet, NEW result \in CrankResults(w)
              PROVE  result.error = "none"
  BY DEF OrderlyInv, Orderly, NeverThrows
<1>. PICK reqs : reqs = ActiveRequests(w)
  OBVIOUS
<1>1. Outstanding(a) /\ Leader # Follower /\ (w = Leader \/ w = Follower)
  BY DEF Honest, Wallet, Leader, Follower
<1>2. CASE w = Leader
  <2>1. \/ \E s \in stored[Leader] :
             IsAgreement(Leader, s) /\ result = CrankAsLeaderInAgreement(reqs, Content(s), <<>>)
        \/ \E s, t, u \in stored[Leader] :
             /\ IsCounterProposal(Leader, s, t, u)
             /\ result = CrankAsLeaderInCounterProposal(reqs, Content(s), Content(u))
    BY <1>2 DEF CrankResults
  <2>. QED  BY <1>1, <1>2, <2>1, LeaderQuietInAgreement, LeaderQuietInCounter
<1>3. CASE w = Follower
  <2>1. \/ \E s \in stored[Follower] :
             IsAgreement(Follower, s) /\ result = CrankAsFollowerInAgreement(reqs, Content(s))
        \/ \E s, t \in stored[Follower] :
             /\ IsProposal(Follower, s, t)
             /\ result = CrankAsFollowerInProposal(reqs, Content(s), Content(t))
    BY <1>1, <1>3 DEF CrankResults
  <2>. QED  BY <1>1, <1>3, <2>1, FollowerQuietInAgreement, FollowerQuietInProposal
<1>. QED  BY <1>1, <1>2, <1>3

\* Unless a channel is closed before it ran, no crank throws: what one wallet builds of
\* the requests, the other builds of its own, and a counterproposal asks the leader for
\* nothing that it has not proposed.
THEOREM CranksNeverThrow == Spec => []NeverThrows
<1>1. Init => OrderlyInv
  BY OrderlyInit
<1>2. OrderlyInv /\ [Next]_ledgerVars => OrderlyInv'
  BY SigningSteps, OrderlySteps DEF OrderlyInv
<1>3. OrderlyInv => NeverThrows
  BY OrderlyInvImplies
<1>. QED  BY <1>1, <1>2, <1>3, PTL DEF Spec
==============================================================================
