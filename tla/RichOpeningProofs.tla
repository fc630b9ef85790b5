-------------------------- MODULE RichOpeningProofs --------------------------
(* The rich objectives of the browser wallet open a channel as they should, for *)
(* any number of wallets and any amounts, whatever their cranks write over each  *)
(* other.                                                                        *)
EXTENDS RichOpening, FiniteSums

------------------------------------------------------------------------------
(* The invariant.  What a wallet has in memory or under way is described by sets *)
(* that only grow: a crank may be as late as it likes.                            *)

Milestone == {O!TargetBefore(v) : v \in 0 .. nWallets}
KnownHoldings == {m \in Milestone : m <= holdings}

\* An entry has the setup states and the first one of the application, one of each.
SetupTurn == {0, 2 * nWallets - 1}
StoredState ==
  {s \in [turn : SetupTurn \cup {2 * nWallets}, final : {FALSE},
          outcome : {"opening", "app"}, signers : SUBSET Wallet] :
     s.outcome = IF s.turn \in SetupTurn THEN "opening" ELSE "app"}
Stored == \A w \in Wallet : entry[w] \in SUBSET StoredState /\ InvariantsHold(entry[w])

\* A signature is in the store, unless what is supported came after it.
Kept(e, turn, v) ==
  \/ \E s \in e : s.turn = turn /\ v \in s.signers
  \/ IsSupported(nWallets, e) /\ \A t \in Support(nWallets, e) : turn < t.turn

SignersKept(w, step, signers) ==
  /\ \A v \in signers \ {w} : Kept(entry[w], TurnNum(step), v)
  /\ step = "postFundSetup" => signers \subseteq postfunded

RichObjective ==
  [status : {"approval", "theirPreFundSetup", "safeToDeposit", "channelFunded",
             "theirPostFundSetup", "success", "error"},
   approved : BOOLEAN, preFundSetup : SUBSET Wallet, postFundSetup : SUBSET Wallet,
   funding : Milestone, fundingRequest : BOOLEAN]
Objectives(w) ==
  {o \in RichObjective :
     o.funding <= holdings /\ \A step \in Step : SignersKept(w, step, o[step])}

Events(w) ==
  [type : {"Approval", "DepositSubmitted"}] \cup [type : {"Crank"}, late : BOOLEAN]
    \cup [type : {"FundingUpdated"}, amount : KnownHoldings]
    \cup {event \in [type : {"StatesReceived"}, step : Step \cup {"app"}, signers : SUBSET Wallet] :
            event.step \in Step => SignersKept(w, event.step, event.signers)}

\* A wallet asks for its own deposit, after those before it, and when it is safe.
MayDeposit(w) == Amount[w] > 0 /\ holdings >= O!TargetBefore(w) /\ Secured(w)

ActionsOf(w, signers) ==
  [type : {"submitted", "handleError"}]
    \cup {action \in [type : {"sendStates"}, steps : SUBSET Step] :
            "postFundSetup" \in action.steps => w \in signers}
    \cup {action \in [type : {"deposit"}, amount : {Amount[w]}] : MayDeposit(w)}
Actions(w) == ActionsOf(w, postfunded)

\* A handler that has something left to do.
RunnersOf(actions) == [approval : BOOLEAN, todo : Seq(actions) \ {<<>>}]

InMemory ==
  \A w \in Wallet :
    /\ objective[w] \in {NoObjective} \cup Objectives(w)
    /\ cranks[w] \in Seq([event : Events(w), snapshot : Objectives(w)])
    /\ running[w] \in Seq(RunnersOf(Actions(w)))

StateMessages ==
  {message \in [to : Wallet, type : {"state"}, step : Step \cup {"app"}, signers : SUBSET Wallet] :
     message.step = "postFundSetup" => message.signers \subseteq postfunded}

UnderWay ==
  /\ net \subseteq StateMessages \cup [to : Wallet, type : {"objective"}]
  /\ \A tx \in mempool :
       \E w \in Wallet :
         /\ tx = [from |-> w, before |-> O!TargetBefore(w), amount |-> Amount[w]]
         /\ MayDeposit(w)
  /\ \A w \in Wallet : notices[w] \subseteq KnownHoldings \ {0}

FundedWhenSigned ==
  /\ holdings \in Milestone
  /\ postfunded \subseteq Wallet
  /\ postfunded # {} => holdings = O!TargetTotal

RichShapes ==
  /\ entry \in [Wallet -> SUBSET StoredState]
  /\ objective = [w \in Wallet |-> objective[w]] /\ notices = [w \in Wallet |-> notices[w]]
  /\ cranks = [w \in Wallet |-> cranks[w]] /\ running = [w \in Wallet |-> running[w]]

RichInv == RichShapes /\ FundedWhenSigned /\ Stored /\ InMemory /\ UnderWay

------------------------------------------------------------------------------
(* The milestones. *)

\* They begin with nothing and end with everything, in the order of the allocation,
\* and none lies between what there is before a deposit and after it.
LEMMA Milestones ==
  /\ nWallets \in Nat \ {0} /\ Wallet = 0 .. nWallets - 1 /\ Amount \in [Wallet -> Nat]
  /\ 0 \in Milestone /\ O!TargetTotal \in Milestone
  /\ \A m \in Milestone : m \in Nat /\ m <= O!TargetTotal
  /\ \A w \in Wallet : /\ O!TargetBefore(w) \in Milestone /\ O!TargetAfter(w) \in Milestone
                       /\ O!TargetAfter(w) = O!TargetBefore(w) + Amount[w]
  /\ \A w \in Wallet : \A m \in Milestone :
       m >= O!TargetBefore(w) /\ m < O!TargetAfter(w) => m = O!TargetBefore(w)
<1>1. Wallet = 0 .. nWallets - 1 /\ Amount \in [0 .. nWallets - 1 -> Nat] /\ nWallets \in Nat \ {0}
  BY AmountAssumption DEF Wallet
<1>2. \A v : O!TargetBefore(v) = RunningSum(Amount, v)
  BY DEF O!TargetBefore, O!FoldFunction, O!FoldFunctionOnSet, O!MapThenFoldSet,
         RunningSum, SumAll, FoldFunction, FoldFunctionOnSet, MapThenFoldSet
<1>3. /\ O!TargetBefore(0) = 0
      /\ \A v \in 0 .. nWallets : O!TargetBefore(v) \in Nat
      /\ \A v \in 0 .. nWallets - 1 : O!TargetBefore(v + 1) = O!TargetBefore(v) + Amount[v]
      /\ \A v, u \in 0 .. nWallets : v <= u => O!TargetBefore(v) <= O!TargetBefore(u)
  BY <1>1, <1>2, RunningSums
<1>4. O!TargetTotal = O!TargetBefore(nWallets)
  BY DEF O!TargetTotal
<1>5. \A w \in Wallet : O!TargetAfter(w) = O!TargetBefore(w) + Amount[w]
  BY DEF O!TargetAfter
<1>6. 0 \in Milestone /\ O!TargetTotal \in Milestone
  BY <1>1, <1>3, <1>4 DEF Milestone
<1>7. \A m \in Milestone : m \in Nat /\ m <= O!TargetTotal
  BY <1>1, <1>3, <1>4 DEF Milestone
<1>8. \A w \in Wallet : O!TargetBefore(w) \in Milestone /\ O!TargetAfter(w) \in Milestone
  BY <1>1, <1>3, <1>5 DEF Milestone
<1>9. ASSUME NEW w \in Wallet, NEW m \in Milestone,
             m >= O!TargetBefore(w), m < O!TargetAfter(w)
      PROVE  m = O!TargetBefore(w)
  <2>1. PICK v \in 0 .. nWallets : m = O!TargetBefore(v)
    BY DEF Milestone
  <2>2. O!TargetAfter(w) = O!TargetBefore(w + 1) /\ w + 1 \in 0 .. nWallets
    BY <1>1, <1>3, <1>5
  <2>3. v < w + 1
    BY <1>1, <1>3, <1>9, <2>1, <2>2
  <2>4. O!TargetBefore(v) <= O!TargetBefore(w)
    BY <1>1, <1>3, <2>3
  <2>. QED  BY <1>1, <1>3, <1>9, <2>1, <2>4
<1>. QED  BY <1>1, <1>5, <1>6, <1>7, <1>8, <1>9

------------------------------------------------------------------------------
(* What is on a list. *)

\* A list over more values.
LEMMA SeqGrows == ASSUME NEW S, NEW T, S \subseteq T PROVE Seq(S) \subseteq Seq(T)
OBVIOUS

\* What is done to a list adds nothing to it but what is appended.
LEMMA SeqSteps ==
  ASSUME NEW S, NEW s \in Seq(S)
  PROVE  /\ \A x \in S : Append(s, x) \in Seq(S) /\ <<x>> \in Seq(S)
         /\ s # <<>> => /\ Head(s) \in S /\ Tail(s) \in Seq(S)
         /\ \A k \in 1 .. Len(s) : s[k] \in S /\ RemoveAt(s, k) \in Seq(S)
         /\ \A k \in 1 .. Len(s) : \A x \in S : [s EXCEPT ![k] = x] \in Seq(S)
         /\ \A t \in Seq(S) : s \o t \in Seq(S)
<1>1. \A x \in S : Append(s, x) \in Seq(S) /\ <<x>> \in Seq(S)
  OBVIOUS
<1>2. s # <<>> => Head(s) \in S /\ Tail(s) \in Seq(S)
  OBVIOUS
<1>3. \A t, u \in Seq(S) : t \o u \in Seq(S)
  OBVIOUS
<1>4. ASSUME NEW k \in 1 .. Len(s) PROVE s[k] \in S /\ RemoveAt(s, k) \in Seq(S)
  <2>1. SubSeq(s, 1, k - 1) \in Seq(S) /\ SubSeq(s, k + 1, Len(s)) \in Seq(S) /\ s[k] \in S
    OBVIOUS
  <2>. QED  BY <1>3, <2>1 DEF RemoveAt
<1>5. \A k \in 1 .. Len(s) : \A x \in S : [s EXCEPT ![k] = x] \in Seq(S)
  OBVIOUS
<1>. QED  BY <1>1, <1>2, <1>3, <1>4, <1>5

------------------------------------------------------------------------------
(* What an entry supports. *)

Bottoms(e) == {lo \in Turns(e) : Complete(nWallets, e, lo)}

\* The states of an entry, by their turns.
LEMMA StoredStates ==
  /\ \A s \in StoredState : s.turn \in Nat /\ s.turn \in SetupTurn \cup {2 * nWallets}
                            /\ s.final = FALSE /\ s.signers \in SUBSET Wallet
                            /\ s = SignedState(s.turn, FALSE, s.outcome, s.signers)
  /\ \A s, t \in StoredState : s.turn = t.turn <=> SameState(s, t)
<1>1. nWallets \in Nat \ {0}
  BY AmountAssumption
<1>2. ASSUME NEW s \in StoredState
      PROVE  /\ s.turn \in Nat /\ s.turn \in SetupTurn \cup {2 * nWallets}
             /\ s.final = FALSE /\ s.signers \in SUBSET Wallet
             /\ s = SignedState(s.turn, FALSE, s.outcome, s.signers)
             /\ s.outcome = IF s.turn \in SetupTurn THEN "opening" ELSE "app"
  <2>1. s \in [turn : SetupTurn \cup {2 * nWallets}, final : {FALSE},
               outcome : {"opening", "app"}, signers : SUBSET Wallet]
    BY DEF StoredState
  <2>2. s.turn \in Nat
    BY <1>1, <2>1 DEF SetupTurn
  <2>. QED  BY <2>1, <2>2 DEF StoredState, SignedState
<1>. QED  BY <1>2 DEF SameState

\* The support of an entry is the chain from its highest complete turn, and that turn
\* is in it.
LEMMA SupportFacts ==
  ASSUME NEW e \in SUBSET StoredState, Bottoms(e) # {} \/ IsSupported(nWallets, e)
  PROVE  /\ IsSupported(nWallets, e)
         /\ \E m \in Bottoms(e) :
              /\ \A b \in Bottoms(e) : b <= m
              /\ Support(nWallets, e) = Chain(nWallets, e, m)
              /\ \A t \in Support(nWallets, e) : m <= t.turn
              /\ \E t \in Support(nWallets, e) : t.turn = m
<1>1. nWallets \in Nat \ {0}
  BY AmountAssumption
<1>2. Support(nWallets, e) = UNION {Chain(nWallets, e, lo) :
          lo \in {b \in Bottoms(e) : \A turn \in Bottoms(e) : turn <= b}}
  BY DEF Support, Bottoms
<1>3. Bottoms(e) # {}
  BY <1>2 DEF IsSupported
<1>4. Bottoms(e) \subseteq {0, 2 * nWallets - 1, 2 * nWallets}
  BY StoredStates DEF Bottoms, Turns, SetupTurn
<1>5. PICK m \in Bottoms(e) : \A b \in Bottoms(e) : b <= m
  <2>1. \A b \in Bottoms(e) : b \in Int
    BY <1>1, <1>4
  <2>2. CASE 2 * nWallets \in Bottoms(e)
    BY <1>1, <1>4, <2>2
  <2>3. CASE 2 * nWallets \notin Bottoms(e) /\ 2 * nWallets - 1 \in Bottoms(e)
    BY <1>1, <1>4, <2>3
  <2>4. CASE 2 * nWallets \notin Bottoms(e) /\ 2 * nWallets - 1 \notin Bottoms(e)
    BY <1>1, <1>3, <1>4, <2>4
  <2>. QED  BY <2>2, <2>3, <2>4
<1>6. m \in Nat
  BY <1>1, <1>4
<1>7. {b \in Bottoms(e) : \A turn \in Bottoms(e) : turn <= b} = {m}
  <2>1. \A b \in Bottoms(e) : b \in Int
    BY <1>1, <1>4
  <2>. QED  BY <1>5, <2>1
<1>8. Support(nWallets, e) = Chain(nWallets, e, m)
  BY <1>2, <1>7
<1>9. UNION {s.signers : s \in Chain(nWallets, e, m)} = 0 .. nWallets - 1
  BY DEF Bottoms, Complete
<1>10. Support(nWallets, e) # {}
  <2>1. 0 \in 0 .. nWallets - 1
    BY <1>1
  <2>. QED  BY <1>8, <1>9, <2>1
<1>11. \A t \in Support(nWallets, e) : t \in e /\ t.turn \in Nat /\ m <= t.turn
  BY <1>8, StoredStates DEF Chain
<1>12. PICK low \in Support(nWallets, e) : \A t \in Support(nWallets, e) : low.turn <= t.turn
  <2>. DEFINE T == {t.turn : t \in Support(nWallets, e)}
  <2>1. T \in SUBSET Nat /\ T # {}
    BY <1>10, <1>11
  <2>2. PICK x \in T : \A y \in T : x <= y
    <3>. HIDE DEF T
    <3>. QED  BY <2>1, LeastElement
  <2>. QED  BY <2>2
<1>13. low.turn \in Bottoms(e)
  <2>1. Chain(nWallets, e, m) \subseteq Chain(nWallets, e, low.turn)
    <3>. SUFFICES ASSUME NEW t \in Chain(nWallets, e, m) PROVE t \in Chain(nWallets, e, low.turn)
      OBVIOUS
    <3>1. t \in e /\ t.turn % nWallets \in t.signers /\ Connected(nWallets, e, m, t.turn)
      BY DEF Chain
    <3>2. low.turn <= t.turn
      BY <1>8, <1>12
    <3>3. m <= low.turn /\ m \in Nat /\ low.turn \in Nat /\ t.turn \in Nat
      BY <1>6, <1>8, <1>11, <1>12
    <3>4. low.turn + 1 .. t.turn \subseteq m + 1 .. t.turn
      BY <3>3
    <3>5. Connected(nWallets, e, low.turn, t.turn)
      BY <3>1, <3>4 DEF Connected
    <3>. QED  BY <3>1, <3>2, <3>5 DEF Chain
  <2>2. \A s \in Chain(nWallets, e, low.turn) : s.signers \subseteq 0 .. nWallets - 1
    BY StoredStates DEF Chain, Wallet
  <2>3. Complete(nWallets, e, low.turn)
    BY <1>9, <2>1, <2>2 DEF Complete
  <2>4. low.turn \in Turns(e)
    BY <1>11, <1>12 DEF Turns
  <2>. QED  BY <2>3, <2>4 DEF Bottoms
<1>14. low.turn = m
  BY <1>5, <1>6, <1>11, <1>12, <1>13
<1>. QED  BY <1>5, <1>8, <1>10, <1>11, <1>12, <1>14 DEF IsSupported

\* One entry has at least what another one has.
Covers(f, e) ==
  \A s \in e : \E t \in f : SameState(s, t) /\ s.signers \subseteq t.signers

\* Where it does, what was complete from some turn upwards is still.
LEMMA CoversBottoms ==
  ASSUME NEW e \in SUBSET StoredState, NEW f \in SUBSET StoredState, Covers(f, e)
  PROVE  Bottoms(e) \subseteq Bottoms(f)
<1>. SUFFICES ASSUME NEW lo \in Bottoms(e) PROVE lo \in Bottoms(f)
  OBVIOUS
<1>1. lo \in Turns(f)
  BY DEF Bottoms, Turns, Covers, SameState
<1>2. ASSUME NEW s \in Chain(nWallets, e, lo)
      PROVE  \E t \in Chain(nWallets, f, lo) : s.signers \subseteq t.signers
  <2>1. s \in e /\ lo <= s.turn /\ s.turn % nWallets \in s.signers
        /\ Connected(nWallets, e, lo, s.turn)
    BY DEF Chain
  <2>2. PICK t \in f : SameState(s, t) /\ s.signers \subseteq t.signers
    BY <2>1 DEF Covers
  <2>3. t.turn = s.turn
    BY <2>2 DEF SameState
  <2>4. Connected(nWallets, f, lo, s.turn)
    <3>. SUFFICES ASSUME NEW turn \in lo + 1 .. s.turn
                  PROVE  \E first, second \in f :
                           /\ first.turn = turn - 1 /\ second.turn = turn
                           /\ ValidChain(nWallets, first, second)
      BY DEF Connected
    <3>1. PICK first \in e, second \in e :
            /\ first.turn = turn - 1 /\ second.turn = turn
            /\ ValidChain(nWallets, first, second)
      BY <2>1 DEF Connected
    <3>2. PICK first2 \in f : SameState(first, first2)
      BY DEF Covers
    <3>3. PICK second2 \in f : SameState(second, second2)
      BY DEF Covers
    <3>. QED  BY <3>1, <3>2, <3>3 DEF SameState, ValidChain
  <2>. QED  BY <2>1, <2>2, <2>3, <2>4 DEF Chain
<1>3. UNION {s.signers : s \in Chain(nWallets, e, lo)} = 0 .. nWallets - 1
  BY DEF Bottoms, Complete
<1>4. \A t \in Chain(nWallets, f, lo) : t.signers \subseteq 0 .. nWallets - 1
  BY StoredStates DEF Chain, Wallet
<1>5. Complete(nWallets, f, lo)
  BY <1>2, <1>3, <1>4 DEF Complete
<1>. QED  BY <1>1, <1>5 DEF Bottoms

\* Whatever is not supported any more goes, but the support stays.
LEMMA ClearKeepsSupport ==
  ASSUME NEW f \in SUBSET StoredState, NEW g, g = ClearOldStates(nWallets, f)
  PROVE  /\ g \subseteq f
         /\ ~IsSupported(nWallets, f) => g = f
         /\ IsSupported(nWallets, f) =>
              /\ IsSupported(nWallets, g)
              /\ Support(nWallets, f) \subseteq g
              /\ \A s \in f \ g : \A t \in Support(nWallets, f) : s.turn < t.turn
              /\ \A s \in g : \E t \in Support(nWallets, f) : t.turn <= s.turn
<1>1. g = {s \in f : Support(nWallets, f) = {} \/ \E t \in Support(nWallets, f) : t.turn <= s.turn}
  BY DEF ClearOldStates
<1>2. Support(nWallets, f) \subseteq f
  BY DEF Support, Chain
<1>3. \A s \in f : s.turn \in Nat
  BY StoredStates
<1>4. Support(nWallets, f) \subseteq g
  BY <1>1, <1>2, <1>3
<1>5. \A s \in f \ g : \A t \in Support(nWallets, f) : s.turn < t.turn
  BY <1>1, <1>2, <1>3
<1>6. ASSUME IsSupported(nWallets, f) PROVE IsSupported(nWallets, g)
  <2>1. PICK m \in Bottoms(f) :
          /\ Support(nWallets, f) = Chain(nWallets, f, m)
          /\ \A t \in Support(nWallets, f) : m <= t.turn
          /\ \E t \in Support(nWallets, f) : t.turn = m
    BY <1>6, SupportFacts
  <2>2. m \in Turns(g)
    BY <1>4, <2>1 DEF Turns
  <2>3. \A s \in f : m <= s.turn => s \in g
    BY <1>1, <2>1
  <2>4. m \in Nat
    BY <1>3 DEF Bottoms, Turns
  <2>5. ASSUME NEW t \in Chain(nWallets, f, m) PROVE t \in Chain(nWallets, g, m)
    <3>1. t \in f /\ m <= t.turn /\ t.turn % nWallets \in t.signers
          /\ Connected(nWallets, f, m, t.turn)
      BY DEF Chain
    <3>2. Connected(nWallets, g, m, t.turn)
      <4>. SUFFICES ASSUME NEW turn \in m + 1 .. t.turn
                    PROVE  \E first, second \in g :
                             /\ first.turn = turn - 1 /\ second.turn = turn
                             /\ ValidChain(nWallets, first, second)
        BY DEF Connected
      <4>1. PICK first \in f, second \in f :
              /\ first.turn = turn - 1 /\ second.turn = turn
              /\ ValidChain(nWallets, first, second)
        BY <3>1 DEF Connected
      <4>2. turn \in Int /\ m <= turn - 1 /\ m <= turn
        BY <2>4
      <4>3. first \in g /\ second \in g
        BY <2>3, <4>1, <4>2
      <4>. QED  BY <4>1, <4>3
    <3>3. t \in g
      BY <2>3, <3>1
    <3>. QED  BY <3>1, <3>2, <3>3 DEF Chain
  <2>6. Complete(nWallets, g, m)
    <3>1. UNION {s.signers : s \in Chain(nWallets, f, m)} = 0 .. nWallets - 1
      BY DEF Bottoms, Complete
    <3>2. \A t \in Chain(nWallets, g, m) : t.signers \subseteq 0 .. nWallets - 1
      BY <1>1, StoredStates DEF Chain, Wallet
    <3>. QED  BY <2>5, <3>1, <3>2 DEF Complete
  <2>7. m \in Bottoms(g)
    BY <2>2, <2>6 DEF Bottoms
  <2>8. g \in SUBSET StoredState
    BY <1>1
  <2>. QED  BY <2>7, <2>8, SupportFacts
<1>7. ~IsSupported(nWallets, f) => g = f
  BY <1>1 DEF IsSupported
<1>8. IsSupported(nWallets, f) => \A s \in g : \E t \in Support(nWallets, f) : t.turn <= s.turn
  BY <1>1 DEF IsSupported
<1>. QED  BY <1>1, <1>4, <1>5, <1>6, <1>7, <1>8

\* A state that is added leaves an entry of the same kind, in which nothing is lost but
\* what is older than the support.
LEMMA AddStateFacts ==
  ASSUME NEW e \in SUBSET StoredState, InvariantsHold(e), NEW s \in StoredState,
         NEW g, g = AddState(nWallets, e, s)
  PROVE  /\ g \in SUBSET StoredState /\ InvariantsHold(g)
         /\ \A turn \in Nat, v \in Wallet : Kept(e, turn, v) => Kept(g, turn, v)
         /\ \A v \in s.signers : Kept(g, s.turn, v)
         /\ IsSupported(nWallets, e) => IsSupported(nWallets, g)
<1>. DEFINE known == {x \in e : SameState(x, s)}
            merged == [s EXCEPT !.signers = @ \cup UNION {x.signers : x \in known}]
            f == (e \ known) \cup {merged}
<1>1. g = ClearOldStates(nWallets, f)
  BY DEF AddState
<1>2. merged \in StoredState /\ SameState(s, merged) /\ s.signers \subseteq merged.signers
      /\ \A x \in known : x.signers \subseteq merged.signers
  <2>1. \A x \in known : x.signers \subseteq Wallet
    BY StoredStates
  <2>2. s.signers \subseteq Wallet
    BY StoredStates
  <2>3. PICK signers : signers = s.signers \cup UNION {x.signers : x \in known}
    OBVIOUS
  <2>4. merged = [s EXCEPT !.signers = signers]
    BY <2>3
  <2>5. signers \subseteq Wallet /\ s.signers \subseteq signers
        /\ \A x \in known : x.signers \subseteq signers
    BY <2>1, <2>2, <2>3
  <2>. HIDE DEF known, merged
  <2>6. s \in [turn : SetupTurn \cup {2 * nWallets}, final : {FALSE},
               outcome : {"opening", "app"}, signers : SUBSET Wallet]
        /\ s.outcome = IF s.turn \in SetupTurn THEN "opening" ELSE "app"
    BY DEF StoredState
  <2>7. /\ merged.signers = signers /\ merged.turn = s.turn /\ merged.final = s.final
        /\ merged.outcome = s.outcome
        /\ merged \in [turn : SetupTurn \cup {2 * nWallets}, final : {FALSE},
                       outcome : {"opening", "app"}, signers : SUBSET Wallet]
    BY <2>4, <2>5, <2>6
  <2>. QED  BY <2>5, <2>6, <2>7 DEF StoredState, SameState
<1>3. f \in SUBSET StoredState /\ InvariantsHold(f)
  <2>1. \A x \in e \ known : x.turn # merged.turn
    BY <1>2, StoredStates DEF SameState
  <2>. HIDE DEF known, merged
  <2>. QED  BY <1>2, <2>1 DEF InvariantsHold
<1>4. Covers(f, e)
  <2>1. \A x \in known : SameState(x, merged)
    BY <1>2 DEF SameState
  <2>2. \A x \in e \ known : SameState(x, x)
    BY DEF SameState
  <2>3. known \subseteq e
    OBVIOUS
  <2>. HIDE DEF known, merged
  <2>. QED  BY <1>2, <2>1, <2>2, <2>3 DEF Covers
<1>5. merged \in f
  OBVIOUS
<1>. HIDE DEF known, merged, f
<1>6. /\ g \subseteq f
      /\ ~IsSupported(nWallets, f) => g = f
      /\ IsSupported(nWallets, f) =>
           /\ IsSupported(nWallets, g)
           /\ Support(nWallets, f) \subseteq g
           /\ \A x \in f \ g : \A t \in Support(nWallets, f) : x.turn < t.turn
           /\ \A x \in g : \E t \in Support(nWallets, f) : t.turn <= x.turn
  BY <1>1, <1>3, ClearKeepsSupport
<1>7. g \in SUBSET StoredState /\ InvariantsHold(g)
  BY <1>3, <1>6 DEF InvariantsHold
<1>8. Support(nWallets, g) \subseteq g /\ Support(nWallets, f) \subseteq f
  BY DEF Support, Chain
<1>9. \A x \in f : x.turn \in Nat
  BY <1>3, StoredStates
<1>10. ASSUME NEW turn, NEW v, NEW x \in f, x.turn = turn, v \in x.signers
       PROVE  Kept(g, turn, v)
  <2>1. CASE x \in g
    BY <1>10, <2>1 DEF Kept
  <2>2. CASE x \notin g
    <3>1. IsSupported(nWallets, f) /\ \A t \in Support(nWallets, f) : x.turn < t.turn
      BY <1>6, <2>2
    <3>2. \A y \in Support(nWallets, g) : turn < y.turn
      BY <1>6, <1>8, <1>9, <1>10, <3>1
    <3>. QED  BY <1>6, <3>1, <3>2 DEF Kept
  <2>. QED  BY <2>1, <2>2
<1>11. ASSUME IsSupported(nWallets, e)
       PROVE  /\ IsSupported(nWallets, f)
              /\ \A t \in Support(nWallets, f) : \E u \in Support(nWallets, e) : u.turn <= t.turn
  <2>1. PICK m \in Bottoms(e) : \E u \in Support(nWallets, e) : u.turn = m
    BY <1>11, SupportFacts
  <2>2. m \in Bottoms(f)
    BY <1>3, <1>4, CoversBottoms
  <2>3. IsSupported(nWallets, f)
    BY <1>3, <2>2, SupportFacts
  <2>4. PICK k \in Bottoms(f) : /\ \A b \in Bottoms(f) : b <= k
                                /\ \A t \in Support(nWallets, f) : k <= t.turn
    BY <1>3, <2>2, SupportFacts
  <2>5. m <= k /\ m \in Nat /\ k \in Nat
    BY <1>9, <2>2, <2>4 DEF Bottoms, Turns
  <2>6. \A t \in Support(nWallets, f) : m <= t.turn
    BY <1>8, <1>9, <2>4, <2>5
  <2>. QED  BY <2>1, <2>3, <2>6
<1>12. ASSUME NEW turn \in Nat, NEW v \in Wallet, Kept(e, turn, v) PROVE Kept(g, turn, v)
  <2>1. CASE \E x \in e : x.turn = turn /\ v \in x.signers
    BY <1>4, <1>10, <2>1 DEF Covers, SameState
  <2>2. CASE IsSupported(nWallets, e) /\ \A t \in Support(nWallets, e) : turn < t.turn
    <3>1. Support(nWallets, e) \subseteq e
      BY DEF Support, Chain
    <3>2. \A t \in Support(nWallets, e) : t.turn \in Nat
      BY <3>1, StoredStates
    <3>3. \A t \in Support(nWallets, f) : turn < t.turn
      BY <1>8, <1>9, <1>11, <2>2, <3>2
    <3>4. \A y \in Support(nWallets, g) : turn < y.turn
      BY <1>6, <1>8, <1>9, <1>11, <2>2, <3>3
    <3>. QED  BY <1>6, <1>11, <2>2, <3>4 DEF Kept
  <2>. QED  BY <1>12, <2>1, <2>2 DEF Kept
<1>13. \A v \in s.signers : Kept(g, s.turn, v)
  BY <1>2, <1>5, <1>10 DEF SameState
<1>. QED  BY <1>6, <1>7, <1>11, <1>12, <1>13

\* When the others' signatures are kept, a wallet can get its money back.
LEMMA KeptIsSecured ==
  ASSUME NEW w \in Wallet, \A v \in Wallet \ {w} : Kept(entry[w], 0, v)
  PROVE  Secured(w)
BY DEF Kept, Secured

\* Whoever is kept is in the store, at that turn or above.
LEMMA KeptIsStored ==
  ASSUME NEW e \in SUBSET StoredState, NEW turn \in Nat, NEW v \in Wallet, Kept(e, turn, v)
  PROVE  \E s \in e : s.turn >= turn /\ v \in s.signers
<1>1. CASE \E s \in e : s.turn = turn /\ v \in s.signers
  BY <1>1
<1>2. CASE IsSupported(nWallets, e) /\ \A t \in Support(nWallets, e) : turn < t.turn
  <2>1. PICK m \in Bottoms(e) : Support(nWallets, e) = Chain(nWallets, e, m)
    BY <1>2, SupportFacts
  <2>2. UNION {s.signers : s \in Chain(nWallets, e, m)} = 0 .. nWallets - 1
    BY DEF Bottoms, Complete
  <2>3. PICK s \in Chain(nWallets, e, m) : v \in s.signers
    BY <2>2 DEF Wallet
  <2>4. s \in e
    BY DEF Chain
  <2>5. s.turn \in Nat
    BY <2>4, StoredStates
  <2>. QED  BY <1>2, <2>1, <2>3, <2>4, <2>5
<1>. QED  BY <1>1, <1>2 DEF Kept

------------------------------------------------------------------------------
(* What is described by the invariant only grows. *)

Growing ==
  /\ holdings \in Nat /\ holdings' \in Nat /\ holdings <= holdings'
  /\ postfunded \subseteq postfunded'
  /\ \A w \in Wallet : \A turn \in Nat, v \in Wallet :
       Kept(entry[w], turn, v) => Kept(entry'[w], turn, v)
  /\ \A w \in Wallet : IsSupported(nWallets, entry[w]) => IsSupported(nWallets, entry'[w])

\* The turns of the two steps.
LEMMA StepTurns ==
  /\ TurnNum("preFundSetup") = 0 /\ TurnNum("postFundSetup") = 2 * nWallets - 1
  /\ \A step \in Step : TurnNum(step) \in Nat /\ TurnNum(step) \in SetupTurn
  /\ Step = {"preFundSetup", "postFundSetup"}
BY AmountAssumption DEF TurnNum, Step, SetupTurn

\* So whatever a wallet has in memory or under way stays as described.
LEMMA DescriptionsGrow ==
  ASSUME Growing, NEW w \in Wallet
  PROVE  /\ KnownHoldings \subseteq KnownHoldings'
         /\ \A step \in Step : \A signers \in SUBSET Wallet :
              SignersKept(w, step, signers) => SignersKept(w, step, signers)'
         /\ Objectives(w) \subseteq Objectives(w)'
         /\ Events(w) \subseteq Events(w)'
         /\ MayDeposit(w) => MayDeposit(w)'
         /\ Actions(w) \subseteq Actions(w)'
         /\ StateMessages \subseteq StateMessages'
<1>1. KnownHoldings \subseteq KnownHoldings'
  <2>1. ASSUME NEW m \in Milestone, m <= holdings PROVE m <= holdings'
    BY <2>1, Milestones DEF Growing
  <2>. QED  BY <2>1 DEF KnownHoldings
<1>2. ASSUME NEW step \in Step, NEW signers \in SUBSET Wallet, SignersKept(w, step, signers)
      PROVE  SignersKept(w, step, signers)'
  BY <1>2, StepTurns DEF Growing, SignersKept
<1>3. Objectives(w) \subseteq Objectives(w)'
  <2>. SUFFICES ASSUME NEW o \in Objectives(w) PROVE o \in Objectives(w)'
    OBVIOUS
  <2>1. o \in RichObjective /\ o.funding <= holdings
        /\ \A step \in Step : SignersKept(w, step, o[step])
    BY DEF Objectives
  <2>2. \A step \in Step : o[step] \in SUBSET Wallet
    BY <2>1 DEF RichObjective, Step
  <2>3. \A step \in Step : SignersKept(w, step, o[step])'
    BY <1>2, <2>1, <2>2
  <2>4. o.funding \in Nat
    BY <2>1, Milestones DEF RichObjective
  <2>5. o.funding <= holdings'
    BY <2>1, <2>4 DEF Growing
  <2>. QED  BY <2>1, <2>3, <2>5 DEF Objectives, RichObjective, Milestone
<1>4. Events(w) \subseteq Events(w)'
  <2>. SUFFICES ASSUME NEW event \in Events(w) PROVE event \in Events(w)'
    OBVIOUS
  <2>1. CASE event \in [type : {"FundingUpdated"}, amount : KnownHoldings]
    BY <1>1, <2>1 DEF Events
  <2>2. CASE event \in [type : {"StatesReceived"}, step : Step \cup {"app"}, signers : SUBSET Wallet]
             /\ (event.step \in Step => SignersKept(w, event.step, event.signers))
    <3>1. event.step \in Step => SignersKept(w, event.step, event.signers)'
      BY <1>2, <2>2
    <3>. QED  BY <2>2, <3>1 DEF Events
  <2>3. CASE event \in [type : {"Approval", "DepositSubmitted"}] \cup [type : {"Crank"}, late : BOOLEAN]
    BY <2>3 DEF Events
  <2>. QED  BY <2>1, <2>2, <2>3 DEF Events
<1>5. ASSUME MayDeposit(w) PROVE MayDeposit(w)'
  <2>1. O!TargetBefore(w) \in Nat /\ Amount[w] > 0 /\ holdings >= O!TargetBefore(w)
    BY <1>5, Milestones DEF MayDeposit
  <2>2. holdings' >= O!TargetBefore(w)
    BY <2>1 DEF Growing
  <2>3. Secured(w)'
    <3>1. CASE IsSupported(nWallets, entry[w])
      BY <3>1 DEF Growing, Secured
    <3>2. CASE \A v \in Wallet \ {w} : \E s \in entry[w] : s.turn = 0 /\ v \in s.signers
      <4>1. \A v \in Wallet \ {w} : Kept(entry[w], 0, v)
        BY <3>2 DEF Kept
      <4>2. \A v \in Wallet \ {w} : Kept(entry'[w], 0, v)
        BY <4>1 DEF Growing
      <4>. QED  BY <4>2 DEF Kept, Secured
    <3>. QED  BY <1>5, <3>1, <3>2 DEF MayDeposit, Secured
  <2>. QED  BY <2>1, <2>2, <2>3 DEF MayDeposit
<1>6. Actions(w) \subseteq Actions(w)'
  BY <1>5 DEF Actions, ActionsOf, Growing
<1>7. StateMessages \subseteq StateMessages'
  BY DEF StateMessages, Growing
<1>. QED  BY <1>1, <1>2, <1>3, <1>4, <1>5, <1>6, <1>7

\* And so do the lists of them.
LEMMA ListsGrow ==
  ASSUME Growing, NEW w \in Wallet
  PROVE  /\ Seq([event : Events(w), snapshot : Objectives(w)])
              \subseteq Seq([event : Events(w)', snapshot : Objectives(w)'])
         /\ Seq(RunnersOf(Actions(w))) \subseteq Seq(RunnersOf(Actions(w)'))
<1>1. Objectives(w) \subseteq Objectives(w)' /\ Events(w) \subseteq Events(w)'
      /\ Actions(w) \subseteq Actions(w)'
  BY DescriptionsGrow
<1>2. [event : Events(w), snapshot : Objectives(w)] \subseteq [event : Events(w)', snapshot : Objectives(w)']
  BY <1>1
<1>3. RunnersOf(Actions(w)) \subseteq RunnersOf(Actions(w)')
  <2>1. Seq(Actions(w)) \subseteq Seq(Actions(w)')
    BY <1>1, SeqGrows
  <2>. QED  BY <2>1 DEF RunnersOf
<1>. QED  BY <1>2, <1>3, SeqGrows

------------------------------------------------------------------------------
(* The cranker. *)

\* An event only tells an objective what was so.
LEMMA ProcessedFacts ==
  ASSUME NEW w \in Wallet, NEW o \in Objectives(w), NEW event \in Events(w)
  PROVE  Processed(o, event) \in Objectives(w)
<1>1. /\ o \in RichObjective /\ o.funding <= holdings
      /\ \A step \in Step : SignersKept(w, step, o[step])
  BY DEF Objectives
<1>2. CASE event \in [type : {"Approval", "DepositSubmitted"}] \cup [type : {"Crank"}, late : BOOLEAN]
  <2>1. Processed(o, event) \in {o, [o EXCEPT !.approved = TRUE], [o EXCEPT !.fundingRequest = TRUE]}
    BY <1>2 DEF Processed
  <2>. QED  BY <1>1, <2>1 DEF Objectives, RichObjective, Step
<1>3. CASE event \in [type : {"FundingUpdated"}, amount : KnownHoldings]
  <2>1. Processed(o, event) = [o EXCEPT !.funding = event.amount]
    BY <1>3 DEF Processed
  <2>2. event.amount \in Milestone /\ event.amount <= holdings
    BY <1>3 DEF KnownHoldings
  <2>. QED  BY <1>1, <2>1, <2>2 DEF Objectives, RichObjective, Step
<1>4. CASE event \in [type : {"StatesReceived"}, step : Step \cup {"app"}, signers : SUBSET Wallet]
  <2>1. CASE event.step \in Step
    <3>1. SignersKept(w, event.step, event.signers)
      BY <1>4, <2>1 DEF Events
    <3>2. PICK signers : signers = o[event.step] \cup event.signers
      OBVIOUS
    <3>3. Processed(o, event) = [o EXCEPT ![event.step] = signers]
      BY <1>4, <2>1, <3>2 DEF Processed
    <3>4. signers \in SUBSET Wallet /\ SignersKept(w, event.step, signers)
      BY <1>1, <1>4, <2>1, <3>1, <3>2 DEF RichObjective, Step, SignersKept
    <3>5. [o EXCEPT ![event.step] = signers] \in RichObjective
      BY <1>1, <2>1, <3>4 DEF RichObjective, Step
    <3>6. \A step \in Step : SignersKept(w, step, [o EXCEPT ![event.step] = signers][step])
      BY <1>1, <2>1, <3>4 DEF RichObjective, Step
    <3>7. [o EXCEPT ![event.step] = signers].funding = o.funding
      BY <1>1, <2>1 DEF RichObjective, Step
    <3>. QED  BY <1>1, <3>3, <3>5, <3>6, <3>7 DEF Objectives
  <2>2. CASE event.step \notin Step
    <3>1. Processed(o, event) = [o EXCEPT !.status = "error"]
      BY <1>4, <2>2 DEF Processed
    <3>. QED  BY <1>1, <3>1 DEF Objectives, RichObjective, Step
  <2>. QED  BY <2>1, <2>2
<1>. QED  BY <1>2, <1>3, <1>4 DEF Events

\* A wallet that finds it is its turn to deposit asks for its own amount.
LEMMA FundingFacts ==
  ASSUME FundedWhenSigned, NEW w \in Wallet, NEW o \in RichObjective, o.funding <= holdings,
         NEW event
  PROVE  /\ Funding(w, o, event) \in {"funded", "safeToDeposit", "channelFunded", "deposit", "error"}
         /\ Funding(w, o, event) = "funded" => holdings = O!TargetTotal
         /\ Funding(w, o, event) = "deposit" =>
              /\ O!TargetAfter(w) - o.funding = Amount[w]
              /\ Amount[w] > 0 /\ holdings >= O!TargetBefore(w)
<1>1. PICK x \in Milestone : x = o.funding
  BY DEF RichObjective
<1>2. /\ x \in Nat /\ holdings \in Nat /\ O!TargetTotal \in Nat /\ x <= holdings
      /\ x <= O!TargetTotal /\ holdings <= O!TargetTotal
  BY <1>1, Milestones DEF FundedWhenSigned
<1>3. PICK lower, upper, amount, total :
        /\ lower = O!TargetBefore(w) /\ upper = O!TargetAfter(w)
        /\ amount = Amount[w] /\ total = O!TargetTotal
  OBVIOUS
<1>4. /\ lower \in Nat /\ amount \in Nat /\ total \in Nat /\ upper = lower + amount
      /\ x >= lower /\ x < upper => x = lower
  BY <1>3, Milestones
<1>5. Funding(w, o, event) =
        CASE x >= total -> "funded"
          [] x < lower -> "safeToDeposit"
          [] upper <= x /\ x < total -> "channelFunded"
          [] OTHER -> IF ~o.fundingRequest THEN "deposit"
                      ELSE IF event.type = "Crank" /\ event.late THEN "error" ELSE "channelFunded"
  BY <1>1, <1>3 DEF Funding
<1>6. Funding(w, o, event) \in {"funded", "safeToDeposit", "channelFunded", "deposit", "error"}
  BY <1>5
<1>7. Funding(w, o, event) = "funded" => x >= total
  BY <1>5
<1>8. ASSUME Funding(w, o, event) = "deposit" PROVE x = lower /\ amount > 0
  <2>1. ~(x >= total) /\ ~(x < lower) /\ ~(upper <= x /\ x < total)
    BY <1>5, <1>8
  <2>. QED  BY <1>2, <1>4, <2>1
<1>. QED  BY <1>1, <1>2, <1>3, <1>4, <1>6, <1>7, <1>8

\* What the cranker makes of an objective, and asks for.
Cranked(w, r) ==
  /\ r.objective \in RichObjective /\ r.objective.funding <= holdings
  /\ \A step \in Step : \A v \in r.objective[step] \ {w} : Kept(entry[w], TurnNum(step), v)
  /\ r.objective.postFundSetup \subseteq postfunded \cup {w}
  /\ w \in r.objective.postFundSetup => w \in postfunded \/ holdings = O!TargetTotal
  /\ r.objective.status = "success" =>
       r.objective.postFundSetup = Wallet /\ holdings = O!TargetTotal
  /\ r.actions \in Seq(ActionsOf(w, r.objective.postFundSetup))

\* Nothing is asked for, or states are sent that the objective has.
LEMMA SendsFacts ==
  ASSUME NEW w, NEW signers, NEW steps \in SUBSET Step,
         "postFundSetup" \in steps => w \in signers
  PROVE  SendStates(steps) \in Seq(ActionsOf(w, signers))
<1>1. [type |-> "sendStates", steps |-> steps] \in ActionsOf(w, signers)
  BY DEF ActionsOf
<1>2. <<>> \in Seq(ActionsOf(w, signers))
      /\ <<[type |-> "sendStates", steps |-> steps]>> \in Seq(ActionsOf(w, signers))
  BY <1>1
<1>. QED  BY <1>2 DEF SendStates

LEMMA AdvanceFacts ==
  ASSUME FundedWhenSigned, NEW w \in Wallet, NEW o \in Objectives(w), NEW event
  PROVE  Cranked(w, Advance(w, o, event))
<1>1. /\ o \in RichObjective /\ o.funding <= holdings
      /\ \A step \in Step : SignersKept(w, step, o[step])
  BY DEF Objectives
<1>2. PICK pre, post : pre = o.preFundSetup \cup {w} /\ post = o.postFundSetup \cup {w}
  OBVIOUS
<1>3. pre \in SUBSET Wallet /\ post \in SUBSET Wallet /\ w \in pre /\ w \in post
  BY <1>1, <1>2 DEF RichObjective
<1>4. /\ \A v \in o.preFundSetup \ {w} : Kept(entry[w], TurnNum("preFundSetup"), v)
      /\ \A v \in o.postFundSetup \ {w} : Kept(entry[w], TurnNum("postFundSetup"), v)
      /\ o.postFundSetup \subseteq postfunded
  BY <1>1 DEF SignersKept, Step
<1>5. PICK prefund : prefund = [o EXCEPT !.preFundSetup = pre]
  OBVIOUS
<1>6. PICK postfund : postfund = [prefund EXCEPT !.postFundSetup = post]
  OBVIOUS
<1>7. /\ prefund \in RichObjective /\ prefund.funding = o.funding /\ prefund.preFundSetup = pre
      /\ prefund.postFundSetup = o.postFundSetup
      /\ postfund \in RichObjective /\ postfund.funding = o.funding /\ postfund.preFundSetup = pre
      /\ postfund.postFundSetup = post
  BY <1>1, <1>3, <1>5, <1>6 DEF RichObjective
<1>8. PICK step : step = Funding(w, prefund, event)
  OBVIOUS
<1>9. /\ step \in {"funded", "safeToDeposit", "channelFunded", "deposit", "error"}
      /\ step = "funded" => holdings = O!TargetTotal
      /\ step = "deposit" => /\ O!TargetAfter(w) - o.funding = Amount[w]
                             /\ Amount[w] > 0 /\ holdings >= O!TargetBefore(w)
  BY <1>1, <1>7, <1>8, FundingFacts
<1>10. PICK r : r = Advance(w, o, event)
  OBVIOUS
<1>. DEFINE Unsigned(s) == IF w \in o[s] THEN {} ELSE {s}
<1>11. Unsigned("preFundSetup") \in SUBSET Step /\ Unsigned("postFundSetup") \in SUBSET Step
       /\ "postFundSetup" \notin Unsigned("preFundSetup")
  BY DEF Step
<1>. HIDE DEF Unsigned
<1>12. r = CASE ~o.approved -> [objective |-> [o EXCEPT !.status = "approval"], actions |-> <<>>]
             [] o.approved /\ ~Completed(prefund, "preFundSetup") ->
                  [objective |-> [prefund EXCEPT !.status = "theirPreFundSetup"],
                   actions |-> SendStates(Unsigned("preFundSetup"))]
             [] o.approved /\ Completed(prefund, "preFundSetup") /\ step # "funded" ->
                  [objective |-> [prefund EXCEPT !.status =
                                    IF step = "deposit" THEN "channelFunded" ELSE step],
                   actions |-> SendStates(Unsigned("preFundSetup")) \o
                     CASE step = "deposit" ->
                            <<[type |-> "deposit", amount |-> O!TargetAfter(w) - o.funding]>>
                       [] step = "error" -> Error
                       [] OTHER -> <<>>]
             [] OTHER ->
                  [objective |-> [postfund EXCEPT !.status =
                                    IF Completed(postfund, "postFundSetup") THEN "success"
                                    ELSE "theirPostFundSetup"],
                   actions |-> SendStates(Unsigned("preFundSetup") \cup Unsigned("postFundSetup"))]
  BY <1>2, <1>5, <1>6, <1>8, <1>10, Zenon DEF Advance, Unsigned
<1>13. \A signers : SendStates(Unsigned("preFundSetup")) \in Seq(ActionsOf(w, signers))
  BY <1>11, SendsFacts
<1>14. CASE ~o.approved
  <2>1. r = [objective |-> [o EXCEPT !.status = "approval"], actions |-> <<>>]
    BY <1>12, <1>14
  <2>2. r.actions = <<>>
    BY <2>1
  <2>3. r.objective = [o EXCEPT !.status = "approval"]
    BY <2>1
  <2>4. r.actions \in Seq(ActionsOf(w, r.objective.postFundSetup))
    BY <2>2
  <2>5. /\ r.objective \in RichObjective /\ r.objective.funding = o.funding
        /\ r.objective.preFundSetup = o.preFundSetup
        /\ r.objective.postFundSetup = o.postFundSetup /\ r.objective.status # "success"
    BY <1>1, <2>3 DEF RichObjective
  <2>. QED  BY <1>1, <1>4, <1>10, <2>4, <2>5 DEF Cranked, Step
<1>15. CASE o.approved /\ ~Completed(prefund, "preFundSetup")
  <2>1. r = [objective |-> [prefund EXCEPT !.status = "theirPreFundSetup"],
             actions |-> SendStates(Unsigned("preFundSetup"))]
    BY <1>12, <1>15
  <2>2. r.actions \in Seq(ActionsOf(w, r.objective.postFundSetup))
    BY <1>13, <2>1
  <2>3. r.objective = [prefund EXCEPT !.status = "theirPreFundSetup"]
    BY <2>1
  <2>4. /\ r.objective \in RichObjective /\ r.objective.funding = o.funding
        /\ r.objective.preFundSetup = pre
        /\ r.objective.postFundSetup = o.postFundSetup /\ r.objective.status # "success"
    BY <1>7, <2>3 DEF RichObjective
  <2>. QED  BY <1>1, <1>2, <1>4, <1>10, <2>2, <2>4 DEF Cranked, Step
<1>16. CASE o.approved /\ Completed(prefund, "preFundSetup") /\ step # "funded"
  <2>. DEFINE rest == CASE step = "deposit" ->
                             <<[type |-> "deposit", amount |-> O!TargetAfter(w) - o.funding]>>
                        [] step = "error" -> Error
                        [] OTHER -> <<>>
              status == IF step = "deposit" THEN "channelFunded" ELSE step
  <2>1. r = [objective |-> [prefund EXCEPT !.status = status],
             actions |-> SendStates(Unsigned("preFundSetup")) \o rest]
    BY <1>12, <1>16
  <2>2. rest \in Seq(ActionsOf(w, o.postFundSetup))
    <3>1. CASE step = "deposit"
      <4>1. pre = Wallet
        BY <1>7, <1>16 DEF Completed
      <4>2. Secured(w)
        BY <1>2, <1>4, <4>1, KeptIsSecured, StepTurns
      <4>3. [type |-> "deposit", amount |-> O!TargetAfter(w) - o.funding] \in ActionsOf(w, o.postFundSetup)
        BY <1>9, <3>1, <4>2 DEF ActionsOf, MayDeposit
      <4>4. rest = <<[type |-> "deposit", amount |-> O!TargetAfter(w) - o.funding]>>
        BY <3>1
      <4>. HIDE DEF rest
      <4>. QED  BY <4>3, <4>4, SeqSteps
    <3>2. CASE step = "error"
      <4>1. [type |-> "handleError"] \in ActionsOf(w, o.postFundSetup)
        BY DEF ActionsOf
      <4>2. rest = <<[type |-> "handleError"]>>
        BY <3>2 DEF Error
      <4>. HIDE DEF rest
      <4>. QED  BY <4>1, <4>2, SeqSteps
    <3>3. CASE step # "deposit" /\ step # "error"
      <4>1. rest = <<>>
        BY <3>3
      <4>. HIDE DEF rest
      <4>. QED  BY <4>1
    <3>. QED  BY <3>1, <3>2, <3>3
  <2>3. status \in {"safeToDeposit", "channelFunded", "error"}
    BY <1>9, <1>16
  <2>. HIDE DEF rest, status
  <2>4. r.objective = [prefund EXCEPT !.status = status]
        /\ r.actions = SendStates(Unsigned("preFundSetup")) \o rest
    BY <2>1
  <2>5. /\ r.objective \in RichObjective /\ r.objective.funding = o.funding
        /\ r.objective.preFundSetup = pre
        /\ r.objective.postFundSetup = o.postFundSetup /\ r.objective.status # "success"
    BY <1>7, <2>3, <2>4 DEF RichObjective
  <2>6. r.actions \in Seq(ActionsOf(w, r.objective.postFundSetup))
    BY <1>13, <2>2, <2>4, <2>5, SeqSteps
  <2>. QED  BY <1>1, <1>2, <1>4, <1>10, <2>5, <2>6 DEF Cranked, Step
<1>17. CASE o.approved /\ Completed(prefund, "preFundSetup") /\ step = "funded"
  <2>. DEFINE status == IF Completed(postfund, "postFundSetup") THEN "success" ELSE "theirPostFundSetup"
  <2>1. r = [objective |-> [postfund EXCEPT !.status = status],
             actions |-> SendStates(Unsigned("preFundSetup") \cup Unsigned("postFundSetup"))]
    BY <1>12, <1>17
  <2>2. status \in {"success", "theirPostFundSetup"} /\ (status = "success" => post = Wallet)
    BY <1>7 DEF Completed
  <2>. HIDE DEF status
  <2>3. r.objective = [postfund EXCEPT !.status = status]
        /\ r.actions = SendStates(Unsigned("preFundSetup") \cup Unsigned("postFundSetup"))
    BY <2>1
  <2>4. /\ r.objective \in RichObjective /\ r.objective.funding = o.funding
        /\ r.objective.preFundSetup = pre
        /\ r.objective.postFundSetup = post /\ r.objective.status = status
    BY <1>7, <2>2, <2>3 DEF RichObjective
  <2>5. SendStates(Unsigned("preFundSetup") \cup Unsigned("postFundSetup"))
          \in Seq(ActionsOf(w, post))
    BY <1>3, <1>11, SendsFacts
  <2>6. r.actions \in Seq(ActionsOf(w, r.objective.postFundSetup))
    BY <2>3, <2>4, <2>5
  <2>7. holdings = O!TargetTotal
    BY <1>9, <1>17
  <2>. QED  BY <1>1, <1>2, <1>3, <1>4, <1>10, <2>2, <2>4, <2>6, <2>7 DEF Cranked, Step
<1>18. o.approved \in BOOLEAN
  BY <1>1 DEF RichObjective
<1>. QED  BY <1>10, <1>14, <1>15, <1>16, <1>17, <1>18

\* So a crank leaves nothing but what it should, however old what it started from.
LEMMA CrankerFacts ==
  ASSUME FundedWhenSigned, NEW w \in Wallet, NEW o \in Objectives(w), NEW event \in Events(w)
  PROVE  Cranked(w, OpenChannelCranker(w, o, event))
<1>1. PICK processed \in Objectives(w) : processed = Processed(o, event)
  BY ProcessedFacts
<1>2. CASE event.type = "StatesReceived" /\ event.step \notin Step
  <2>1. PICK r : r = [objective |-> processed, actions |-> Error]
    OBVIOUS
  <2>2. r = OpenChannelCranker(w, o, event)
    BY <1>1, <1>2, <2>1 DEF OpenChannelCranker
  <2>3. r.objective = processed /\ r.actions = Error
    BY <2>1
  <2>4. processed = [o EXCEPT !.status = "error"] /\ processed.status = "error"
    BY <1>1, <1>2 DEF Processed, Objectives, RichObjective
  <2>5. [type |-> "handleError"] \in ActionsOf(w, processed.postFundSetup)
    BY DEF ActionsOf
  <2>6. Error \in Seq(ActionsOf(w, processed.postFundSetup))
    BY <2>5, SeqSteps DEF Error
  <2>7. /\ processed \in RichObjective /\ processed.funding <= holdings
        /\ \A step \in Step : SignersKept(w, step, processed[step])
    BY DEF Objectives
  <2>. QED  BY <2>2, <2>3, <2>4, <2>6, <2>7 DEF Cranked, SignersKept, Step
<1>3. CASE ~(event.type = "StatesReceived" /\ event.step \notin Step)
  <2>1. OpenChannelCranker(w, o, event) = Advance(w, processed, event)
    BY <1>1, <1>3 DEF OpenChannelCranker
  <2>. QED  BY <2>1, AdvanceFacts
<1>. QED  BY <1>2, <1>3

------------------------------------------------------------------------------
(* Every step keeps the invariant. *)

DescribedTx(tx) ==
  \E w \in Wallet :
    /\ tx = [from |-> w, before |-> O!TargetBefore(w), amount |-> Amount[w]]
    /\ MayDeposit(w)
CranksOf(w) == [event : Events(w), snapshot : Objectives(w)]
ObjectiveMessages == [to : Wallet, type : {"objective"}]

\* What a step does not touch stays as described.
LEMMA Rebuild ==
  ASSUME RichInv, Growing, RichShapes', FundedWhenSigned', Stored',
         \A w \in Wallet :
           /\ objective'[w] \in {objective[w]} \cup Objectives(w)'
           /\ cranks'[w] = cranks[w] \/ cranks'[w] \in Seq(CranksOf(w)')
           /\ running'[w] = running[w] \/ running'[w] \in Seq(RunnersOf(Actions(w)'))
           /\ notices'[w] \subseteq notices[w] \cup (KnownHoldings' \ {0}),
         net' \subseteq net \cup StateMessages' \cup ObjectiveMessages,
         \A tx \in mempool' \ mempool : DescribedTx(tx)'
  PROVE  RichInv'
<1>1. ASSUME NEW w \in Wallet
      PROVE  /\ objective'[w] \in {NoObjective} \cup Objectives(w)'
             /\ cranks'[w] \in Seq([event : Events(w)', snapshot : Objectives(w)'])
             /\ running'[w] \in Seq(RunnersOf(Actions(w)'))
  <2>1. /\ objective[w] \in {NoObjective} \cup Objectives(w)
        /\ cranks[w] \in Seq([event : Events(w), snapshot : Objectives(w)])
        /\ running[w] \in Seq(RunnersOf(Actions(w)))
    BY DEF RichInv, InMemory
  <2>2. objective'[w] \in {NoObjective} \cup Objectives(w)'
    BY <2>1, DescriptionsGrow
  <2>3. cranks'[w] \in Seq([event : Events(w)', snapshot : Objectives(w)'])
    BY <2>1, ListsGrow DEF CranksOf
  <2>4. running'[w] \in Seq(RunnersOf(Actions(w)'))
    BY <2>1, ListsGrow
  <2>. QED  BY <2>2, <2>3, <2>4
<1>2. InMemory'
  BY <1>1 DEF InMemory, RunnersOf
<1>3. net' \subseteq (StateMessages \cup ObjectiveMessages)'
  <2>1. net \subseteq StateMessages \cup ObjectiveMessages
    BY DEF RichInv, UnderWay, ObjectiveMessages
  <2>2. Wallet # {}
    BY Milestones
  <2>3. StateMessages \subseteq StateMessages'
    BY <2>2, DescriptionsGrow
  <2>. QED  BY <2>1, <2>3 DEF ObjectiveMessages
<1>4. \A tx \in mempool' : DescribedTx(tx)'
  <2>. SUFFICES ASSUME NEW tx \in mempool PROVE DescribedTx(tx)'
    OBVIOUS
  <2>1. PICK w \in Wallet : /\ tx = [from |-> w, before |-> O!TargetBefore(w), amount |-> Amount[w]]
                            /\ MayDeposit(w)
    BY DEF RichInv, UnderWay
  <2>2. MayDeposit(w)'
    BY <2>1, DescriptionsGrow
  <2>. QED  BY <2>1, <2>2 DEF DescribedTx
<1>5. \A w \in Wallet : notices'[w] \subseteq (KnownHoldings \ {0})'
  <2>. SUFFICES ASSUME NEW w \in Wallet PROVE notices'[w] \subseteq (KnownHoldings \ {0})'
    OBVIOUS
  <2>1. notices[w] \subseteq KnownHoldings \ {0}
    BY DEF RichInv, UnderWay
  <2>. QED  BY <2>1, DescriptionsGrow
<1>6. UnderWay'
  BY <1>3, <1>4, <1>5 DEF UnderWay, ObjectiveMessages, DescribedTx
<1>. QED  BY <1>2, <1>6 DEF RichInv

\* Where the store and the channel stay as they are, everything does.
LEMMA SameGrows ==
  ASSUME RichInv, UNCHANGED <<holdings, postfunded, entry>>
  PROVE  Growing /\ FundedWhenSigned' /\ Stored'
<1>1. holdings \in Nat
  BY Milestones DEF RichInv, FundedWhenSigned
<1>2. Growing
  BY <1>1 DEF Growing
<1>3. FundedWhenSigned'
  BY DEF RichInv, FundedWhenSigned
<1>4. Stored'
  BY DEF RichInv, Stored
<1>. QED  BY <1>2, <1>3, <1>4

\* One more crank.
LEMMA CrankingFacts ==
  ASSUME RichInv, Growing, NEW w \in Wallet, NEW event \in Events(w)',
         cranks' = Cranking(w, event)
  PROVE  /\ cranks' = [x \in Wallet |-> cranks'[x]]
         /\ \A x \in Wallet : cranks'[x] = cranks[x] \/ cranks'[x] \in Seq(CranksOf(x)')
<1>1. cranks = [x \in Wallet |-> cranks[x]]
  BY DEF RichInv, RichShapes
<1>2. CASE objective[w] = NoObjective
  BY <1>1, <1>2 DEF Cranking
<1>3. CASE objective[w] # NoObjective
  <2>1. PICK crank : crank = [event |-> event, snapshot |-> objective[w]]
    OBVIOUS
  <2>2. cranks' = [cranks EXCEPT ![w] = Append(@, crank)]
    BY <1>3, <2>1 DEF Cranking
  <2>3. objective[w] \in Objectives(w) /\ cranks[w] \in Seq([event : Events(w), snapshot : Objectives(w)])
    BY <1>3 DEF RichInv, InMemory
  <2>4. crank \in CranksOf(w)'
    BY <2>1, <2>3, DescriptionsGrow DEF CranksOf
  <2>5. cranks[w] \in Seq(CranksOf(w)')
    BY <2>3, ListsGrow DEF CranksOf
  <2>6. Append(cranks[w], crank) \in Seq(CranksOf(w)')
    BY <2>4, <2>5, SeqSteps
  <2>. QED  BY <1>1, <2>2, <2>6
<1>. QED  BY <1>2, <1>3

\* What is left of a handler.
LEMMA RunnerFacts ==
  ASSUME RichInv, NEW w \in Wallet, NEW k \in 1 .. Len(running[w])
  PROVE  /\ running[w] \in Seq(RunnersOf(Actions(w)))
         /\ running[w][k] \in RunnersOf(Actions(w))
         /\ Action(w, k) \in Actions(w)
         /\ Tail(running[w][k].todo) \in Seq(Actions(w))
         /\ RemoveAt(running[w], k) \in Seq(RunnersOf(Actions(w)))
<1>1. running[w] \in Seq(RunnersOf(Actions(w)))
  BY DEF RichInv, InMemory
<1>2. running[w][k] \in RunnersOf(Actions(w)) /\ RemoveAt(running[w], k) \in Seq(RunnersOf(Actions(w)))
  BY <1>1, SeqSteps
<1>3. running[w][k].todo \in Seq(Actions(w)) /\ running[w][k].todo # <<>>
  BY <1>2 DEF RunnersOf
<1>. QED  BY <1>1, <1>2, <1>3, SeqSteps DEF Action

LEMMA DoneFacts ==
  ASSUME RichInv, NEW w \in Wallet, NEW k \in 1 .. Len(running[w]), Done(w, k)
  PROVE  /\ running' = [x \in Wallet |-> running'[x]]
         /\ running'[w] \in Seq(RunnersOf(Actions(w)))
         /\ \A x \in Wallet \ {w} : running'[x] = running[x]
<1>1. running = [x \in Wallet |-> running[x]]
  BY DEF RichInv, RichShapes
<1>2. PICK runner : runner = running[w][k]
  OBVIOUS
<1>3. PICK left : left = Tail(runner.todo)
  OBVIOUS
<1>4. /\ runner \in RunnersOf(Actions(w)) /\ left \in Seq(Actions(w))
      /\ running[w] \in Seq(RunnersOf(Actions(w)))
      /\ RemoveAt(running[w], k) \in Seq(RunnersOf(Actions(w)))
  BY <1>2, <1>3, RunnerFacts
<1>5. CASE left = <<>>
  <2>1. running' = [running EXCEPT ![w] = RemoveAt(running[w], k)]
    BY <1>2, <1>3, <1>5 DEF Done
  <2>. QED  BY <1>1, <1>4, <2>1
<1>6. CASE left # <<>>
  <2>1. PICK rest : rest = [runner EXCEPT !.todo = left]
    OBVIOUS
  <2>2. rest \in RunnersOf(Actions(w))
    BY <1>4, <1>6, <2>1 DEF RunnersOf
  <2>3. PICK list : list = [running[w] EXCEPT ![k] = rest]
    OBVIOUS
  <2>4. running' = [running EXCEPT ![w] = list]
    BY <1>2, <1>3, <1>6, <2>1, <2>3 DEF Done
  <2>5. list \in Seq(RunnersOf(Actions(w)))
    BY <1>4, <2>2, <2>3, SeqSteps
  <2>. QED  BY <1>1, <2>4, <2>5
<1>. QED  BY <1>5, <1>6

LEMMA RichInit == ASSUME Init PROVE RichInv
<1>. USE DEF Init
<1>1. holdings = 0 /\ postfunded = {} /\ holdings \in Milestone
  BY Milestones DEF O!OpeningInit
<1>2. FundedWhenSigned
  BY <1>1 DEF FundedWhenSigned
<1>3. Stored /\ RichShapes
  BY DEF Stored, RichShapes, InvariantsHold
<1>4. InMemory
  BY DEF InMemory
<1>5. UnderWay
  BY DEF UnderWay
<1>. QED  BY <1>2, <1>3, <1>4, <1>5 DEF RichInv

\* An objective that begins knows of the signatures in the store.
LEMMA InitializeFacts ==
  ASSUME RichInv, NEW w \in Wallet, NEW signers \in SUBSET Wallet,
         \A v \in signers : Kept(entry[w], 0, v)
  PROVE  Initialize(signers) \in Objectives(w)
<1>1. PICK o : o = Initialize(signers)
  OBVIOUS
<1>2. o = [status |-> "approval", approved |-> FALSE, preFundSetup |-> signers,
           postFundSetup |-> {}, funding |-> 0, fundingRequest |-> FALSE]
  BY <1>1 DEF Initialize
<1>3. o \in RichObjective /\ o.funding = 0 /\ o.preFundSetup = signers /\ o.postFundSetup = {}
  BY <1>2, Milestones DEF RichObjective
<1>4. 0 <= holdings
  BY Milestones DEF RichInv, FundedWhenSigned
<1>5. \A step \in Step : SignersKept(w, step, o[step])
  BY <1>3, StepTurns DEF SignersKept
<1>. QED  BY <1>1, <1>3, <1>4, <1>5 DEF Objectives

LEMMA CreateChannelKeeps == ASSUME RichInv, CreateChannel PROVE RichInv'
<1>1. /\ objective' = [objective EXCEPT ![Creator] = Initialize({})]
      /\ UNCHANGED <<holdings, postfunded, entry, cranks, running, net, mempool, notices>>
  BY DEF CreateChannel, opening
<1>2. Creator \in Wallet
  BY Milestones DEF Creator
<1>3. Initialize({}) \in Objectives(Creator)
  BY <1>2, InitializeFacts
<1>4. Growing /\ FundedWhenSigned' /\ Stored'
  BY <1>1, SameGrows
<1>5. RichShapes'
  BY <1>1 DEF RichInv, RichShapes
<1>6. Objectives(Creator) \subseteq Objectives(Creator)'
  BY <1>2, <1>4, DescriptionsGrow
<1>7. \A w \in Wallet : objective'[w] \in {objective[w]} \cup Objectives(w)'
  BY <1>1, <1>3, <1>6 DEF RichInv, RichShapes
<1>. QED  BY <1>1, <1>4, <1>5, <1>7, Rebuild

\* A crank more, and nothing else that matters.
LEMMA OneMoreCrank ==
  ASSUME RichInv, NEW w \in Wallet, NEW event \in Events(w), cranks' = Cranking(w, event),
         UNCHANGED <<holdings, postfunded, entry, objective, running, net, mempool>>,
         notices' = [x \in Wallet |-> notices'[x]],
         \A x \in Wallet : notices'[x] \subseteq notices[x]
  PROVE  RichInv'
<1>1. Growing /\ FundedWhenSigned' /\ Stored'
  BY SameGrows
<1>2. event \in Events(w)'
  BY <1>1, DescriptionsGrow
<1>3. /\ cranks' = [x \in Wallet |-> cranks'[x]]
      /\ \A x \in Wallet : cranks'[x] = cranks[x] \/ cranks'[x] \in Seq(CranksOf(x)')
  BY <1>1, <1>2, CrankingFacts
<1>4. RichShapes'
  BY <1>3 DEF RichInv, RichShapes
<1>5. \A x \in Wallet : objective'[x] \in {objective[x]} \cup Objectives(x)'
  OBVIOUS
<1>. QED  BY <1>1, <1>3, <1>4, <1>5, Rebuild

LEMMA ApproveKeeps == ASSUME RichInv, NEW w \in Wallet, Approve(w) PROVE RichInv'
<1>1. PICK event : event = [type |-> "Approval"]
  OBVIOUS
<1>2. event \in Events(w)
  BY <1>1 DEF Events
<1>3. /\ cranks' = Cranking(w, event)
      /\ UNCHANGED <<holdings, postfunded, entry, objective, running, net, mempool, notices>>
  BY <1>1 DEF Approve, opening
<1>4. notices = [x \in Wallet |-> notices[x]]
  BY DEF RichInv, RichShapes
<1>. QED  BY <1>2, <1>3, <1>4, OneMoreCrank

LEMMA TriggerKeeps ==
  ASSUME RichInv, NEW w \in Wallet, NEW late \in BOOLEAN, Trigger(w, late) PROVE RichInv'
<1>1. PICK event : event = [type |-> "Crank", late |-> late]
  OBVIOUS
<1>2. event \in Events(w)
  BY <1>1 DEF Events
<1>3. /\ cranks' = Cranking(w, event)
      /\ UNCHANGED <<holdings, postfunded, entry, objective, running, net, mempool, notices>>
  BY <1>1 DEF Trigger, opening
<1>4. notices = [x \in Wallet |-> notices[x]]
  BY DEF RichInv, RichShapes
<1>. QED  BY <1>2, <1>3, <1>4, OneMoreCrank

LEMMA FundingUpdatedKeeps ==
  ASSUME RichInv, NEW w \in Wallet, NEW amount, FundingUpdated(w, amount) PROVE RichInv'
<1>1. PICK event : event = [type |-> "FundingUpdated", amount |-> amount]
  OBVIOUS
<1>2. amount \in KnownHoldings
  BY DEF FundingUpdated, RichInv, UnderWay
<1>3. event \in Events(w)
  BY <1>1, <1>2 DEF Events
<1>4. /\ cranks' = Cranking(w, event)
      /\ notices' = [notices EXCEPT ![w] = @ \ {amount}]
      /\ UNCHANGED <<holdings, postfunded, entry, objective, running, net, mempool>>
  BY <1>1 DEF FundingUpdated, opening
<1>5. notices = [x \in Wallet |-> notices[x]]
  BY DEF RichInv, RichShapes
<1>6. notices' = [x \in Wallet |-> notices'[x]] /\ \A x \in Wallet : notices'[x] \subseteq notices[x]
  BY <1>4, <1>5
<1>. QED  BY <1>3, <1>4, <1>6, OneMoreCrank

\* What a handler sends along with an action.
LEMMA SendObjectiveFacts ==
  ASSUME NEW w \in Wallet, NEW k
  PROVE  SendObjective(w, k) \subseteq ObjectiveMessages
BY DEF SendObjective, ToOthers, ObjectiveMessage, ObjectiveMessages

LEMMA DepositSubmittedKeeps ==
  ASSUME RichInv, NEW w \in Wallet, NEW k \in 1 .. Len(running[w]), DepositSubmitted(w, k)
  PROVE  RichInv'
<1>1. PICK event : event = [type |-> "DepositSubmitted"]
  OBVIOUS
<1>2. /\ cranks' = Cranking(w, event)
      /\ net' = net \cup SendObjective(w, k) /\ Done(w, k)
      /\ UNCHANGED <<holdings, postfunded, entry, objective, mempool, notices>>
  BY <1>1 DEF DepositSubmitted, opening
<1>3. Growing /\ FundedWhenSigned' /\ Stored'
  BY <1>2, SameGrows
<1>4. event \in Events(w)'
  BY <1>1 DEF Events
<1>5. /\ cranks' = [x \in Wallet |-> cranks'[x]]
      /\ \A x \in Wallet : cranks'[x] = cranks[x] \/ cranks'[x] \in Seq(CranksOf(x)')
  BY <1>2, <1>3, <1>4, CrankingFacts
<1>6. /\ running' = [x \in Wallet |-> running'[x]]
      /\ running'[w] \in Seq(RunnersOf(Actions(w)))
      /\ \A x \in Wallet \ {w} : running'[x] = running[x]
  BY <1>2, DoneFacts
<1>7. running'[w] \in Seq(RunnersOf(Actions(w)'))
  BY <1>3, <1>6, ListsGrow
<1>8. RichShapes'
  BY <1>2, <1>5, <1>6 DEF RichInv, RichShapes
<1>9. net' \subseteq net \cup StateMessages' \cup ObjectiveMessages
  BY <1>2, SendObjectiveFacts
<1>. QED  BY <1>2, <1>3, <1>5, <1>6, <1>7, <1>8, <1>9, Rebuild

LEMMA ThrowKeeps ==
  ASSUME RichInv, NEW w \in Wallet, NEW k \in 1 .. Len(running[w]), Throw(w, k)
  PROVE  RichInv'
<1>1. /\ running' = [running EXCEPT ![w] = RemoveAt(@, k)]
      /\ UNCHANGED <<holdings, postfunded, entry, objective, cranks, net, mempool, notices>>
  BY DEF Throw, opening
<1>2. Growing /\ FundedWhenSigned' /\ Stored'
  BY <1>1, SameGrows
<1>3. RemoveAt(running[w], k) \in Seq(RunnersOf(Actions(w)'))
  BY <1>2, RunnerFacts, ListsGrow
<1>4. RichShapes' /\ \A x \in Wallet : running'[x] = running[x] \/ running'[x] \in Seq(RunnersOf(Actions(x)'))
  BY <1>1, <1>3 DEF RichInv, RichShapes
<1>. QED  BY <1>1, <1>2, <1>4, Rebuild

\* The transaction is the wallet's own deposit.
LEMMA SubmitDepositKeeps ==
  ASSUME RichInv, NEW w \in Wallet, NEW k \in 1 .. Len(running[w]), SubmitDeposit(w, k)
  PROVE  RichInv'
<1>1. PICK tx, rest :
        /\ tx = [from |-> w, before |-> O!TargetBefore(w), amount |-> Action(w, k).amount]
        /\ rest = <<[type |-> "submitted"]>> \o Tail(running[w][k].todo)
  OBVIOUS
<1>2. PICK runner : runner = [running[w][k] EXCEPT !.todo = rest]
  OBVIOUS
<1>3. PICK list : list = [running[w] EXCEPT ![k] = runner]
  OBVIOUS
<1>4. /\ Action(w, k).type = "deposit" /\ mempool' = mempool \cup {tx}
      /\ running' = [running EXCEPT ![w] = list]
      /\ UNCHANGED <<holdings, postfunded, entry, objective, cranks, net, notices>>
  BY <1>1, <1>2, <1>3 DEF SubmitDeposit, opening
<1>5. Growing /\ FundedWhenSigned' /\ Stored'
  BY <1>4, SameGrows
<1>6. Action(w, k).amount = Amount[w] /\ MayDeposit(w)
  BY <1>4, RunnerFacts DEF Actions, ActionsOf
<1>7. DescribedTx(tx)'
  <2>1. MayDeposit(w)'
    BY <1>5, <1>6, DescriptionsGrow
  <2>. QED  BY <1>1, <1>6, <2>1 DEF DescribedTx
<1>8. list \in Seq(RunnersOf(Actions(w)'))
  <2>1. [type |-> "submitted"] \in Actions(w)
    BY DEF Actions, ActionsOf
  <2>2. <<[type |-> "submitted"]>> \in Seq(Actions(w)) /\ Tail(running[w][k].todo) \in Seq(Actions(w))
    BY <2>1, RunnerFacts
  <2>3. rest \in Seq(Actions(w)) /\ rest # <<>>
    BY <1>1, <2>2
  <2>4. runner \in RunnersOf(Actions(w))
    BY <1>2, <2>3, RunnerFacts DEF RunnersOf
  <2>5. list \in Seq(RunnersOf(Actions(w)))
    BY <1>3, <2>4, RunnerFacts, SeqSteps
  <2>. QED  BY <1>5, <2>5, ListsGrow
<1>9. RichShapes' /\ \A x \in Wallet : running'[x] = running[x] \/ running'[x] \in Seq(RunnersOf(Actions(x)'))
  BY <1>4, <1>8 DEF RichInv, RichShapes
<1>. QED  BY <1>4, <1>5, <1>7, <1>9, Rebuild

LEMMA PeerUpdatesKeeps == ASSUME RichInv, NEW w \in Wallet, PeerUpdates(w) PROVE RichInv'
<1>1. /\ net' = net \cup {StateMessage(v, "app", {w}) : v \in Wallet \ {w}}
      /\ UNCHANGED <<holdings, postfunded, entry, objective, cranks, running, mempool, notices>>
  BY DEF PeerUpdates, opening, wallets
<1>2. Growing /\ FundedWhenSigned' /\ Stored'
  BY <1>1, SameGrows
<1>3. RichShapes'
  BY <1>1 DEF RichInv, RichShapes
<1>4. net' \subseteq net \cup StateMessages' \cup ObjectiveMessages
  BY <1>1 DEF StateMessage, StateMessages
<1>. QED  BY <1>1, <1>2, <1>3, <1>4, Rebuild

\* A wallet stores more, and forgets only what is older than its support.
LEMMA EntryGrows ==
  ASSUME RichInv, NEW w \in Wallet, NEW g \in SUBSET StoredState, InvariantsHold(g),
         entry' = [entry EXCEPT ![w] = g], UNCHANGED <<holdings, postfunded>>,
         \A turn \in Nat, v \in Wallet : Kept(entry[w], turn, v) => Kept(g, turn, v),
         IsSupported(nWallets, entry[w]) => IsSupported(nWallets, g)
  PROVE  Growing /\ FundedWhenSigned' /\ Stored' /\ entry' \in [Wallet -> SUBSET StoredState]
<1>1. entry \in [Wallet -> SUBSET StoredState] /\ holdings \in Nat
  BY Milestones DEF RichInv, RichShapes, FundedWhenSigned
<1>2. entry' \in [Wallet -> SUBSET StoredState] /\ entry'[w] = g
      /\ \A x \in Wallet \ {w} : entry'[x] = entry[x]
  BY <1>1
<1>3. Growing
  <2>1. ASSUME NEW x \in Wallet, NEW turn \in Nat, NEW v \in Wallet, Kept(entry[x], turn, v)
        PROVE  Kept(entry'[x], turn, v)
    <3>1. CASE x = w
      BY <1>2, <2>1, <3>1
    <3>2. CASE x # w
      <4>1. entry'[x] = entry[x]
        BY <1>2, <3>2
      <4>. QED  BY <2>1, <4>1
    <3>. QED  BY <3>1, <3>2
  <2>2. ASSUME NEW x \in Wallet, IsSupported(nWallets, entry[x])
        PROVE  IsSupported(nWallets, entry'[x])
    <3>1. CASE x = w
      BY <1>2, <2>2, <3>1
    <3>2. CASE x # w
      <4>1. entry'[x] = entry[x]
        BY <1>2, <3>2
      <4>. QED  BY <2>2, <4>1
    <3>. QED  BY <3>1, <3>2
  <2>. QED  BY <1>1, <2>1, <2>2 DEF Growing
<1>4. FundedWhenSigned'
  BY DEF RichInv, FundedWhenSigned
<1>5. Stored'
  <2>1. \A x \in Wallet : InvariantsHold(entry'[x])
    <3>. SUFFICES ASSUME NEW x \in Wallet PROVE InvariantsHold(entry'[x])
      OBVIOUS
    <3>1. CASE x = w
      BY <1>2, <3>1
    <3>2. CASE x # w
      <4>1. entry'[x] = entry[x] /\ InvariantsHold(entry[x])
        BY <1>2, <3>2 DEF RichInv, Stored
      <4>. QED  BY <4>1
    <3>. QED  BY <3>1, <3>2
  <2>. QED  BY <1>2, <2>1 DEF Stored
<1>. QED  BY <1>2, <1>3, <1>4, <1>5

\* A setup state is one that is stored.
LEMMA SetupStates ==
  /\ \A step \in Step, signers \in SUBSET Wallet :
       /\ SetupState(step, signers) \in StoredState
       /\ SetupState(step, signers).turn = TurnNum(step)
       /\ SetupState(step, signers).signers = signers
  /\ \A signers \in SUBSET Wallet :
       SignedState(2 * nWallets, FALSE, "app", signers) \in StoredState
<1>1. 2 * nWallets \notin SetupTurn
  BY AmountAssumption DEF SetupTurn
<1>. QED  BY <1>1, StepTurns DEF SetupState, SignedState, StoredState

LEMMA ReceiveStatesKeeps ==
  ASSUME RichInv, NEW w \in Wallet, NEW message, ReceiveStates(w, message) PROVE RichInv'
<1>1. PICK s : s = IF message.step \in Step THEN SetupState(message.step, message.signers)
                   ELSE SignedState(2 * nWallets, FALSE, "app", message.signers)
  OBVIOUS
<1>2. PICK event : event = [type |-> "StatesReceived", step |-> message.step,
                            signers |-> message.signers]
  OBVIOUS
<1>3. PICK g : g = AddState(nWallets, entry[w], s)
  OBVIOUS
<1>4. /\ message \in net /\ message.type = "state" /\ net' = net \ {message}
      /\ entry' = [entry EXCEPT ![w] = g]
      /\ cranks' = Cranking(w, event)
      /\ UNCHANGED <<holdings, postfunded, objective, running, mempool, notices>>
  BY <1>1, <1>2, <1>3 DEF ReceiveStates, opening
<1>5. message \in StateMessages
  BY <1>4 DEF RichInv, UnderWay
<1>6. message.step \in Step \cup {"app"} /\ message.signers \in SUBSET Wallet
  BY <1>5 DEF StateMessages
<1>7. s \in StoredState
  BY <1>1, <1>6, SetupStates
<1>8. entry[w] \in SUBSET StoredState /\ InvariantsHold(entry[w])
  BY DEF RichInv, Stored
<1>9. /\ g \in SUBSET StoredState /\ InvariantsHold(g)
      /\ \A turn \in Nat, v \in Wallet : Kept(entry[w], turn, v) => Kept(g, turn, v)
      /\ \A v \in s.signers : Kept(g, s.turn, v)
      /\ IsSupported(nWallets, entry[w]) => IsSupported(nWallets, g)
  BY <1>3, <1>7, <1>8, AddStateFacts
<1>10. Growing /\ FundedWhenSigned' /\ Stored' /\ entry' \in [Wallet -> SUBSET StoredState]
  BY <1>4, <1>9, EntryGrows
<1>11. event \in Events(w)'
  <2>1. ASSUME message.step \in Step PROVE SignersKept(w, message.step, message.signers)'
    <3>1. s.turn = TurnNum(message.step) /\ s.signers = message.signers
      BY <1>1, <1>6, <2>1, SetupStates
    <3>2. entry'[w] = g
      BY <1>4 DEF RichInv, RichShapes
    <3>3. message.step = "postFundSetup" => message.signers \subseteq postfunded'
      BY <1>4, <1>5 DEF StateMessages
    <3>. QED  BY <1>9, <3>1, <3>2, <3>3 DEF SignersKept
  <2>2. event \in [type : {"StatesReceived"}, step : Step \cup {"app"}, signers : SUBSET Wallet]
        /\ event.step = message.step /\ event.signers = message.signers
    BY <1>2, <1>6
  <2>. QED  BY <2>1, <2>2 DEF Events
<1>12. /\ cranks' = [x \in Wallet |-> cranks'[x]]
       /\ \A x \in Wallet : cranks'[x] = cranks[x] \/ cranks'[x] \in Seq(CranksOf(x)')
  BY <1>4, <1>10, <1>11, CrankingFacts
<1>13. RichShapes'
  BY <1>4, <1>10, <1>12 DEF RichInv, RichShapes
<1>. QED  BY <1>4, <1>10, <1>12, <1>13, Rebuild


\* My signature is stored before it is sent.
LEMMA PerformSendStatesKeeps ==
  ASSUME RichInv, NEW w \in Wallet, NEW k \in 1 .. Len(running[w]), PerformSendStates(w, k)
  PROVE  RichInv'
<1>1. PICK steps : steps = Action(w, k).steps
  OBVIOUS
<1>2. PICK g : g = IF "preFundSetup" \in steps
                   THEN AddState(nWallets, entry[w], SetupState("preFundSetup", {w})) ELSE entry[w]
  OBVIOUS
<1>3. PICK h : h = IF "postFundSetup" \in steps
                   THEN AddState(nWallets, g, SetupState("postFundSetup", {w})) ELSE g
  OBVIOUS
<1>4. /\ Action(w, k).type = "sendStates"
      /\ entry' = [entry EXCEPT ![w] = h]
      /\ net' = net \cup (UNION {Sent(w, step) : step \in steps}) \cup SendObjective(w, k)
      /\ Done(w, k)
      /\ UNCHANGED <<holdings, postfunded, objective, cranks, mempool, notices>>
  <2>1. /\ Action(w, k).type = "sendStates"
        /\ entry' = [entry EXCEPT ![w] = h]
        /\ Done(w, k)
        /\ UNCHANGED <<holdings, postfunded, objective, cranks, mempool, notices>>
    BY <1>1, <1>2, <1>3 DEF PerformSendStates, opening
  <2>2. net' = net \cup (UNION {Sent(w, step) : step \in steps}) \cup SendObjective(w, k)
    BY <1>1 DEF PerformSendStates
  <2>. QED  BY <1>1, <2>1, <2>2
<1>5. steps \subseteq Step /\ ("postFundSetup" \in steps => w \in postfunded)
  BY <1>1, <1>4, RunnerFacts DEF Actions, ActionsOf
<1>6. SetupState("preFundSetup", {w}) \in StoredState /\ SetupState("postFundSetup", {w}) \in StoredState
  BY SetupStates DEF Step
<1>7. entry[w] \in SUBSET StoredState /\ InvariantsHold(entry[w])
  BY DEF RichInv, Stored
<1>8. /\ g \in SUBSET StoredState /\ InvariantsHold(g)
      /\ \A turn \in Nat, v \in Wallet : Kept(entry[w], turn, v) => Kept(g, turn, v)
      /\ IsSupported(nWallets, entry[w]) => IsSupported(nWallets, g)
  <2>1. CASE "preFundSetup" \in steps
    <3>1. PICK s : s = SetupState("preFundSetup", {w})
      OBVIOUS
    <3>2. g = AddState(nWallets, entry[w], s)
      BY <1>2, <2>1, <3>1
    <3>3. s \in StoredState
      BY <1>6, <3>1
    <3>. QED  BY <1>7, <3>2, <3>3, AddStateFacts
  <2>2. CASE "preFundSetup" \notin steps
    BY <1>2, <1>7, <2>2
  <2>. QED  BY <2>1, <2>2
<1>9. /\ h \in SUBSET StoredState /\ InvariantsHold(h)
      /\ \A turn \in Nat, v \in Wallet : Kept(g, turn, v) => Kept(h, turn, v)
      /\ IsSupported(nWallets, g) => IsSupported(nWallets, h)
  <2>1. CASE "postFundSetup" \in steps
    <3>1. PICK s : s = SetupState("postFundSetup", {w})
      OBVIOUS
    <3>2. h = AddState(nWallets, g, s)
      BY <1>3, <2>1, <3>1
    <3>3. s \in StoredState
      BY <1>6, <3>1
    <3>. QED  BY <1>8, <3>2, <3>3, AddStateFacts
  <2>2. CASE "postFundSetup" \notin steps
    BY <1>3, <1>8, <2>2
  <2>. QED  BY <2>1, <2>2
<1>10. Growing /\ FundedWhenSigned' /\ Stored' /\ entry' \in [Wallet -> SUBSET StoredState]
  BY <1>4, <1>8, <1>9, EntryGrows
<1>11. /\ running' = [x \in Wallet |-> running'[x]]
       /\ running'[w] \in Seq(RunnersOf(Actions(w)))
       /\ \A x \in Wallet \ {w} : running'[x] = running[x]
  BY <1>4, DoneFacts
<1>12. running'[w] \in Seq(RunnersOf(Actions(w)'))
  BY <1>10, <1>11, ListsGrow
<1>13. RichShapes'
  BY <1>4, <1>10, <1>11 DEF RichInv, RichShapes
<1>14. net' \subseteq net \cup StateMessages' \cup ObjectiveMessages
  <2>1. ASSUME NEW step \in steps, NEW v \in Wallet PROVE StateMessage(v, step, {w}) \in StateMessages'
    <3>1. PICK message : message = StateMessage(v, step, {w})
      OBVIOUS
    <3>2. /\ message \in [to : Wallet, type : {"state"}, step : Step \cup {"app"},
                          signers : SUBSET Wallet]
          /\ message.step = step /\ message.signers = {w}
      BY <1>5, <3>1 DEF StateMessage
    <3>3. step = "postFundSetup" => {w} \subseteq postfunded'
      BY <1>4, <1>5
    <3>. QED  BY <3>1, <3>2, <3>3 DEF StateMessages
  <2>2. \A step \in steps : Sent(w, step) \subseteq StateMessages'
    BY <2>1 DEF Sent
  <2>. SUFFICES ASSUME NEW message \in net', message \notin net \cup ObjectiveMessages
                PROVE  message \in StateMessages'
    OBVIOUS
  <2>3. message \notin SendObjective(w, k)
    BY SendObjectiveFacts
  <2>4. \E step \in steps : message \in Sent(w, step)
    BY <1>4, <2>3
  <2>. QED  BY <2>2, <2>4
<1>. QED  BY <1>4, <1>10, <1>11, <1>12, <1>13, <1>14, Rebuild

LEMMA ReceiveObjectiveKeeps == ASSUME RichInv, NEW w \in Wallet, ReceiveObjective(w) PROVE RichInv'
<1>1. PICK latest : latest = LatestOf(entry[w])
  OBVIOUS
<1>2. /\ \/ objective' = objective
         \/ /\ entry[w] # {} /\ latest.turn = 0
            /\ objective' = [objective EXCEPT ![w] = Initialize(latest.signers)]
      /\ net' \subseteq net
      /\ UNCHANGED <<holdings, postfunded, entry, cranks, running, mempool, notices>>
  BY <1>1 DEF ReceiveObjective, opening
<1>3. Growing /\ FundedWhenSigned' /\ Stored'
  BY <1>2, SameGrows
<1>4. RichShapes'
  BY <1>2 DEF RichInv, RichShapes
<1>5. ASSUME entry[w] # {}, latest.turn = 0 PROVE Initialize(latest.signers) \in Objectives(w)'
  <2>1. entry[w] \in SUBSET StoredState
    BY DEF RichInv, Stored
  <2>2. PICK top \in entry[w] : \A t \in entry[w] : t.turn <= top.turn
    <3>1. \A s \in entry[w] : s.turn \in {0, 2 * nWallets - 1, 2 * nWallets}
      BY <2>1, StoredStates DEF SetupTurn
    <3>2. nWallets \in Nat \ {0}
      BY Milestones
    <3>3. CASE \E s \in entry[w] : s.turn = 2 * nWallets
      BY <3>1, <3>2, <3>3
    <3>4. CASE (\A s \in entry[w] : s.turn # 2 * nWallets) /\ \E s \in entry[w] : s.turn = 2 * nWallets - 1
      BY <3>1, <3>2, <3>4
    <3>5. CASE (\A s \in entry[w] : s.turn # 2 * nWallets) /\ \A s \in entry[w] : s.turn # 2 * nWallets - 1
      BY <1>5, <3>1, <3>2, <3>5
    <3>. QED  BY <3>3, <3>4, <3>5
  <2>3. latest \in entry[w]
    BY <1>1, <2>2 DEF LatestOf
  <2>4. latest.signers \in SUBSET Wallet
    BY <2>1, <2>3, StoredStates
  <2>5. \A v \in latest.signers : Kept(entry[w], 0, v)
    BY <1>5, <2>3 DEF Kept
  <2>. QED  BY <1>3, <2>4, <2>5, InitializeFacts, DescriptionsGrow
<1>6. \A x \in Wallet : objective'[x] \in {objective[x]} \cup Objectives(x)'
  BY <1>2, <1>5 DEF RichInv, RichShapes
<1>. QED  BY <1>2, <1>3, <1>4, <1>6, Rebuild

\* Whatever a crank reads is described, and so is whatever it writes.
LEMMA RunCrankKeeps == ASSUME RichInv, NEW w \in Wallet, RunCrank(w) PROVE RichInv'
<1>1. PICK crank : crank = Head(cranks[w])
  OBVIOUS
<1>2. PICK result : result = OpenChannelCranker(w, crank.snapshot, crank.event)
  OBVIOUS
<1>3. PICK runner : runner = [approval |-> crank.event.type = "Approval", todo |-> result.actions]
  OBVIOUS
<1>4. /\ cranks[w] # <<>>
      /\ cranks' = [cranks EXCEPT ![w] = Tail(@)]
      /\ objective' = [objective EXCEPT ![w] = result.objective]
      /\ running' = IF result.actions = <<>> THEN running
                    ELSE [running EXCEPT ![w] = Append(@, runner)]
      /\ postfunded' = IF w \in result.objective.postFundSetup
                       THEN postfunded \cup {w} ELSE postfunded
      /\ UNCHANGED <<holdings, entry, net, mempool, notices>>
  BY <1>1, <1>2, <1>3 DEF RunCrank
<1>5. cranks[w] \in Seq(CranksOf(w))
  BY DEF RichInv, InMemory, CranksOf
<1>6. crank \in CranksOf(w) /\ Tail(cranks[w]) \in Seq(CranksOf(w))
  BY <1>1, <1>4, <1>5, SeqSteps
<1>7. crank.event \in Events(w) /\ crank.snapshot \in Objectives(w)
  BY <1>6 DEF CranksOf
<1>8. Cranked(w, result)
  BY <1>2, <1>7, CrankerFacts DEF RichInv
<1>9. Growing
  <2>1. holdings \in Nat
    BY Milestones DEF RichInv, FundedWhenSigned
  <2>. QED  BY <1>4, <2>1 DEF Growing
<1>10. FundedWhenSigned' /\ Stored'
  <2>1. w \in result.objective.postFundSetup => w \in postfunded \/ holdings = O!TargetTotal
    BY <1>8 DEF Cranked
  <2>2. postfunded' \subseteq Wallet /\ (postfunded' # {} => holdings = O!TargetTotal)
    BY <1>4, <2>1 DEF RichInv, FundedWhenSigned
  <2>. QED  BY <1>4, <2>2 DEF RichInv, FundedWhenSigned, Stored
<1>11. result.objective \in Objectives(w)'
  <2>1. result.objective.postFundSetup \subseteq postfunded'
    BY <1>4, <1>8 DEF Cranked
  <2>2. result.objective \in RichObjective /\ result.objective.funding <= holdings'
    BY <1>4, <1>8 DEF Cranked
  <2>3. ASSUME NEW step \in Step PROVE SignersKept(w, step, result.objective[step])'
    <3>1. \A v \in result.objective[step] \ {w} : Kept(entry[w], TurnNum(step), v)
      BY <1>8 DEF Cranked
    <3>. QED  BY <1>4, <2>1, <3>1 DEF SignersKept
  <2>. QED  BY <2>2, <2>3 DEF Objectives
<1>12. result.actions # <<>> => runner \in RunnersOf(Actions(w)')
  <2>1. result.objective.postFundSetup \subseteq postfunded'
    BY <1>4, <1>8 DEF Cranked
  <2>2. MayDeposit(w) => MayDeposit(w)'
    BY <1>9, DescriptionsGrow
  <2>3. ActionsOf(w, result.objective.postFundSetup) \subseteq Actions(w)'
    BY <2>1, <2>2 DEF ActionsOf, Actions
  <2>4. result.actions \in Seq(ActionsOf(w, result.objective.postFundSetup))
    BY <1>8 DEF Cranked
  <2>5. result.actions \in Seq(Actions(w)')
    BY <2>3, <2>4, SeqGrows
  <2>. QED  BY <1>3, <2>5 DEF RunnersOf
<1>13. ASSUME NEW x \in Wallet
       PROVE  /\ objective'[x] \in {objective[x]} \cup Objectives(x)'
              /\ cranks'[x] = cranks[x] \/ cranks'[x] \in Seq(CranksOf(x)')
              /\ running'[x] = running[x] \/ running'[x] \in Seq(RunnersOf(Actions(x)'))
              /\ notices'[x] = notices[x]
  <2>1. objective'[x] \in {objective[x]} \cup Objectives(x)'
    BY <1>4, <1>11 DEF RichInv, RichShapes
  <2>2. Seq(CranksOf(x)) \subseteq Seq(CranksOf(x)')
    BY <1>9, ListsGrow DEF CranksOf
  <2>3. cranks'[x] = cranks[x] \/ cranks'[x] \in Seq(CranksOf(x)')
    BY <1>4, <1>6, <2>2 DEF RichInv, RichShapes
  <2>4. running[x] \in Seq(RunnersOf(Actions(x)'))
    <3>1. running[x] \in Seq(RunnersOf(Actions(x)))
      BY DEF RichInv, InMemory
    <3>. QED  BY <1>9, <3>1, ListsGrow
  <2>5. running'[x] = running[x] \/ running'[x] \in Seq(RunnersOf(Actions(x)'))
    <3>1. CASE x = w /\ result.actions # <<>>
      <4>1. running'[x] = Append(running[x], runner)
        BY <1>4, <3>1 DEF RichInv, RichShapes
      <4>. QED  BY <1>12, <2>4, <3>1, <4>1, SeqSteps
    <3>2. CASE ~(x = w /\ result.actions # <<>>)
      BY <1>4, <3>2 DEF RichInv, RichShapes
    <3>. QED  BY <3>1, <3>2
  <2>. QED  BY <1>4, <2>1, <2>3, <2>5
<1>14. RichShapes'
  BY <1>4 DEF RichInv, RichShapes
<1>. QED  BY <1>4, <1>9, <1>10, <1>13, <1>14, Rebuild

\* A deposit that is mined is the next one of the allocation, and it is the whole of it.
LEMMA MinedFacts ==
  ASSUME RichInv, NEW tx \in mempool, holdings >= tx.before, holdings < tx.before + tx.amount
  PROVE  \E w \in Wallet :
           /\ Amount[w] > 0 /\ holdings = O!TargetBefore(w)
           /\ tx.before + tx.amount = O!TargetAfter(w)
<1>1. PICK w \in Wallet : tx = [from |-> w, before |-> O!TargetBefore(w), amount |-> Amount[w]]
                          /\ MayDeposit(w)
  BY DEF RichInv, UnderWay
<1>2. tx.before = O!TargetBefore(w) /\ tx.amount = Amount[w]
  BY <1>1
<1>3. holdings = O!TargetBefore(w) /\ tx.before + tx.amount = O!TargetAfter(w)
  BY <1>2, Milestones DEF RichInv, FundedWhenSigned
<1>. QED  BY <1>1, <1>3 DEF MayDeposit

LEMMA MineDepositKeeps ==
  ASSUME RichInv, NEW tx \in mempool, MineDeposit(tx) PROVE RichInv'
<1>1. PICK after : after = tx.before + tx.amount
  OBVIOUS
<1>2. PICK mined \in BOOLEAN : mined = (holdings >= tx.before /\ holdings < after)
  OBVIOUS
<1>3. /\ mempool' = mempool \ {tx}
      /\ holdings' = IF mined THEN after ELSE holdings
      /\ notices' = [w \in Wallet |-> IF mined /\ objective[w] # NoObjective
                                      THEN notices[w] \cup {after} ELSE notices[w]]
      /\ UNCHANGED <<postfunded, entry, objective, cranks, running, net>>
  BY <1>1, <1>2 DEF MineDeposit, wallets
<1>4. RichShapes'
  BY <1>3 DEF RichInv, RichShapes
<1>5. holdings \in Milestone /\ holdings \in Nat
  BY Milestones DEF RichInv, FundedWhenSigned
<1>6. CASE mined
  <2>1. PICK w \in Wallet : Amount[w] > 0 /\ holdings = O!TargetBefore(w) /\ after = O!TargetAfter(w)
    BY <1>1, <1>2, <1>6, MinedFacts
  <2>2. /\ after \in Milestone /\ after \in Nat /\ after <= O!TargetTotal
        /\ after = holdings + Amount[w] /\ Amount[w] \in Nat /\ O!TargetTotal \in Nat
    BY <2>1, Milestones
  <2>3. holdings' = after /\ holdings < after
    BY <1>3, <1>5, <1>6, <2>1, <2>2
  <2>4. postfunded = {}
    BY <1>5, <2>2, <2>3 DEF RichInv, FundedWhenSigned
  <2>5. FundedWhenSigned' /\ Stored'
    BY <1>3, <2>2, <2>3, <2>4 DEF RichInv, FundedWhenSigned, Stored
  <2>6. Growing
    BY <1>3, <1>5, <2>2, <2>3 DEF Growing
  <2>7. after \in KnownHoldings' \ {0}
    BY <1>5, <2>2, <2>3 DEF KnownHoldings
  <2>8. \A x \in Wallet : notices'[x] \subseteq notices[x] \cup (KnownHoldings' \ {0})
    BY <1>3, <2>7
  <2>. QED  BY <1>3, <1>4, <2>5, <2>6, <2>8, Rebuild
<1>7. CASE ~mined
  <2>1. UNCHANGED <<holdings, postfunded, entry>> /\ \A x \in Wallet : notices'[x] = notices[x]
    BY <1>3, <1>7
  <2>2. Growing /\ FundedWhenSigned' /\ Stored'
    BY <2>1, SameGrows
  <2>. QED  BY <1>3, <1>4, <2>1, <2>2, Rebuild
<1>. QED  BY <1>6, <1>7

\* A step that leaves everything alone.
LEMMA RichStutters == ASSUME RichInv, UNCHANGED vars PROVE RichInv'
<1>1. UNCHANGED <<holdings, postfunded, entry, objective, cranks, running, net, mempool, notices>>
  BY DEF vars, opening, wallets
<1>2. Growing /\ FundedWhenSigned' /\ Stored'
  BY <1>1, SameGrows
<1>3. RichShapes'
  BY <1>1 DEF RichInv, RichShapes
<1>. QED  BY <1>1, <1>2, <1>3, Rebuild

\* The invariant is inductive.
LEMMA RichSteps == ASSUME RichInv, [Next]_vars PROVE RichInv'
<1>1. CASE UNCHANGED vars
  BY <1>1, RichStutters
<1>2. CASE CreateChannel
  BY <1>2, CreateChannelKeeps
<1>3. ASSUME NEW w \in Wallet,
             Approve(w) \/ RunCrank(w) \/ ReceiveObjective(w) \/ PeerUpdates(w)
      PROVE  RichInv'
  BY <1>3, ApproveKeeps, RunCrankKeeps, ReceiveObjectiveKeeps, PeerUpdatesKeeps
<1>4. ASSUME NEW w \in Wallet, NEW late \in BOOLEAN, Trigger(w, late) PROVE RichInv'
  BY <1>4, TriggerKeeps
<1>5. ASSUME NEW w \in Wallet, NEW k \in 1 .. Len(running[w]), Perform(w, k) PROVE RichInv'
  BY <1>5, PerformSendStatesKeeps, SubmitDepositKeeps, DepositSubmittedKeeps, ThrowKeeps DEF Perform
<1>6. ASSUME NEW w \in Wallet, NEW message \in net, ReceiveStates(w, message) PROVE RichInv'
  BY <1>6, ReceiveStatesKeeps
<1>7. ASSUME NEW w \in Wallet, NEW amount \in notices[w], FundingUpdated(w, amount) PROVE RichInv'
  BY <1>7, FundingUpdatedKeeps
<1>8. ASSUME NEW tx \in mempool, MineDeposit(tx) PROVE RichInv'
  BY <1>8, MineDepositKeeps
<1>. QED  BY <1>1, <1>2, <1>3, <1>4, <1>5, <1>6, <1>7, <1>8 DEF Next

LEMMA RichInvariant == Spec => []RichInv
<1>1. RichInv /\ [Next]_vars => RichInv'
  BY RichSteps
<1>. QED  BY <1>1, RichInit, PTL DEF Spec

------------------------------------------------------------------------------
(* Safety. *)

\* What the invariant says of the types.
LEMMA RichTypes == ASSUME RichInv PROVE RichTypeOK
<1>1. /\ \A m \in Milestone : m \in Nat /\ m <= O!TargetTotal
      /\ O!TargetTotal \in Nat /\ holdings \in Nat
      /\ \A w \in Wallet : Amount[w] \in Nat
  BY Milestones DEF RichInv, FundedWhenSigned
<1>2. ASSUME NEW w \in Wallet, objective[w] # NoObjective
      PROVE  objective[w] \in
               [status : {"approval", "theirPreFundSetup", "safeToDeposit", "channelFunded",
                          "theirPostFundSetup", "success", "error"},
                approved : BOOLEAN, preFundSetup : SUBSET Wallet, postFundSetup : SUBSET Wallet,
                funding : 0 .. O!TargetTotal, fundingRequest : BOOLEAN]
  <2>1. objective[w] \in RichObjective
    BY <1>2 DEF RichInv, InMemory, Objectives
  <2>2. Milestone \subseteq 0 .. O!TargetTotal
    BY <1>1
  <2>. QED  BY <2>1, <2>2 DEF RichObjective
<1>3. ASSUME NEW w \in Wallet PROVE InvariantsHold(entry[w]) /\ notices[w] \subseteq 1 .. O!TargetTotal
  <2>1. notices[w] \subseteq KnownHoldings \ {0}
    BY DEF RichInv, UnderWay
  <2>2. KnownHoldings \ {0} \subseteq 1 .. O!TargetTotal
    BY <1>1 DEF KnownHoldings
  <2>. QED  BY <2>1, <2>2 DEF RichInv, Stored
<1>4. ASSUME NEW tx \in mempool PROVE tx.amount \in 1 .. O!TargetTotal
  <2>1. PICK w \in Wallet : tx = [from |-> w, before |-> O!TargetBefore(w), amount |-> Amount[w]]
                            /\ MayDeposit(w)
    BY DEF RichInv, UnderWay
  <2>2. /\ O!TargetBefore(w) \in Milestone /\ O!TargetAfter(w) \in Milestone
        /\ O!TargetAfter(w) = O!TargetBefore(w) + Amount[w]
    BY Milestones
  <2>3. Amount[w] > 0
    BY <2>1 DEF MayDeposit
  <2>4. Amount[w] \in 1 .. O!TargetTotal
    BY <1>1, <2>2, <2>3
  <2>. QED  BY <2>1, <2>4
<1>. QED  BY <1>2, <1>3, <1>4 DEF RichTypeOK

LEMMA RichSafe == ASSUME RichInv PROVE DepositsAreSafe
<1>1. ASSUME NEW w \in Wallet, objective[w] # NoObjective, NEW step \in Step,
             NEW v \in objective[w][step] \ {w}
      PROVE  \E s \in entry[w] : s.turn >= TurnNum(step) /\ v \in s.signers
  <2>1. objective[w] \in RichObjective /\ SignersKept(w, step, objective[w][step])
    BY <1>1 DEF RichInv, InMemory, Objectives
  <2>2. v \in Wallet
    BY <1>1, <2>1, StepTurns DEF RichObjective
  <2>3. Kept(entry[w], TurnNum(step), v)
    BY <1>1, <2>1 DEF SignersKept
  <2>4. entry[w] \in SUBSET StoredState
    BY DEF RichInv, Stored
  <2>. QED  BY <2>2, <2>3, <2>4, StepTurns, KeptIsStored
<1>2. ObjectiveIsStored
  BY <1>1, RichTypes DEF ObjectiveIsStored
<1>3. ASSUME NEW tx \in mempool PROVE Secured(tx.from) /\ holdings >= tx.before
  <2>1. PICK w \in Wallet : tx = [from |-> w, before |-> O!TargetBefore(w), amount |-> Amount[w]]
                            /\ MayDeposit(w)
    BY DEF RichInv, UnderWay
  <2>. QED  BY <2>1 DEF MayDeposit
<1>. QED  BY <1>2, <1>3 DEF DepositsAreSafe

\* A wallet that pays into a channel can get its money back: whatever its cranks write
\* over each other, its store has what everybody else signed, or a supported state that
\* replaced it, and those who come before it have paid.  What an objective counts as
\* signed by others is in the store too.
THEOREM DepositsStaySafe == Spec => []DepositsAreSafe
BY RichInvariant, RichSafe, PTL

------------------------------------------------------------------------------
(* The refinement of ChannelOpening. *)

\* A crank signs the postfund state of a funded channel, or shows nothing.
LEMMA RunCrankOpens ==
  ASSUME RichInv, NEW w \in Wallet, RunCrank(w)
  PROVE  O!SignPostfund(w) \/ UNCHANGED opening
<1>1. PICK crank : crank = Head(cranks[w])
  OBVIOUS
<1>2. PICK result : result = OpenChannelCranker(w, crank.snapshot, crank.event)
  OBVIOUS
<1>3. /\ cranks[w] # <<>>
      /\ postfunded' = IF w \in result.objective.postFundSetup
                       THEN postfunded \cup {w} ELSE postfunded
      /\ opened' = IF result.objective.status = "success" THEN opened \cup {w} ELSE opened
      /\ UNCHANGED holdings
  BY <1>1, <1>2 DEF RunCrank
<1>4. cranks[w] \in Seq([event : Events(w), snapshot : Objectives(w)])
  BY DEF RichInv, InMemory
<1>5. crank.event \in Events(w) /\ crank.snapshot \in Objectives(w)
  <2>1. crank \in [event : Events(w), snapshot : Objectives(w)]
    BY <1>1, <1>3, <1>4, SeqSteps
  <2>. QED  BY <2>1
<1>6. Cranked(w, result)
  BY <1>2, <1>5, CrankerFacts DEF RichInv
<1>7. CASE w \in result.objective.postFundSetup
  <2>1. holdings = O!TargetTotal
    BY <1>6, <1>7 DEF Cranked, RichInv, FundedWhenSigned
  <2>2. postfunded' = postfunded \cup {w}
    BY <1>3, <1>7
  <2>3. result.objective.status = "success" => postfunded' = Wallet
    BY <1>6, <2>2 DEF Cranked, RichInv, FundedWhenSigned
  <2>. QED  BY <1>3, <2>1, <2>2, <2>3 DEF O!SignPostfund, O!Wallet, Wallet
<1>8. CASE w \notin result.objective.postFundSetup
  <2>1. result.objective.status # "success"
    BY <1>6, <1>8 DEF Cranked
  <2>. QED  BY <1>3, <1>8, <2>1 DEF opening
<1>. QED  BY <1>7, <1>8

LEMMA MineDepositOpens ==
  ASSUME RichInv, NEW tx \in mempool, MineDeposit(tx)
  PROVE  (\E w \in Wallet : O!MakeDeposit(w)) \/ UNCHANGED opening
<1>1. CASE holdings >= tx.before /\ holdings < tx.before + tx.amount
  <2>1. PICK w \in Wallet : /\ Amount[w] > 0 /\ holdings = O!TargetBefore(w)
                            /\ tx.before + tx.amount = O!TargetAfter(w)
    BY <1>1, MinedFacts
  <2>2. holdings' = tx.before + tx.amount /\ UNCHANGED <<postfunded, opened>>
    BY <1>1 DEF MineDeposit
  <2>. QED  BY <2>1, <2>2 DEF O!MakeDeposit
<1>2. CASE ~(holdings >= tx.before /\ holdings < tx.before + tx.amount)
  BY <1>2 DEF MineDeposit, opening
<1>. QED  BY <1>1, <1>2

LEMMA RichOpens == ASSUME RichInv, [Next]_vars PROVE [O!OpeningNext]_(O!openingVars)
<1>1. CASE UNCHANGED opening
  BY <1>1 DEF opening, O!openingVars
<1>2. ASSUME NEW w \in Wallet, RunCrank(w) PROVE [O!OpeningNext]_(O!openingVars)
  BY <1>1, <1>2, RunCrankOpens DEF O!OpeningNext, O!Wallet, Wallet
<1>3. ASSUME NEW tx \in mempool, MineDeposit(tx) PROVE [O!OpeningNext]_(O!openingVars)
  BY <1>1, <1>3, MineDepositOpens DEF O!OpeningNext, O!Wallet, Wallet
<1>4. CASE UNCHANGED vars \/ CreateChannel
  BY <1>1, <1>4 DEF vars, CreateChannel
<1>5. ASSUME NEW w \in Wallet,
             \/ Approve(w) \/ ReceiveObjective(w) \/ PeerUpdates(w)
             \/ \E late \in BOOLEAN : Trigger(w, late)
             \/ \E k \in 1 .. Len(running[w]) : Perform(w, k)
             \/ \E message \in net : ReceiveStates(w, message)
             \/ \E amount \in notices[w] : FundingUpdated(w, amount)
      PROVE  UNCHANGED opening
  BY <1>5 DEF Approve, ReceiveObjective, PeerUpdates, Trigger, Perform, PerformSendStates,
              SubmitDeposit, DepositSubmitted, Throw, ReceiveStates, FundingUpdated
<1>. QED  BY <1>1, <1>2, <1>3, <1>4, <1>5 DEF Next

\* The cranks of the rich objectives open a channel as ChannelOpening promises:
\* deposits once each and in order, a postfund signature only when everything is there,
\* and success only when everybody signed.
THEOREM RichOpensAsPromised == Spec => RichOpeningSpec
<1>1. Init => O!OpeningInit
  BY DEF Init
<1>2. RichInv /\ [Next]_vars => [O!OpeningNext]_(O!openingVars)
  BY RichOpens
<1>. QED  BY <1>1, <1>2, RichInvariant, PTL DEF Spec, RichOpeningSpec, O!OpeningSpec
==============================================================================
