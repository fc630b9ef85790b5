---------------------------- MODULE LedgerChannel ----------------------------
(* Two wallets that run the ledger protocol over messages (server-wallet       *)
(* LedgerManager, the parts of Store that keep a channel's states, and the     *)
(* takeActions / pushMessage / syncChannel calls that drive them).  Messages   *)
(* may be lost, repeated, delayed and reordered.  Storing a message and        *)
(* cranking the ledger are separate transactions; a crank that throws is       *)
(* rolled back as a whole.                                                     *)
EXTENDS LedgerProtocol

CONSTANT Settings           \* the settings of a behaviour, see LedgerAssumption

\* balance: the post-fund outcome of the ledger; earlyClose: whether a channel may
\* be closed while its funding is pending; maxTurnNum, a bound: the last turn
\* number a wallet signs.
ASSUME LedgerAssumption ==
  Settings \subseteq [balance : [Wallet -> Nat], earlyClose : BOOLEAN,
                     maxTurnNum : {n \in Nat : n >= 3}]

VARIABLES setting,   \* the setting of this behaviour
          stored,    \* [Wallet -> SUBSET SignedState]: channel.vars
          requests,  \* [Wallet -> [RequestKey -> status]]: the ledger_requests table
          messages   \* every message sent so far

ledgerVars == <<setting, stored, requests, messages>>

NotMade == "not made"
RequestStatus == {"queued", "pending"} \union Terminal

\* A stored state: its content and who signed it.
Signed(s, signers) == [turnNum |-> s.turnNum, outcome |-> s.outcome, signers |-> signers]
FullySigned(s) == s.signers = Wallet
Content(s) == ProtocolState(s.turnNum, s.outcome)
Other(w) == 1 - w

LatestTurnNum(states) == Max({s.turnNum : s \in states})

\* The states of a null-app channel support nothing but themselves.
SupportedTurn(states) == LatestTurnNum({s \in states : FullySigned(s)})

\* addState for each of the given states, joining the signatures of equal states,
\* then clearOldStates: what precedes the support is dropped.
AddStates(states, signedStates) ==
  LET all    == states \union signedStates
      merged == {Signed(s, UNION {t.signers : t \in {u \in all : Content(u) = Content(s)}}) :
                   s \in all}
  IN  {t \in merged : t.turnNum >= SupportedTurn(merged)}

\* validateInvariants: one state for each turn number.
NoDuplicateTurnNums(states) ==
  \A s, t \in states : s.turnNum = t.turnNum => s = t

Message(from, signedStates) == [from |-> from, states |-> signedStates]
SignedByMe(w, states) == {Signed(s, {w}) : s \in Range(states)}

Opening(balance) == ProtocolState(3, [bal |-> balance, items |-> [x \in App |-> 0]])

Init ==
  /\ setting \in Settings
  /\ stored = [w \in Wallet |-> {Signed(Opening(setting.balance), Wallet)}]
  /\ requests = [w \in Wallet |-> [k \in RequestKey |-> NotMade]]
  /\ messages = {}

\* LedgerFunder.crank: once, when the channel's prefund is complete.
RequestLedgerFunding(w, x) ==
  /\ requests[w][Fund(x)] = NotMade
  /\ requests' = [requests EXCEPT ![w][Fund(x)] = "queued"]
  /\ UNCHANGED <<setting, stored, messages>>

\* Defunder.ledgerDefunder: once, when both wallets have signed a final state.
\* A channel that ran has been funded in both wallets' eyes.
RequestLedgerDefunding(w, x) ==
  /\ requests[w][Fund(x)] # NotMade /\ requests[w][Defund(x)] = NotMade
  /\ setting.earlyClose \/ \A v \in Wallet : requests[v][Fund(x)] = "succeeded"
  /\ requests' = [requests EXCEPT ![w][Defund(x)] = "queued"]
  /\ UNCHANGED <<setting, stored, messages>>

\* Store.pushMessage
PushMessage(w, m) ==
  /\ m.from = Other(w)
  /\ \E states \in {AddStates(stored[w], m.states)} :
       /\ states # stored[w] /\ NoDuplicateTurnNums(states)
       /\ stored' = [stored EXCEPT ![w] = states]
  /\ UNCHANGED <<setting, requests, messages>>

\* syncChannel, and the answer to GetChannel: everything the other stores.  An
\* answer that arrives late adds no more than the messages it is made of.
SyncChannel(w) == PushMessage(w, Message(Other(w), stored[Other(w)]))

\* determineLedgerState: the three states a wallet may find the ledger in.
At(w, turnNum) == {s \in stored[w] : s.turnNum = turnNum}

IsAgreement(w, agreed) ==
  agreed \in At(w, LatestTurnNum(stored[w])) /\ FullySigned(agreed)

IsProposal(w, agreed, proposed) ==
  /\ proposed \in At(w, LatestTurnNum(stored[w])) /\ Leader \in proposed.signers
  /\ ~FullySigned(proposed)
  /\ agreed \in At(w, proposed.turnNum - 1) /\ FullySigned(agreed)

IsCounterProposal(w, agreed, proposed, counterProposed) ==
  /\ counterProposed \in At(w, LatestTurnNum(stored[w]))
  /\ Follower \in counterProposed.signers /\ ~FullySigned(counterProposed)
  /\ proposed \in At(w, counterProposed.turnNum - 1)
  /\ Leader \in proposed.signers /\ ~FullySigned(proposed)
  /\ agreed \in At(w, counterProposed.turnNum - 2) /\ FullySigned(agreed)

\* getActiveLedgerRequests
ActiveRequests(w) ==
  [k \in RequestKey |->
     IF requests[w][k] \in {"queued", "pending"} THEN requests[w][k] ELSE NotLoaded]

CrankResults(w) ==
  LET reqs == ActiveRequests(w)
  IN  IF w = Leader
      THEN {CrankAsLeaderInAgreement(reqs, Content(a), <<>>) :
              a \in {s \in stored[w] : IsAgreement(w, s)}}
             \union
           {CrankAsLeaderInCounterProposal(reqs, Content(t[1]), Content(t[3])) :
              t \in {u \in stored[w] \X stored[w] \X stored[w] :
                       IsCounterProposal(w, u[1], u[2], u[3])}}
      ELSE {CrankAsFollowerInAgreement(reqs, Content(a)) :
              a \in {s \in stored[w] : IsAgreement(w, s)}}
             \union
           {CrankAsFollowerInProposal(reqs, Content(t[1]), Content(t[2])) :
              t \in {u \in stored[w] \X stored[w] : IsProposal(w, u[1], u[2])}}

\* LedgerManager.crank saves what the protocol returns: it signs the states, in
\* order, sends them in one message, and writes the loaded requests back.
Saved(w, result) ==
  [stored   |-> [stored EXCEPT ![w] = AddStates(@, SignedByMe(w, result.states))],
   requests |-> [requests EXCEPT ![w] =
                   [k \in RequestKey |->
                      IF result.reqs[k] = NotLoaded THEN @[k] ELSE result.reqs[k]]],
   messages |-> IF result.states = <<>> THEN messages
                ELSE messages \union {Message(w, SignedByMe(w, result.states))}]

\* The cranks that do not throw (and stay within the bound).
CompletedCranks(w) ==
  {result \in CrankResults(w) :
     /\ result.error = "none"
     /\ \A n \in DOMAIN result.states : result.states[n].turnNum <= setting.maxTurnNum}

LedgerCrank(w) ==
  \E result \in CompletedCranks(w) :
    /\ stored' = Saved(w, result).stored
    /\ requests' = Saved(w, result).requests
    /\ messages' = Saved(w, result).messages
    /\ UNCHANGED setting

Next ==
  \/ \E w \in Wallet, x \in App : RequestLedgerFunding(w, x) \/ RequestLedgerDefunding(w, x)
  \/ \E w \in Wallet : \E m \in messages : PushMessage(w, m)
  \/ \E w \in Wallet : SyncChannel(w)
  \/ \E w \in Wallet : LedgerCrank(w)

Spec == Init /\ [][Next]_ledgerVars

\* Whether a crank would change anything: ENABLED <<LedgerCrank(w)>>_ledgerVars.
CanCrank(w) ==
  \E result \in CompletedCranks(w) :
    Saved(w, result) # [stored |-> stored, requests |-> requests, messages |-> messages]

\* A wallet with an unfinished objective syncs the channel again and again, and
\* cranks its ledger when there is something to do: weak fairness of both.  That
\* of the crank is written out, for TLC evaluates CanCrank much faster.
FairSpec ==
  /\ Spec
  /\ \A w \in Wallet : WF_ledgerVars(SyncChannel(w))
  /\ \A w \in Wallet : []<>~CanCrank(w) \/ []<><<LedgerCrank(w)>>_ledgerVars
-------------------------------------------------------------------------------
\* Every signature a wallet has given out or keeps.
SignedStates ==
  UNION ({stored[w] : w \in Wallet} \union {m.states : m \in messages})

SignersOf(content) ==
  UNION {s.signers : s \in {t \in SignedStates : Content(t) = content}}

\* What both have signed, whether or not both know it.
Agreed == {c \in {Content(s) : s \in SignedStates} : SignersOf(c) = Wallet}

LatestAgreed == CHOOSE c \in Agreed : \A d \in Agreed : d.turnNum <= c.turnNum

Funds(outcome) ==
  outcome.bal[0] + outcome.bal[1]
    + FoldFunction(+, 0, [x \in App |-> outcome.items[x] * (FundAmount[x][0] + FundAmount[x][1])])

\* Type invariant.
LedgerTypeOK ==
  /\ \A s \in SignedStates :
       /\ s.turnNum \in 3 .. setting.maxTurnNum /\ s.outcome \in Outcome
       /\ s.signers \in (SUBSET Wallet) \ {{}}
  /\ requests \in [Wallet -> [RequestKey -> RequestStatus \union {NotMade}]]

\* No signed state makes or loses money, or leaves a party with less than nothing.
FundsConserved ==
  /\ LedgerTypeOK
  /\ \A s \in SignedStates : Funds(s.outcome) = setting.balance[0] + setting.balance[1]
  /\ \A s \in SignedStates, w \in Wallet : s.outcome.bal[w] >= 0

\* The wallets never sign two different states with one turn number, so a store
\* never has to refuse a message.
OneStatePerTurn ==
  \A s, t \in SignedStates : s.turnNum = t.turnNum => Content(s) = Content(t)

\* A wallet that is told its funding request was cancelled is not bound to fund
\* the channel, now or by a signature it gave out before.
CancelledNeverFunded ==
  \A w \in Wallet, x \in App :
    requests[w][Fund(x)] = "cancelled" => \A c \in Agreed : c.outcome.items[x] = 0

\* A wallet is told a request succeeded only when both are bound to it.
SuccessIsAgreed ==
  /\ CancelledNeverFunded
  /\ \A w \in Wallet, x \in App :
       /\ requests[w][Fund(x)] = "succeeded" =>
            \E c \in Agreed : c.outcome.items[x] > 0
       /\ requests[w][Defund(x)] = "succeeded" => LatestAgreed.outcome.items[x] = 0

\* Unless a channel is closed before it ran, a crank of wallets that follow the
\* protocol throws no error.
NeverThrows ==
  ~setting.earlyClose =>
    \A w \in Wallet : \A result \in CrankResults(w) : result.error = "none"

\* Unless a channel is closed before it ran: when both wallets make a request, both
\* get an answer to it (as long as the bound on turn numbers leaves room for it).
BothAskFor(k) == \A w \in Wallet : requests[w][k] # NotMade
RoomLeft == \A s \in SignedStates : s.turnNum + 6 <= setting.maxTurnNum
RequestsAnswered ==
  \A k \in RequestKey :
    BothAskFor(k) /\ RoomLeft /\ ~setting.earlyClose ~> \A w \in Wallet : requests[w][k] \in Terminal

\* The outcome both have signed moves as the abstract ledger does.
Ledger == INSTANCE LedgerAgreement
            WITH OpeningBalances <- {x.balance : x \in Settings},
                 agreed <- LatestAgreed.outcome,
                 asked <- [w \in Wallet |-> {k \in RequestKey : requests[w][k] # NotMade}]
AgreementSpec == Ledger!AgreementSpec
===============================================================================
