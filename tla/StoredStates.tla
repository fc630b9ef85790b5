----------------------------- MODULE StoredStates ------------------------------
(* What a server wallet keeps of a two-party application channel and concludes   *)
(* from it (the Channel model, addState and clearOldStates, signState and         *)
(* addSignedState of the store): pure functions of the set of stored states.      *)
EXTENDS Integers, Sequences, FiniteSets, SequencesExt

CONSTANT LastTurn      \* bound: the last turn there is a state of

Wallet == {0, 1}
nParticipants == Cardinality(Wallet)

\* A stored state: its variable part and who signed it.
Vars(turnNum, isFinal, data) == [turnNum |-> turnNum, isFinal |-> isFinal, data |-> data]
Signed(v, signers) == [vars |-> v, signers |-> signers]

Prefund == Vars(0, FALSE, 0)
PostfundTurn == 2 * nParticipants - 1
Mover(v) == v.turnNum % nParticipants

Latest(states) == CHOOSE s \in states : \A t \in states : t.vars.turnNum <= s.vars.turnNum
SignedBy(w, states) == {s \in states : w \in s.signers}

\* latestSignedByMe, as a turn number: -1 when there is none.
LatestTurnSignedBy(w, states) ==
  IF SignedBy(w, states) = {} THEN -1 ELSE Latest(SignedBy(w, states)).vars.turnNum

\* requireValidProtocolTransition; the application accepts every move.
ValidTransition(from, to) ==
  /\ to.turnNum = from.turnNum + 1
  /\ to.isFinal => to.data = from.data
  /\ ~to.isFinal => ~from.isFinal
  /\ ~to.isFinal /\ to.turnNum < 2 * nParticipants => to.data = from.data

\* A stored state follows from an earlier one by valid transitions between stored
\* states of consecutive turns.
Follows(s, b, states) ==
  \A n \in b.vars.turnNum + 1 .. s.vars.turnNum :
    \E t, u \in states : t.vars.turnNum = n /\ ValidTransition(u.vars, t.vars)

\* _support walks down from the latest state, starts afresh where a transition is
\* not valid, collects the states that their mover signed, and stops when it has
\* seen a signature of everybody.
Collected(b, states) ==
  {s \in states : /\ Mover(s.vars) \in s.signers /\ s.vars.turnNum >= b.vars.turnNum
                  /\ Follows(s, b, states)}
Stops(states) ==
  {b \in states : /\ Mover(b.vars) \in b.signers
                  /\ UNION {s.signers : s \in Collected(b, states)} = Wallet}
Support(states) ==
  LET stops == Stops(states)
  IN  IF stops = {} THEN {} ELSE Collected(Latest(stops), states)

IsSupported(states) == Stops(states) # {}
Supported(states) == Latest(Support(states)).vars

HasConclusionProof(states) ==
  LET support == Support(states) IN support # {} /\ \A s \in support : s.vars.isFinal

AlwaysMyTurn(w, states) == w \in Wallet
MyTurn(w, states) ==
  IF IsSupported(states) THEN (Supported(states).turnNum + 1) % nParticipants = w ELSE w = 0

PrefundSigned(w, states) == LatestTurnSignedBy(w, states) >= 0
PostfundSigned(w, states) == LatestTurnSignedBy(w, states) >= PostfundTurn
PostFundCompleteOnOne(states) ==
  IsSupported(states) /\ \E s \in states : s.vars.turnNum >= PostfundTurn
PreFundComplete(states) == IsSupported(states)
PostFundComplete(states) ==
  IsSupported(states) /\ Supported(states).turnNum >= PostfundTurn

IsRunning(states) == PostFundComplete(states) /\ \A s \in states : ~s.vars.isFinal

\* What the application is told of the channel.
Status(w, states) ==
  IF ~IsSupported(states)
  THEN IF SignedBy(w, states) = {} THEN "proposed" ELSE "opening"
  ELSE IF HasConclusionProof(states) THEN "closed"
  ELSE IF Supported(states).isFinal THEN "closing"
  ELSE IF Supported(states).turnNum < PostfundTurn THEN "opening" ELSE "running"

\* addState joins the signatures of equal states.
AddState(states, s) ==
  LET same == {t \in states : t.vars = s.vars}
  IN  (states \ same) \union {Signed(s.vars, s.signers \union UNION {t.signers : t \in same})}

\* clearOldStates: what precedes the support goes.
ClearOldStates(states) ==
  LET stops == Stops(states)
  IN  {s \in states : stops # {} => s.vars.turnNum >= Latest(stops).vars.turnNum}

\* validateInvariants
OneStateForEachTurn(states) ==
  \A s, t \in states : s.vars.turnNum = t.vars.turnNum => s = t

ShouldValidateTransition(v, states) ==
  /\ IsSupported(states)
  /\ v.turnNum >= Supported(states).turnNum
  /\ \A s \in states : s.vars # v
  /\ v.turnNum >= 2 * nParticipants

\* The store with s added, or nothing when the state is refused.
AddSignedState(states, s) ==
  {after \in {ClearOldStates(AddState(states, s))} :
     /\ OneStateForEachTurn(after)
     /\ ShouldValidateTransition(s.vars, states) =>
          ValidTransition(Supported(states), s.vars)}

\* signState refuses a turn that is not later than all that w has signed.
SignState(w, states, v) ==
  IF LatestTurnSignedBy(w, states) >= v.turnNum THEN {}
  ELSE AddSignedState(states, Signed(v, {w}))

\* pushMessage adds the states of a message, the earliest first, in one transaction.
AddSignedStates(states, signedStates) ==
  LET Turns == [n \in 1 .. LastTurn + 1 |-> {s \in signedStates : s.vars.turnNum = n - 1}]
  IN  FoldLeft(LAMBDA stores, new :
                 IF new = {} THEN stores
                 ELSE UNION {AddSignedState(store, Latest(new)) : store \in stores},
               {states}, Turns)
===============================================================================
