----------------------------- MODULE SupportProof -----------------------------
(* Support proofs: what ForceMove.sol demands before it believes that a state  *)
(* is supported.  A proof is the last states of a channel, at most one per     *)
(* participant, with one signature of every participant.  All the operators   *)
(* are pure; the state machine that calls them is ForceMove.                   *)
EXTENDS StatusManager

CONSTANTS nParticipants,
          AppData, Outcome,
          MaxTurnNum,                    \* bound: no participant signs a later turn
          ValidAppTransition(_, _, _)    \* IForceMoveApp.validTransition(a, b, turnNumB)

ASSUME ParticipantsAssumption == nParticipants \in Nat /\ nParticipants >= 1
\* The turn numbers in use stay clear of the top of uint48.
ASSUME TurnAssumption == MaxTurnNum \in Nat /\ MaxTurnNum + nParticipants < Width48

Participant == 0 .. nParticipants - 1

VariablePart == [appData : AppData, outcome : Outcome]

\* A participant signs the hash of such a record.  The parts of the state that
\* never change (chain id, participants, nonce, app, duration) are left out.
State == [turnNum : UInt48, isFinal : BOOLEAN, vars : VariablePart]

ASSUME NoHashAssumption == NoHash \notin State \union Outcome

HashState(turnNum, isFinal, vars) ==
  [turnNum |-> turnNum, isFinal |-> isFinal, vars |-> vars]

\* The arguments of challenge and checkpoint: numStates is the length of
\* variableParts, the arrays are indexed from 0 as in the contract, and the
\* lengths are the ones requireValidInput lets through.
ProofOfLength(m) ==
  [largestTurnNum : 0 .. MaxTurnNum, numStates : {m},
   variableParts : [0 .. m - 1 -> VariablePart], isFinalCount : 0 .. m,
   whoSignedWhat : [Participant -> 0 .. m - 1]]

Proof == UNION {ProofOfLength(m) : m \in 1 .. nParticipants}

\* The turn number, finality and hash of the i-th state of a proof.  Both
\* subtractions are uint48 and may wrap around.
TurnNum(pf, i) == Uint48(pf.largestTurnNum - pf.numStates + 1 + i)
FirstFinalTurnNum(pf) == Uint48(pf.largestTurnNum - pf.isFinalCount + 1)
IsFinal(pf, i) == TurnNum(pf, i) >= FirstFinalTurnNum(pf)
StateHash(pf, i) == HashState(TurnNum(pf, i), IsFinal(pf, i), pf.variableParts[i])

SupportedState(pf) == StateHash(pf, pf.numStates - 1)

\* Variant with a bug, for mutation tests: a final state may change the outcome.
ValidTransitionAnyFinal(a, b) ==
  \/ b.isFinal
  \/ /\ ~a.isFinal /\ ~b.isFinal
     /\ IF b.turnNum < 2 * nParticipants
          THEN b.vars = a.vars
          ELSE ValidAppTransition(a.vars, b.vars, b.turnNum)

\* _requireValidTransition: only an app turn of a channel that is not closing
\* is left to the app.
ValidTransition(a, b) ==
  \/ b.isFinal /\ b.vars.outcome = a.vars.outcome
  \/ /\ ~a.isFinal /\ ~b.isFinal
     /\ IF b.turnNum < 2 * nParticipants
          THEN b.vars = a.vars
          ELSE ValidAppTransition(a.vars, b.vars, b.turnNum)

\* A pair is checked only where the earlier turn number is below the largest.
ValidTransitionChain(pf) ==
  \A i \in 0 .. pf.numStates - 2 :
     TurnNum(pf, i) < pf.largestTurnNum
        => ValidTransition(StateHash(pf, i), StateHash(pf, i + 1))

\* How many turns ago, seen from the largest turn, participant i was the mover.
Offset(i, largestTurnNum) == (nParticipants + largestTurnNum - i) % nParticipants

AcceptableWhoSignedWhat(whoSignedWhat, largestTurnNum, numStates) ==
  \A i \in Participant :
     whoSignedWhat[i] + Offset(i, largestTurnNum) + 1 >= numStates

\* What is left of a proof to check once the signatures are set aside.
WellFormed(pf) ==
  /\ ValidTransitionChain(pf)
  /\ AcceptableWhoSignedWhat(pf.whoSignedWhat, pf.largestTurnNum, pf.numStates)

WellFormedProof == {pf \in Proof : WellFormed(pf)}

\* _conclude: numStates final states with one outcome and one app part, the
\* largest turn number not below numStates - 1.
FinalizationProofOfLength(m) ==
  [largestTurnNum : 0 .. MaxTurnNum, numStates : {m}, vars : VariablePart,
   whoSignedWhat : [Participant -> 0 .. m - 1]]

FinalizationProof ==
  UNION {FinalizationProofOfLength(m) : m \in 1 .. nParticipants}

FinalState(pf, i) ==
  HashState(Uint48(pf.largestTurnNum + (i + 1) - pf.numStates), TRUE, pf.vars)

WellFormedFinalization(pf) ==
  /\ pf.largestTurnNum + 1 >= pf.numStates
  /\ AcceptableWhoSignedWhat(pf.whoSignedWhat, pf.largestTurnNum, pf.numStates)

WellFormedFinalizationProof == {pf \in FinalizationProof : WellFormedFinalization(pf)}
===============================================================================
