------------------------------ MODULE ForceMove ------------------------------
(* The adjudicator's entry for one channel (nitro-protocol ForceMove.sol):    *)
(* challenge, respond, checkpoint and conclude on the status, the block time   *)
(* that turns an expired challenge into a finalized outcome, and the           *)
(* signatures the calls rest on.                                               *)
(*                                                                             *)
(* Some participants follow the signing rule of the wallet (Store.signState):  *)
(* they never sign a state whose turn number is not above every one they       *)
(* signed before.  The others are taken to have signed anything at all.        *)
EXTENDS SupportProof

CONSTANTS Honest,             \* the participants that follow the wallet's rule
          ChallengeDuration,  \* part of the channel's fixed part
          MaxTimestamp        \* bound: the block time at which the clock stops

ASSUME HonestAssumption == Honest \subseteq Participant
ASSUME TimeAssumption == /\ ChallengeDuration \in UInt48
                         /\ MaxTimestamp \in Nat \ {0} /\ MaxTimestamp < Width48

VARIABLES status,     \* statusOf[channelId]
          timestamp,  \* block.timestamp
          signed      \* [Honest -> SUBSET State]: the states each of them signed

vars == <<status, timestamp, signed>>

\* p's signature on state s exists.
HasSigned(p, s) == s.turnNum <= MaxTurnNum /\ (p \in Honest => s \in signed[p])

mode == Mode(status, timestamp)

\* Variants with a bug, for mutation tests: the loop over the signers starts at 1.
ValidSignaturesFromOne(pf) ==
  \A i \in Participant \ {0} : HasSigned(i, StateHash(pf, pf.whoSignedWhat[i]))
ValidFinalSignaturesFromOne(pf) ==
  \A i \in Participant \ {0} : HasSigned(i, FinalState(pf, pf.whoSignedWhat[i]))

\* _validSignatures: every recovered signer is the participant the array names.
ValidSignatures(pf) ==
  \A i \in Participant : HasSigned(i, StateHash(pf, pf.whoSignedWhat[i]))
ValidFinalSignatures(pf) ==
  \A i \in Participant : HasSigned(i, FinalState(pf, pf.whoSignedWhat[i]))

\* The states the contract would take as supported, given the signatures so far.
SupportedStates ==
  {SupportedState(pf) : pf \in {q \in WellFormedProof : ValidSignatures(q)}}

\* Variants with a bug, for mutation tests: a finalized channel is let through,
\* and a cleared challenge counts a turn more.
RequireNothing == TRUE
ClearChallengeOneMore(turnNum) == status' = ChannelData(turnNum + 1, 0, NoHash, NoHash)

RequireIncreasedTurnNumber(turnNum) == turnNum > status.turnNumRecord
RequireNonDecreasedTurnNumber(turnNum) == turnNum >= status.turnNumRecord
RequireChannelNotFinalized == mode # "Finalized"

ClearChallenge(turnNum) == status' = ChannelData(turnNum, 0, NoHash, NoHash)

Init ==
  /\ status = EmptyStatus
  /\ timestamp = 1
  /\ signed = [p \in Honest |-> {}]

\* Any participant may register a challenge (challengerSig).
Challenge(pf) ==
  /\ CASE mode = "Open"      -> RequireNonDecreasedTurnNumber(pf.largestTurnNum)
       [] mode = "Challenge" -> RequireIncreasedTurnNumber(pf.largestTurnNum)
       [] OTHER              -> FALSE
  /\ ValidSignatures(pf)
  /\ status' = ChannelData(pf.largestTurnNum,
                           Uint48(timestamp + ChallengeDuration),
                           SupportedState(pf),
                           SupportedState(pf).vars.outcome)
  /\ UNCHANGED <<timestamp, signed>>

\* The caller hands in the challenge state, which must hash to the stored one,
\* and a response signed by the mover of the next turn.
Respond(challengeState, responseState) ==
  LET turnNum == Uint48(status.turnNumRecord + 1) IN
  /\ challengeState.turnNum = status.turnNumRecord
  /\ responseState.turnNum = turnNum
  /\ status.stateHash = challengeState
  /\ status.outcomeHash = challengeState.vars.outcome
  /\ mode = "Challenge"
  /\ HasSigned(turnNum % nParticipants, responseState)
  /\ ValidTransition(challengeState, responseState)
  /\ ClearChallenge(turnNum)
  /\ UNCHANGED <<timestamp, signed>>

Checkpoint(pf) ==
  /\ RequireChannelNotFinalized
  /\ RequireIncreasedTurnNumber(pf.largestTurnNum)
  /\ ValidSignatures(pf)
  /\ ClearChallenge(pf.largestTurnNum)
  /\ UNCHANGED <<timestamp, signed>>

\* No demand on the turn number: a finalization proof outranks the record.
Conclude(pf) ==
  /\ RequireChannelNotFinalized
  /\ ValidFinalSignatures(pf)
  /\ status' = ChannelData(0, Uint48(timestamp), NoHash, pf.vars.outcome)
  /\ UNCHANGED <<timestamp, signed>>

Tick ==
  /\ timestamp < MaxTimestamp
  /\ timestamp' = timestamp + 1
  /\ UNCHANGED <<status, signed>>

\* Store.signState refuses a turn number that is not above the latest one.
SignState(p, s) ==
  /\ s.turnNum <= MaxTurnNum
  /\ \A t \in signed[p] : t.turnNum < s.turnNum
  /\ signed' = [signed EXCEPT ![p] = @ \union {s}]
  /\ UNCHANGED <<status, timestamp>>

ContractCall ==
  \/ \E pf \in WellFormedProof : Challenge(pf)
  \/ \E r \in State : status.stateHash # NoHash /\ Respond(status.stateHash, r)
  \/ \E pf \in WellFormedProof : Checkpoint(pf)
  \/ \E pf \in WellFormedFinalizationProof : Conclude(pf)

Next ==
  \/ ContractCall
  \/ Tick
  \/ \E p \in Honest, s \in State : SignState(p, s)

Spec == Init /\ [][Next]_vars
-----------------------------------------------------------------------------
\* Type invariant.
TypeOK ==
  /\ status \in [turnNumRecord : 0 .. MaxTurnNum, finalizesAt : UInt48,
                 stateHash : State \union {NoHash},
                 outcomeHash : Outcome \union {NoHash}]
  /\ timestamp \in 1 .. MaxTimestamp
  /\ signed \in [Honest -> SUBSET State]
  /\ \A p \in Honest : \A s \in signed[p] : s.turnNum <= MaxTurnNum

\* The record is a turn number that every participant's signature supports, and
\* so is the state of a challenge (the promise of unpackStatus).  A respond hands
\* in one signature only: that the response is supported by a full set rests on
\* the rule that says which signatures a proof needs.
RecordSupported ==
  /\ status.stateHash # NoHash => status.stateHash \in SupportedStates
  /\ status.turnNumRecord > 0 =>
       \E s \in SupportedStates : s.turnNum = status.turnNumRecord

\* Nobody is carried along: each honest participant signed one of the last
\* nParticipants turns up to the record.
RecordBacked ==
  status.turnNumRecord > 0 =>
    \A p \in Honest : \E s \in signed[p] :
      s.turnNum \in status.turnNumRecord - nParticipants + 1 .. status.turnNumRecord

\* The entry behaves as the documented mode diagram says.
Modes == INSTANCE AdjudicatorModes WITH mode <- mode,
                                        turnNumRecord <- status.turnNumRecord
ModesSpec == Modes!Spec
=============================================================================
