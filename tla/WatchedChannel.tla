---------------------------- MODULE WatchedChannel ----------------------------
(* A channel whose honest participants run the server wallet's signing flow    *)
(* (ChannelOpener, updateChannel, ChannelCloser) and watch the chain.  It      *)
(* restricts who signs what in ForceMove and adds the supported state each     *)
(* wallet holds, so that one can ask what a wallet may rely on once the        *)
(* adjudicator has finalized an outcome.                                       *)
EXTENDS ForceMove

CONSTANT OpeningVars   \* the variable part of the prefund state

ASSUME OpeningAssumption == OpeningVars \in VariablePart

VARIABLE held          \* Channel.supported of each honest wallet, or NoHash

watchedVars == <<status, timestamp, signed, held>>

WatchedInit == Init /\ held = [p \in Honest |-> NoHash]

Holds(p) == held[p] # NoHash

\* Channel.myTurn once there is a supported state.
MyTurn(p) == Holds(p) /\ (held[p].turnNum + 1) % nParticipants = p

\* Store.addSignedState: messages bring the signatures that support a later state.
AddSignedStates(p) ==
  /\ \E s \in SupportedStates :
       /\ Holds(p) => s.turnNum > held[p].turnNum
       /\ held' = [held EXCEPT ![p] = s]
  /\ UNCHANGED vars

\* ChannelOpener.signPrefundSetup, also createChannel and joinChannel
SignPrefundSetup(p) ==
  /\ signed[p] = {}
  /\ SignState(p, HashState(0, FALSE, OpeningVars))
  /\ UNCHANGED held

\* ChannelOpener.signPostfundSetup: the prefund is supported and, by then, funded.
\* The code copies channel.latest, isFinal included; the latest stored state is
\* taken to be the supported one.
SignPostfundSetup(p) ==
  /\ Holds(p)
  /\ \A t \in signed[p] : t.turnNum < 2 * nParticipants - 1
  /\ SignState(p, HashState(2 * nParticipants - 1, held[p].isFinal, held[p].vars))
  /\ UNCHANGED held

\* supported is computed from the stored states: a mover's own signature on the
\* successor of its supported state makes that successor the supported one.
SignAndHold(p, s) == SignState(p, s) /\ held' = [held EXCEPT ![p] = s]

\* The updateChannel handler followed by Store.signState's validateTransition
UpdateChannel(p, newVars) ==
  /\ MyTurn(p)
  /\ held[p].turnNum >= 3
  /\ LET s == HashState(held[p].turnNum + 1, FALSE, newVars)
     IN  ValidTransition(held[p], s) /\ SignAndHold(p, s)

\* ChannelCloser.areAllFinalStatesSigned: craft the final state, or sign theirs
SignFinalState(p) ==
  /\ MyTurn(p)
  /\ signed[p] # {}
  /\ SignAndHold(p, HashState(IF held[p].isFinal THEN held[p].turnNum
                                                 ELSE held[p].turnNum + 1,
                              TRUE, held[p].vars))

\* A challenge that p holds the states to clear.
StaleChallenge(p) ==
  /\ mode = "Challenge"
  /\ Holds(p)
  /\ held[p].turnNum > status.turnNumRecord

\* p clears it with the proof of the state it holds.
ClearStaleChallenge(p) ==
  /\ StaleChallenge(p)
  /\ \E pf \in WellFormedProof : SupportedState(pf) = held[p] /\ Checkpoint(pf)
  /\ UNCHANGED held

\* An honest transaction sent during a challenge is mined before the challenge
\* runs out: what the docs ask of challengeDuration.
InTime == \A p \in Honest : StaleChallenge(p) => timestamp + 1 < status.finalizesAt

WalletStep(p) ==
  \/ AddSignedStates(p)
  \/ SignPrefundSetup(p)
  \/ SignPostfundSetup(p)
  \/ \E v \in VariablePart : UpdateChannel(p, v)
  \/ SignFinalState(p)

WatchedNext ==
  \/ ContractCall /\ UNCHANGED held
  \/ Tick /\ InTime /\ UNCHANGED held
  \/ \E p \in Honest : WalletStep(p) \/ ClearStaleChallenge(p)

WatchedSpec == WatchedInit /\ [][WatchedNext]_watchedVars

\* A watcher sends its checkpoint, and blocks keep coming.
WatchedFairSpec ==
  /\ WatchedSpec
  /\ \A p \in Honest : WF_watchedVars(ClearStaleChallenge(p))
  /\ WF_watchedVars(Tick /\ InTime /\ UNCHANGED held)
-------------------------------------------------------------------------------
\* Type invariant of the wallets' part.
WatchedTypeOK == TypeOK /\ held \in [Honest -> State \union {NoHash}]

\* What a wallet takes as supported, the contract accepts as supported.
HeldSupported ==
  /\ WatchedTypeOK
  /\ \A p \in Honest : Holds(p) => held[p] \in SupportedStates

\* A wallet never signs two final states with different outcomes, however it was
\* led there, nor takes for supported what the contract does not: two finalization
\* proofs cannot contradict each other.
OneFinalOutcome ==
  /\ HeldSupported
  /\ \A p \in Honest : \A s, t \in signed[p] :
       s.isFinal /\ t.isFinal => s.vars.outcome = t.vars.outcome

\* p signed a final state with this outcome.
AgreedToFinalize(p, outcome) ==
  \E s \in signed[p] : s.isFinal /\ s.vars.outcome = outcome

\* When a channel becomes Finalized, by a timeout or by conclude, an honest
\* watcher either agreed to that outcome in a final state or holds nothing newer
\* than the finalized state.
FinalizesNothingStale ==
  [][ (mode # "Finalized" /\ mode' = "Finalized") =>
        \A p \in Honest :
          \/ ~Holds(p)
          \/ status'.turnNumRecord >= held[p].turnNum
          \/ status'.stateHash = NoHash /\ AgreedToFinalize(p, status'.outcomeHash)
    ]_watchedVars

\* Every challenge comes to an end before the clock of the model does: it is
\* answered, or it finalizes the channel.
ChallengeResolves ==
  (mode = "Challenge" /\ status.finalizesAt <= MaxTimestamp)
     ~> (mode # "Challenge" \/ status.finalizesAt > MaxTimestamp)
===============================================================================
