------------------------ MODULE AdjudicatorTransactions -------------------------
(* How a wallet turns the states it stores into a call of the adjudicator: the      *)
(* conversion of wallet-core, the client library (nitro-protocol/src) and the chain  *)
(* services that use it; and how it reads the event of a challenge back.  Arrays are *)
(* indexed from 0 where the contract sees them.  A hash is the state itself, a       *)
(* signature the pair of a participant and what was signed.                         *)
EXTENDS StoredStates

AcceptEveryMove(a, b, turnNumB) == TRUE

\* What the contract demands of the arguments.
Contract == INSTANCE SupportProof
  WITH AppData <- Nat, Outcome <- Nat, MaxTurnNum <- LastTurn,
       Width48 <- LastTurn + 8, NoHash <- -1, ValidAppTransition <- AcceptEveryMove

-------------------------------------------------------------------------------
(* wallet-core: one state object for a stored state, one entry for each signature. *)

GetVariablePart(v) == [appData |-> v.data, outcome |-> v.data]
ToNitroState(v) == Contract!HashState(v.turnNum, v.isFinal, GetVariablePart(v))
FromNitroState(s) == Vars(s.turnNum, s.isFinal, s.vars.appData)

Sign(p, hash) == [signer |-> p, hash |-> hash]
ToNitroSignedState(s) ==
  LET signers == SetToSeq(s.signers)
  IN  [n \in DOMAIN signers |-> [state |-> ToNitroState(s.vars),
                                 signature |-> Sign(signers[n], ToNitroState(s.vars))]]
FlatMapToNitro(signedStates) ==
  FlattenSeq([n \in DOMAIN signedStates |-> ToNitroSignedState(signedStates[n])])

\* getStateSignerAddress recovers a participant, or throws: then nobody is chosen.
GetStateSignerAddress(signed) ==
  CHOOSE p \in Wallet : signed.signature = Sign(p, signed.state)

-------------------------------------------------------------------------------
(* The library: the arguments of the calls.                                        *)

\* Each state once, in the order given.
UniqueStates(signedStates) ==
  FoldLeft(LAMBDA acc, s : IF s.state \in ToSet(acc) THEN acc ELSE Append(acc, s.state),
           <<>>, signedStates)

\* Of every participant the last of the states it signed, in that order.
CreateSignatureArguments(signedStates) ==
  LET states == UniqueStates(signedStates)
      SignedAt(p) == {i \in DOMAIN states :
                        \E s \in ToSet(signedStates) :
                          s.state = states[i] /\ GetStateSignerAddress(s) = p}
      which == [p \in Wallet |-> Max(SignedAt(p))]
  IN  [states |-> states,
       signatures |-> [p \in Wallet |-> Sign(p, states[which[p]])],
       whoSignedWhat |-> [p \in Wallet |-> which[p] - 1]]

LargestTurnNum(states) == Max({states[i].turnNum : i \in DOMAIN states})
LastState(states) == states[CHOOSE i \in DOMAIN states :
                              states[i].turnNum = LargestTurnNum(states)]
FromZero(seq) == [i \in 0 .. Len(seq) - 1 |-> seq[i + 1]]

\* The arguments of challenge and checkpoint, signatures apart.
CheckpointArgs(a) ==
  [largestTurnNum |-> LargestTurnNum(a.states), numStates |-> Len(a.states),
   variableParts  |-> FromZero([i \in DOMAIN a.states |-> a.states[i].vars]),
   isFinalCount   |-> Cardinality({i \in DOMAIN a.states : a.states[i].isFinal}),
   whoSignedWhat  |-> a.whoSignedWhat]

\* The challenger signs the last state of the array.
SignChallengeMessage(states, p) == Sign(p, [forceMove |-> states[Len(states)]])

ConcludeArgs(a) ==
  [largestTurnNum |-> LargestTurnNum(a.states), numStates |-> Len(a.states),
   vars |-> LastState(a.states).vars, whoSignedWhat |-> a.whoSignedWhat]

\* The outcome goes in its bytes instead of its hash.
ConcludeAndTransferAllAssetsArgs(a) == ConcludeArgs(a)

CreateChallengeTransaction(signedStates, p) ==
  LET a == CreateSignatureArguments(signedStates)
  IN  [args |-> CheckpointArgs(a), signatures |-> a.signatures,
       challengerSig |-> SignChallengeMessage(a.states, p)]
CreateConcludeAndTransferAllAssetsTransaction(signedStates) ==
  LET a == CreateSignatureArguments(signedStates)
  IN  [args |-> ConcludeAndTransferAllAssetsArgs(a), signatures |-> a.signatures]

RespondArgs(challengeState, response) ==
  [isFinalAB |-> <<challengeState.isFinal, response.state.isFinal>>,
   variablePartAB |-> <<challengeState.vars, response.state.vars>>,
   sig |-> response.signature]

\* A ChallengeRegistered event and the states read from it: all are as final as the
\* event says, and the i-th signature goes with the i-th state.
ChallengeRegistered(pf, a) ==
  [turnNumRecord |-> pf.largestTurnNum, isFinal |-> pf.isFinalCount > 0,
   variableParts |-> pf.variableParts, sigs |-> a.signatures]
GetChallengeRegisteredEvent(event) ==
  LET len == Cardinality(DOMAIN event.variableParts)
  IN  [i \in DOMAIN event.variableParts |->
         [state |-> Contract!HashState(event.turnNumRecord - (len - i - 1), event.isFinal,
                                       event.variableParts[i]),
          signature |-> event.sigs[i]]]

-------------------------------------------------------------------------------
(* The chain services.                                                              *)

\* A support is stored with its latest state first.
SupportArray(states) ==
  SetToSortSeq(Support(states), LAMBDA s, t : s.vars.turnNum > t.vars.turnNum)

\* Variant with a bug, for mutation tests: the order is left as it is.
InGivenOrder(signedStates) == signedStates

\* ChainWatcher.challenge puts the states in order of their turns before it calls the
\* library.
SortedByTurnNum(signedStates) ==
  SortSeq(signedStates, LAMBDA s, t : s.state.turnNum < t.state.turnNum)
Challenge(support, p) ==
  CreateChallengeTransaction(SortedByTurnNum(FlatMapToNitro(support)), p)

\* concludeAndWithdraw takes the proof in the order it is stored.
ConcludeAndWithdraw(finalizationProof) ==
  CreateConcludeAndTransferAllAssetsTransaction(FlatMapToNitro(finalizationProof))

-------------------------------------------------------------------------------
(* What the contract checks.                                                       *)

ChallengeAccepted(tx, p) ==
  /\ tx.args \in Contract!ProofOfLength(tx.args.numStates)
  /\ Contract!WellFormed(tx.args)
  /\ \A q \in Wallet :
       tx.signatures[q] = Sign(q, Contract!StateHash(tx.args, tx.args.whoSignedWhat[q]))
  /\ tx.challengerSig = Sign(p, [forceMove |-> Contract!SupportedState(tx.args)])

ConcludeAccepted(tx) ==
  /\ Contract!WellFormedFinalization(tx.args)
  /\ \A q \in Wallet :
       tx.signatures[q] = Sign(q, Contract!FinalState(tx.args, tx.args.whoSignedWhat[q]))

\* A response to a challenge with the state of the record.
RespondAccepted(args, record) ==
  LET challenge == Contract!HashState(record.turnNum, args.isFinalAB[1], args.variablePartAB[1])
      response  == Contract!HashState(record.turnNum + 1, args.isFinalAB[2],
                                      args.variablePartAB[2])
  IN  /\ challenge = record
      /\ args.sig = Sign(Mover(response), response)
      /\ Contract!ValidTransition(challenge, response)
===============================================================================
