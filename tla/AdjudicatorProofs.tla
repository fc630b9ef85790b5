--------------------------- MODULE AdjudicatorProofs ---------------------------
(* Theorems about the adjudicator.  The entry of one channel (ForceMove) and the *)
(* wallets that sign for it and watch it (WatchedChannel): for every number of    *)
(* participants, every app and every choice of the participants that follow the   *)
(* wallet's rules.  The money of all channels (NitroAdjudicator) and what its      *)
(* clients compute of it (ClientPayouts): for any number of assets, channels,      *)
(* addresses and signed outcomes.                                                  *)
EXTENDS WatchedChannel, ClientPayouts, FiniteSums, SequenceTheorems, TLAPS

------------------------------------------------------------------------------
(* Arithmetic of uint48 and of the turn order. *)

\* uint48 arithmetic yields a uint48 and does nothing to a number that is one.
LEMMA Uint48Facts ==
  ASSUME NEW x \in Int
  PROVE  /\ Uint48(x) \in UInt48
         /\ x \in UInt48 => Uint48(x) = x
         /\ x < 0 /\ x >= -Width48 => Uint48(x) = x + Width48
BY WidthAssumption, SMT DEF Uint48, UInt48

\* Division with remainder, and its uniqueness.
LEMMA DivMod ==
  ASSUME NEW n \in Nat \ {0}, NEW x \in Nat
  PROVE  /\ x \div n \in Nat
         /\ x % n \in 0 .. n - 1
         /\ x = n * (x \div n) + (x % n)
BY SMT

\* A quotient and a remainder are the only ones.
LEMMA DivModUnique ==
  ASSUME NEW n \in Nat \ {0}, NEW q1 \in Int, NEW q2 \in Int,
         NEW r1 \in 0 .. n - 1, NEW r2 \in 0 .. n - 1,
         n * q1 + r1 = n * q2 + r2
  PROVE  r1 = r2
<1>1. n * (q1 - q2) = r2 - r1
  BY SMT
<1>2. CASE q1 - q2 >= 1
  <2>1. n * (q1 - q2) >= n
    BY <1>2, SMT
  <2>. QED  BY <1>1, <2>1, SMT
<1>3. CASE q1 - q2 <= -1
  <2>1. n * (q1 - q2) <= -n
    BY <1>3, SMT
  <2>. QED  BY <1>1, <2>1, SMT
<1>4. CASE q1 = q2
  BY <1>1, <1>4, SMT
<1>. QED  BY <1>2, <1>3, <1>4, SMT

\* The remainder of a successor.
LEMMA ModSucc ==
  ASSUME NEW n \in Nat \ {0}, NEW x \in Nat
  PROVE  (x + 1) % n = IF (x % n) = n - 1 THEN 0 ELSE (x % n) + 1
<1>. DEFINE q == x \div n
            r == x % n
            qq == (x + 1) \div n
            rr == (x + 1) % n
<1>1. q \in Nat /\ r \in 0 .. n - 1 /\ x = n * q + r
  BY DivMod
<1>2. qq \in Nat /\ rr \in 0 .. n - 1 /\ x + 1 = n * qq + rr
  BY x + 1 \in Nat, DivMod
<1>. HIDE DEF q, r, qq, rr
<1>. DEFINE t == q + 1
            z == 0
<1>3. CASE r = n - 1
  <2>1. /\ qq \in Int /\ t \in Int /\ rr \in 0 .. n - 1 /\ z \in 0 .. n - 1
        /\ n * qq + rr = n * t + z
    BY <1>1, <1>2, <1>3, SMT
  <2>. HIDE DEF t, z
  <2>2. rr = z
    BY <2>1, DivModUnique
  <2>. QED  BY <2>2, <1>3 DEF r, rr, z
<1>4. CASE r # n - 1
  <2>1. n * qq + rr = n * q + (r + 1) /\ r + 1 \in 0 .. n - 1
    BY <1>1, <1>2, <1>4, SMT
  <2>2. rr = r + 1
    BY <1>1, <1>2, <2>1, DivModUnique
  <2>. QED  BY <2>2, <1>4 DEF r, rr
<1>. QED  BY <1>3, <1>4

\* The remainder of n + k - i, for i below n, vanishes exactly where i = k % n.
LEMMA ModDistance ==
  ASSUME NEW n \in Nat \ {0}, NEW k \in Nat, NEW i \in 0 .. n - 1
  PROVE  (n + k - i) % n = 0 <=> i = k % n
<1>. DEFINE q == k \div n
            r == k % n
            x == n + k - i
            s == x \div n
<1>1. /\ q \in Nat /\ r \in 0 .. n - 1 /\ k = n * q + r
  BY DivMod
<1>2. x \in Nat
  BY SMT
<1>3. /\ s \in Nat /\ x % n \in 0 .. n - 1 /\ x = n * s + (x % n)
  BY <1>2, DivMod
<1>. HIDE DEF q, r, s
<1>4. ASSUME i = r PROVE x % n = 0
  <2>1. x = n * (q + 1) + 0
    BY <1>1, <1>4, SMT
  <2>2. n * (q + 1) + 0 = n * s + (x % n)
    BY <2>1, <1>3
  <2>. HIDE DEF x
  <2>. QED  BY <2>2, <1>1, <1>3, DivModUnique, SMT
<1>5. ASSUME x % n = 0 PROVE i = r
  <2>. DEFINE t == s - 1
  <2>1. t \in Int /\ n * q + r = n * t + i
    BY <1>1, <1>3, <1>5, SMT
  <2>. HIDE DEF t
  <2>. QED  BY <2>1, <1>1, DivModUnique
<1>. QED  BY <1>4, <1>5 DEF r

\* Seen from turn k + 1, its mover moves now and everybody else moved one turn
\* earlier than seen from turn k; that mover was the last to move before turn k.
LEMMA OffsetSucc ==
  ASSUME NEW k \in Nat, NEW i \in Participant
  PROVE  /\ Offset(i, k) \in 0 .. nParticipants - 1
         /\ i = (k + 1) % nParticipants => Offset(i, k + 1) = 0
         /\ i # (k + 1) % nParticipants =>
              /\ Offset(i, k) < nParticipants - 1
              /\ Offset(i, k + 1) = Offset(i, k) + 1
<1>. DEFINE n == nParticipants
            x == n + k - i
<1>1. n \in Nat \ {0} /\ i \in 0 .. n - 1 /\ x \in Nat /\ n + (k + 1) - i = x + 1
  BY ParticipantsAssumption, SMT DEF Participant
<1>2. Offset(i, k) = x % n /\ Offset(i, k + 1) = (x + 1) % n
  BY <1>1 DEF Offset
<1>3. x % n \in 0 .. n - 1
  BY <1>1, DivMod
<1>4. (x + 1) % n = IF (x % n) = n - 1 THEN 0 ELSE (x % n) + 1
  BY <1>1, ModSucc
<1>5. (n + (k + 1) - i) % n = 0 <=> i = (k + 1) % n
  BY <1>1, k + 1 \in Nat, ModDistance
<1>. HIDE DEF x
<1>. QED  BY <1>1, <1>2, <1>3, <1>4, <1>5, SMT

------------------------------------------------------------------------------
(* Support proofs. *)

\* The arguments of a call have the types the contract declares.
LEMMA ProofType ==
  ASSUME NEW pf \in Proof
  PROVE  /\ pf.numStates \in 1 .. nParticipants
         /\ pf.largestTurnNum \in 0 .. MaxTurnNum
         /\ pf.isFinalCount \in 0 .. pf.numStates
         /\ pf.variableParts \in [0 .. pf.numStates - 1 -> VariablePart]
         /\ pf.whoSignedWhat \in [Participant -> 0 .. pf.numStates - 1]
<1>1. PICK m \in 1 .. nParticipants : pf \in ProofOfLength(m)
  BY DEF Proof
<1>. QED  BY <1>1 DEF ProofOfLength

\* The same for the arguments of conclude.
LEMMA FinalizationProofType ==
  ASSUME NEW pf \in FinalizationProof
  PROVE  /\ pf.numStates \in 1 .. nParticipants
         /\ pf.largestTurnNum \in 0 .. MaxTurnNum
         /\ pf.vars \in VariablePart
BY DEF FinalizationProof, FinalizationProofOfLength

\* Every state of a proof is a state, and the last one has the largest turn.
LEMMA StateHashType ==
  ASSUME NEW pf \in Proof
  PROVE  /\ \A i \in 0 .. pf.numStates - 1 : StateHash(pf, i) \in State
         /\ SupportedState(pf) \in State
         /\ SupportedState(pf).turnNum = pf.largestTurnNum
<1>1. /\ pf.numStates \in 1 .. nParticipants
      /\ pf.largestTurnNum \in 0 .. MaxTurnNum
      /\ pf.variableParts \in [0 .. pf.numStates - 1 -> VariablePart]
  BY ProofType
<1>2. \A i \in 0 .. pf.numStates - 1 : TurnNum(pf, i) \in UInt48
  BY <1>1, Uint48Facts, ParticipantsAssumption, SMT DEF TurnNum
<1>3. \A i \in 0 .. pf.numStates - 1 : StateHash(pf, i) \in State
  BY <1>1, <1>2 DEF StateHash, HashState, State, IsFinal
<1>4. TurnNum(pf, pf.numStates - 1) = pf.largestTurnNum
  <2>1. /\ pf.largestTurnNum - pf.numStates + 1 + (pf.numStates - 1) = pf.largestTurnNum
        /\ pf.largestTurnNum \in UInt48
    BY <1>1, TurnAssumption, ParticipantsAssumption, WidthAssumption, SMT DEF UInt48
  <2>. QED  BY <2>1, Uint48Facts DEF TurnNum, UInt48
<1>. QED
  BY <1>1, <1>3, <1>4, ParticipantsAssumption, SMT DEF SupportedState, StateHash, HashState

------------------------------------------------------------------------------
(* Type correctness. *)

\* The entry starts well typed.
LEMMA InitType == Init => TypeOK
BY WidthAssumption, TurnAssumption, TimeAssumption, SMT
   DEF Init, TypeOK, EmptyStatus, ChannelData, UInt48

\* Every step keeps it so.
LEMMA StepType ==
  ASSUME TypeOK, [Next]_vars
  PROVE  TypeOK'
<1>1. ASSUME NEW pf \in WellFormedProof, Challenge(pf) PROVE TypeOK'
  <2>1. pf \in Proof /\ SupportedState(pf) \in State /\ pf.largestTurnNum \in 0 .. MaxTurnNum
    BY <1>1, ProofType, StateHashType DEF WellFormedProof
  <2>2. SupportedState(pf).vars.outcome \in Outcome
    BY <2>1 DEF State, VariablePart
  <2>3. Uint48(timestamp + ChallengeDuration) \in UInt48
    BY Uint48Facts, TimeAssumption DEF TypeOK, UInt48
  <2>. QED  BY <1>1, <2>1, <2>2, <2>3 DEF Challenge, TypeOK, ChannelData
<1>2. ASSUME NEW r \in State, status.stateHash # NoHash, Respond(status.stateHash, r)
      PROVE  TypeOK'
  <2>1. r.turnNum \in 0 .. MaxTurnNum
    BY <1>2, SMT DEF Respond, HasSigned, State, UInt48
  <2>. QED  BY <1>2, <2>1, WidthAssumption, SMT
              DEF Respond, TypeOK, ClearChallenge, ChannelData, UInt48
<1>3. ASSUME NEW pf \in WellFormedProof, Checkpoint(pf) PROVE TypeOK'
  BY <1>3, ProofType, WidthAssumption, SMT
     DEF WellFormedProof, Checkpoint, TypeOK, ClearChallenge, ChannelData, UInt48
<1>4. ASSUME NEW pf \in WellFormedFinalizationProof, Conclude(pf) PROVE TypeOK'
  <2>1. pf.vars.outcome \in Outcome
    BY FinalizationProofType DEF WellFormedFinalizationProof, VariablePart
  <2>2. Uint48(timestamp) \in UInt48
    BY Uint48Facts DEF TypeOK
  <2>3. 0 \in 0 .. MaxTurnNum
    BY TurnAssumption, SMT
  <2>. QED  BY <1>4, <2>1, <2>2, <2>3 DEF Conclude, TypeOK, ChannelData
<1>5. ASSUME Tick PROVE TypeOK'
  BY <1>5, TimeAssumption, SMT DEF Tick, TypeOK
<1>6. ASSUME NEW p \in Honest, NEW s \in State, SignState(p, s) PROVE TypeOK'
  BY <1>6 DEF SignState, TypeOK
<1>7. ASSUME UNCHANGED vars PROVE TypeOK'
  BY <1>7 DEF vars, TypeOK
<1>. QED
  BY <1>1, <1>2, <1>3, <1>4, <1>5, <1>6, <1>7 DEF Next, ContractCall

\* The entry, the clock and the signatures are well typed in every behaviour.
THEOREM TypeCorrect == Spec => []TypeOK
BY InitType, StepType, PTL DEF Spec

------------------------------------------------------------------------------
(* The record is supported. *)

\* No signature exists on a state whose turn number wrapped around: a signed
\* state of a proof has the turn number its position says, without wrapping.
LEMMA SignedTurnNum ==
  ASSUME NEW pf \in Proof, NEW j \in 0 .. pf.numStates - 1,
         TurnNum(pf, j) <= MaxTurnNum
  PROVE  /\ pf.largestTurnNum - pf.numStates + 1 + j >= 0
         /\ TurnNum(pf, j) = pf.largestTurnNum - pf.numStates + 1 + j
<1>. DEFINE x == pf.largestTurnNum - pf.numStates + 1 + j
<1>1. /\ pf.numStates \in 1 .. nParticipants
      /\ pf.largestTurnNum \in 0 .. MaxTurnNum
  BY ProofType
<1>2. /\ x \in Int /\ x >= -nParticipants /\ x <= MaxTurnNum
      /\ -nParticipants >= -Width48
      /\ MaxTurnNum < Width48 - nParticipants
      /\ MaxTurnNum \in Nat /\ nParticipants \in Nat /\ Width48 \in Nat
  BY <1>1, ParticipantsAssumption, TurnAssumption, WidthAssumption, SMT
<1>3. TurnNum(pf, j) = Uint48(x)
  BY DEF TurnNum
<1>. HIDE DEF x
<1>4. /\ x \in UInt48 => Uint48(x) = x
      /\ x < 0 /\ x >= -Width48 => Uint48(x) = x + Width48
  BY <1>2, Uint48Facts
<1>5. x >= 0 /\ Uint48(x) = x
  BY <1>2, <1>3, <1>4, SMT DEF UInt48
<1>. QED  BY <1>3, <1>5 DEF x

\* Where the turn numbers of a proof do not wrap, neither does the first final
\* one, and finality is a suffix of the proof.
LEMMA FirstFinal ==
  ASSUME NEW pf \in Proof, pf.isFinalCount <= pf.largestTurnNum + 1
  PROVE  FirstFinalTurnNum(pf) = pf.largestTurnNum - pf.isFinalCount + 1
<1>. DEFINE x == pf.largestTurnNum - pf.isFinalCount + 1
<1>1. x \in Int /\ x \in UInt48
  BY ProofType, TurnAssumption, ParticipantsAssumption, WidthAssumption, SMT DEF UInt48
<1>. HIDE DEF x
<1>2. Uint48(x) = x
  BY <1>1, Uint48Facts
<1>. QED  BY <1>2 DEF x, FirstFinalTurnNum

\* More signatures support more states.
LEMMA SupportMonotone ==
  ASSUME \A p \in Participant : \A s \in State : HasSigned(p, s) => HasSigned(p, s)'
  PROVE  SupportedStates \subseteq SupportedStates'
<1>. SUFFICES ASSUME NEW pf \in WellFormedProof, ValidSignatures(pf)
              PROVE  ValidSignatures(pf)'
  BY DEF SupportedStates
<1>1. pf \in Proof
  BY DEF WellFormedProof
<1>2. \A i \in Participant : StateHash(pf, pf.whoSignedWhat[i]) \in State
  BY <1>1, ProofType, StateHashType
<1>. QED  BY <1>2 DEF ValidSignatures

\* A supported state and the signature of the next mover on a valid successor
\* support the successor: append it to the proof, and drop the oldest state if the
\* proof is then longer than the number of participants.  Only the next mover can
\* have signed the oldest state of a proof of full length, and that participant
\* has now signed the successor.
LEMMA RespondSupported ==
  ASSUME NEW pf \in WellFormedProof, ValidSignatures(pf),
         NEW r \in State,
         r.turnNum = pf.largestTurnNum + 1,
         HasSigned(r.turnNum % nParticipants, r),
         ValidTransition(SupportedState(pf), r)
  PROVE  r \in SupportedStates
<1>. DEFINE n == nParticipants
            L == pf.largestTurnNum
            m == pf.numStates
            c == pf.isFinalCount
            mover == (L + 1) % n
            d == IF m < n THEN 0 ELSE 1
            k == m + 1 - d
            last == SupportedState(pf)
            finals == IF ~r.isFinal THEN 0
                      ELSE IF ~last.isFinal THEN 1
                      ELSE IF c + 1 <= k THEN c + 1 ELSE k
            parts == [j \in 0 .. k - 1 |-> IF j = k - 1 THEN r.vars
                                           ELSE pf.variableParts[j + d]]
            who == [i \in Participant |-> IF i = mover THEN k - 1
                                          ELSE pf.whoSignedWhat[i] - d]
            q == [largestTurnNum |-> L + 1, numStates |-> k, variableParts |-> parts,
                  isFinalCount |-> finals, whoSignedWhat |-> who]
<1>1. /\ pf \in Proof
      /\ n \in Nat /\ n >= 1
      /\ MaxTurnNum \in Nat /\ Width48 \in Nat /\ MaxTurnNum + n < Width48
      /\ m \in 1 .. n /\ L \in 0 .. MaxTurnNum /\ c \in 0 .. m
      /\ pf.variableParts \in [0 .. m - 1 -> VariablePart]
      /\ pf.whoSignedWhat \in [Participant -> 0 .. m - 1]
      /\ last \in State /\ last.turnNum = L
      /\ L + 1 <= MaxTurnNum
      /\ r.vars \in VariablePart /\ r.isFinal \in BOOLEAN
  BY ProofType, StateHashType, ParticipantsAssumption, TurnAssumption, WidthAssumption
     DEF WellFormedProof, HasSigned, State
<1>2. /\ d \in {0, 1} /\ k \in 1 .. n /\ k = m + 1 - d
      /\ d = 1 => m = n
  BY <1>1, SMT
<1>2a. L \in Nat /\ m \in Nat /\ c \in Nat /\ d \in Nat /\ k \in Nat /\ k = m + 1 - d
  <2>. HIDE DEF L, m, c, d, k
  <2>. QED  BY <1>1, <1>2, SMT
<1>3. /\ q.largestTurnNum = L + 1 /\ q.numStates = k /\ q.variableParts = parts
      /\ q.isFinalCount = finals /\ q.whoSignedWhat = who
  OBVIOUS
<1>4. last.isFinal => /\ c \in 1 .. L + 1
                      /\ FirstFinalTurnNum(pf) = L - c + 1
                      /\ r.isFinal
  <2>. SUFFICES ASSUME last.isFinal
                PROVE  /\ c \in 1 .. L + 1
                       /\ FirstFinalTurnNum(pf) = L - c + 1
                       /\ r.isFinal
    OBVIOUS
  <2>. DEFINE x == L - c + 1
  <2>1. /\ x \in Int /\ x >= -Width48 /\ x <= MaxTurnNum
    BY <1>1, SMT
  <2>2. FirstFinalTurnNum(pf) = Uint48(x)
    BY DEF FirstFinalTurnNum
  <2>3. L >= Uint48(x)
    BY <1>1, <2>2 DEF SupportedState, StateHash, HashState, IsFinal
  <2>4. /\ x \in UInt48 => Uint48(x) = x
        /\ x < 0 /\ x >= -Width48 => Uint48(x) = x + Width48
    BY <2>1, Uint48Facts
  <2>5. x >= 0
    <3>1. x >= 1 - n
      BY <1>1, SMT
    <3>. HIDE DEF x
    <3>. QED  BY <1>1, <2>1, <2>3, <2>4, <3>1, SMT
  <2>6. Uint48(x) = x
    BY <1>1, <2>1, <2>4, <2>5, SMT DEF UInt48
  <2>7. c \in 1 .. L + 1
    BY <1>1, <2>3, <2>5, <2>6, SMT
  <2>8. r.isFinal
    BY DEF ValidTransition
  <2>. QED  BY <2>2, <2>6, <2>7, <2>8
<1>5. finals \in 0 .. k /\ finals <= L + 2
  <2>1. k \in Nat /\ k >= 1 /\ L \in Nat /\ c \in Nat
    BY <1>2, <1>2a
  <2>2. CASE ~r.isFinal \/ ~last.isFinal
    <3>1. finals \in {0, 1}
      BY <2>2
    <3>. HIDE DEF L, k, c, finals
    <3>. QED  BY <2>1, <3>1, SMT
  <2>3. CASE r.isFinal /\ last.isFinal
    <3>1. c <= L + 1
      BY <1>4, <2>1, <2>3
    <3>2. finals = IF c + 1 <= k THEN c + 1 ELSE k
      BY <2>3
    <3>. HIDE DEF L, k, c, finals
    <3>. QED  BY <2>1, <3>1, <3>2, SMT
  <2>. QED  BY <2>2, <2>3
<1>6. \A i \in Participant \ {mover} : pf.whoSignedWhat[i] - d \in 0 .. k - 2
  <2>. SUFFICES ASSUME NEW i \in Participant \ {mover}
                PROVE  pf.whoSignedWhat[i] - d \in 0 .. k - 2
    OBVIOUS
  <2>1. pf.whoSignedWhat[i] \in 0 .. m - 1
    BY <1>1
  <2>2. Offset(i, L) \in 0 .. n - 1 /\ Offset(i, L) < n - 1
    BY <1>1, OffsetSucc, SMT
  <2>3. pf.whoSignedWhat[i] + Offset(i, L) + 1 >= m
    BY DEF WellFormedProof, WellFormed, AcceptableWhoSignedWhat
  <2>. DEFINE w == pf.whoSignedWhat[i]
              o == Offset(i, L)
  <2>4. /\ w \in Int /\ 0 <= w /\ w <= m - 1
        /\ o \in Int /\ 0 <= o /\ o < n - 1 /\ w + o + 1 >= m
        /\ m \in Int /\ n \in Int /\ m <= n /\ k = m + 1 - d
    BY <1>1, <1>2a, <2>1, <2>2, <2>3
  <2>5. d = 0 \/ (d = 1 /\ m = n)
    BY <1>2
  <2>. HIDE DEF L, m, k, d, n, w, o
  <2>6. w - d \in 0 .. k - 2
    BY <2>4, <2>5, SMT
  <2>. QED  BY <2>6 DEF w
<1>7. q \in Proof
  <2>1. parts \in [0 .. k - 1 -> VariablePart]
    <3>. SUFFICES ASSUME NEW j \in 0 .. k - 1, j # k - 1
                  PROVE  pf.variableParts[j + d] \in VariablePart
      BY <1>1
    <3>1. j + d \in 0 .. m - 1
      BY <1>1, <1>2, SMT
    <3>. QED  BY <1>1, <3>1
  <2>2. who \in [Participant -> 0 .. k - 1]
    BY <1>2, <1>6, SMT
  <2>3. L + 1 \in 0 .. MaxTurnNum
    BY <1>1, SMT
  <2>. HIDE DEF parts, who, finals, k
  <2>4. q \in ProofOfLength(k)
    BY <1>5, <2>1, <2>2, <2>3 DEF ProofOfLength
  <2>. QED  BY <1>1, <1>2, <2>4 DEF Proof
<1>7a. FirstFinalTurnNum(q) = L + 1 - finals + 1
  <2>. HIDE DEF L, k, finals, parts, who, q
  <2>1. q.isFinalCount <= q.largestTurnNum + 1
    BY <1>1, <1>2, <1>3, <1>5, SMT
  <2>2. FirstFinalTurnNum(q) = q.largestTurnNum - q.isFinalCount + 1
    BY <1>7, <2>1, FirstFinal
  <2>. QED  BY <1>1, <1>2, <1>3, <1>5, <2>2, SMT
<1>8. SupportedState(q) = r
  <2>1. SupportedState(q).turnNum = L + 1
    BY <1>3, <1>7, StateHashType
  <2>2. FirstFinalTurnNum(q) = L + 1 - finals + 1
    BY <1>7a
  <2>3. SupportedState(q).isFinal <=> (L + 1 >= FirstFinalTurnNum(q))
    <3>. HIDE DEF q, L, k, finals
    <3>. QED  BY <2>1 DEF SupportedState, StateHash, HashState, IsFinal
  <2>4. (L + 1 >= FirstFinalTurnNum(q)) <=> r.isFinal
    <3>1. finals = 0 <=> ~r.isFinal
      <4>. HIDE DEF L, m, k, d, last
      <4>. QED  BY <1>1, <1>2, <1>4, SMT
    <3>2. (L + 1 >= FirstFinalTurnNum(q)) <=> finals # 0
      <4>. HIDE DEF finals, L, k, q
      <4>. QED  BY <1>1, <1>2, <1>5, <2>2, SMT
    <3>. QED  BY <3>1, <3>2
  <2>5. SupportedState(q).vars = r.vars
    BY <1>2, <1>3, SMT DEF SupportedState, StateHash, HashState
  <2>6. SupportedState(q) \in State
    BY <1>7, StateHashType
  <2>. HIDE DEF q
  <2>. QED  BY <2>1, <2>3, <2>4, <2>5, <2>6 DEF State
<1>9. \A j \in 0 .. k - 2 : 
        /\ TurnNum(q, j) = TurnNum(pf, j + d)
        /\ TurnNum(q, j) <= MaxTurnNum => StateHash(q, j) = StateHash(pf, j + d)
  <2>. SUFFICES ASSUME NEW j \in 0 .. k - 2
                PROVE  /\ TurnNum(q, j) = TurnNum(pf, j + d)
                       /\ TurnNum(q, j) <= MaxTurnNum
                            => StateHash(q, j) = StateHash(pf, j + d)
    OBVIOUS
  <2>1. j \in 0 .. k - 1 /\ j # k - 1 /\ j + d \in 0 .. m - 1
    <3>. HIDE DEF k, m, d
    <3>. QED  BY <1>2a, SMT
  <2>2. TurnNum(q, j) = TurnNum(pf, j + d)
    <3>1. (L + 1) - k + 1 + j = L - m + 1 + (j + d)
      <4>. HIDE DEF L, m, k, d, q
      <4>. QED  BY <1>2a, SMT
    <3>. QED  BY <1>3, <3>1 DEF TurnNum
  <2>3. ASSUME TurnNum(q, j) <= MaxTurnNum
        PROVE  StateHash(q, j) = StateHash(pf, j + d)
    <3>1. /\ L - m + 1 + (j + d) >= 0
          /\ TurnNum(pf, j + d) = L - m + 1 + (j + d)
      BY <1>1, <2>1, <2>2, <2>3, SignedTurnNum
    <3>2. q.variableParts[j] = pf.variableParts[j + d]
      BY <1>3, <2>1
    <3>3. IsFinal(q, j) <=> IsFinal(pf, j + d)
      <4>1. FirstFinalTurnNum(q) = L + 1 - finals + 1
        BY <1>7a
      <4>2. CASE last.isFinal
        <5>1. finals = IF c + 1 <= k THEN c + 1 ELSE k
          BY <1>4, <4>2
        <5>2. FirstFinalTurnNum(pf) = L - c + 1
          BY <1>4, <4>2
        <5>3. c <= m /\ k <= m + 1 /\ TurnNum(q, j) = L - m + 1 + (j + d)
          BY <1>1, <1>2, <2>2, <3>1
        <5>. HIDE DEF L, m, c, k, d, last, finals, q
        <5>4. TurnNum(q, j) >= L + 1 - finals + 1 <=> TurnNum(q, j) >= L - c + 1
          BY <1>2a, <5>1, <5>3, SMT
        <5>. QED  BY <2>2, <4>1, <5>2, <5>4 DEF IsFinal
      <4>3. CASE ~last.isFinal
        <5>1. ~(L >= FirstFinalTurnNum(pf))
          BY <1>1, <4>3 DEF SupportedState, StateHash, HashState, IsFinal
        <5>2. FirstFinalTurnNum(pf) \in UInt48
          BY <1>1, Uint48Facts, SMT DEF FirstFinalTurnNum
        <5>3. /\ L \in Int /\ TurnNum(pf, j + d) \in Int
              /\ TurnNum(pf, j + d) <= L /\ finals \in 0 .. 1
          <6>1. finals \in 0 .. 1
            BY <1>4, <4>3
          <6>2. L \in Int /\ m \in Int /\ j + d \in 0 .. m - 1
            BY <1>1, <1>2, <2>1
          <6>. HIDE DEF L, m, d, finals
          <6>. QED  BY <3>1, <6>1, <6>2, SMT
        <5>. HIDE DEF L, m, c, k, d, last, q, finals
        <5>4. ~(TurnNum(pf, j + d) >= FirstFinalTurnNum(pf))
          BY <5>1, <5>2, <5>3, SMT DEF UInt48
        <5>5. ~(TurnNum(q, j) >= FirstFinalTurnNum(q))
          BY <2>2, <4>1, <5>3, SMT
        <5>. QED  BY <5>4, <5>5 DEF IsFinal
      <4>. QED  BY <4>2, <4>3
    <3>4. IsFinal(q, j) = IsFinal(pf, j + d)
      <4>1. IsFinal(q, j) \in BOOLEAN /\ IsFinal(pf, j + d) \in BOOLEAN
        BY DEF IsFinal
      <4>. QED  BY <3>3, <4>1
    <3>. QED  BY <2>2, <3>2, <3>4 DEF StateHash, HashState
  <2>. QED  BY <2>2, <2>3
<1>10. ValidTransitionChain(q)
  <2>. SUFFICES ASSUME NEW j \in 0 .. k - 2, TurnNum(q, j) < L + 1
                PROVE  ValidTransition(StateHash(q, j), StateHash(q, j + 1))
    BY <1>3 DEF ValidTransitionChain
  <2>1. j + d \in 0 .. m - 1
    <3>. HIDE DEF k, m, d, q
    <3>. QED  BY <1>2a, SMT
  <2>2. TurnNum(q, j) \in Int
    <3>1. L - m + 1 + (j + d) \in Int
      <4>. HIDE DEF L, m, d
      <4>. QED  BY <1>1, <2>1, SMT
    <3>2. TurnNum(pf, j + d) \in UInt48
      BY <3>1, Uint48Facts DEF TurnNum
    <3>3. UInt48 \subseteq Int
      BY WidthAssumption, SMT DEF UInt48
    <3>. QED  BY <1>9, <3>2, <3>3
  <2>3. TurnNum(q, j) <= MaxTurnNum
    BY <1>1, <2>2, SMT
  <2>4. StateHash(q, j) = StateHash(pf, j + d)
    BY <1>9, <2>3
  <2>5. CASE j = k - 2
    <3>1. j + d = m - 1 /\ j + 1 = k - 1
      BY <1>1, <1>2, <2>5, SMT
    <3>2. StateHash(q, j) = last /\ StateHash(q, j + 1) = r
      BY <1>3, <1>8, <2>4, <3>1 DEF SupportedState
    <3>. QED  BY <3>2
  <2>6. CASE j # k - 2
    <3>1. /\ j + 1 \in 0 .. k - 2 /\ j + d \in 0 .. m - 2
          /\ (j + 1) + d = (j + d) + 1 /\ (j + d) + 1 \in 0 .. m - 1
      <4>. HIDE DEF k, m, d, q
      <4>. QED  BY <1>2a, <2>6, SMT
    <3>2. TurnNum(pf, j + d) = L - m + 1 + (j + d) /\ L - m + 1 + (j + d) >= 0
      BY <1>1, <1>9, <2>1, <2>3, SignedTurnNum
    <3>3. TurnNum(pf, j + d) < L
      BY <1>1, <3>1, <3>2, SMT
    <3>4. ValidTransition(StateHash(pf, j + d), StateHash(pf, (j + d) + 1))
      BY <3>1, <3>3 DEF WellFormedProof, WellFormed, ValidTransitionChain
    <3>5. TurnNum(pf, (j + d) + 1) <= MaxTurnNum
      <4>. DEFINE x == L - m + 1 + ((j + d) + 1)
      <4>1. x \in UInt48 /\ x <= MaxTurnNum
        <5>. DEFINE y == L - m + 1 + (j + d)
        <5>1. y >= 0 /\ y < L
          BY <3>2, <3>3
        <5>2. y \in Int /\ x = y + 1
          <6>1. \A a, b, e, f \in Int :
                  /\ a - b + 1 + (e + f) \in Int
                  /\ a - b + 1 + ((e + f) + 1) = (a - b + 1 + (e + f)) + 1
            BY SMT
          <6>2. L \in Int /\ m \in Int /\ j \in Int /\ d \in Int
            <7>. HIDE DEF L, m, d, k
            <7>. QED  BY <1>2a, SMT
          <6>. QED  BY <6>1, <6>2
        <5>3. /\ L <= MaxTurnNum /\ MaxTurnNum < Width48
              /\ MaxTurnNum \in Nat /\ Width48 \in Nat /\ L \in Nat
          <6>. HIDE DEF L
          <6>. QED  BY <1>1, <1>2a, ParticipantsAssumption, SMT
        <5>. HIDE DEF x, y, L
        <5>. QED  BY <5>1, <5>2, <5>3, SMT DEF UInt48
      <4>2. TurnNum(pf, (j + d) + 1) = Uint48(x)
        BY DEF TurnNum
      <4>. HIDE DEF x
      <4>. QED  BY <4>1, <4>2, Uint48Facts DEF UInt48
    <3>6. StateHash(q, j + 1) = StateHash(pf, (j + d) + 1)
      BY <1>9, <3>1, <3>5
    <3>. QED  BY <2>4, <3>4, <3>6
  <2>. QED  BY <2>5, <2>6
<1>11. AcceptableWhoSignedWhat(who, L + 1, k)
  <2>. SUFFICES ASSUME NEW i \in Participant
                PROVE  who[i] + Offset(i, L + 1) + 1 >= k
    BY DEF AcceptableWhoSignedWhat
  <2>1. CASE i = mover
    <3>1. who[i] = k - 1 /\ Offset(i, L + 1) = 0
      <4>1. Offset(i, L + 1) = 0
        <5>. HIDE DEF who, k
        <5>. QED  BY <1>2a, <2>1, OffsetSucc
      <4>2. who[i] = k - 1
        BY <2>1
      <4>. QED  BY <4>1, <4>2
    <3>. HIDE DEF who, k
    <3>. QED  BY <1>2, <3>1, SMT
  <2>2. CASE i # mover
    <3>1. /\ who[i] = pf.whoSignedWhat[i] - d
          /\ pf.whoSignedWhat[i] \in 0 .. m - 1
      BY <1>1, <2>2
    <3>2. /\ Offset(i, L) \in 0 .. n - 1
          /\ Offset(i, L + 1) = Offset(i, L) + 1
      BY <1>1, <2>2, OffsetSucc, SMT
    <3>3. pf.whoSignedWhat[i] + Offset(i, L) + 1 >= m
      BY DEF WellFormedProof, WellFormed, AcceptableWhoSignedWhat
    <3>. DEFINE w == pf.whoSignedWhat[i]
                o == Offset(i, L)
    <3>4. who[i] = w - d /\ w \in 0 .. m - 1 /\ w + o + 1 >= m
      BY <3>1, <3>3
    <3>5. Offset(i, L + 1) = o + 1 /\ o \in 0 .. n - 1 /\ n \in Nat
      BY <1>1, <3>2
    <3>. HIDE DEF who, k, m, d, L, n, w, o
    <3>6. (w - d) + (o + 1) + 1 >= k
      BY <1>2a, <3>4, <3>5, SMT
    <3>. QED  BY <3>4, <3>5, <3>6
  <2>. QED  BY <2>1, <2>2
<1>12. ValidSignatures(q)
  <2>. SUFFICES ASSUME NEW i \in Participant
                PROVE  HasSigned(i, StateHash(q, q.whoSignedWhat[i]))
    BY DEF ValidSignatures
  <2>1. CASE i = mover
    <3>1. StateHash(q, q.whoSignedWhat[i]) = r
      BY <1>3, <1>8, <2>1 DEF SupportedState
    <3>. QED  BY <2>1, <3>1
  <2>2. CASE i # mover
    <3>. DEFINE j == pf.whoSignedWhat[i] - d
    <3>1. q.whoSignedWhat[i] = j /\ j \in 0 .. k - 2 /\ j + d = pf.whoSignedWhat[i]
      BY <1>1, <1>2, <1>3, <1>6, <2>2, SMT
    <3>2. HasSigned(i, StateHash(pf, j + d))
      BY <3>1 DEF ValidSignatures
    <3>3. TurnNum(pf, j + d) <= MaxTurnNum
      BY <3>2 DEF HasSigned, StateHash, HashState
    <3>. HIDE DEF j, q, k, d
    <3>4. StateHash(q, j) = StateHash(pf, j + d)
      BY <1>9, <3>1, <3>3
    <3>. QED  BY <3>1, <3>2, <3>4
  <2>. QED  BY <2>1, <2>2
<1>. QED
  BY <1>3, <1>7, <1>8, <1>10, <1>11, <1>12 DEF SupportedStates, WellFormedProof, WellFormed

\* The turn number an action stores is the turn number of a supported state.
LEMMA ProofSupports ==
  ASSUME NEW pf \in WellFormedProof, ValidSignatures(pf)
  PROVE  /\ SupportedState(pf) \in SupportedStates
         /\ SupportedState(pf).turnNum = pf.largestTurnNum
BY StateHashType DEF SupportedStates, WellFormedProof

\* A contract call adds no signature.
LEMMA CallKeepsSupport ==
  ASSUME UNCHANGED signed
  PROVE  SupportedStates \subseteq SupportedStates'
<1>1. \A p \in Participant : \A s \in State : HasSigned(p, s) => HasSigned(p, s)'
  BY DEF HasSigned
<1>. QED  BY <1>1, SupportMonotone

\* What the adjudicator records, and what it would finalize a challenge with, is
\* supported by a full set of signatures, however many participants there are and
\* whatever the ones that do not follow the wallet's rule have signed.
THEOREM RecordIsSupported == Spec => []RecordSupported
<1>1. Init => RecordSupported
  BY DEF Init, RecordSupported, EmptyStatus, ChannelData
<1>2. TypeOK /\ RecordSupported /\ [Next]_vars => RecordSupported'
  <2>. SUFFICES ASSUME TypeOK, RecordSupported, [Next]_vars PROVE RecordSupported'
    OBVIOUS
  <2>1. ASSUME NEW pf \in WellFormedProof, Challenge(pf) PROVE RecordSupported'
    <3>1. SupportedState(pf) \in SupportedStates'
      BY <2>1, ProofSupports, CallKeepsSupport DEF Challenge
    <3>2. SupportedState(pf).turnNum = pf.largestTurnNum
      BY <2>1, ProofSupports DEF Challenge
    <3>3. /\ status'.stateHash = SupportedState(pf)
          /\ status'.turnNumRecord = pf.largestTurnNum
      BY <2>1 DEF Challenge, ChannelData
    <3>. QED  BY <3>1, <3>2, <3>3 DEF RecordSupported
  <2>2. ASSUME NEW r \in State, status.stateHash # NoHash, Respond(status.stateHash, r)
        PROVE  RecordSupported'
    <3>1. status.stateHash \in SupportedStates
      BY <2>2 DEF RecordSupported
    <3>2. PICK pf \in WellFormedProof :
            ValidSignatures(pf) /\ SupportedState(pf) = status.stateHash
      BY <3>1 DEF SupportedStates
    <3>3. pf.largestTurnNum = status.turnNumRecord
      BY <2>2, <3>2, ProofSupports DEF Respond
    <3>4. Uint48(status.turnNumRecord + 1) = status.turnNumRecord + 1
      <4>1. status.turnNumRecord + 1 \in UInt48
        BY TurnAssumption, ParticipantsAssumption, WidthAssumption, SMT DEF TypeOK, UInt48
      <4>. QED  BY <4>1, Uint48Facts DEF UInt48
    <3>5. /\ r.turnNum = status.turnNumRecord + 1
          /\ HasSigned(r.turnNum % nParticipants, r)
          /\ ValidTransition(status.stateHash, r)
      BY <2>2, <3>4 DEF Respond
    <3>6. r \in SupportedStates
      BY <3>2, <3>3, <3>5, RespondSupported
    <3>7. r \in SupportedStates'
      BY <2>2, <3>6, CallKeepsSupport DEF Respond
    <3>8. status'.stateHash = NoHash /\ status'.turnNumRecord = r.turnNum
      BY <2>2, <3>4, <3>5 DEF Respond, ClearChallenge, ChannelData
    <3>. QED  BY <3>7, <3>8 DEF RecordSupported
  <2>3. ASSUME NEW pf \in WellFormedProof, Checkpoint(pf) PROVE RecordSupported'
    <3>1. SupportedState(pf) \in SupportedStates'
      BY <2>3, ProofSupports, CallKeepsSupport DEF Checkpoint
    <3>2. SupportedState(pf).turnNum = pf.largestTurnNum
      BY <2>3, ProofSupports DEF Checkpoint
    <3>3. status'.stateHash = NoHash /\ status'.turnNumRecord = pf.largestTurnNum
      BY <2>3 DEF Checkpoint, ClearChallenge, ChannelData
    <3>. QED  BY <3>1, <3>2, <3>3 DEF RecordSupported
  <2>4. ASSUME NEW pf \in WellFormedFinalizationProof, Conclude(pf)
        PROVE  RecordSupported'
    BY <2>4 DEF Conclude, RecordSupported, ChannelData
  <2>5. ASSUME Tick PROVE RecordSupported'
    BY <2>5, CallKeepsSupport DEF Tick, RecordSupported
  <2>6. ASSUME NEW p \in Honest, NEW s \in State, SignState(p, s)
        PROVE  RecordSupported'
    <3>1. \A i \in Participant : \A t \in State : HasSigned(i, t) => HasSigned(i, t)'
      BY <2>6 DEF SignState, HasSigned, TypeOK
    <3>2. SupportedStates \subseteq SupportedStates'
      BY <3>1, SupportMonotone
    <3>. QED  BY <2>6, <3>2 DEF SignState, RecordSupported
  <2>7. ASSUME UNCHANGED vars PROVE RecordSupported'
    BY <2>7, CallKeepsSupport DEF vars, RecordSupported
  <2>. QED
    BY <2>1, <2>2, <2>3, <2>4, <2>5, <2>6, <2>7 DEF Next, ContractCall
<1>. QED  BY <1>1, <1>2, TypeCorrect, PTL DEF Spec

\* Nobody is carried along: one of the last nParticipants turns up to the record
\* carries the signature of each participant that follows the wallet's rule.
THEOREM RecordIsBacked == Spec => []RecordBacked
<1>1. TypeOK /\ RecordSupported => RecordBacked
  <2>. SUFFICES ASSUME TypeOK, RecordSupported, status.turnNumRecord > 0,
                       NEW p \in Honest
                PROVE  \E s \in signed[p] :
                         s.turnNum \in status.turnNumRecord - nParticipants + 1
                                         .. status.turnNumRecord
    BY DEF RecordBacked
  <2>1. PICK pf \in WellFormedProof :
          ValidSignatures(pf) /\ SupportedState(pf).turnNum = status.turnNumRecord
    BY DEF RecordSupported, SupportedStates
  <2>. DEFINE j == pf.whoSignedWhat[p]
              s == StateHash(pf, j)
  <2>2. /\ pf \in Proof /\ p \in Participant /\ j \in 0 .. pf.numStates - 1
        /\ pf.numStates \in 1 .. nParticipants
        /\ pf.largestTurnNum = status.turnNumRecord
    BY <2>1, HonestAssumption, ProofType, ProofSupports DEF WellFormedProof
  <2>3. s \in signed[p] /\ TurnNum(pf, j) <= MaxTurnNum /\ s.turnNum = TurnNum(pf, j)
    BY <2>1, <2>2 DEF ValidSignatures, HasSigned, StateHash, HashState
  <2>4. TurnNum(pf, j) = pf.largestTurnNum - pf.numStates + 1 + j
    BY <2>2, <2>3, SignedTurnNum
  <2>. HIDE DEF j, s
  <2>5. s.turnNum \in status.turnNumRecord - nParticipants + 1 .. status.turnNumRecord
    BY <2>2, <2>3, <2>4, ParticipantsAssumption, SMT DEF TypeOK
  <2>. QED  BY <2>3, <2>5
<1>. QED  BY <1>1, TypeCorrect, RecordIsSupported, PTL

------------------------------------------------------------------------------
(* The mode diagram. *)

\* What clears a challenge opens the channel.
LEMMA ClearedIsOpen ==
  ASSUME NEW turnNum, ClearChallenge(turnNum)
  PROVE  mode' = "Open" /\ status'.turnNumRecord = turnNum
BY DEF ClearChallenge, ChannelData, mode, Mode

\* A challenge that is registered runs, if it lasts a moment and its end does not
\* overflow.
LEMMA ChallengeRuns ==
  ASSUME TypeOK, ChallengeDuration > 0, MaxTimestamp + ChallengeDuration < Width48,
         NEW pf \in WellFormedProof, Challenge(pf)
  PROVE  mode' = "Challenge"
<1>1. timestamp \in 1 .. MaxTimestamp /\ MaxTimestamp \in Nat /\ ChallengeDuration \in Nat
  BY TimeAssumption DEF TypeOK, UInt48
<1>2. timestamp + ChallengeDuration \in UInt48
  BY <1>1, WidthAssumption, SMT DEF UInt48
<1>3. Uint48(timestamp + ChallengeDuration) = timestamp + ChallengeDuration
  BY <1>2, Uint48Facts DEF UInt48
<1>4. status'.finalizesAt = timestamp + ChallengeDuration /\ timestamp' = timestamp
  BY <1>3 DEF Challenge, ChannelData
<1>. QED  BY <1>1, <1>4, SMT DEF mode, Mode

\* The adjudicator moves along the documented mode diagram, and its record as the
\* documents say, provided that a challenge lasts a moment and that its end does not
\* overflow: the contract checks neither (the overflow is left to the caller in a
\* comment of challenge).
THEOREM FollowsModes ==
  ASSUME ChallengeDuration > 0, MaxTimestamp + ChallengeDuration < Width48
  PROVE  Spec => ModesSpec
<1>1. Init => Modes!Init
  BY DEF Init, Modes!Init, mode, Mode, EmptyStatus, ChannelData
<1>2. TypeOK /\ [Next]_vars => [Modes!Next]_(Modes!modeVars)
  <2>. SUFFICES ASSUME TypeOK, [Next]_vars PROVE [Modes!Next]_(Modes!modeVars)
    OBVIOUS
  <2>. USE DEF Modes!modeVars
  <2>1. /\ status.turnNumRecord \in 0 .. MaxTurnNum
        /\ status.finalizesAt \in UInt48
        /\ timestamp \in 1 .. MaxTimestamp
        /\ MaxTurnNum \in Nat /\ MaxTimestamp \in Nat /\ ChallengeDuration \in Nat
    BY TurnAssumption, TimeAssumption DEF TypeOK, UInt48
  <2>2. ASSUME NEW pf \in WellFormedProof, Challenge(pf) PROVE Modes!Challenge
    <3>1. mode' = "Challenge"
      BY <2>2, ChallengeRuns
    <3>2. status'.turnNumRecord = pf.largestTurnNum
      BY <2>2 DEF Challenge, ChannelData
    <3>3. \/ mode = "Open" /\ pf.largestTurnNum >= status.turnNumRecord
          \/ mode = "Challenge" /\ pf.largestTurnNum > status.turnNumRecord
      BY <2>2 DEF Challenge, RequireNonDecreasedTurnNumber, RequireIncreasedTurnNumber
    <3>. QED  BY <3>1, <3>2, <3>3 DEF Modes!Challenge
  <2>3. ASSUME NEW r \in State, Respond(status.stateHash, r) PROVE Modes!Respond
    <3>1. status.turnNumRecord + 1 \in UInt48
      BY <2>1, TurnAssumption, ParticipantsAssumption, WidthAssumption, SMT DEF UInt48
    <3>2. Uint48(status.turnNumRecord + 1) = status.turnNumRecord + 1
      BY <3>1, Uint48Facts DEF UInt48
    <3>3. mode = "Challenge" /\ ClearChallenge(status.turnNumRecord + 1)
      BY <2>3, <3>2 DEF Respond
    <3>. QED  BY <3>3, ClearedIsOpen DEF Modes!Respond
  <2>4. ASSUME NEW pf \in WellFormedProof, Checkpoint(pf) PROVE Modes!Checkpoint
    <3>1. /\ mode # "Finalized" /\ pf.largestTurnNum > status.turnNumRecord
          /\ ClearChallenge(pf.largestTurnNum)
      BY <2>4 DEF Checkpoint, RequireChannelNotFinalized, RequireIncreasedTurnNumber
    <3>. QED  BY <3>1, ClearedIsOpen DEF Modes!Checkpoint
  <2>5. ASSUME NEW pf \in WellFormedFinalizationProof, Conclude(pf) PROVE Modes!Conclude
    <3>1. Uint48(timestamp) = timestamp
      <4>1. timestamp \in UInt48
        BY <2>1, TimeAssumption, WidthAssumption, SMT DEF UInt48
      <4>. QED  BY <2>1, <4>1, Uint48Facts
    <3>2. /\ mode # "Finalized" /\ status'.turnNumRecord = 0
          /\ status'.finalizesAt = timestamp /\ timestamp' = timestamp
      BY <2>5, <3>1 DEF Conclude, RequireChannelNotFinalized, ChannelData
    <3>3. mode' = "Finalized"
      BY <2>1, <3>2, SMT DEF mode, Mode
    <3>. QED  BY <3>2, <3>3 DEF Modes!Conclude
  <2>6. ASSUME Tick PROVE [Modes!Next]_(Modes!modeVars)
    <3>1. timestamp' = timestamp + 1 /\ status' = status
      BY <2>6 DEF Tick
    <3>2. mode' = mode \/ (mode = "Challenge" /\ mode' = "Finalized")
      BY <2>1, <3>1, SMT DEF mode, Mode, UInt48
    <3>. QED  BY <3>1, <3>2 DEF Modes!Next, Modes!Timeout
  <2>7. ASSUME UNCHANGED <<status, timestamp>> PROVE [Modes!Next]_(Modes!modeVars)
    BY <2>7 DEF mode
  <2>. QED
    BY <2>2, <2>3, <2>4, <2>5, <2>6, <2>7
       DEF Next, ContractCall, SignState, vars, Modes!Next
<1>. QED  BY <1>1, <1>2, TypeCorrect, PTL DEF Spec, ModesSpec, Modes!Spec

------------------------------------------------------------------------------
(* A wallet's steps are steps of ForceMove. *)

\* What a wallet signs are states, what it holds is one.
LEMMA WalletStepSigns ==
  ASSUME WatchedTypeOK, NEW p \in Honest, WalletStep(p)
  PROVE  /\ (\E s \in State : SignState(p, s)) \/ UNCHANGED vars
         /\ held' \in [Honest -> State \union {NoHash}]
<1>. USE DEF WatchedTypeOK
<1>1. \A q \in Honest : Holds(q) => held[q] \in State
  BY DEF Holds
<1>2. \A turnNum \in Int, isFinal \in BOOLEAN, v \in VariablePart :
        turnNum >= 0 /\ SignState(p, HashState(turnNum, isFinal, v))
          => HashState(turnNum, isFinal, v) \in State
  BY TurnAssumption, ParticipantsAssumption, WidthAssumption, SMT
     DEF SignState, HashState, State, UInt48
<1>3. CASE AddSignedStates(p)
  <2>1. SupportedStates \subseteq State
    BY StateHashType DEF SupportedStates, WellFormedProof
  <2>. QED  BY <1>3, <2>1 DEF AddSignedStates
<1>4. CASE SignPrefundSetup(p)
  <2>1. 0 \in Int /\ 0 >= 0 /\ FALSE \in BOOLEAN /\ OpeningVars \in VariablePart
    BY OpeningAssumption
  <2>2. SignState(p, HashState(0, FALSE, OpeningVars)) /\ held' = held
    BY <1>4 DEF SignPrefundSetup
  <2>. QED  BY <1>2, <2>1, <2>2
<1>5. CASE SignPostfundSetup(p)
  <2>1. held[p].isFinal \in BOOLEAN /\ held[p].vars \in VariablePart
    BY <1>1, <1>5 DEF SignPostfundSetup, State
  <2>2. 2 * nParticipants - 1 \in Int /\ 2 * nParticipants - 1 >= 0
    BY ParticipantsAssumption, SMT
  <2>. QED  BY <1>2, <1>5, <2>1, <2>2 DEF SignPostfundSetup
<1>6. ASSUME NEW v \in VariablePart, UpdateChannel(p, v)
      PROVE  /\ \E s \in State : SignState(p, s)
             /\ held' \in [Honest -> State \union {NoHash}]
  <2>1. held[p].turnNum + 1 \in Int /\ held[p].turnNum + 1 >= 0
    BY <1>1, <1>6, SMT DEF UpdateChannel, MyTurn, State, UInt48
  <2>. QED  BY <1>2, <1>6, <2>1 DEF UpdateChannel, SignAndHold
<1>7. CASE SignFinalState(p)
  <2>. DEFINE turnNum == IF held[p].isFinal THEN held[p].turnNum ELSE held[p].turnNum + 1
  <2>1. turnNum \in Int /\ turnNum >= 0 /\ held[p].vars \in VariablePart
    BY <1>1, <1>7, SMT DEF SignFinalState, MyTurn, State, UInt48
  <2>2. SignAndHold(p, HashState(turnNum, TRUE, held[p].vars))
    BY <1>7 DEF SignFinalState
  <2>. HIDE DEF turnNum
  <2>. QED  BY <1>2, <2>1, <2>2 DEF SignAndHold
<1>. QED  BY <1>3, <1>4, <1>5, <1>6, <1>7 DEF WalletStep

\* What the wallets of WatchedChannel do, ForceMove allows.
LEMMA WatchedStep ==
  ASSUME WatchedTypeOK, [WatchedNext]_watchedVars
  PROVE  [Next]_vars /\ held' \in [Honest -> State \union {NoHash}]
<1>1. CASE ContractCall /\ UNCHANGED held
  BY <1>1 DEF Next, WatchedTypeOK
<1>2. CASE Tick /\ InTime /\ UNCHANGED held
  BY <1>2 DEF Next, WatchedTypeOK
<1>3. ASSUME NEW p \in Honest, WalletStep(p)
      PROVE  [Next]_vars /\ held' \in [Honest -> State \union {NoHash}]
  BY <1>3, WalletStepSigns DEF Next
<1>4. ASSUME NEW p \in Honest, ClearStaleChallenge(p)
      PROVE  [Next]_vars /\ held' \in [Honest -> State \union {NoHash}]
  BY <1>4 DEF ClearStaleChallenge, Next, ContractCall, WatchedTypeOK
<1>5. CASE UNCHANGED watchedVars
  BY <1>5 DEF watchedVars, vars, WatchedTypeOK
<1>. QED  BY <1>1, <1>2, <1>3, <1>4, <1>5 DEF WatchedNext

\* So everything that is proved of ForceMove holds here too.
THEOREM WatchedImplementsForceMove == WatchedSpec => Spec /\ []WatchedTypeOK
<1>1. WatchedInit => Init /\ WatchedTypeOK
  <2>1. Init => TypeOK
    BY InitType
  <2>. QED  BY <2>1 DEF WatchedInit, WatchedTypeOK
<1>2. WatchedTypeOK /\ [WatchedNext]_watchedVars => [Next]_vars /\ WatchedTypeOK'
  BY WatchedStep, StepType DEF WatchedTypeOK
<1>. QED  BY <1>1, <1>2, PTL DEF WatchedSpec, Spec

\* The same for the record of the watched channel.
COROLLARY WatchedRecord == WatchedSpec => [](RecordSupported /\ RecordBacked)
BY WatchedImplementsForceMove, RecordIsSupported, RecordIsBacked, PTL

------------------------------------------------------------------------------
(* No stale outcome is finalized. *)

\* A conclusion bears the signature of everybody on a final state with its outcome.
LEMMA ConcludeIsAgreed ==
  ASSUME NEW pf \in WellFormedFinalizationProof, Conclude(pf), NEW p \in Honest
  PROVE  status'.stateHash = NoHash /\ AgreedToFinalize(p, status'.outcomeHash)
<1>1. status'.stateHash = NoHash /\ status'.outcomeHash = pf.vars.outcome
  BY DEF Conclude, ChannelData
<1>2. p \in Participant
  BY HonestAssumption
<1>3. FinalState(pf, pf.whoSignedWhat[p]) \in signed[p]
  BY <1>2 DEF Conclude, ValidFinalSignatures, HasSigned
<1>. QED  BY <1>1, <1>3 DEF AgreedToFinalize, FinalState, HashState

\* When the channel becomes finalized, whoever follows the rules and watches the chain
\* agreed to that outcome in a final state or holds nothing newer, provided that a
\* challenge lasts a moment and its end does not overflow.
THEOREM NothingStaleIsFinalized ==
  ASSUME ChallengeDuration > 0, MaxTimestamp + ChallengeDuration < Width48
  PROVE  WatchedSpec => FinalizesNothingStale
<1>. DEFINE Fresh(p) == \/ ~Holds(p)
                        \/ status'.turnNumRecord >= held[p].turnNum
                        \/ status'.stateHash = NoHash /\ AgreedToFinalize(p, status'.outcomeHash)
            Step == (mode # "Finalized" /\ mode' = "Finalized") => \A p \in Honest : Fresh(p)
<1>1. WatchedTypeOK /\ [WatchedNext]_watchedVars => Step
  <2>. SUFFICES ASSUME WatchedTypeOK, [WatchedNext]_watchedVars,
                       mode # "Finalized", mode' = "Finalized", NEW p \in Honest
                PROVE  Fresh(p)
    OBVIOUS
  <2>. USE DEF WatchedTypeOK
  <2>1. ASSUME NEW pf \in WellFormedProof, Challenge(pf) PROVE Fresh(p)
    BY <2>1, ChallengeRuns
  <2>2. ASSUME NEW r \in State, Respond(status.stateHash, r) PROVE Fresh(p)
    BY <2>2, ClearedIsOpen DEF Respond
  <2>3. ASSUME NEW pf \in WellFormedProof, Checkpoint(pf) PROVE Fresh(p)
    BY <2>3, ClearedIsOpen DEF Checkpoint
  <2>4. ASSUME NEW pf \in WellFormedFinalizationProof, Conclude(pf) PROVE Fresh(p)
    BY <2>4, ConcludeIsAgreed
  <2>5. CASE Tick /\ InTime
    <3>1. /\ timestamp' = timestamp + 1 /\ status' = status
          /\ timestamp \in Nat /\ status.finalizesAt \in Nat /\ status.turnNumRecord \in Nat
      BY <2>5, WidthAssumption, TurnAssumption, SMT DEF Tick, TypeOK, UInt48
    <3>2. /\ mode = "Challenge" /\ status.finalizesAt <= timestamp + 1
      BY <3>1, SMT DEF mode, Mode
    <3>3. ~StaleChallenge(p)
      BY <2>5, <3>1, <3>2, SMT DEF InTime
    <3>4. Holds(p) => held[p].turnNum \in Int
      BY DEF Holds, State, UInt48
    <3>. QED  BY <3>1, <3>2, <3>3, <3>4, SMT DEF StaleChallenge
  <2>6. CASE UNCHANGED <<status, timestamp>>
    BY <2>6 DEF mode
  <2>7. ASSUME NEW q \in Honest, WalletStep(q) PROVE Fresh(p)
    <3>1. UNCHANGED <<status, timestamp>>
      BY <2>7, WalletStepSigns DEF SignState, vars
    <3>. QED  BY <2>6, <3>1
  <2>. QED
    BY <2>1, <2>2, <2>3, <2>4, <2>5, <2>6, <2>7
       DEF WatchedNext, ContractCall, ClearStaleChallenge, watchedVars
<1>. QED
  BY <1>1, WatchedImplementsForceMove, PTL DEF WatchedSpec, FinalizesNothingStale, Fresh

------------------------------------------------------------------------------
(* What a wallet holds is supported. *)

\* RespondSupported, of a state instead of its proof.
SuccessorsSupported ==
  \A s, r \in State :
    /\ s \in SupportedStates /\ r.turnNum = s.turnNum + 1
    /\ HasSigned(r.turnNum % nParticipants, r) /\ ValidTransition(s, r)
    => r \in SupportedStates

\* It holds now,
LEMMA SuccessorSupported == SuccessorsSupported
<1>. SUFFICES ASSUME NEW s \in State, NEW r \in State,
                     s \in SupportedStates, r.turnNum = s.turnNum + 1,
                     HasSigned(r.turnNum % nParticipants, r), ValidTransition(s, r)
              PROVE  r \in SupportedStates
  BY DEF SuccessorsSupported
<1>1. PICK pf \in WellFormedProof : ValidSignatures(pf) /\ SupportedState(pf) = s
  BY DEF SupportedStates
<1>2. pf.largestTurnNum = s.turnNum
  BY <1>1, ProofSupports
<1>. QED  BY <1>1, <1>2, RespondSupported

\* and after a step.
LEMMA SuccessorSupportedNext == SuccessorsSupported'
BY SuccessorSupported, PTL

\* Support is never lost.
LEMMA SupportGrows ==
  ASSUME TypeOK, [Next]_vars
  PROVE  SupportedStates \subseteq SupportedStates'
<1>1. \A p \in Honest : signed[p] \subseteq signed'[p]
  BY DEF Next, ContractCall, Challenge, Respond, Checkpoint, Conclude, Tick, SignState,
         vars, TypeOK
<1>2. \A p \in Participant : \A s \in State : HasSigned(p, s) => HasSigned(p, s)'
  BY <1>1 DEF HasSigned
<1>. QED  BY <1>2, SupportMonotone

\* A wallet that signs the successor of the state it holds, or that state once more,
\* holds a supported state.
LEMMA SignAndHoldSupported ==
  ASSUME HeldSupported, NEW p \in Honest, MyTurn(p), NEW r \in State, SignState(p, r),
         \/ r = held[p]
         \/ r.turnNum = held[p].turnNum + 1 /\ ValidTransition(held[p], r)
  PROVE  r \in SupportedStates'
<1>1. /\ held[p] \in SupportedStates /\ held[p] \in State
      /\ (held[p].turnNum + 1) % nParticipants = p
  BY DEF HeldSupported, WatchedTypeOK, MyTurn, Holds
<1>2. held[p] \in SupportedStates'
  BY <1>1, SupportGrows DEF HeldSupported, WatchedTypeOK, Next
<1>3. HasSigned(p, r)'
  BY DEF SignState, HasSigned, HeldSupported, WatchedTypeOK, TypeOK
<1>4. CASE r.turnNum = held[p].turnNum + 1 /\ ValidTransition(held[p], r)
  BY <1>1, <1>2, <1>3, <1>4, SuccessorSupportedNext DEF SuccessorsSupported
<1>. QED  BY <1>2, <1>4

\* What a wallet takes as supported, the contract accepts, after every step.
LEMMA HeldStep ==
  ASSUME HeldSupported, [WatchedNext]_watchedVars
  PROVE  HeldSupported'
<1>1. WatchedTypeOK' /\ SupportedStates \subseteq SupportedStates'
  BY WatchedStep, StepType, SupportGrows DEF HeldSupported, WatchedTypeOK
<1>2. ASSUME UNCHANGED held PROVE HeldSupported'
  BY <1>1, <1>2 DEF HeldSupported, Holds
<1>3. ASSUME NEW p \in Honest, NEW r \in SupportedStates',
             held' = [held EXCEPT ![p] = r]
      PROVE  HeldSupported'
  BY <1>1, <1>3 DEF HeldSupported, Holds, WatchedTypeOK
<1>4. ASSUME NEW p \in Honest, AddSignedStates(p) PROVE HeldSupported'
  BY <1>1, <1>3, <1>4 DEF AddSignedStates
<1>5. ASSUME NEW p \in Honest, NEW v \in VariablePart, UpdateChannel(p, v)
      PROVE  HeldSupported'
  <2>. DEFINE r == HashState(held[p].turnNum + 1, FALSE, v)
  <2>1. /\ MyTurn(p) /\ ValidTransition(held[p], r) /\ SignState(p, r)
        /\ held' = [held EXCEPT ![p] = r]
    BY <1>5 DEF UpdateChannel, SignAndHold
  <2>2. r \in State /\ r.turnNum = held[p].turnNum + 1
    <3>1. held[p] \in State
      BY <2>1 DEF HeldSupported, WatchedTypeOK, MyTurn, Holds
    <3>2. held[p].turnNum + 1 \in UInt48
      BY <2>1, <3>1, TurnAssumption, ParticipantsAssumption, WidthAssumption, SMT
         DEF SignState, HashState, State, UInt48
    <3>. QED  BY <3>2 DEF HashState, State
  <2>. HIDE DEF r
  <2>3. r \in SupportedStates'
    BY <2>1, <2>2, SignAndHoldSupported
  <2>. QED  BY <1>3, <2>1, <2>3
<1>6. ASSUME NEW p \in Honest, SignFinalState(p) PROVE HeldSupported'
  <2>. DEFINE turnNum == IF held[p].isFinal THEN held[p].turnNum ELSE held[p].turnNum + 1
              r == HashState(turnNum, TRUE, held[p].vars)
  <2>1. /\ MyTurn(p) /\ SignState(p, r) /\ held' = [held EXCEPT ![p] = r]
        /\ held[p] \in State
    BY <1>6 DEF SignFinalState, SignAndHold, HeldSupported, WatchedTypeOK, MyTurn, Holds
  <2>2. turnNum \in UInt48
    BY <2>1, TurnAssumption, ParticipantsAssumption, WidthAssumption, SMT
       DEF SignState, HashState, State, UInt48
  <2>3. r \in State /\ r.turnNum = turnNum
    BY <2>1, <2>2 DEF HashState, State
  <2>4. \/ r = held[p]
        \/ r.turnNum = held[p].turnNum + 1 /\ ValidTransition(held[p], r)
    <3>1. CASE held[p].isFinal
      BY <2>1, <3>1 DEF HashState, State
    <3>2. CASE ~held[p].isFinal
      BY <2>3, <3>2 DEF HashState, ValidTransition
    <3>. QED  BY <3>1, <3>2
  <2>. HIDE DEF r, turnNum
  <2>5. r \in SupportedStates'
    BY <2>1, <2>3, <2>4, SignAndHoldSupported
  <2>. QED  BY <1>3, <2>1, <2>5
<1>. QED
  BY <1>2, <1>4, <1>5, <1>6
     DEF WatchedNext, WalletStep, SignPrefundSetup, SignPostfundSetup,
         ClearStaleChallenge, watchedVars

\* What a wallet takes as supported, the contract accepts as supported.
THEOREM HeldIsSupported == WatchedSpec => []HeldSupported
<1>1. WatchedInit => HeldSupported
  BY InitType DEF WatchedInit, HeldSupported, WatchedTypeOK, Holds
<1>. QED  BY <1>1, HeldStep, PTL DEF WatchedSpec

------------------------------------------------------------------------------
(* What a signature in a support proof says of the supported state. *)

\* From a turn number that has not wrapped, those of a proof count up to the largest.
LEMMA LaterTurnNum ==
  ASSUME NEW pf \in Proof, NEW j \in 0 .. pf.numStates - 1, TurnNum(pf, j) <= MaxTurnNum,
         NEW k \in j .. pf.numStates - 1
  PROVE  /\ TurnNum(pf, k) = pf.largestTurnNum - pf.numStates + 1 + k
         /\ TurnNum(pf, k) \in Nat /\ TurnNum(pf, k) <= pf.largestTurnNum
<1>. DEFINE x == pf.largestTurnNum - pf.numStates + 1 + k
<1>1. /\ pf.numStates \in 1 .. nParticipants /\ pf.largestTurnNum \in 0 .. MaxTurnNum
      /\ pf.largestTurnNum - pf.numStates + 1 + j >= 0
  BY ProofType, SignedTurnNum
<1>2. x \in UInt48 /\ x \in Nat /\ x <= pf.largestTurnNum
  BY <1>1, TurnAssumption, ParticipantsAssumption, WidthAssumption, SMT DEF UInt48
<1>3. TurnNum(pf, k) = Uint48(x)
  BY DEF TurnNum
<1>. HIDE DEF x
<1>4. TurnNum(pf, k) = x
  BY <1>2, <1>3, Uint48Facts
<1>. QED  BY <1>2, <1>4 DEF x

\* The outcome stays what it is after a final state, and in the setup rounds.
LEMMA ChainKeepsOutcome ==
  ASSUME NEW pf \in WellFormedProof,
         NEW j \in 0 .. pf.numStates - 1, TurnNum(pf, j) <= MaxTurnNum,
         StateHash(pf, j).isFinal \/ pf.largestTurnNum < 2 * nParticipants
  PROVE  \A k \in j .. pf.numStates - 1 :
           /\ StateHash(pf, j).isFinal => StateHash(pf, k).isFinal
           /\ StateHash(pf, k).vars.outcome = StateHash(pf, j).vars.outcome
<1>1. /\ pf \in Proof /\ pf.numStates \in Nat /\ pf.largestTurnNum \in Nat
      /\ nParticipants \in Nat
  BY ProofType, ParticipantsAssumption, TurnAssumption DEF WellFormedProof
<1>2. \A k \in j .. pf.numStates - 1 :
        /\ TurnNum(pf, k) = pf.largestTurnNum - pf.numStates + 1 + k
        /\ TurnNum(pf, k) \in Nat /\ TurnNum(pf, k) <= pf.largestTurnNum
        /\ StateHash(pf, k).turnNum = TurnNum(pf, k)
  BY <1>1, LaterTurnNum DEF StateHash, HashState
<1>3. ASSUME StateHash(pf, j).isFinal
      PROVE  \A k \in j .. pf.numStates - 1 : StateHash(pf, k).isFinal
  <2>1. FirstFinalTurnNum(pf) \in Int
    <3>1. pf.largestTurnNum - pf.isFinalCount + 1 \in Int
      BY <1>1, ProofType, SMT
    <3>. QED  BY <3>1, Uint48Facts DEF FirstFinalTurnNum, UInt48
  <2>2. TurnNum(pf, j) >= FirstFinalTurnNum(pf)
    BY <1>3 DEF StateHash, HashState, IsFinal
  <2>3. \A k \in j .. pf.numStates - 1 : TurnNum(pf, k) >= FirstFinalTurnNum(pf)
    <3>1. j \in j .. pf.numStates - 1
      BY <1>1, SMT
    <3>. QED  BY <1>1, <1>2, <2>1, <2>2, <3>1, SMT
  <2>. QED  BY <2>3 DEF StateHash, HashState, IsFinal
<1>. DEFINE T == {k \in j .. pf.numStates - 1 :
                    StateHash(pf, k).vars.outcome # StateHash(pf, j).vars.outcome}
<1>4. SUFFICES ASSUME T # {} PROVE FALSE
  BY <1>3
<1>5. PICK k \in T : \A i \in T : k <= i
  <2>1. T \in SUBSET Nat
    BY <1>1, SMT
  <2>. HIDE DEF T
  <2>. QED  BY <1>4, <2>1, LeastElement
<1>6. k \in j + 1 .. pf.numStates - 1 /\ k - 1 \in j .. pf.numStates - 1 /\ k - 1 \notin T
  <2>1. k # j
    OBVIOUS
  <2>2. k \in j + 1 .. pf.numStates - 1 /\ k - 1 \in j .. pf.numStates - 1
    BY <1>1, <2>1, SMT
  <2>3. ~ (k <= k - 1)
    BY <2>2, <1>1, SMT
  <2>. QED  BY <1>5, <2>2, <2>3
<1>. HIDE DEF T
<1>7. StateHash(pf, k - 1).vars.outcome = StateHash(pf, j).vars.outcome
  BY <1>6 DEF T
<1>8. StateHash(pf, k).vars.outcome # StateHash(pf, j).vars.outcome
  BY <1>5 DEF T
<1>9. ValidTransition(StateHash(pf, k - 1), StateHash(pf, k))
  <2>1. k - 1 \in 0 .. pf.numStates - 2 /\ k - 1 + 1 = k
    BY <1>1, <1>6, SMT
  <2>2. TurnNum(pf, k - 1) < pf.largestTurnNum
    BY <1>1, <1>2, <1>6, <2>1, SMT
  <2>. QED  BY <2>1, <2>2 DEF WellFormedProof, WellFormed, ValidTransitionChain
<1>10. StateHash(pf, k).isFinal \/ StateHash(pf, k).turnNum < 2 * nParticipants
  <2>1. CASE StateHash(pf, j).isFinal
    <3>1. k \in j .. pf.numStates - 1
      BY <1>1, <1>6, SMT
    <3>. QED  BY <1>3, <2>1, <3>1
  <2>2. CASE pf.largestTurnNum < 2 * nParticipants
    <3>1. k \in j .. pf.numStates - 1
      BY <1>1, <1>6, SMT
    <3>. QED  BY <1>1, <1>2, <2>2, <3>1, SMT
  <2>. QED  BY <2>1, <2>2
<1>. QED  BY <1>7, <1>8, <1>9, <1>10 DEF ValidTransition

\* A participant that was the mover of turn m was so at most largest - m turns ago.
LEMMA OffsetBound ==
  ASSUME NEW p \in Participant, NEW largest \in Nat, NEW m \in Nat,
         m <= largest, m % nParticipants = p
  PROVE  Offset(p, largest) <= largest - m
<1>. DEFINE n == nParticipants
            x == n + largest - p
            y == largest - m
            a == m \div n
            b == y \div n
            c == x \div n
<1>1. n \in Nat \ {0} /\ p \in 0 .. n - 1
  BY ParticipantsAssumption DEF Participant
<1>2. x \in Nat /\ y \in Nat /\ x = y + n + (m - p)
  BY <1>1, SMT
<1>. HIDE DEF n, x, y
<1>3. a \in Nat /\ m = n * a + p
  BY <1>1, DivMod DEF n
<1>4. b \in Nat /\ y % n \in 0 .. n - 1 /\ y = n * b + (y % n)
  BY <1>1, <1>2, DivMod
<1>5. c \in Nat /\ x % n \in 0 .. n - 1 /\ x = n * c + (x % n)
  BY <1>1, <1>2, DivMod
<1>. HIDE DEF a, b, c
<1>6. x = n * (a + b + 1) + (y % n)
  <2>1. n * (a + b + 1) = n * a + n * b + n
    BY <1>1, <1>3, <1>4, SMT
  <2>. DEFINE u == n * a
              v == n * b
              w == y % n
  <2>2. u \in Int /\ v \in Int /\ w \in Int /\ m = u + p /\ y = v + w
    BY <1>1, <1>3, <1>4, SMT
  <2>3. n * (a + b + 1) = u + v + n
    BY <2>1
  <2>. HIDE DEF u, v, w
  <2>4. x = u + v + n + w
    BY <1>1, <1>2, <2>2, SMT
  <2>. QED  BY <2>3, <2>4 DEF w
<1>7. x % n = y % n
  <2>1. a + b + 1 \in Int /\ c \in Int
    BY <1>3, <1>4, <1>5, SMT
  <2>. QED  BY <1>1, <1>4, <1>5, <1>6, <2>1, DivModUnique
<1>8. y % n <= y
  <2>1. n * b >= 0
    BY <1>1, <1>4, SMT
  <2>2. n * b \in Int
    BY <1>1, <1>4, SMT
  <2>. QED  BY <1>2, <1>4, <2>1, <2>2, SMT
<1>. QED  BY <1>7, <1>8 DEF Offset, n, x, y

\* q is not older than the last turn p was the mover of up to s.  What is final in q is so
\* in s, with its outcome, and so is what is agreed on in the setup rounds.
SignedBehind(p, q, s) ==
  /\ q.turnNum <= s.turnNum /\ s.turnNum < q.turnNum + nParticipants
  /\ \A m \in Nat : m <= s.turnNum /\ m % nParticipants = p => m <= q.turnNum
  /\ q.isFinal => s.isFinal
  /\ q.isFinal \/ s.turnNum < 2 * nParticipants => s.vars.outcome = q.vars.outcome

\* Behind a supported state there is, for each participant, such a state that it signed.
LEMMA SomethingSignedBehind ==
  ASSUME TypeOK, NEW p \in Honest, NEW s \in SupportedStates
  PROVE  \E q \in signed[p] : SignedBehind(p, q, s)
<1>1. PICK pf \in WellFormedProof : ValidSignatures(pf) /\ SupportedState(pf) = s
  BY DEF SupportedStates
<1>. DEFINE j == pf.whoSignedWhat[p]
            q == StateHash(pf, j)
            n == nParticipants
            L == pf.largestTurnNum
            N == pf.numStates
<1>2. /\ pf \in Proof /\ p \in Participant /\ s.turnNum = L
      /\ N \in 1 .. n /\ L \in 0 .. MaxTurnNum /\ j \in 0 .. N - 1
      /\ n \in Nat /\ MaxTurnNum \in Nat
  BY <1>1, HonestAssumption, ProofType, ProofSupports, ParticipantsAssumption, TurnAssumption
     DEF WellFormedProof
<1>3. q \in signed[p] /\ TurnNum(pf, j) <= MaxTurnNum /\ q.turnNum = TurnNum(pf, j)
  BY <1>1, <1>2 DEF ValidSignatures, HasSigned, StateHash, HashState
<1>4. q.turnNum = L - N + 1 + j
  BY <1>2, <1>3, SignedTurnNum
<1>5. j + Offset(p, L) + 1 >= N
  BY <1>1, <1>2 DEF WellFormedProof, WellFormed, AcceptableWhoSignedWhat
<1>6. \A m \in Nat : m <= L /\ m % n = p => m <= q.turnNum
  <2>. SUFFICES ASSUME NEW m \in Nat, m <= L, m % n = p PROVE m <= q.turnNum
    OBVIOUS
  <2>1. Offset(p, L) <= L - m
    BY <1>2, OffsetBound
  <2>2. Offset(p, L) \in Int
    BY <1>2, SMT DEF Offset, Participant
  <2>. HIDE DEF j, q, L, N, n
  <2>. QED  BY <1>2, <1>4, <1>5, <2>1, <2>2, SMT
<1>7. N - 1 \in j .. N - 1 /\ s = StateHash(pf, N - 1)
  BY <1>1, <1>2, SMT DEF SupportedState
<1>8. q.isFinal \/ L < 2 * n => /\ q.isFinal => s.isFinal
                                /\ s.vars.outcome = q.vars.outcome
  BY <1>2, <1>3, <1>7, ChainKeepsOutcome
<1>9. q.turnNum <= L /\ L < q.turnNum + n
  <2>. HIDE DEF j, q, L, N, n
  <2>. QED  BY <1>2, <1>4, SMT
<1>. HIDE DEF q
<1>. QED  BY <1>2, <1>3, <1>6, <1>8, <1>9 DEF SignedBehind

------------------------------------------------------------------------------
(* One final outcome.  What a wallet has signed so far, related to what it holds:  *)
(* the inductive invariant behind OneFinalOutcome.                                *)

Postfund == 2 * nParticipants - 1

\* The setup rounds agree on the opening outcome.
SetupOutcome(p) ==
  \A s \in signed[p] : s.turnNum <= Postfund => s.vars.outcome = OpeningVars.outcome

\* Before the postfund state a wallet signs nothing but the prefund state, unless
\* the channel is closed.
PrefundOnly(p) ==
  \A s \in signed[p] : ~s.isFinal /\ s.turnNum < Postfund => s.turnNum = 0

\* A final state t is signed on p's turn, of the state p holds or its successor (or it is
\* a postfund state, copied from what p holds).  Whatever is signed or held from then on
\* is final and has its outcome.
ClosingKept(p) ==
  \A t \in signed[p] : t.isFinal =>
    /\ Holds(p) /\ held[p].vars.outcome = t.vars.outcome
    /\ held[p].turnNum >= t.turnNum => held[p].isFinal
    /\ t.turnNum # Postfund =>
         /\ held[p].turnNum >= t.turnNum
         /\ p \in {t.turnNum % nParticipants, (t.turnNum + 1) % nParticipants}
    /\ \A s \in signed[p] : s.turnNum >= t.turnNum =>
         s.isFinal /\ s.vars.outcome = t.vars.outcome

Kept(p) == SetupOutcome(p) /\ PrefundOnly(p) /\ ClosingKept(p)

\* The types the lemmas below need.
LEMMA KeptTypes ==
  ASSUME WatchedTypeOK, NEW p \in Honest
  PROVE  /\ p \in Participant /\ nParticipants \in Nat /\ nParticipants >= 1
         /\ Postfund \in Nat /\ Postfund >= nParticipants
         /\ signed[p] \subseteq State
         /\ \A s \in State : s.turnNum \in Nat /\ s.isFinal \in BOOLEAN
         /\ Holds(p) => held[p] \in State
<1>1. nParticipants \in Nat /\ nParticipants >= 1
  BY ParticipantsAssumption
<1>2. Postfund \in Nat /\ Postfund >= nParticipants
  BY <1>1, SMT DEF Postfund
<1>3. p \in Participant /\ signed[p] \subseteq State /\ (Holds(p) => held[p] \in State)
  BY HonestAssumption DEF WatchedTypeOK, TypeOK, Holds
<1>4. \A s \in State : s.turnNum \in Nat /\ s.isFinal \in BOOLEAN
  BY WidthAssumption, SMT DEF State, UInt48
<1>. QED  BY <1>1, <1>2, <1>3, <1>4

\* What a wallet holds in the setup rounds, or before it signs the postfund state, has
\* the opening outcome.
LEMMA HeldInSetup ==
  ASSUME HeldSupported, NEW p \in Honest, Kept(p), Holds(p),
         held[p].turnNum <= Postfund \/ \A t \in signed[p] : t.turnNum < Postfund
  PROVE  held[p].vars.outcome = OpeningVars.outcome
<1>. DEFINE h == held[p]
<1>1. WatchedTypeOK /\ h \in SupportedStates
  BY DEF HeldSupported
<1>2. PICK q \in signed[p] : SignedBehind(p, q, h)
  BY <1>1, SomethingSignedBehind DEF WatchedTypeOK
<1>3. /\ h \in State /\ q \in State /\ h.turnNum \in Nat /\ q.turnNum \in Nat
      /\ nParticipants \in Nat /\ nParticipants >= 1
  BY <1>1, KeptTypes
<1>. HIDE DEF h
<1>4. q.turnNum <= h.turnNum /\ h.turnNum < q.turnNum + nParticipants
  BY <1>2 DEF SignedBehind
<1>5. CASE h.turnNum <= Postfund
  <2>1. h.turnNum < 2 * nParticipants /\ q.turnNum <= Postfund
    BY <1>3, <1>4, <1>5, SMT DEF Postfund
  <2>. QED  BY <1>2, <2>1 DEF SignedBehind, Kept, SetupOutcome, h
<1>6. CASE h.turnNum > Postfund /\ \A t \in signed[p] : t.turnNum < Postfund
  <2>1. q.turnNum < Postfund /\ q.turnNum # 0 /\ q.turnNum <= Postfund
    BY <1>3, <1>4, <1>6, SMT DEF Postfund
  <2>2. q.isFinal
    BY <2>1 DEF Kept, PrefundOnly
  <2>. QED  BY <1>2, <2>1, <2>2 DEF SignedBehind, Kept, SetupOutcome, h
<1>7. Postfund \in Nat
  BY <1>1, KeptTypes
<1>. QED  BY <1>3, <1>5, <1>6, <1>7, SMT DEF h

\* A new supported state does not undo what a wallet has closed.
LEMMA KeptWhenHolding ==
  ASSUME HeldSupported, NEW p \in Honest, Kept(p), NEW s \in SupportedStates,
         Holds(p) => s.turnNum > held[p].turnNum,
         held' = [held EXCEPT ![p] = s], UNCHANGED signed
  PROVE  Kept(p)'
<1>1. /\ WatchedTypeOK /\ s \in State /\ held'[p] = s /\ signed' = signed
      /\ s # NoHash
  BY StateHashType, NoHashAssumption
     DEF HeldSupported, WatchedTypeOK, SupportedStates, WellFormedProof
<1>2. PICK q \in signed[p] : SignedBehind(p, q, s)
  BY <1>1, SomethingSignedBehind DEF WatchedTypeOK
<1>3. /\ signed[p] \subseteq State /\ q \in State /\ p \in Participant
      /\ s.turnNum \in Nat /\ q.turnNum \in Nat /\ Postfund \in Nat
      /\ nParticipants \in Nat /\ nParticipants >= 1 /\ Postfund >= nParticipants
      /\ \A t \in signed[p] : t.turnNum \in Nat
      /\ Holds(p) => held[p].turnNum \in Nat
  BY <1>1, KeptTypes
<1>4. /\ q.turnNum <= s.turnNum /\ s.turnNum < q.turnNum + nParticipants
      /\ \A m \in Nat : m <= s.turnNum /\ m % nParticipants = p => m <= q.turnNum
      /\ q.isFinal => s.isFinal
      /\ q.isFinal \/ s.turnNum < 2 * nParticipants => s.vars.outcome = q.vars.outcome
  BY <1>2 DEF SignedBehind
<1>5. ASSUME NEW t \in signed[p], t.isFinal
      PROVE  /\ s.vars.outcome = t.vars.outcome
             /\ s.turnNum >= t.turnNum => s.isFinal
             /\ t.turnNum # Postfund => s.turnNum >= t.turnNum
  <2>1. /\ Holds(p) /\ s.turnNum > held[p].turnNum /\ held[p].turnNum \in Nat
        /\ t.turnNum \in Nat
        /\ t.turnNum # Postfund =>
             /\ held[p].turnNum >= t.turnNum
             /\ p \in {t.turnNum % nParticipants, (t.turnNum + 1) % nParticipants}
        /\ \A u \in signed[p] : u.turnNum >= t.turnNum =>
             u.isFinal /\ u.vars.outcome = t.vars.outcome
    BY <1>3, <1>5 DEF Kept, ClosingKept
  <2>2. t.turnNum # Postfund => s.turnNum >= t.turnNum
    BY <2>1, <1>3, SMT
  <2>3. CASE q.isFinal
    <3>1. q.vars.outcome = t.vars.outcome
      <4>1. CASE q.turnNum >= t.turnNum
        BY <2>1, <4>1
      <4>2. CASE t.turnNum >= q.turnNum
        BY <1>5, <2>3, <4>2 DEF Kept, ClosingKept
      <4>. QED  BY <1>3, <2>1, <4>1, <4>2, SMT
    <3>. QED  BY <1>4, <2>2, <2>3, <3>1
  <2>4. CASE ~q.isFinal
    <3>1. q.turnNum < t.turnNum
      BY <1>3, <2>1, <2>4, SMT
    <3>2. CASE t.turnNum # Postfund
      <4>1. t.turnNum <= s.turnNum /\ t.turnNum + 1 <= s.turnNum /\ t.turnNum + 1 \in Nat
        BY <1>3, <2>1, <3>2, SMT
      <4>2. t.turnNum <= q.turnNum \/ t.turnNum + 1 <= q.turnNum
        BY <1>4, <2>1, <3>2, <4>1
      <4>. QED  BY <1>3, <2>1, <3>1, <4>2, SMT
    <3>3. CASE t.turnNum = Postfund
      <4>1. q.turnNum = 0
        BY <2>4, <3>1, <3>3 DEF Kept, PrefundOnly
      <4>2. s.turnNum < 2 * nParticipants /\ ~ (s.turnNum >= t.turnNum)
        BY <1>3, <1>4, <3>3, <4>1, SMT
      <4>3. q.turnNum <= Postfund /\ t.turnNum <= Postfund
        BY <1>3, <3>3, <4>1, SMT
      <4>4. q.vars.outcome = OpeningVars.outcome /\ t.vars.outcome = OpeningVars.outcome
        BY <4>3 DEF Kept, SetupOutcome
      <4>. QED  BY <1>4, <3>3, <4>2, <4>4
    <3>. QED  BY <3>2, <3>3
  <2>. QED  BY <2>3, <2>4
<1>6. SetupOutcome(p)' /\ PrefundOnly(p)'
  BY <1>1 DEF Kept, SetupOutcome, PrefundOnly
<1>7. ClosingKept(p)'
  BY <1>1, <1>5 DEF Kept, ClosingKept, Holds
<1>. QED  BY <1>6, <1>7 DEF Kept

\* What a new signature has to fulfil, h being the supported state from then on.
LEMMA KeptWhenSigning ==
  ASSUME WatchedTypeOK, NEW p \in Honest, Kept(p), NEW r \in State, NEW h,
         SignState(p, r), held'[p] = h,
         r.turnNum <= Postfund => r.vars.outcome = OpeningVars.outcome,
         ~r.isFinal /\ r.turnNum < Postfund => r.turnNum = 0,
         \A t \in signed[p] : t.isFinal => r.isFinal /\ r.vars.outcome = t.vars.outcome,
         \A t \in signed[p] \union {r} : t.isFinal =>
           /\ h # NoHash /\ h.vars.outcome = t.vars.outcome
           /\ h.turnNum >= t.turnNum => h.isFinal
           /\ t.turnNum # Postfund => h.turnNum >= t.turnNum,
         r.isFinal /\ r.turnNum # Postfund =>
           p \in {r.turnNum % nParticipants, (r.turnNum + 1) % nParticipants}
  PROVE  Kept(p)'
<1>1. /\ signed'[p] = signed[p] \union {r} /\ held'[p] = h
      /\ \A t \in signed[p] : t.turnNum < r.turnNum /\ t.turnNum \in Nat
      /\ r.turnNum \in Nat
  BY KeptTypes DEF SignState, WatchedTypeOK, TypeOK
<1>2. SetupOutcome(p)' /\ PrefundOnly(p)'
  BY <1>1 DEF Kept, SetupOutcome, PrefundOnly, Postfund
<1>3. ASSUME NEW t \in signed'[p], t.isFinal
      PROVE  /\ t.turnNum # Postfund =>
                  p \in {t.turnNum % nParticipants, (t.turnNum + 1) % nParticipants}
             /\ \A s \in signed'[p] : s.turnNum >= t.turnNum =>
                  s.isFinal /\ s.vars.outcome = t.vars.outcome
  <2>1. CASE t \in signed[p]
    BY <1>1, <1>3, <2>1 DEF Kept, ClosingKept
  <2>2. CASE t = r
    <3>1. \A s \in signed[p] : ~ (s.turnNum >= t.turnNum)
      BY <1>1, <2>2, SMT
    <3>. QED  BY <1>1, <1>3, <2>2, <3>1
  <2>. QED  BY <1>1, <2>1, <2>2
<1>4. ClosingKept(p)'
  BY <1>1, <1>3 DEF ClosingKept, Holds, Postfund
<1>. QED  BY <1>2, <1>4 DEF Kept

\* The prefund state is the first that a wallet signs.
LEMMA KeptBySignPrefundSetup ==
  ASSUME WatchedTypeOK, NEW p \in Honest, Kept(p), SignPrefundSetup(p)
  PROVE  Kept(p)'
<1>. DEFINE r == HashState(0, FALSE, OpeningVars)
<1>1. r.turnNum = 0 /\ r.isFinal = FALSE /\ r.vars = OpeningVars
  BY DEF HashState
<1>2. r \in State
  BY OpeningAssumption, WidthAssumption, SMT DEF HashState, State, UInt48
<1>3. SignState(p, r) /\ signed[p] = {}
  BY DEF SignPrefundSetup
<1>. HIDE DEF r
<1>. QED  BY <1>1, <1>2, <1>3, KeptWhenSigning

\* A postfund state is a copy of what the wallet holds.
LEMMA KeptBySignPostfundSetup ==
  ASSUME HeldSupported, NEW p \in Honest, Kept(p), SignPostfundSetup(p)
  PROVE  Kept(p)'
<1>. DEFINE h == held[p]
            r == HashState(Postfund, h.isFinal, h.vars)
<1>1. /\ Holds(p) /\ SignState(p, r) /\ held' = held
      /\ \A t \in signed[p] : t.turnNum < Postfund
  BY DEF SignPostfundSetup, Postfund
<1>2. /\ WatchedTypeOK /\ h \in State /\ Postfund \in Nat /\ h # NoHash
      /\ h.turnNum \in Nat /\ \A t \in signed[p] : t.turnNum \in Nat
  BY <1>1, KeptTypes DEF HeldSupported, Holds
<1>3. r.turnNum = Postfund /\ r.isFinal = h.isFinal /\ r.vars = h.vars
  BY DEF HashState
<1>4. r \in State
  <2>1. Postfund \in UInt48
    BY <1>1, <1>2, <1>3, TurnAssumption, ParticipantsAssumption, WidthAssumption, SMT
       DEF SignState, UInt48
  <2>. QED  BY <1>2, <2>1 DEF HashState, State
<1>5. h.vars.outcome = OpeningVars.outcome
  BY <1>1, HeldInSetup
<1>6. \A t \in signed[p] : t.isFinal =>
        /\ h.vars.outcome = t.vars.outcome /\ h.turnNum >= t.turnNum /\ h.isFinal
  <2>1. \A t \in signed[p] : t.turnNum # Postfund
    BY <1>1, <1>2, SMT
  <2>. QED  BY <2>1 DEF Kept, ClosingKept
<1>7. held'[p] = h
  BY <1>1
<1>. HIDE DEF r, h
<1>8. ~ (r.turnNum < Postfund)
  BY <1>2, <1>3, SMT
<1>. QED  BY <1>1, <1>2, <1>3, <1>4, <1>5, <1>6, <1>7, <1>8, KeptWhenSigning

\* A channel that is closing is not updated.  That the postfund state comes first rests on
\* the demand for a supported turn 3, and so on a channel of three participants at most.
LEMMA KeptByUpdateChannel ==
  ASSUME nParticipants <= 3, HeldSupported, NEW p \in Honest, Kept(p),
         NEW v \in VariablePart, UpdateChannel(p, v)
  PROVE  Kept(p)'
<1>. DEFINE h == held[p]
            r == HashState(h.turnNum + 1, FALSE, v)
<1>1. /\ Holds(p) /\ SignState(p, r) /\ held' = [held EXCEPT ![p] = r]
      /\ h.turnNum >= 3 /\ ValidTransition(h, r)
  BY DEF UpdateChannel, SignAndHold, MyTurn
<1>2. /\ WatchedTypeOK /\ h \in State /\ h \in SupportedStates /\ Postfund \in Nat
      /\ h.turnNum \in Nat /\ \A t \in signed[p] : t.turnNum \in Nat
      /\ nParticipants \in Nat /\ nParticipants >= 1
  BY <1>1, KeptTypes DEF HeldSupported, Holds
<1>3. r.turnNum = h.turnNum + 1 /\ r.isFinal = FALSE /\ r.vars = v
  BY DEF HashState
<1>4. r \in State
  <2>1. h.turnNum + 1 <= MaxTurnNum
    BY <1>1, <1>3 DEF SignState
  <2>2. h.turnNum + 1 \in UInt48
    <3>. HIDE DEF h
    <3>. QED
      BY <1>2, <2>1, TurnAssumption, ParticipantsAssumption, WidthAssumption, SMT DEF UInt48
  <2>. QED  BY <2>2 DEF HashState, State
<1>5. held'[p] = r
  BY <1>1 DEF HeldSupported, WatchedTypeOK
<1>. HIDE DEF r
<1>6. ~h.isFinal /\ (r.turnNum < 2 * nParticipants => r.vars = h.vars)
  BY <1>1, <1>3 DEF ValidTransition
<1>7. \A t \in signed[p] : ~t.isFinal
  <2>. SUFFICES ASSUME NEW t \in signed[p], t.isFinal PROVE FALSE
    OBVIOUS
  <2>1. h.turnNum >= t.turnNum
    <3>1. t.turnNum < h.turnNum + 1
      BY <1>1, <1>3 DEF SignState
    <3>. QED  BY <1>2, <3>1, SMT
  <2>. QED  BY <1>6, <2>1 DEF Kept, ClosingKept
<1>8. ASSUME r.turnNum <= Postfund PROVE r.vars.outcome = OpeningVars.outcome
  <2>1. r.turnNum < 2 * nParticipants /\ h.turnNum <= Postfund
    BY <1>2, <1>3, <1>8, SMT DEF Postfund
  <2>2. h.vars.outcome = OpeningVars.outcome
    BY <1>1, <2>1, HeldInSetup
  <2>. QED  BY <1>6, <2>1, <2>2
<1>9. ~ (r.turnNum < Postfund)
  <2>. SUFFICES ASSUME r.turnNum < Postfund PROVE FALSE
    OBVIOUS
  <2>1. PICK q \in signed[p] : SignedBehind(p, q, h)
    BY <1>2, SomethingSignedBehind DEF WatchedTypeOK
  <2>2. q.turnNum <= h.turnNum /\ h.turnNum < q.turnNum + nParticipants
    BY <2>1 DEF SignedBehind
  <2>3. q.turnNum # 0 /\ q.turnNum < Postfund
    BY <1>1, <1>2, <1>3, <2>2, SMT
  <2>. QED  BY <1>7, <2>3 DEF Kept, PrefundOnly
<1>. HIDE DEF h
<1>. QED  BY <1>1, <1>2, <1>3, <1>4, <1>5, <1>7, <1>8, <1>9, KeptWhenSigning

\* The final state a wallet signs has the outcome of the state it holds.
LEMMA KeptBySignFinalState ==
  ASSUME HeldSupported, NEW p \in Honest, Kept(p), SignFinalState(p)
  PROVE  Kept(p)'
<1>. DEFINE h == held[p]
            turnNum == IF h.isFinal THEN h.turnNum ELSE h.turnNum + 1
            r == HashState(turnNum, TRUE, h.vars)
<1>1. /\ Holds(p) /\ SignState(p, r) /\ held' = [held EXCEPT ![p] = r]
      /\ (h.turnNum + 1) % nParticipants = p
  BY DEF SignFinalState, SignAndHold, MyTurn
<1>2. /\ WatchedTypeOK /\ h \in State /\ Postfund \in Nat
      /\ h.turnNum \in Nat /\ \A t \in signed[p] : t.turnNum \in Nat
  BY <1>1, KeptTypes DEF HeldSupported, Holds
<1>3. r.turnNum = turnNum /\ r.isFinal = TRUE /\ r.vars = h.vars
  BY DEF HashState
<1>4. turnNum \in Nat /\ turnNum \in {h.turnNum, h.turnNum + 1}
  BY <1>2, SMT
<1>5. r \in State
  <2>1. turnNum <= MaxTurnNum
    BY <1>1, <1>3 DEF SignState
  <2>2. turnNum \in UInt48
    <3>. HIDE DEF turnNum
    <3>. QED
      BY <1>4, <2>1, TurnAssumption, ParticipantsAssumption, WidthAssumption, SMT DEF UInt48
  <2>. QED  BY <1>2, <2>2 DEF HashState, State
<1>6. held'[p] = r /\ r # NoHash
  BY <1>1, <1>5, NoHashAssumption DEF HeldSupported, WatchedTypeOK
<1>. HIDE DEF r, turnNum
<1>7. r.turnNum <= Postfund => r.vars.outcome = OpeningVars.outcome
  <2>1. r.turnNum <= Postfund => h.turnNum <= Postfund
    BY <1>2, <1>3, <1>4, SMT
  <2>. QED  BY <1>1, <1>3, <2>1, HeldInSetup
<1>8. \A t \in signed[p] : t.isFinal => r.vars.outcome = t.vars.outcome
  BY <1>3 DEF Kept, ClosingKept
<1>9. /\ \A t \in signed[p] \union {r} : r.turnNum >= t.turnNum
      /\ p \in {r.turnNum % nParticipants, (r.turnNum + 1) % nParticipants}
  <2>1. \A t \in signed[p] : t.turnNum < r.turnNum
    BY <1>1 DEF SignState
  <2>. QED  BY <1>1, <1>2, <1>3, <1>4, <2>1
<1>. HIDE DEF h
<1>. QED  BY <1>1, <1>2, <1>3, <1>5, <1>6, <1>7, <1>8, <1>9, KeptWhenSigning

\* The invariant of the signatures.
SigningInv == HeldSupported /\ \A p \in Honest : Kept(p)

\* Nobody else signs for p, and nobody else changes what p holds.
LEMMA KeptByOthers ==
  ASSUME NEW p \in Honest, Kept(p), signed'[p] = signed[p], held'[p] = held[p]
  PROVE  Kept(p)'
BY DEF Kept, SetupOutcome, PrefundOnly, ClosingKept, Holds, Postfund

\* Every step keeps the invariant.
LEMMA SigningStep ==
  ASSUME nParticipants <= 3, SigningInv, [WatchedNext]_watchedVars
  PROVE  SigningInv'
<1>. USE DEF SigningInv
<1>1. HeldSupported' /\ WatchedTypeOK
  BY HeldStep DEF HeldSupported
<1>2. SUFFICES ASSUME NEW p \in Honest PROVE Kept(p)'
  BY <1>1
<1>3. CASE UNCHANGED <<signed, held>>
  BY <1>3, KeptByOthers
<1>4. ASSUME NEW q \in Honest, WalletStep(q) PROVE Kept(p)'
  <2>1. CASE q # p
    <3>1. signed'[p] = signed[p] /\ held'[p] = held[p]
      BY <1>1, <1>4, <2>1
         DEF WalletStep, AddSignedStates, SignPrefundSetup, SignPostfundSetup,
             UpdateChannel, SignFinalState, SignAndHold, SignState, vars,
             WatchedTypeOK, TypeOK
    <3>. QED  BY <3>1, KeptByOthers
  <2>2. CASE q = p
    <3>1. ASSUME AddSignedStates(p) PROVE Kept(p)'
      BY <3>1, KeptWhenHolding DEF AddSignedStates, vars
    <3>. QED
      BY <1>1, <1>4, <2>2, <3>1, KeptBySignPrefundSetup, KeptBySignPostfundSetup,
         KeptByUpdateChannel, KeptBySignFinalState DEF WalletStep
  <2>. QED  BY <2>1, <2>2
<1>. QED
  BY <1>3, <1>4
     DEF WatchedNext, ClearStaleChallenge, ContractCall, Challenge, Respond, Checkpoint,
         Conclude, Tick, watchedVars

\* In a channel of at most three participants a wallet never signs two final states with
\* different outcomes, whatever the others sign and the chain does.
THEOREM FinalOutcomeIsOne ==
  ASSUME nParticipants <= 3
  PROVE  WatchedSpec => []OneFinalOutcome
<1>1. WatchedInit => SigningInv
  <2>1. WatchedInit => HeldSupported
    BY InitType DEF WatchedInit, HeldSupported, WatchedTypeOK, Holds
  <2>2. WatchedInit => \A p \in Honest : signed[p] = {}
    BY DEF WatchedInit, Init
  <2>. QED  BY <2>1, <2>2 DEF SigningInv, Kept, SetupOutcome, PrefundOnly, ClosingKept
<1>2. SigningInv /\ [WatchedNext]_watchedVars => SigningInv'
  BY SigningStep
<1>3. SigningInv => OneFinalOutcome
  <2>. SUFFICES ASSUME SigningInv, NEW p \in Honest, NEW s \in signed[p], NEW t \in signed[p],
                       s.isFinal, t.isFinal
                PROVE  s.vars.outcome = t.vars.outcome
    BY DEF OneFinalOutcome, SigningInv
  <2>1. s.turnNum \in Nat /\ t.turnNum \in Nat
    BY KeptTypes DEF SigningInv, HeldSupported
  <2>2. s.turnNum >= t.turnNum \/ t.turnNum >= s.turnNum
    BY <2>1, SMT
  <2>. QED  BY <2>2 DEF SigningInv, Kept, ClosingKept
<1>. QED  BY <1>1, <1>2, <1>3, PTL DEF WatchedSpec

------------------------------------------------------------------------------

Items == Seq(Allocation(Destination, Amount))

------------------------------------------------------------------------------
(* Paying out: no more than is held, and to nobody more than is due. *)

\* A sum of the model is a sum.
LEMMA TotalIsSum == ASSUME NEW f PROVE Total(f) = SumAll(f)
BY DEF Total, SumAll

\* The positions of a list of allocations, and their amounts.
LEMMA ItemFacts ==
  ASSUME NEW items \in Items
  PROVE  /\ Len(items) \in Nat /\ DOMAIN items = 1 .. Len(items) /\ IsFiniteSet(DOMAIN items)
         /\ \A i \in DOMAIN items : /\ items[i].amount \in Nat
                                    /\ items[i].amount <= MaxFunds
                                    /\ items[i].destination \in Destination
<1>1. Len(items) \in Nat /\ DOMAIN items = 1 .. Len(items)
  BY DEF Items
<1>2. IsFiniteSet(1 .. Len(items))
  BY <1>1, FS_Interval
<1>3. \A i \in 1 .. Len(items) : items[i] \in Allocation(Destination, Amount)
  BY <1>1 DEF Items
<1>4. \A i \in 1 .. Len(items) : items[i].amount \in Amount /\ items[i].destination \in Destination
  BY <1>3 DEF Allocation
<1>. QED  BY <1>1, <1>2, <1>4, OutcomeAssumption DEF Amount

\* The smaller of two.
LEMMA LeastFacts ==
  ASSUME NEW a \in Nat, NEW b \in Nat
  PROVE  Least(a, b) \in Nat /\ Least(a, b) <= a /\ Least(a, b) <= b /\ b - Least(a, b) \in Nat
BY DEF Least

\* What is left after each of the allocations: the loop of the contract.
LEMMA SurplusFacts ==
  ASSUME NEW funds \in Nat, NEW items \in Items
  PROVE  LET surplus == Surplus(funds, items)
         IN  /\ surplus[0] = funds
             /\ \A i \in DOMAIN items :
                  surplus[i] = surplus[i - 1] - Least(items[i].amount, surplus[i - 1])
             /\ \A i \in 0 .. Len(items) : surplus[i] \in Nat
<1>1. PICK n \in Nat : n = Len(items) /\ DOMAIN items = 1 .. n
                       /\ \A i \in 1 .. n : items[i].amount \in Nat
  BY ItemFacts
<1>. DEFINE F == [i \in 1 .. n |-> [y \in Nat |-> y - Least(items[i].amount, y)]]
            Loop(g) == g = [i \in 0 .. n |-> IF i = 0 THEN funds
                              ELSE g[i - 1] - Least(items[i].amount, g[i - 1])]
<1>2. F \in [1 .. n -> [Nat -> Nat]]
  BY <1>1, LeastFacts
<1>3. \A y \in Nat, i \in 1 .. n : F[i][y] = y - Least(items[i].amount, y)
  OBVIOUS
<1>. HIDE DEF F
<1>4. PICK g \in [0 .. n -> Nat] : g[0] = funds /\ \A i \in 1 .. n : g[i] = F[i][g[i - 1]]
  <2>. HIDE DEF Loop
  <2>1. PICK g : g \in Loops(n, Nat, funds, F)
    BY <1>2, LoopExists
  <2>. QED  BY <2>1 DEF Loops
<1>5. ASSUME NEW i \in 1 .. n PROVE g[i] = g[i - 1] - Least(items[i].amount, g[i - 1])
  <2>1. g[i - 1] \in Nat
    OBVIOUS
  <2>. QED  BY <1>3, <1>4, <2>1
<1>6. g = [i \in 0 .. n |-> g[i]]
  OBVIOUS
<1>7. \A i \in 0 .. n : g[i] = IF i = 0 THEN funds ELSE g[i - 1] - Least(items[i].amount, g[i - 1])
  BY <1>4, <1>5
<1>8. Loop(g)
  BY <1>6, <1>7
<1>9. Surplus(funds, items) = CHOOSE f : Loop(f)
  BY <1>1 DEF Surplus
<1>10. Loop(Surplus(funds, items))
  <2>. HIDE DEF Loop
  <2>. QED  BY <1>8, <1>9
<1>11. /\ Surplus(funds, items)[0] = funds
       /\ \A i \in 1 .. n : Surplus(funds, items)[i]
            = Surplus(funds, items)[i - 1] - Least(items[i].amount, Surplus(funds, items)[i - 1])
  BY <1>10
<1>. DEFINE P == {i \in 0 .. n : Surplus(funds, items)[i] \in Nat}
<1>12. 0 .. n \subseteq P
  <2>1. 0 \in P
    BY <1>11
  <2>2. ASSUME NEW i \in 1 .. n, i - 1 \in P PROVE i \in P
    <3>1. Surplus(funds, items)[i - 1] \in Nat /\ items[i].amount \in Nat
      BY <1>1, <2>2
    <3>2. Surplus(funds, items)[i - 1] - Least(items[i].amount, Surplus(funds, items)[i - 1]) \in Nat
      BY <3>1, LeastFacts
    <3>. QED  BY <1>11, <3>2
  <2>. HIDE DEF P
  <2>. QED  BY <2>1, <2>2, LoopInduction
<1>. QED  BY <1>1, <1>11, <1>12

\* What each allocation can afford, all of them together no more than is held.
LEMMA AffordsFacts ==
  ASSUME NEW funds \in Nat, NEW items \in Items
  PROVE  LET affords == [i \in DOMAIN items |-> Affords(funds, items, i)]
         IN  /\ affords \in [DOMAIN items -> Nat]
             /\ \A i \in DOMAIN items : affords[i] <= items[i].amount /\ affords[i] <= funds
             /\ SumAll(affords) <= funds
<1>. DEFINE affords == [i \in DOMAIN items |-> Affords(funds, items, i)]
            surplus == Surplus(funds, items)
<1>1. PICK n \in Nat : n = Len(items) /\ DOMAIN items = 1 .. n /\ IsFiniteSet(1 .. n)
                       /\ \A i \in 1 .. n : items[i].amount \in Nat
  BY ItemFacts
<1>2. /\ surplus[0] = funds
      /\ \A i \in 1 .. n : surplus[i] = surplus[i - 1] - Least(items[i].amount, surplus[i - 1])
      /\ \A i \in 0 .. n : surplus[i] \in Nat
  <2>1. /\ Surplus(funds, items)[0] = funds
        /\ \A i \in DOMAIN items :
             Surplus(funds, items)[i] = Surplus(funds, items)[i - 1]
                                        - Least(items[i].amount, Surplus(funds, items)[i - 1])
        /\ \A i \in 0 .. Len(items) : Surplus(funds, items)[i] \in Nat
    BY SurplusFacts, ZenonT(30)
  <2>. QED  BY <1>1, <2>1
<1>. HIDE DEF surplus
<1>3. \A i \in 1 .. n : affords[i] = Least(items[i].amount, surplus[i - 1])
  BY <1>1 DEF Affords, surplus
<1>4. \A i \in 1 .. n : i - 1 \in 0 .. n /\ surplus[i - 1] \in Nat
  BY <1>2
<1>5. affords \in [1 .. n -> Nat] /\ \A i \in 1 .. n : affords[i] <= items[i].amount
      /\ surplus[i] = surplus[i - 1] - affords[i]
  <2>1. ASSUME NEW i \in 1 .. n PROVE affords[i] \in Nat /\ affords[i] <= items[i].amount
    <3>1. items[i].amount \in Nat /\ surplus[i - 1] \in Nat
      BY <1>1, <1>4
    <3>2. /\ Least(items[i].amount, surplus[i - 1]) \in Nat
          /\ Least(items[i].amount, surplus[i - 1]) <= items[i].amount
      BY <3>1, LeastFacts
    <3>3. affords[i] = Least(items[i].amount, surplus[i - 1])
      BY <1>3
    <3>. QED  BY <3>2, <3>3, Zenon
  <2>2. affords \in [1 .. n -> Nat]
    BY <1>1, <2>1
  <2>3. \A i \in 1 .. n : surplus[i] = surplus[i - 1] - affords[i]
    BY <1>2, <1>3, Zenon
  <2>. QED  BY <2>1, <2>2, <2>3
<1>. HIDE DEF affords
<1>. DEFINE P == {i \in 0 .. n : SumOn(affords, 1 .. i) = funds - surplus[i]}
<1>6. 0 .. n \subseteq P
  <2>1. 0 \in P
    <3>1. 1 .. 0 = {}
      OBVIOUS
    <3>2. SumOn(affords, {}) = 0
      BY <1>1, <1>5, SumOnFacts
    <3>. QED  BY <1>2, <3>1, <3>2
  <2>2. ASSUME NEW i \in 1 .. n, i - 1 \in P PROVE i \in P
    <3>1. PICK s \in SUBSET (1 .. n) : s = 1 .. i - 1 /\ i \in (1 .. n) \ s /\ s \union {i} = 1 .. i
      OBVIOUS
    <3>2. SumOn(affords, s \union {i}) = affords[i] + SumOn(affords, s)
      <4>1. PICK S : S = 1 .. n
        OBVIOUS
      <4>2. IsFiniteSet(S) /\ affords \in [S -> Int] /\ s \in SUBSET S /\ i \in S \ s
        BY <1>1, <1>5, <3>1, <4>1
      <4>3. \A t \in SUBSET S : \A x \in S \ t : SumOn(affords, t \union {x}) = affords[x] + SumOn(affords, t)
        BY <4>2, SumOnFacts
      <4>. QED  BY <4>2, <4>3, Zenon
    <3>3. SumOn(affords, 1 .. i) = affords[i] + (funds - surplus[i - 1])
      BY <2>2, <3>1, <3>2
    <3>4. affords[i] + (funds - surplus[i - 1]) = funds - surplus[i]
      BY <1>2, <1>4, <1>5
    <3>. QED  BY <3>3, <3>4
  <2>. HIDE DEF P
  <2>. QED  BY <2>1, <2>2, LoopInduction
<1>7. SumAll(affords) <= funds
  <2>1. n \in 0 .. n
    OBVIOUS
  <2>2. SumOn(affords, 1 .. n) = funds - surplus[n] /\ surplus[n] \in Nat
    BY <1>2, <1>6, <2>1
  <2>3. SumOn(affords, 1 .. n) = SumAll(affords)
    BY <1>1, <1>5, SumOnFacts
  <2>. QED  BY <2>2, <2>3
<1>8. SumAll(affords) \in Nat /\ \A i \in 1 .. n : affords[i] <= SumAll(affords)
  BY <1>1, <1>5, SumNat
<1>9. \A i \in 1 .. n : affords[i] <= funds
  BY <1>5, <1>7, <1>8
<1>. QED  BY <1>1, <1>5, <1>7, <1>9 DEF affords

\* Payouts along which an asset may be paid out of the funds.
Payable(funds, items, payouts) ==
  /\ payouts \in [DOMAIN items -> Nat]
  /\ \A i \in DOMAIN items : payouts[i] <= items[i].amount
  /\ Total(payouts) \in Nat /\ Total(payouts) <= funds

\* A transfer pays each allocation no more than its amount, and all no more than is held.
LEMMA TransferPayable ==
  ASSUME NEW funds \in Nat, NEW items \in Items, NEW indices
  PROVE  Payable(funds, items, TransferPayouts(funds, items, indices))
<1>. DEFINE affords == [i \in DOMAIN items |-> Affords(funds, items, i)]
            payouts == TransferPayouts(funds, items, indices)
<1>1. /\ affords \in [DOMAIN items -> Nat] /\ SumAll(affords) <= funds
      /\ \A i \in DOMAIN items : affords[i] <= items[i].amount
  BY AffordsFacts
<1>2. \A i \in DOMAIN items : payouts[i] \in {0, affords[i]}
  BY DEF TransferPayouts
<1>3. payouts = [i \in DOMAIN items |-> payouts[i]]
  BY DEF TransferPayouts
<1>. HIDE DEF affords, payouts
<1>4. IsFiniteSet(DOMAIN items) /\ \A i \in DOMAIN items : items[i].amount \in Nat
  BY ItemFacts
<1>5. \A i \in DOMAIN items : payouts[i] \in Nat /\ payouts[i] <= affords[i] /\ payouts[i] <= items[i].amount
  BY <1>1, <1>2, <1>4
<1>6. payouts \in [DOMAIN items -> Nat]
  BY <1>3, <1>5
<1>7. SumAll(payouts) \in Nat
  BY <1>4, <1>6, SumNat
<1>8. SumAll(payouts) <= SumAll(affords) /\ SumAll(affords) \in Int
  <2>1. PICK S : S = DOMAIN items
    OBVIOUS
  <2>2. IsFiniteSet(S) /\ payouts \in [S -> Int] /\ affords \in [S -> Int]
        /\ \A i \in S : payouts[i] <= affords[i]
    BY <1>1, <1>4, <1>5, <1>6, <2>1
  <2>. QED  BY <2>2, SumLeq, SumInt
<1>. QED  BY <1>1, <1>5, <1>6, <1>7, <1>8, TotalIsSum DEF Payable, payouts

\* The allocation that is looked for is one of them.
LEMMA FirstForIn ==
  ASSUME NEW items \in Items, NEW d, \E i \in DOMAIN items : items[i].destination = d
  PROVE  FirstFor(items, d) \in DOMAIN items
<1>. DEFINE Places == {i \in DOMAIN items : items[i].destination = d}
<1>1. Places \in SUBSET Nat /\ Places # {}
  BY ItemFacts
<1>2. FirstFor(items, d) = CHOOSE i \in Places : \A j \in Places : i <= j
  BY DEF FirstFor
<1>3. Places \subseteq DOMAIN items
  OBVIOUS
<1>. HIDE DEF Places
<1>4. \E i \in Places : \A j \in Places : i <= j
  BY <1>1, LeastElement
<1>. QED  BY <1>2, <1>3, <1>4

\* What a claim may have made of its guarantee on the way.
ClaimStates(targetSurplus, items) ==
  {acc \in [surplus : Nat, k : Nat, payouts : [DOMAIN items -> Nat]] :
     /\ \A i \in DOMAIN items : acc.payouts[i] <= items[i].amount
     /\ SumAll(acc.payouts) + acc.surplus <= targetSurplus}

\* A beneficiary is paid from what is left, and no more than is due.
LEMMA ClaimStepKeeps ==
  ASSUME NEW top \in Nat, NEW items \in Items, NEW indices, NEW d,
         NEW acc \in ClaimStates(top, items)
  PROVE  ClaimStep(items, indices, acc, d) \in ClaimStates(top, items)
<1>1. CASE \A i \in DOMAIN items : items[i].destination # d
  BY <1>1 DEF ClaimStep
<1>2. CASE \E i \in DOMAIN items : items[i].destination = d
  <2>1. PICK S : S = DOMAIN items /\ IsFiniteSet(S)
    BY ItemFacts
  <2>2. PICK i \in S : i = FirstFor(items, d)
    BY <1>2, <2>1, FirstForIn
  <2>3. PICK amount \in Nat : amount = items[i].amount
    BY <2>1, ItemFacts
  <2>. DEFINE paid == \/ indices = {}
                      \/ i \in indices /\ Matched(indices, i) = acc.k
  <2>5. PICK affords : affords = Least(amount, acc.surplus)
    OBVIOUS
  <2>6. /\ acc.surplus \in Nat /\ acc.k \in Nat /\ acc.payouts \in [S -> Nat]
        /\ \A j \in S : acc.payouts[j] <= items[j].amount
        /\ SumAll(acc.payouts) + acc.surplus <= top
    BY <2>1 DEF ClaimStates
  <2>7. affords \in Nat /\ affords <= amount /\ acc.surplus - affords \in Nat
    BY <2>5, <2>6, LeastFacts
  <2>8. ClaimStep(items, indices, acc, d)
          = [surplus |-> acc.surplus - affords, k |-> IF paid THEN acc.k + 1 ELSE acc.k,
             payouts |-> IF paid THEN [acc.payouts EXCEPT ![i] = affords] ELSE acc.payouts]
    <3>1. ~ \A j \in DOMAIN items : items[j].destination # d
      BY <1>2
    <3>2. affords = Least(items[i].amount, acc.surplus)
      BY <2>3, <2>5
    <3>. QED  BY <2>2, <3>1, <3>2 DEF ClaimStep
  <2>. HIDE DEF paid
  <2>9. SumAll(acc.payouts) \in Nat
    BY <2>1, <2>6, SumNat
  <2>10. CASE paid
    <3>1. PICK payouts : payouts = [acc.payouts EXCEPT ![i] = affords]
      OBVIOUS
    <3>2. payouts \in [S -> Nat] /\ payouts[i] = affords
          /\ \A j \in S \ {i} : payouts[j] = acc.payouts[j]
      BY <2>6, <2>7, <3>1
    <3>3. \A j \in S : payouts[j] <= items[j].amount
      BY <2>3, <2>6, <2>7, <3>2
    <3>4. SumAll(payouts) = SumAll(acc.payouts) - acc.payouts[i] + payouts[i]
      BY <2>1, <2>6, <3>2, SumUpdate
    <3>5. acc.payouts[i] \in Nat
      BY <2>6
    <3>6. SumAll(payouts) + (acc.surplus - affords) <= top
      BY <2>6, <2>7, <2>9, <3>2, <3>4, <3>5
    <3>7. ClaimStep(items, indices, acc, d)
            = [surplus |-> acc.surplus - affords, k |-> acc.k + 1, payouts |-> payouts]
      BY <2>8, <2>10, <3>1
    <3>. QED  BY <2>1, <2>6, <2>7, <3>2, <3>3, <3>6, <3>7 DEF ClaimStates
  <2>11. CASE ~ paid
    <3>1. ClaimStep(items, indices, acc, d)
            = [surplus |-> acc.surplus - affords, k |-> acc.k, payouts |-> acc.payouts]
      BY <2>8, <2>11
    <3>2. SumAll(acc.payouts) + (acc.surplus - affords) <= top
      BY <2>6, <2>7, <2>9
    <3>. QED  BY <2>1, <2>6, <2>7, <3>1, <3>2 DEF ClaimStates
  <2>. QED  BY <2>10, <2>11
<1>. QED  BY <1>1, <1>2

\* The loop of a claim, round by round.
LEMMA ClaimLoopFacts ==
  ASSUME NEW top \in Nat, NEW items \in Items, NEW indices, NEW who, Len(who) \in Nat
  PROVE  LET loop == ClaimLoop(top, who, items, indices)
         IN  /\ loop[0] = [surplus |-> top, k |-> 0, payouts |-> [i \in DOMAIN items |-> 0]]
             /\ \A j \in 1 .. Len(who) : loop[j] = ClaimStep(items, indices, loop[j - 1], who[j])
             /\ \A j \in 0 .. Len(who) : loop[j] \in ClaimStates(top, items)
<1>1. PICK n \in Nat : n = Len(who)
  OBVIOUS
<1>2. PICK base : base = [surplus |-> top, k |-> 0, payouts |-> [i \in DOMAIN items |-> 0]]
  OBVIOUS
<1>. DEFINE Y == ClaimStates(top, items)
            F == [j \in 1 .. n |-> [acc \in Y |-> ClaimStep(items, indices, acc, who[j])]]
            Loop(g) == g = [j \in 0 .. n |-> IF j = 0 THEN base
                              ELSE ClaimStep(items, indices, g[j - 1], who[j])]
<1>3. base \in Y
  <2>1. PICK S : S = DOMAIN items /\ IsFiniteSet(S)
    BY ItemFacts
  <2>2. PICK z : z = [i \in S |-> 0]
    OBVIOUS
  <2>3. z \in [S -> Nat] /\ z \in [S -> Int] /\ \A i \in S : z[i] = 0
    BY <2>2
  <2>4. SumAll(z) = 0
    BY <2>1, <2>3, SumZero
  <2>5. \A i \in S : z[i] <= items[i].amount
    BY <2>1, <2>3, ItemFacts
  <2>. QED  BY <1>2, <2>1, <2>2, <2>3, <2>4, <2>5 DEF ClaimStates
<1>4. \A acc \in Y : \A d : ClaimStep(items, indices, acc, d) \in Y
  BY ClaimStepKeeps
<1>. HIDE DEF Y
<1>5. F \in [1 .. n -> [Y -> Y]] /\ \A j \in 1 .. n, acc \in Y : F[j][acc] = ClaimStep(items, indices, acc, who[j])
  BY <1>4
<1>. HIDE DEF F
<1>6. PICK g : g \in Loops(n, Y, base, F)
  BY <1>3, <1>5, LoopExists
<1>7. g \in [0 .. n -> Y] /\ g[0] = base /\ \A j \in 1 .. n : g[j] = F[j][g[j - 1]]
  BY <1>6 DEF Loops
<1>8. ASSUME NEW j \in 1 .. n PROVE g[j] = ClaimStep(items, indices, g[j - 1], who[j])
  <2>1. g[j - 1] \in Y
    BY <1>7
  <2>. QED  BY <1>5, <1>7, <2>1
<1>9. g = [j \in 0 .. n |-> g[j]]
  BY <1>7
<1>10. \A j \in 0 .. n : g[j] = IF j = 0 THEN base ELSE ClaimStep(items, indices, g[j - 1], who[j])
  BY <1>7, <1>8
<1>11. Loop(g)
  BY <1>9, <1>10
<1>12. ClaimLoop(top, who, items, indices) = CHOOSE f : Loop(f)
  BY <1>1, <1>2 DEF ClaimLoop
<1>13. PICK loop : loop = ClaimLoop(top, who, items, indices)
  OBVIOUS
<1>14. Loop(loop)
  <2>. HIDE DEF Loop
  <2>. QED  BY <1>11, <1>12, <1>13
<1>15. loop[0] = base /\ \A j \in 1 .. n : loop[j] = ClaimStep(items, indices, loop[j - 1], who[j])
  BY <1>14
<1>. DEFINE P == {j \in 0 .. n : loop[j] \in Y}
<1>16. 0 .. n \subseteq P
  <2>1. 0 \in P
    BY <1>3, <1>15
  <2>2. ASSUME NEW j \in 1 .. n, j - 1 \in P PROVE j \in P
    BY <1>4, <1>15, <2>2
  <2>. HIDE DEF P
  <2>. QED  BY <2>1, <2>2, LoopInduction
<1>. QED  BY <1>1, <1>2, <1>13, <1>15, <1>16 DEF Y

\* A claim pays each allocation of the target no more than its amount, and all of them no
\* more than the guarantee is for and can afford.
LEMMA ClaimPayable ==
  ASSUME NEW funds \in Nat, NEW from \in Items, NEW to \in Items, NEW indices,
         NEW i \in DOMAIN from
  PROVE  LET payouts == ClaimPayouts(funds, from, to, i, indices)
         IN  Payable(funds, to, payouts) /\ Total(payouts) <= from[i].amount
<1>1. PICK top \in Nat : top = Affords(funds, from, i) /\ top <= from[i].amount /\ top <= funds
  BY AffordsFacts
<1>2. PICK who : who = from[i].metadata
  OBVIOUS
<1>3. Len(who) \in Nat
  <2>1. from[i] \in Allocation(Destination, Amount)
    BY DEF Items
  <2>. QED  BY <1>2, <2>1 DEF Allocation
<1>4. PICK acc \in ClaimStates(top, to) : acc = ClaimLoop(top, who, to, indices)[Len(who)]
  <2>1. Len(who) \in 0 .. Len(who)
    BY <1>3
  <2>2. \A j \in 0 .. Len(who) : ClaimLoop(top, who, to, indices)[j] \in ClaimStates(top, to)
    BY <1>3, ClaimLoopFacts
  <2>. QED  BY <2>1, <2>2
<1>5. ClaimPayouts(funds, from, to, i, indices) = acc.payouts
  BY <1>1, <1>2, <1>4 DEF ClaimPayouts
<1>6. /\ acc.payouts \in [DOMAIN to -> Nat] /\ acc.surplus \in Nat
      /\ \A j \in DOMAIN to : acc.payouts[j] <= to[j].amount
      /\ SumAll(acc.payouts) + acc.surplus <= top
  BY <1>4 DEF ClaimStates
<1>7. SumAll(acc.payouts) \in Nat
  BY <1>6, ItemFacts, SumNat
<1>8. Total(acc.payouts) = SumAll(acc.payouts)
  BY TotalIsSum
<1>9. funds \in Nat /\ from[i].amount \in Nat
  BY ItemFacts
<1>10. Total(acc.payouts) \in Nat /\ Total(acc.payouts) <= funds /\ Total(acc.payouts) <= from[i].amount
  BY <1>1, <1>6, <1>7, <1>8, <1>9
<1>. QED  BY <1>5, <1>6, <1>10 DEF Payable

------------------------------------------------------------------------------
(* The books: what is held, owned and paid out of one asset. *)

\* The destinations are finitely many, each a channel or an address.
LEMMA Destinations ==
  /\ IsFiniteSet(Channel) /\ IsFiniteSet(External)
  /\ Channel \intersect External = {} /\ Channel \union External = Destination
<1>1. Channel \in SUBSET Destination /\ External \in SUBSET Destination
  BY DEF Destination
<1>2. IsFiniteSet(Destination)
  BY OutcomeAssumption
<1>. QED  BY <1>1, <1>2, FS_Subset, OutcomeAssumption DEF Destination

\* What is paid goes to channels or to addresses.
LEMMA PayoutsSplit ==
  ASSUME NEW items \in Items, NEW payouts \in [DOMAIN items -> Nat]
  PROVE  LET toChannels == [d \in Channel |-> SumOf(items, payouts, d)]
             toAddresses == [d \in External |-> SumOf(items, payouts, d)]
         IN  /\ toChannels \in [Channel -> Nat] /\ toAddresses \in [External -> Nat]
             /\ SumAll(toAddresses) = PaidOut(items, payouts)
             /\ PaidOut(items, payouts) \in Nat
             /\ SumAll(toChannels) + PaidOut(items, payouts) = Total(payouts)
<1>1. PICK S : S = DOMAIN items /\ IsFiniteSet(S) /\ \A i \in S : items[i].destination \in Destination
  BY ItemFacts
<1>2. PICK to : to = [i \in S |-> items[i].destination]
  OBVIOUS
<1>3. payouts \in [S -> Nat] /\ payouts \in [S -> Int]
  BY <1>1
<1>4. ASSUME NEW d PROVE SumOf(items, payouts, d) = SumOn(payouts, {i \in S : to[i] = d})
  <2>1. {i \in S : to[i] = d} = {j \in DOMAIN items : items[j].destination = d}
    BY <1>1, <1>2
  <2>. QED  BY <2>1, TotalIsSum, Zenon DEF SumOf, SumOn
<1>5. PaidOut(items, payouts) = SumOn(payouts, {i \in S : to[i] \in External})
  <2>1. {i \in S : to[i] \in External} = {j \in DOMAIN items : items[j].destination \in External}
    BY <1>1, <1>2
  <2>. QED  BY <2>1, TotalIsSum, Zenon DEF PaidOut, SumOn
<1>6. ASSUME NEW A \in SUBSET S PROVE SumOn(payouts, A) \in Nat
  <2>1. PICK part : part = [y \in A |-> payouts[y]]
    OBVIOUS
  <2>2. part \in [A -> Nat] /\ IsFiniteSet(A)
    BY <1>1, <1>3, <2>1, FS_Subset
  <2>. QED  BY <2>1, <2>2, SumNat DEF SumOn
<1>7. \A d : {i \in S : to[i] = d} \in SUBSET S /\ {i \in S : to[i] \in d} \in SUBSET S
  OBVIOUS
<1>8. \A d : SumOf(items, payouts, d) \in Nat
  BY <1>4, <1>6, <1>7
<1>9. ASSUME NEW D, IsFiniteSet(D)
      PROVE  SumAll([d \in D |-> SumOf(items, payouts, d)]) = SumOn(payouts, {i \in S : to[i] \in D})
  <2>1. [d \in D |-> SumOf(items, payouts, d)] = [d \in D |-> SumOn(payouts, {i \in S : to[i] = d})]
    BY <1>4
  <2>2. SumAll([d \in D |-> SumOn(payouts, {i \in S : to[i] = d})]) = SumOn(payouts, {i \in S : to[i] \in D})
    BY <1>1, <1>3, <1>9, SumByGroup
  <2>. QED  BY <2>1, <2>2, Zenon
<1>10. SumOn(payouts, {i \in S : to[i] \in Channel}) + SumOn(payouts, {i \in S : to[i] \in External})
         = SumOn(payouts, S)
  <2>1. PICK A \in SUBSET S : A = {i \in S : to[i] \in Channel}
    BY <1>7
  <2>2. PICK B \in SUBSET S : B = {i \in S : to[i] \in External}
    BY <1>7
  <2>3. A \intersect B = {} /\ A \union B = S
    BY <1>1, <1>2, <2>1, <2>2, Destinations
  <2>4. SumOn(payouts, A \union B) = SumOn(payouts, A) + SumOn(payouts, B)
    BY <1>1, <1>3, <2>3, SumDisjoint
  <2>. QED  BY <2>1, <2>2, <2>3, <2>4, Zenon
<1>11. SumOn(payouts, S) = Total(payouts)
  BY <1>1, <1>3, SumOnFacts, TotalIsSum
<1>12. PaidOut(items, payouts) \in Nat
  BY <1>5, <1>6, <1>7
<1>. QED  BY <1>5, <1>8, <1>9, <1>10, <1>11, <1>12, Destinations

\* The books of one asset: what the channels hold is what there is, and what there is and
\* was paid out is no more than there are tokens.
Books(funds, owned, got) ==
  /\ funds \in [Channel -> Nat] /\ owned \in Nat /\ got \in [External -> Nat]
  /\ owned = Total(funds)
  /\ Total(got) \in Nat /\ owned + Total(got) <= MaxFunds

\* Nothing in the books is more than there are tokens.
LEMMA BooksBound ==
  ASSUME NEW funds, NEW owned, NEW got, Books(funds, owned, got)
  PROVE  funds \in [Channel -> Amount] /\ owned \in Amount /\ got \in [External -> Amount]
<1>1. /\ funds \in [Channel -> Nat] /\ owned \in Nat /\ got \in [External -> Nat]
      /\ owned = Total(funds) /\ Total(got) \in Nat /\ owned + Total(got) <= MaxFunds /\ MaxFunds \in Nat
  BY OutcomeAssumption DEF Books
<1>2. \A c \in Channel : funds[c] <= owned
  BY <1>1, Destinations, SumNat, TotalIsSum
<1>3. \A d \in External : got[d] <= Total(got)
  BY <1>1, Destinations, SumNat, TotalIsSum
<1>4. \A c \in Channel : funds[c] \in 0 .. MaxFunds
  BY <1>1, <1>2
<1>5. \A d \in External : got[d] \in 0 .. MaxFunds
  BY <1>1, <1>3
<1>. QED  BY <1>1, <1>4, <1>5 DEF Amount

\* Paying out keeps the books.
LEMMA BooksPaid ==
  ASSUME NEW funds, NEW owned, NEW got, Books(funds, owned, got),
         NEW c \in Channel, NEW items \in Items, NEW payouts, Payable(funds[c], items, payouts)
  PROVE  Books(HoldingsAfter(funds, c, items, payouts), owned - PaidOut(items, payouts),
               ReceivedAfter(got, items, payouts))
<1>1. /\ funds \in [Channel -> Nat] /\ owned \in Nat /\ got \in [External -> Nat]
      /\ owned = SumAll(funds) /\ SumAll(got) \in Nat /\ owned + SumAll(got) <= MaxFunds /\ MaxFunds \in Nat
  BY OutcomeAssumption, TotalIsSum DEF Books
<1>2. payouts \in [DOMAIN items -> Nat] /\ Total(payouts) \in Nat /\ Total(payouts) <= funds[c]
  BY DEF Payable
<1>3. PICK toChannels \in [Channel -> Nat] : toChannels = [d \in Channel |-> SumOf(items, payouts, d)]
  BY <1>2, PayoutsSplit
<1>4. PICK toAddresses \in [External -> Nat] : toAddresses = [d \in External |-> SumOf(items, payouts, d)]
  BY <1>2, PayoutsSplit
<1>5. /\ SumAll(toAddresses) = PaidOut(items, payouts) /\ PaidOut(items, payouts) \in Nat
      /\ SumAll(toChannels) + PaidOut(items, payouts) = Total(payouts)
  BY <1>2, <1>3, <1>4, PayoutsSplit
<1>6. PICK less : less = [d \in Channel |-> funds[d] - (IF d = c THEN Total(payouts) ELSE 0)]
  OBVIOUS
<1>7. less \in [Channel -> Nat] /\ less[c] = funds[c] - Total(payouts)
      /\ \A d \in Channel \ {c} : less[d] = funds[d]
  BY <1>1, <1>2, <1>6
<1>8. SumAll(less) = SumAll(funds) - funds[c] + less[c]
  <2>1. less \in [Channel -> Int] /\ funds \in [Channel -> Int]
    BY <1>1, <1>7
  <2>. QED  BY <1>7, <2>1, Destinations, SumUpdate
<1>9. PICK after : after = HoldingsAfter(funds, c, items, payouts)
  OBVIOUS
<1>10. after = [d \in Channel |-> less[d] + toChannels[d]]
  BY <1>3, <1>6, <1>9 DEF HoldingsAfter
<1>11. after \in [Channel -> Nat] /\ SumAll(after) = SumAll(less) + SumAll(toChannels)
  <2>1. after \in [Channel -> Nat] /\ \A d \in Channel : after[d] = less[d] + toChannels[d]
    BY <1>3, <1>7, <1>10
  <2>2. after \in [Channel -> Int] /\ less \in [Channel -> Int] /\ toChannels \in [Channel -> Int]
    BY <1>7, <2>1
  <2>. QED  BY <2>1, <2>2, Destinations, SumPlus
<1>12. PICK paid : paid = ReceivedAfter(got, items, payouts)
  OBVIOUS
<1>13. paid \in [External -> Nat] /\ SumAll(paid) = SumAll(got) + SumAll(toAddresses)
  <2>1. paid = [d \in External |-> got[d] + toAddresses[d]]
    BY <1>4, <1>12 DEF ReceivedAfter
  <2>2. paid \in [External -> Nat] /\ \A d \in External : paid[d] = got[d] + toAddresses[d]
    BY <1>1, <2>1
  <2>3. paid \in [External -> Int] /\ got \in [External -> Int] /\ toAddresses \in [External -> Int]
    BY <1>1, <2>2
  <2>. QED  BY <2>2, <2>3, Destinations, SumPlus
<1>14. SumAll(toChannels) \in Nat /\ SumAll(funds) \in Nat /\ SumAll(after) \in Nat
  BY <1>1, <1>11, Destinations, SumNat
<1>15. funds[c] \in Nat
  BY <1>1
<1>16. /\ owned - PaidOut(items, payouts) = SumAll(after) /\ SumAll(paid) \in Nat
       /\ (owned - PaidOut(items, payouts)) + SumAll(paid) <= MaxFunds
  BY <1>1, <1>2, <1>5, <1>7, <1>8, <1>11, <1>13, <1>14, <1>15
<1>. QED  BY <1>9, <1>11, <1>12, <1>13, <1>14, <1>16, TotalIsSum DEF Books

\* A deposit keeps the books.
LEMMA BooksDeposit ==
  ASSUME NEW funds, NEW owned, NEW got, Books(funds, owned, got), NEW c \in Channel,
         NEW amount \in Nat, owned + Total(got) + amount <= MaxFunds
  PROVE  Books([funds EXCEPT ![c] = funds[c] + amount], owned + amount, got)
<1>1. /\ funds \in [Channel -> Nat] /\ owned \in Nat /\ got \in [External -> Nat]
      /\ owned = SumAll(funds) /\ Total(got) \in Nat
  BY TotalIsSum DEF Books
<1>2. PICK after : after = [funds EXCEPT ![c] = funds[c] + amount]
  OBVIOUS
<1>3. after \in [Channel -> Nat] /\ after[c] = funds[c] + amount /\ funds[c] \in Nat
      /\ \A d \in Channel \ {c} : after[d] = funds[d]
  BY <1>1, <1>2
<1>4. SumAll(after) = SumAll(funds) - funds[c] + after[c]
  <2>1. after \in [Channel -> Int] /\ funds \in [Channel -> Int]
    BY <1>1, <1>3
  <2>. QED  BY <1>3, <2>1, Destinations, SumUpdate
<1>5. SumAll(after) = owned + amount
  BY <1>1, <1>3, <1>4
<1>6. (owned + amount) + Total(got) <= MaxFunds
  BY <1>1, OutcomeAssumption
<1>. QED  BY <1>1, <1>2, <1>3, <1>5, <1>6, TotalIsSum DEF Books

------------------------------------------------------------------------------
(* Outcomes: what they owe, before and after a payment. *)

\* What one list of allocations owes to a destination.
OwedBy(items, d) ==
  Total([i \in DOMAIN items |-> IF items[i].destination = d THEN items[i].amount ELSE 0])

\* The parts of an outcome.
LEMMA OutcomeFacts ==
  ASSUME NEW outcome, IsOutcome(outcome), NEW n \in DOMAIN outcome
  PROVE  /\ outcome[n] \in SingleAssetExit
         /\ outcome[n].asset \in Asset /\ outcome[n].allocations \in Items
         /\ \A m \in DOMAIN outcome : outcome[m].asset = outcome[n].asset => m = n
<1>1. outcome \in Seq(SingleAssetExit)
  BY DEF IsOutcome
<1>2. outcome[n] \in SingleAssetExit
  BY <1>1
<1>3. ASSUME NEW m \in DOMAIN outcome, outcome[m].asset = outcome[n].asset PROVE m = n
  <2>1. PICK f : f = [k \in DOMAIN outcome |-> outcome[k].asset]
    OBVIOUS
  <2>2. IsInjective(f) /\ DOMAIN f = DOMAIN outcome /\ f[m] = f[n]
    BY <1>3, <2>1 DEF IsInjective, IsOutcome
  <2>. QED  BY <2>2 DEF IsInjective
<1>. QED  BY <1>2, <1>3 DEF SingleAssetExit, Items

\* The positions of an asset in an outcome are those of its list of allocations.
LEMMA OwedOf ==
  ASSUME NEW outcome, IsOutcome(outcome), NEW n \in DOMAIN outcome, NEW d
  PROVE  Owed(outcome, outcome[n].asset, d) = OwedBy(outcome[n].allocations, d)
<1>1. PICK items \in Items : items = outcome[n].allocations
  BY OutcomeFacts
<1>2. PICK S : S = DOMAIN items /\ IsFiniteSet(S) /\ \A i \in S : items[i].amount \in Nat
  BY ItemFacts
<1>3. PICK T : T = AllocationsOf(outcome, outcome[n].asset)
  OBVIOUS
<1>4. T = {<<n, i>> : i \in S}
  <2>1. {m \in DOMAIN outcome : outcome[m].asset = outcome[n].asset} = {n}
    BY OutcomeFacts
  <2>2. T = UNION {{<<m, i>> : i \in DOMAIN outcome[m].allocations} : m \in {n}}
    BY <1>3, <2>1, Zenon DEF AllocationsOf
  <2>. QED  BY <1>1, <1>2, <2>2
<1>5. PICK p : p = [i \in S |-> <<n, i>>]
  OBVIOUS
<1>6. /\ p \in [S -> T] /\ \A x, y \in S : p[x] = p[y] => x = y
      /\ \A t \in T : \E x \in S : p[x] = t
  BY <1>4, <1>5
<1>7. IsFiniteSet(T)
  <2>1. p \in Surjection(S, T)
    BY <1>6 DEF Surjection
  <2>. QED  BY <1>2, <2>1, FS_Surjection
<1>8. PICK f : f = [i \in S |-> IF items[i].destination = d THEN items[i].amount ELSE 0]
  OBVIOUS
<1>9. PICK g : g = [t \in T |-> LET item == outcome[t[1]].allocations[t[2]]
                               IN  IF item.destination = d THEN item.amount ELSE 0]
  OBVIOUS
<1>10. \A i \in S : g[p[i]] = f[i]
  <2>. TAKE i \in S
  <2>1. p[i] \in T /\ p[i][1] = n /\ p[i][2] = i
    BY <1>5, <1>6
  <2>. QED  BY <1>1, <1>8, <1>9, <2>1
<1>11. f \in [S -> Int]
  BY <1>2, <1>8
<1>12. g \in [T -> Int]
  <2>1. ASSUME NEW t \in T PROVE g[t] \in Int
    <3>1. PICK i \in S : p[i] = t
      BY <1>6
    <3>2. g[t] = f[i] /\ f[i] \in Int
      BY <1>10, <1>11, <3>1
    <3>. QED  BY <3>2
  <2>2. g = [t \in T |-> g[t]]
    BY <1>9
  <2>. QED  BY <2>1, <2>2
<1>13. SumAll(g) = SumAll(f)
  BY <1>2, <1>6, <1>7, <1>10, <1>11, <1>12, SumRename
<1>14. Owed(outcome, outcome[n].asset, d) = SumAll(g)
  BY <1>3, <1>9, TotalIsSum, Zenon DEF Owed
<1>15. OwedBy(outcome[n].allocations, d) = SumAll(f)
  BY <1>1, <1>2, <1>8, TotalIsSum, Zenon DEF OwedBy
<1>. QED  BY <1>13, <1>14, <1>15

\* Of an asset that it does not list, an outcome owes nothing.
LEMMA OwedNone ==
  ASSUME NEW outcome, NEW a, \A n \in DOMAIN outcome : outcome[n].asset # a, NEW d
  PROVE  Owed(outcome, a, d) = 0
<1>1. AllocationsOf(outcome, a) = {}
  BY DEF AllocationsOf
<1>2. PICK g : g = [p \in AllocationsOf(outcome, a) |->
                      LET item == outcome[p[1]].allocations[p[2]]
                      IN  IF item.destination = d THEN item.amount ELSE 0]
  OBVIOUS
<1>3. DOMAIN g = {}
  BY <1>1, <1>2
<1>. QED  BY <1>2, <1>3, SumEmpty, TotalIsSum DEF Owed

\* What is owed is a number.
LEMMA OwedByNat ==
  ASSUME NEW items \in Items, NEW d
  PROVE  OwedBy(items, d) \in Nat
<1>1. PICK S : S = DOMAIN items /\ IsFiniteSet(S) /\ \A i \in S : items[i].amount \in Nat
  BY ItemFacts
<1>2. PICK f : f = [i \in S |-> IF items[i].destination = d THEN items[i].amount ELSE 0]
  OBVIOUS
<1>3. f \in [S -> Nat]
  BY <1>1, <1>2
<1>. QED  BY <1>1, <1>2, <1>3, SumNat, TotalIsSum DEF OwedBy

\* So it is of a whole outcome.
LEMMA OwedNat ==
  ASSUME NEW outcome, IsOutcome(outcome), NEW a, NEW d
  PROVE  Owed(outcome, a, d) \in Nat
<1>1. CASE \E n \in DOMAIN outcome : outcome[n].asset = a
  BY <1>1, OwedOf, OwedByNat, OutcomeFacts
<1>2. CASE \A n \in DOMAIN outcome : outcome[n].asset # a
  BY <1>2, OwedNone
<1>. QED  BY <1>1, <1>2

\* Allocations that differ from items by what was paid.
IsLeft(left, items, payouts) ==
  /\ left \in Items /\ DOMAIN left = DOMAIN items
  /\ \A i \in DOMAIN items :
       /\ left[i].amount = items[i].amount - payouts[i]
       /\ left[i].destination = items[i].destination
       /\ left[i].allocationType = items[i].allocationType
       /\ left[i].metadata = items[i].metadata

\* What is left of the allocations after a payment are allocations again.
LEMMA PaidDown ==
  ASSUME NEW funds, NEW items \in Items, NEW payouts, Payable(funds, items, payouts)
  PROVE  IsLeft(PayDown(items, payouts), items, payouts)
<1>1. PICK n \in Nat : n = Len(items) /\ DOMAIN items = 1 .. n
  BY ItemFacts
<1>2. PICK left : left = PayDown(items, payouts)
  OBVIOUS
<1>3. left = [i \in 1 .. n |-> [items[i] EXCEPT !.amount = @ - payouts[i]]]
  BY <1>1, <1>2 DEF PayDown
<1>4. \A i \in 1 .. n : items[i] \in Allocation(Destination, Amount)
  BY <1>1 DEF Items
<1>5. \A i \in 1 .. n : items[i].amount - payouts[i] \in Amount
  BY <1>1, ItemFacts, OutcomeAssumption DEF Payable, Amount
<1>6. ASSUME NEW i \in 1 .. n
      PROVE  /\ left[i] \in Allocation(Destination, Amount)
             /\ left[i].amount = items[i].amount - payouts[i]
             /\ left[i].destination = items[i].destination
             /\ left[i].allocationType = items[i].allocationType
             /\ left[i].metadata = items[i].metadata
  BY <1>3, <1>4, <1>5 DEF Allocation
<1>7. left \in [1 .. n -> Allocation(Destination, Amount)]
  BY <1>3, <1>6
<1>8. left \in Items
  BY <1>7 DEF Items
<1>. QED  BY <1>1, <1>2, <1>3, <1>6, <1>8 DEF IsLeft

\* What is paid is no longer owed, and nothing else changes.
LEMMA PaysOff ==
  ASSUME NEW funds, NEW items \in Items, NEW payouts, Payable(funds, items, payouts), NEW d
  PROVE  /\ SumOf(items, payouts, d) \in Nat
         /\ OwedBy(PayDown(items, payouts), d) = OwedBy(items, d) - SumOf(items, payouts, d)
         /\ SumOf(items, payouts, d) <= OwedBy(items, d)
<1>1. PICK S : S = DOMAIN items /\ IsFiniteSet(S) /\ \A i \in S : items[i].amount \in Nat
  BY ItemFacts
<1>2. PICK left : left = PayDown(items, payouts) /\ IsLeft(left, items, payouts)
  BY PaidDown
<1>3. DOMAIN left = S /\ \A i \in S : left[i].amount = items[i].amount - payouts[i]
                                   /\ left[i].destination = items[i].destination
  BY <1>1, <1>2 DEF IsLeft
<1>4. payouts \in [S -> Nat] /\ \A i \in S : payouts[i] <= items[i].amount
  BY <1>1 DEF Payable
<1>. DEFINE A == {i \in S : items[i].destination = d}
<1>5. PICK f : f = [i \in S |-> IF i \in A THEN items[i].amount ELSE 0]
  OBVIOUS
<1>6. PICK g : g = [i \in S |-> IF i \in A THEN left[i].amount ELSE 0]
  OBVIOUS
<1>7. PICK h : h = [i \in S |-> IF i \in A THEN payouts[i] ELSE 0]
  OBVIOUS
<1>8. OwedBy(items, d) = SumAll(f)
  <2>1. f = [i \in DOMAIN items |-> IF items[i].destination = d THEN items[i].amount ELSE 0]
    BY <1>1, <1>5
  <2>. QED  BY <2>1, TotalIsSum, Zenon DEF OwedBy
<1>9. OwedBy(left, d) = SumAll(g)
  <2>1. g = [i \in DOMAIN left |-> IF left[i].destination = d THEN left[i].amount ELSE 0]
    BY <1>3, <1>6
  <2>. QED  BY <2>1, TotalIsSum, Zenon DEF OwedBy
<1>10. A \in SUBSET S /\ SumOf(items, payouts, d) = SumOn(payouts, A)
  BY <1>1, TotalIsSum DEF SumOf, SumOn
<1>11. /\ f \in [S -> Int] /\ g \in [S -> Nat] /\ g \in [S -> Int]
       /\ h \in [S -> Nat] /\ h \in [S -> Int] /\ payouts \in [S -> Int]
       /\ \A i \in S : f[i] = g[i] + h[i] /\ h[i] = IF i \in A THEN payouts[i] ELSE 0
  <2>1. \A i \in S : left[i].amount \in Nat /\ items[i].amount = left[i].amount + payouts[i]
    BY <1>1, <1>3, <1>4
  <2>. HIDE DEF A
  <2>. QED  BY <1>1, <1>4, <1>5, <1>6, <1>7, <2>1
<1>. HIDE DEF A
<1>12. SumAll(h) = SumOn(payouts, A)
  BY <1>1, <1>10, <1>11, SumWhere
<1>13. SumAll(f) = SumAll(g) + SumAll(h)
  BY <1>1, <1>11, SumPlus
<1>14. SumAll(g) \in Nat /\ SumAll(h) \in Nat
  BY <1>1, <1>11, SumNat
<1>. QED  BY <1>2, <1>8, <1>9, <1>10, <1>12, <1>13, <1>14

\* An outcome that owes what another does, but for what was paid of its n-th asset.
OwesTheRest(left, outcome, n, payouts) ==
  /\ IsOutcome(left)
  /\ \A a, d : Owed(left, a, d)
       = Owed(outcome, a, d)
         - (IF a = outcome[n].asset THEN SumOf(outcome[n].allocations, payouts, d) ELSE 0)

\* An outcome of which one asset was paid is one, and owes what was not paid.
LEMMA PaidOutcome ==
  ASSUME NEW outcome, IsOutcome(outcome), NEW n \in DOMAIN outcome, NEW funds, NEW payouts,
         Payable(funds, outcome[n].allocations, payouts)
  PROVE  OwesTheRest([outcome EXCEPT ![n].allocations = PayDown(@, payouts)], outcome, n, payouts)
<1>1. PICK items \in Items : items = outcome[n].allocations
  BY OutcomeFacts
<1>2. PICK rest \in Items : rest = PayDown(items, payouts) /\ IsLeft(rest, items, payouts)
  BY <1>1, PaidDown DEF IsLeft
<1>3. PICK k \in Nat : k = Len(outcome) /\ DOMAIN outcome = 1 .. k
  BY DEF IsOutcome
<1>4. PICK left : left = [outcome EXCEPT ![n].allocations = PayDown(@, payouts)]
  OBVIOUS
<1>5. /\ DOMAIN left = 1 .. k
      /\ left[n] = [outcome[n] EXCEPT !.allocations = rest]
      /\ \A m \in 1 .. k : m # n => left[m] = outcome[m]
      /\ left = [m \in 1 .. k |-> left[m]]
  <2>1. outcome = [m \in 1 .. k |-> outcome[m]]
    BY <1>3 DEF IsOutcome
  <2>. QED  BY <1>1, <1>2, <1>3, <1>4, <2>1
<1>6. \A m \in 1 .. k : outcome[m] \in SingleAssetExit
  BY <1>3, OutcomeFacts
<1>7. left[n] \in SingleAssetExit /\ left[n].asset = outcome[n].asset /\ left[n].allocations = rest
  BY <1>2, <1>3, <1>5, <1>6 DEF SingleAssetExit, Items
<1>8. \A m \in 1 .. k : left[m] \in SingleAssetExit /\ left[m].asset = outcome[m].asset
  BY <1>5, <1>6, <1>7
<1>9. left \in Seq(SingleAssetExit)
  <2>1. left \in [1 .. k -> SingleAssetExit]
    BY <1>5, <1>8
  <2>. QED  BY <2>1
<1>10. IsInjective([m \in DOMAIN left |-> left[m].asset])
  <2>1. [m \in DOMAIN left |-> left[m].asset] = [m \in DOMAIN outcome |-> outcome[m].asset]
    BY <1>3, <1>5, <1>8
  <2>. QED  BY <2>1, Zenon DEF IsOutcome
<1>11. ASSUME NEW m \in 1 .. k, NEW i \in DOMAIN left[m].allocations
       PROVE  LET item == left[m].allocations[i]
              IN  IsInjective(item.metadata) /\ (item.metadata = <<>> <=> item.allocationType = "simple")
  <2>1. ASSUME NEW j \in DOMAIN outcome[m].allocations
        PROVE  LET item == outcome[m].allocations[j]
               IN  IsInjective(item.metadata) /\ (item.metadata = <<>> <=> item.allocationType = "simple")
    BY <1>3 DEF IsOutcome
  <2>2. CASE m # n
    BY <1>5, <2>1, <2>2
  <2>3. CASE m = n
    <3>1. /\ DOMAIN rest = DOMAIN items
          /\ \A j \in DOMAIN items : /\ rest[j].metadata = items[j].metadata
                                    /\ rest[j].allocationType = items[j].allocationType
      BY <1>1, <1>2 DEF IsLeft
    <3>2. i \in DOMAIN items /\ left[m].allocations[i] = rest[i]
      BY <1>7, <2>3, <3>1
    <3>. QED  BY <1>1, <2>1, <2>3, <3>1, <3>2
  <2>. QED  BY <2>2, <2>3
<1>12. IsOutcome(left)
  <2>1. DOMAIN left = 1 .. k
    BY <1>5
  <2>. QED  BY <1>9, <1>10, <1>11, <2>1 DEF IsOutcome
<1>13. ASSUME NEW a, NEW d
       PROVE  Owed(left, a, d)
                = Owed(outcome, a, d) - (IF a = outcome[n].asset THEN SumOf(items, payouts, d) ELSE 0)
  <2>1. CASE a = outcome[n].asset
    <3>1. Owed(outcome, a, d) = OwedBy(items, d)
      BY <1>1, <2>1, OwedOf
    <3>2. Owed(left, a, d) = OwedBy(rest, d)
      <4>1. n \in DOMAIN left /\ left[n].asset = a /\ left[n].allocations = rest
        BY <1>3, <1>5, <1>7, <2>1
      <4>2. Owed(left, left[n].asset, d) = OwedBy(left[n].allocations, d)
        BY <1>12, <4>1, OwedOf
      <4>. QED  BY <4>1, <4>2, Zenon
    <3>3. OwedBy(rest, d) = OwedBy(items, d) - SumOf(items, payouts, d)
      BY <1>1, <1>2, PaysOff
    <3>. QED  BY <2>1, <3>1, <3>2, <3>3
  <2>2. CASE a # outcome[n].asset
    <3>1. CASE \E m \in 1 .. k : outcome[m].asset = a
      <4>1. PICK m \in 1 .. k : outcome[m].asset = a
        BY <3>1
      <4>2. left[m] = outcome[m]
        BY <1>5, <2>2, <4>1
      <4>3. Owed(outcome, a, d) = OwedBy(outcome[m].allocations, d)
        BY <1>3, <4>1, OwedOf
      <4>4. Owed(left, a, d) = OwedBy(outcome[m].allocations, d)
        BY <1>5, <1>12, <4>1, <4>2, OwedOf
      <4>5. Owed(outcome, a, d) \in Nat
        BY OwedNat
      <4>. QED  BY <2>2, <4>3, <4>4, <4>5
    <3>2. CASE \A m \in 1 .. k : outcome[m].asset # a
      <4>1. Owed(outcome, a, d) = 0
        BY <1>3, <3>2, OwedNone
      <4>2. Owed(left, a, d) = 0
        BY <1>5, <1>8, <3>2, OwedNone
      <4>. QED  BY <2>2, <4>1, <4>2
    <3>. QED  BY <3>1, <3>2
  <2>. QED  BY <2>1, <2>2
<1>. QED  BY <1>1, <1>4, <1>12, <1>13 DEF OwesTheRest

------------------------------------------------------------------------------
(* The statuses on chain, and what they owe together. *)

\* The status of a channel that was finalized.
IsFinalized(word) ==
  \E turn \in UInt48 : \E stateHash, outcome :
     /\ IsOutcome(outcome)
     /\ \/ word = ChannelData(turn, Now, stateHash, OutcomeHash(outcome))
        \/ word = ChannelData(turn, Now, stateHash, BytesHash(outcome))

StatusOK(word) == word = EmptyStatus \/ IsFinalized(word)

\* What is owed on record of one status, and of all.
OwedFrom(word, a, d) ==
  IF Mode(word, Now) = "Finalized" /\ word.outcomeHash.hashOf = "outcome"
    THEN Owed(word.outcomeHash.outcome, a, d) ELSE 0

OwedAll(st, a, d) == SumAll([c \in Channel |-> OwedFrom(st[c], a, d)])

\* The inductive invariant: the statuses are those of finalized channels, the books of
\* every asset are in order, and nobody was promised more than was credited.
AdjudicatorInv ==
  /\ statusOf = [c \in Channel |-> statusOf[c]]
  /\ \A c \in Channel : StatusOK(statusOf[c])
  /\ holdings \in [Asset -> [Channel -> Nat]]
  /\ balance \in [Asset -> Nat]
  /\ received \in [Asset -> [External -> Nat]]
  /\ credited \in [Asset -> [External -> Nat]]
  /\ \A a \in Asset : Books(holdings[a], balance[a], received[a])
  /\ \A a \in Asset, d \in External :
       received[a][d] + OwedAll(statusOf, a, d) <= credited[a][d]

\* A status with an outcome is finalized with it.
LEMMA WithOutcome ==
  ASSUME NEW turn \in UInt48, NEW stateHash, NEW outcome, IsOutcome(outcome)
  PROVE  LET word == ChannelData(turn, Now, stateHash, OutcomeHash(outcome))
         IN  StatusOK(word) /\ \A a, d : OwedFrom(word, a, d) = Owed(outcome, a, d)
<1>1. StatusOK(ChannelData(turn, Now, stateHash, OutcomeHash(outcome)))
  BY DEF StatusOK, IsFinalized
<1>2. PICK word : word = ChannelData(turn, Now, stateHash, OutcomeHash(outcome))
  OBVIOUS
<1>3. /\ word.finalizesAt = 1 /\ word.outcomeHash.hashOf = "outcome"
      /\ word.outcomeHash.outcome = outcome
  BY <1>2 DEF ChannelData, OutcomeHash, Now
<1>4. Mode(word, Now) = "Finalized"
  BY <1>3 DEF Mode, Now
<1>. QED  BY <1>1, <1>2, <1>3, <1>4 DEF OwedFrom

\* One with the hash of something else owes nothing.
LEMMA WithBytes ==
  ASSUME NEW turn \in UInt48, NEW stateHash, NEW outcome, IsOutcome(outcome)
  PROVE  LET word == ChannelData(turn, Now, stateHash, BytesHash(outcome))
         IN  StatusOK(word) /\ \A a, d : OwedFrom(word, a, d) = 0
<1>1. StatusOK(ChannelData(turn, Now, stateHash, BytesHash(outcome)))
  BY DEF StatusOK, IsFinalized
<1>2. PICK word : word = ChannelData(turn, Now, stateHash, BytesHash(outcome))
  OBVIOUS
<1>3. word.outcomeHash.hashOf = "bytes"
  BY <1>2 DEF ChannelData, BytesHash, Now
<1>. QED  BY <1>1, <1>2, <1>3 DEF OwedFrom

\* So does a channel that is not finalized.
LEMMA NotFinal ==
  ASSUME NEW word, Mode(word, Now) # "Finalized"
  PROVE  \A a, d : OwedFrom(word, a, d) = 0
BY DEF OwedFrom

\* An empty status is not of a finalized channel.
LEMMA EmptyNotFinal == Mode(EmptyStatus, Now) # "Finalized"
BY DEF EmptyStatus, ChannelData, Mode

\* What a channel owes is a number.
LEMMA OwedFromNat ==
  ASSUME NEW word, StatusOK(word), NEW a, NEW d
  PROVE  OwedFrom(word, a, d) \in Nat
<1>1. CASE word = EmptyStatus
  BY <1>1, EmptyNotFinal, NotFinal
<1>2. CASE IsFinalized(word)
  <2>1. PICK turn, stateHash, outcome :
          /\ turn \in UInt48
          /\ IsOutcome(outcome)
          /\ \/ word = ChannelData(turn, Now, stateHash, OutcomeHash(outcome))
             \/ word = ChannelData(turn, Now, stateHash, BytesHash(outcome))
    BY <1>2 DEF IsFinalized
  <2>2. Owed(outcome, a, d) \in Nat
    BY <2>1, OwedNat
  <2>. QED  BY <2>1, <2>2, WithOutcome, WithBytes
<1>. QED  BY <1>1, <1>2 DEF StatusOK

\* What a caller can present is the outcome that is stored.
LEMMA PresentedOutcome ==
  ASSUME NEW word, StatusOK(word), Mode(word, Now) = "Finalized", NEW outcome,
         word.outcomeHash = OutcomeHash(outcome)
  PROVE  /\ IsOutcome(outcome)
         /\ \A a, d : OwedFrom(word, a, d) = Owed(outcome, a, d)
         /\ \E turn \in UInt48 : \E stateHash :
              word = ChannelData(turn, Now, stateHash, OutcomeHash(outcome))
<1>1. IsFinalized(word)
  BY EmptyNotFinal DEF StatusOK
<1>2. PICK turn, stateHash, stored :
        /\ turn \in UInt48
        /\ IsOutcome(stored)
        /\ \/ word = ChannelData(turn, Now, stateHash, OutcomeHash(stored))
           \/ word = ChannelData(turn, Now, stateHash, BytesHash(stored))
  BY <1>1 DEF IsFinalized
<1>3. word = ChannelData(turn, Now, stateHash, OutcomeHash(stored)) /\ stored = outcome
  BY <1>2 DEF ChannelData, OutcomeHash, BytesHash
<1>. QED  BY <1>2, <1>3, WithOutcome

\* What all channels owe is a number, and changes with the status of one by as much.
LEMMA OwedAllUpdate ==
  ASSUME NEW st, \A c \in Channel : StatusOK(st[c]), NEW new, NEW c \in Channel,
         StatusOK(new[c]), \A x \in Channel \ {c} : new[x] = st[x], NEW a, NEW d
  PROVE  /\ OwedAll(st, a, d) \in Nat
         /\ OwedAll(new, a, d) = OwedAll(st, a, d) - OwedFrom(st[c], a, d) + OwedFrom(new[c], a, d)
<1>1. PICK f : f = [x \in Channel |-> OwedFrom(st[x], a, d)]
  OBVIOUS
<1>2. PICK g : g = [x \in Channel |-> OwedFrom(new[x], a, d)]
  OBVIOUS
<1>3. \A x \in Channel : OwedFrom(st[x], a, d) \in Nat /\ OwedFrom(new[x], a, d) \in Nat
  BY OwedFromNat
<1>4. /\ f \in [Channel -> Nat] /\ f \in [Channel -> Int] /\ g \in [Channel -> Int]
      /\ \A x \in Channel \ {c} : g[x] = f[x]
      /\ f[c] = OwedFrom(st[c], a, d) /\ g[c] = OwedFrom(new[c], a, d)
  BY <1>1, <1>2, <1>3
<1>5. SumAll(f) \in Nat
  BY <1>4, Destinations, SumNat
<1>6. SumAll(g) = SumAll(f) - f[c] + g[c]
  BY <1>4, Destinations, SumUpdate
<1>. QED  BY <1>1, <1>2, <1>4, <1>5, <1>6, Zenon DEF OwedAll

\* What all channels owe, as the model says it.
LEMMA OwedAllIs ==
  ASSUME NEW st, \A c \in Channel : StatusOK(st[c]), NEW a, NEW d
  PROVE  Total([c \in {x \in Channel : Mode(st[x], Now) = "Finalized"
                                        /\ st[x].outcomeHash.hashOf = "outcome"} |->
                  Owed(st[c].outcomeHash.outcome, a, d)])
           = OwedAll(st, a, d)
<1>1. PICK A \in SUBSET Channel : A = {x \in Channel : Mode(st[x], Now) = "Finalized"
                                                       /\ st[x].outcomeHash.hashOf = "outcome"}
  OBVIOUS
<1>2. PICK f : f = [x \in Channel |-> OwedFrom(st[x], a, d)]
  OBVIOUS
<1>3. f \in [Channel -> Int]
  BY <1>2, OwedFromNat
<1>4. \A x \in Channel : f[x] = IF x \in A THEN f[x] ELSE 0
  BY <1>1, <1>2 DEF OwedFrom
<1>5. SumAll(f) = SumOn(f, A)
  BY <1>3, <1>4, Destinations, SumWhere
<1>6. [c \in A |-> f[c]] = [c \in A |-> Owed(st[c].outcomeHash.outcome, a, d)]
  BY <1>1, <1>2 DEF OwedFrom
<1>. QED  BY <1>1, <1>2, <1>5, <1>6, TotalIsSum, Zenon DEF OwedAll, SumOn

------------------------------------------------------------------------------
(* The steps. *)

\* The tables of the tokens, and the books of every asset.
TablesOK ==
  /\ holdings \in [Asset -> [Channel -> Nat]]
  /\ balance \in [Asset -> Nat]
  /\ received \in [Asset -> [External -> Nat]]
  /\ \A a \in Asset : Books(holdings[a], balance[a], received[a])

\* Paying one asset along payouts keeps them, and pays out what the payouts say.
LEMMA PayAssetKeeps ==
  ASSUME AdjudicatorInv, NEW a \in Asset, NEW c \in Channel, NEW items \in Items, NEW payouts,
         Payable(holdings[a][c], items, payouts), PayAsset(a, c, items, payouts)
  PROVE  /\ TablesOK'
         /\ \A b \in Asset, d \in External :
              received'[b][d] = received[b][d] + (IF b = a THEN SumOf(items, payouts, d) ELSE 0)
<1>1. /\ holdings \in [Asset -> [Channel -> Nat]] /\ balance \in [Asset -> Nat]
      /\ received \in [Asset -> [External -> Nat]]
      /\ \A b \in Asset : Books(holdings[b], balance[b], received[b])
  BY DEF AdjudicatorInv
<1>2. PICK funds : funds = HoldingsAfter(holdings[a], c, items, payouts)
  OBVIOUS
<1>3. PICK owned : owned = balance[a] - PaidOut(items, payouts)
  OBVIOUS
<1>4. PICK got : got = ReceivedAfter(received[a], items, payouts)
  OBVIOUS
<1>5. /\ holdings' = [holdings EXCEPT ![a] = funds]
      /\ balance' = [balance EXCEPT ![a] = owned]
      /\ received' = [received EXCEPT ![a] = got]
  BY <1>1, <1>2, <1>3, <1>4 DEF PayAsset
<1>6. Books(funds, owned, got)
  BY <1>1, <1>2, <1>3, <1>4, BooksPaid
<1>7. funds \in [Channel -> Nat] /\ owned \in Nat /\ got \in [External -> Nat]
  BY <1>6 DEF Books
<1>8. /\ holdings' \in [Asset -> [Channel -> Nat]] /\ balance' \in [Asset -> Nat]
      /\ received' \in [Asset -> [External -> Nat]]
  BY <1>1, <1>5, <1>7
<1>9. \A b \in Asset : Books(holdings'[b], balance'[b], received'[b])
  <2>. TAKE b \in Asset
  <2>1. CASE b = a
    BY <1>1, <1>5, <1>6, <2>1
  <2>2. CASE b # a
    BY <1>1, <1>5, <2>2
  <2>. QED  BY <2>1, <2>2
<1>10. ASSUME NEW b \in Asset, NEW d \in External
       PROVE  received'[b][d] = received[b][d] + (IF b = a THEN SumOf(items, payouts, d) ELSE 0)
  <2>1. CASE b = a
    BY <1>1, <1>4, <1>5, <2>1 DEF ReceivedAfter
  <2>2. CASE b # a
    BY <1>1, <1>5, <2>2
  <2>. QED  BY <2>1, <2>2
<1>. QED  BY <1>8, <1>9, <1>10 DEF TablesOK

\* A step that leaves the tables in order and the promises kept keeps the invariant.
LEMMA InvFromParts ==
  ASSUME TablesOK', NEW st, statusOf' = st, st = [c \in Channel |-> st[c]],
         \A c \in Channel : StatusOK(st[c]),
         credited' \in [Asset -> [External -> Nat]],
         \A a \in Asset, d \in External : received'[a][d] + OwedAll(st, a, d) <= credited'[a][d]
  PROVE  AdjudicatorInv'
BY DEF AdjudicatorInv, TablesOK

\* The first state.
LEMMA InitInv == ASSUME AdjudicatorInit PROVE AdjudicatorInv
<1>1. \A c \in Channel : statusOf[c] = EmptyStatus
  BY DEF AdjudicatorInit
<1>2. \A c \in Channel : StatusOK(statusOf[c])
  BY <1>1 DEF StatusOK
<1>3. ASSUME NEW a \in Asset, NEW d \in External PROVE OwedAll(statusOf, a, d) = 0
  <2>1. PICK f : f = [c \in Channel |-> OwedFrom(statusOf[c], a, d)]
    OBVIOUS
  <2>2. f \in [Channel -> Int] /\ \A c \in Channel : f[c] = 0
    BY <1>1, <2>1, EmptyNotFinal, NotFinal
  <2>. QED  BY <2>1, <2>2, Destinations, SumZero DEF OwedAll
<1>4. ASSUME NEW a \in Asset PROVE Books(holdings[a], balance[a], received[a])
  <2>1. holdings[a] \in [Channel -> Nat] /\ \A c \in Channel : holdings[a][c] = 0
    BY DEF AdjudicatorInit
  <2>2. received[a] \in [External -> Nat] /\ \A d \in External : received[a][d] = 0
    BY DEF AdjudicatorInit
  <2>3. PICK h : h = holdings[a]
    OBVIOUS
  <2>4. PICK r : r = received[a]
    OBVIOUS
  <2>5. SumAll(h) = 0 /\ SumAll(r) = 0
    <3>1. h \in [Channel -> Int] /\ r \in [External -> Int]
      BY <2>1, <2>2, <2>3, <2>4
    <3>. QED  BY <2>1, <2>2, <2>3, <2>4, <3>1, Destinations, SumZero
  <2>6. balance[a] = 0
    BY DEF AdjudicatorInit
  <2>. QED  BY <2>1, <2>2, <2>3, <2>4, <2>5, <2>6, TotalIsSum, OutcomeAssumption DEF Books
<1>5. /\ holdings \in [Asset -> [Channel -> Nat]] /\ balance \in [Asset -> Nat]
      /\ received \in [Asset -> [External -> Nat]] /\ credited \in [Asset -> [External -> Nat]]
      /\ statusOf = [c \in Channel |-> statusOf[c]]
  BY DEF AdjudicatorInit
<1>6. \A a \in Asset, d \in External : received[a][d] = 0 /\ credited[a][d] = 0
  BY DEF AdjudicatorInit
<1>. QED  BY <1>2, <1>3, <1>4, <1>5, <1>6 DEF AdjudicatorInv

\* A deposit.
LEMMA DepositInv ==
  ASSUME AdjudicatorInv, NEW a \in Asset, NEW c \in Channel,
         NEW expectedHeld \in Amount, NEW amount \in Amount, Deposit(a, c, expectedHeld, amount)
  PROVE  AdjudicatorInv'
<1>1. /\ holdings \in [Asset -> [Channel -> Nat]] /\ balance \in [Asset -> Nat]
      /\ received \in [Asset -> [External -> Nat]]
      /\ \A b \in Asset : Books(holdings[b], balance[b], received[b])
  BY DEF AdjudicatorInv
<1>2. PICK more : more = expectedHeld + amount - holdings[a][c]
  OBVIOUS
<1>3. /\ holdings[a][c] < expectedHeld + amount
      /\ balance[a] + Total(received[a]) + more <= MaxFunds
      /\ holdings' = [holdings EXCEPT ![a][c] = holdings[a][c] + more]
      /\ balance' = [balance EXCEPT ![a] = @ + more]
      /\ UNCHANGED <<statusOf, received, credited>>
  BY <1>2 DEF Deposit
<1>4. more \in Nat
  BY <1>1, <1>2, <1>3, OutcomeAssumption DEF Amount
<1>5. PICK funds : funds = [holdings[a] EXCEPT ![c] = holdings[a][c] + more]
  OBVIOUS
<1>6. Books(funds, balance[a] + more, received[a])
  BY <1>1, <1>3, <1>4, <1>5, BooksDeposit
<1>7. holdings' = [holdings EXCEPT ![a] = funds]
  BY <1>1, <1>3, <1>5
<1>8. funds \in [Channel -> Nat]
  BY <1>6 DEF Books
<1>9. TablesOK'
  <2>1. \A b \in Asset : Books(holdings'[b], balance'[b], received'[b])
    <3>. TAKE b \in Asset
    <3>1. CASE b = a
      BY <1>1, <1>3, <1>6, <1>7, <3>1
    <3>2. CASE b # a
      BY <1>1, <1>3, <1>7, <3>2
    <3>. QED  BY <3>1, <3>2
  <2>2. balance' \in [Asset -> Nat] /\ holdings' \in [Asset -> [Channel -> Nat]]
    BY <1>1, <1>3, <1>4, <1>7, <1>8
  <2>3. received' \in [Asset -> [External -> Nat]]
    BY <1>1, <1>3
  <2>. QED  BY <2>1, <2>2, <2>3 DEF TablesOK
<1>10. PICK st : st = statusOf
  OBVIOUS
<1>. QED  BY <1>3, <1>9, <1>10, InvFromParts DEF AdjudicatorInv

\* A channel that is finalized: it will owe what was credited.
LEMMA FinalizeInv ==
  ASSUME AdjudicatorInv, NEW c \in Channel, NEW outcome \in SignedOutcome[c], NEW word,
         word \in {ConcludedStatus(outcome), ExpiredStatus(outcome)},
         Finalize(c, outcome, word)
  PROVE  AdjudicatorInv'
<1>1. IsOutcome(outcome)
  BY OutcomeAssumption
<1>2. /\ Mode(statusOf[c], Now) # "Finalized"
      /\ statusOf' = [statusOf EXCEPT ![c] = word]
      /\ credited' = [a \in Asset |-> [d \in External |-> credited[a][d] + Owed(outcome, a, d)]]
      /\ UNCHANGED <<holdings, balance, received>>
  BY DEF Finalize, Finalized, Credit
<1>3. 0 \in UInt48 /\ 1 \in UInt48
  BY WidthAssumption DEF UInt48
<1>4. StatusOK(word) /\ \A a, d : OwedFrom(word, a, d) = Owed(outcome, a, d)
  BY <1>1, <1>3, WithOutcome DEF ConcludedStatus, ExpiredStatus
<1>5. PICK st : st = statusOf /\ st = [x \in Channel |-> st[x]] /\ \A x \in Channel : StatusOK(st[x])
  BY DEF AdjudicatorInv
<1>6. PICK new : new = [st EXCEPT ![c] = word]
  OBVIOUS
<1>7. /\ statusOf' = new /\ new = [x \in Channel |-> new[x]] /\ new[c] = word
      /\ \A x \in Channel \ {c} : new[x] = st[x]
  BY <1>2, <1>5, <1>6
<1>8. \A x \in Channel : StatusOK(new[x])
  BY <1>4, <1>5, <1>7
<1>9. TablesOK'
  BY <1>2 DEF AdjudicatorInv, TablesOK
<1>10. credited \in [Asset -> [External -> Nat]]
  BY DEF AdjudicatorInv
<1>11. credited' \in [Asset -> [External -> Nat]]
  BY <1>1, <1>2, <1>10, OwedNat
<1>12. ASSUME NEW a \in Asset, NEW d \in External
       PROVE  received'[a][d] + OwedAll(new, a, d) <= credited'[a][d]
  <2>1. /\ OwedAll(st, a, d) \in Nat
        /\ OwedAll(new, a, d) = OwedAll(st, a, d) - OwedFrom(st[c], a, d) + OwedFrom(new[c], a, d)
    BY <1>5, <1>7, <1>8, OwedAllUpdate
  <2>2. OwedFrom(st[c], a, d) = 0
    BY <1>2, <1>5, NotFinal
  <2>3. OwedFrom(new[c], a, d) = Owed(outcome, a, d) /\ Owed(outcome, a, d) \in Nat
    BY <1>1, <1>4, <1>7, OwedNat
  <2>4. received[a][d] + OwedAll(st, a, d) <= credited[a][d] /\ received[a][d] \in Nat
    BY <1>5 DEF AdjudicatorInv
  <2>5. credited'[a][d] = credited[a][d] + Owed(outcome, a, d) /\ credited[a][d] \in Nat
    BY <1>2, <1>10
  <2>. QED  BY <1>2, <2>1, <2>2, <2>3, <2>4, <2>5
<1>. QED  BY <1>7, <1>8, <1>9, <1>11, <1>12, InvFromParts

\* A transfer: what is paid is no longer owed.
LEMMA TransferInv ==
  ASSUME AdjudicatorInv, NEW c \in Channel, NEW outcome, NEW n \in DOMAIN outcome, NEW indices,
         Transfer(n, c, outcome, indices)
  PROVE  AdjudicatorInv'
<1>1. PICK st : st = statusOf /\ st = [x \in Channel |-> st[x]] /\ \A x \in Channel : StatusOK(st[x])
  BY DEF AdjudicatorInv
<1>2. Mode(st[c], Now) = "Finalized" /\ st[c].outcomeHash = OutcomeHash(outcome)
  BY <1>1 DEF Transfer, Finalized, StoredOutcome
<1>3. /\ IsOutcome(outcome) /\ \A b, d : OwedFrom(st[c], b, d) = Owed(outcome, b, d)
      /\ \E turn \in UInt48 : \E stateHash :
              st[c] = ChannelData(turn, Now, stateHash, OutcomeHash(outcome))
  BY <1>1, <1>2, PresentedOutcome
<1>4. PICK turn, stateHash :
        /\ turn \in UInt48
        /\ st[c] = ChannelData(turn, Now, stateHash, OutcomeHash(outcome))
  BY <1>3
<1>5. PICK a \in Asset : a = outcome[n].asset
  BY <1>3, OutcomeFacts
<1>6. PICK items \in Items : items = outcome[n].allocations
  BY <1>3, OutcomeFacts
<1>7. PICK payouts : payouts = TransferPayouts(holdings[a][c], items, indices)
  OBVIOUS
<1>8. holdings[a][c] \in Nat
  BY DEF AdjudicatorInv
<1>9. Payable(holdings[a][c], items, payouts)
  BY <1>7, <1>8, TransferPayable
<1>10. PICK left : left = [outcome EXCEPT ![n].allocations = PayDown(@, payouts)]
  OBVIOUS
<1>11. /\ IsOutcome(left)
       /\ \A b, d : Owed(left, b, d) = Owed(outcome, b, d)
                                      - (IF b = a THEN SumOf(items, payouts, d) ELSE 0)
  <2>1. Payable(holdings[a][c], outcome[n].allocations, payouts)
    BY <1>6, <1>9
  <2>2. OwesTheRest(left, outcome, n, payouts)
    BY <1>3, <1>10, <2>1, PaidOutcome
  <2>. QED  BY <1>5, <1>6, <2>2 DEF OwesTheRest
<1>12. /\ statusOf' = [statusOf EXCEPT ![c] = UpdateFingerprint(@, OutcomeHash(left))]
       /\ PayAsset(a, c, items, payouts) /\ UNCHANGED credited
  BY <1>5, <1>6, <1>7, <1>10 DEF Transfer
<1>13. PICK new : new = [st EXCEPT ![c] = ChannelData(turn, Now, stateHash, OutcomeHash(left))]
  OBVIOUS
<1>14. statusOf' = new
  <2>1. UpdateFingerprint(st[c], OutcomeHash(left)) = ChannelData(turn, Now, stateHash, OutcomeHash(left))
    BY <1>4 DEF UpdateFingerprint, ChannelData
  <2>. QED  BY <1>1, <1>12, <1>13, <2>1
<1>15. /\ new = [x \in Channel |-> new[x]]
       /\ new[c] = ChannelData(turn, Now, stateHash, OutcomeHash(left))
       /\ \A x \in Channel \ {c} : new[x] = st[x]
  BY <1>1, <1>13
<1>16. StatusOK(new[c]) /\ \A b, d : OwedFrom(new[c], b, d) = Owed(left, b, d)
  BY <1>4, <1>11, <1>15, WithOutcome
<1>17. \A x \in Channel : StatusOK(new[x])
  BY <1>1, <1>15, <1>16
<1>18. /\ TablesOK'
       /\ \A b \in Asset, d \in External :
            received'[b][d] = received[b][d] + (IF b = a THEN SumOf(items, payouts, d) ELSE 0)
  BY <1>9, <1>12, PayAssetKeeps
<1>19. ASSUME NEW b \in Asset, NEW d \in External
       PROVE  received'[b][d] + OwedAll(new, b, d) <= credited'[b][d]
  <2>1. PICK paid : paid = IF b = a THEN SumOf(items, payouts, d) ELSE 0
    OBVIOUS
  <2>2. paid \in Nat
    BY <1>9, <2>1, PaysOff
  <2>3. /\ OwedAll(st, b, d) \in Nat
        /\ OwedAll(new, b, d) = OwedAll(st, b, d) - OwedFrom(st[c], b, d) + OwedFrom(new[c], b, d)
    BY <1>1, <1>15, <1>16, OwedAllUpdate
  <2>4. OwedFrom(st[c], b, d) = Owed(outcome, b, d) /\ Owed(outcome, b, d) \in Nat
        /\ OwedFrom(new[c], b, d) = Owed(outcome, b, d) - paid
    BY <1>3, <1>11, <1>16, <2>1, OwedNat
  <2>5. received'[b][d] = received[b][d] + paid
    BY <1>18, <2>1
  <2>6. received[b][d] + OwedAll(st, b, d) <= credited[b][d] /\ received[b][d] \in Nat
        /\ credited[b][d] \in Nat /\ credited' = credited
    BY <1>1, <1>12 DEF AdjudicatorInv
  <2>7. OwedAll(new, b, d) = OwedAll(st, b, d) - paid
    BY <2>2, <2>3, <2>4
  <2>. QED  BY <2>2, <2>3, <2>5, <2>6, <2>7
<1>20. credited' \in [Asset -> [External -> Nat]]
  BY <1>12 DEF AdjudicatorInv
<1>. QED  BY <1>14, <1>15, <1>17, <1>18, <1>19, <1>20, InvFromParts

\* What is charged to a guarantee is owed to nobody's address.
LEMMA ChargedPayable ==
  ASSUME NEW funds \in Nat, NEW items \in Items, NEW k \in DOMAIN items,
         items[k].destination \in Channel,
         NEW due \in Nat, due <= funds, due <= items[k].amount,
         NEW charged, charged = [i \in DOMAIN items |-> IF i = k THEN due ELSE 0]
  PROVE  Payable(funds, items, charged) /\ \A d \in External : SumOf(items, charged, d) = 0
<1>1. PICK S : S = DOMAIN items /\ IsFiniteSet(S) /\ \A i \in S : items[i].amount \in Nat
  BY ItemFacts
<1>2. PICK zeros : zeros = [i \in S |-> 0]
  OBVIOUS
<1>3. /\ zeros \in [S -> Int] /\ charged \in [S -> Int] /\ charged \in [S -> Nat]
      /\ \A i \in S : zeros[i] = 0
      /\ \A i \in S \ {k} : charged[i] = zeros[i]
      /\ charged[k] = due
  BY <1>1, <1>2
<1>4. SumAll(charged) = SumAll(zeros) - zeros[k] + charged[k] /\ SumAll(zeros) = 0
  BY <1>1, <1>3, SumUpdate, SumZero
<1>5. Total(charged) = due
  BY <1>1, <1>3, <1>4, TotalIsSum
<1>6. \A i \in S : charged[i] <= items[i].amount
  BY <1>1, <1>3
<1>7. Payable(funds, items, charged)
  BY <1>1, <1>3, <1>5, <1>6 DEF Payable
<1>8. ASSUME NEW d \in External PROVE SumOf(items, charged, d) = 0
  <2>1. PICK A : A = {j \in DOMAIN items : items[j].destination = d}
    OBVIOUS
  <2>2. A \in SUBSET S /\ k \notin A
    BY <1>1, <2>1, Destinations
  <2>3. PICK f : f = [i \in A |-> charged[i]]
    OBVIOUS
  <2>4. f \in [A -> Int] /\ \A i \in A : f[i] = 0
    BY <1>3, <2>2, <2>3
  <2>5. IsFiniteSet(A)
    BY <1>1, <2>2, FS_Subset
  <2>6. SumAll(f) = 0
    BY <2>4, <2>5, SumZero
  <2>. QED  BY <2>1, <2>3, <2>6, TotalIsSum, Zenon DEF SumOf
<1>. QED  BY <1>7, <1>8

\* A claim: the target owes less by what is paid, the source owes addresses what it did.
LEMMA ClaimInv ==
  ASSUME AdjudicatorInv, NEW c \in Channel, NEW t \in Channel, NEW outcome, NEW targetOutcome,
         NEW args \in ClaimArgs(c, t, outcome, targetOutcome), NEW indices, Claim(args, indices)
  PROVE  AdjudicatorInv'
<1>1. PICK st : st = statusOf /\ st = [x \in Channel |-> st[x]] /\ \A x \in Channel : StatusOK(st[x])
  BY DEF AdjudicatorInv
<1>2. /\ args.sourceChannelId = c /\ args.targetChannelId = t
      /\ args.sourceOutcome = outcome /\ args.targetOutcome = targetOutcome
  BY DEF ClaimArgs
<1>3. PICK n \in DOMAIN outcome : n = args.sourceAssetIndex
  BY DEF ClaimArgs
<1>4. PICK m \in DOMAIN targetOutcome : m = args.targetAssetIndex
  BY DEF ClaimArgs
<1>5. ClaimChecks(args)
  BY DEF Claim
<1>6. /\ Mode(st[c], Now) = "Finalized" /\ st[c].outcomeHash = OutcomeHash(outcome)
      /\ Mode(st[t], Now) = "Finalized" /\ st[t].outcomeHash = OutcomeHash(targetOutcome)
  BY <1>1, <1>2, <1>5 DEF ClaimChecks, Finalized, StoredOutcome
<1>7. /\ IsOutcome(outcome) /\ \A b, d : OwedFrom(st[c], b, d) = Owed(outcome, b, d)
      /\ \E turn \in UInt48 : \E stateHash :
              st[c] = ChannelData(turn, Now, stateHash, OutcomeHash(outcome))
  BY <1>1, <1>6, PresentedOutcome
<1>8. /\ IsOutcome(targetOutcome) /\ \A b, d : OwedFrom(st[t], b, d) = Owed(targetOutcome, b, d)
      /\ \E turn \in UInt48 : \E stateHash :
              st[t] = ChannelData(turn, Now, stateHash, OutcomeHash(targetOutcome))
  BY <1>1, <1>6, PresentedOutcome
<1>9. PICK a \in Asset : a = outcome[n].asset
  BY <1>7, OutcomeFacts
<1>10. PICK from \in Items : from = outcome[n].allocations
  BY <1>7, OutcomeFacts
<1>11. PICK to \in Items : to = targetOutcome[m].allocations
  BY <1>8, OutcomeFacts
<1>12. SourceAsset(args) = a /\ SourceAllocations(args) = from /\ TargetAllocations(args) = to
  BY <1>2, <1>3, <1>4, <1>9, <1>10, <1>11 DEF SourceAsset, SourceAllocations, TargetAllocations
<1>13. PICK k \in DOMAIN from : k = args.indexOfTargetInSource /\ from[k].destination = t
  BY <1>2, <1>5, <1>12 DEF ClaimChecks
<1>14. targetOutcome[m].asset = a
  BY <1>2, <1>4, <1>5, <1>12 DEF ClaimChecks
<1>15. holdings[a][c] \in Nat
  BY DEF AdjudicatorInv
<1>16. PICK payouts : payouts = ClaimPayouts(holdings[a][c], from, to, k, indices)
  OBVIOUS
<1>17. Payable(holdings[a][c], to, payouts) /\ Total(payouts) <= from[k].amount
  BY <1>15, <1>16, ClaimPayable
<1>18. PICK due \in Nat : due = Total(payouts) /\ due <= holdings[a][c] /\ due <= from[k].amount
  BY <1>17 DEF Payable
<1>19. PICK charged : charged = [i \in DOMAIN from |-> IF i = k THEN due ELSE 0]
  OBVIOUS
<1>20. Payable(holdings[a][c], from, charged) /\ \A d \in External : SumOf(from, charged, d) = 0
  BY <1>13, <1>15, <1>18, <1>19, ChargedPayable
<1>21. PICK leftSource : leftSource = [outcome EXCEPT ![n].allocations = PayDown(@, charged)]
  OBVIOUS
<1>22. PICK leftTarget : leftTarget = [targetOutcome EXCEPT ![m].allocations = PayDown(@, payouts)]
  OBVIOUS
<1>23. /\ statusOf' = [[statusOf EXCEPT ![c] = UpdateFingerprint(@, OutcomeHash(leftSource))]
                       EXCEPT ![t] = UpdateFingerprint(@, OutcomeHash(leftTarget))]
       /\ PayAsset(a, c, to, payouts) /\ UNCHANGED credited
  BY <1>2, <1>3, <1>4, <1>12, <1>13, <1>16, <1>18, <1>19, <1>21, <1>22 DEF Claim
<1>24. IsOutcome(leftSource) /\ \A b, d : d \in External => Owed(leftSource, b, d) = Owed(outcome, b, d)
  <2>1. OwesTheRest(leftSource, outcome, n, charged)
    BY <1>7, <1>10, <1>20, <1>21, PaidOutcome
  <2>2. \A b, d : d \in External => SumOf(outcome[n].allocations, charged, d) = 0 /\ Owed(outcome, b, d) \in Nat
    BY <1>7, <1>10, <1>20, OwedNat
  <2>3. ASSUME NEW b, NEW d, d \in External PROVE Owed(leftSource, b, d) = Owed(outcome, b, d)
    BY <2>1, <2>2, <2>3 DEF OwesTheRest
  <2>. QED  BY <2>1, <2>3 DEF OwesTheRest
<1>25. /\ IsOutcome(leftTarget)
       /\ \A b, d : Owed(leftTarget, b, d) = Owed(targetOutcome, b, d)
                                            - (IF b = a THEN SumOf(to, payouts, d) ELSE 0)
  <2>1. OwesTheRest(leftTarget, targetOutcome, m, payouts)
    BY <1>8, <1>11, <1>17, <1>22, PaidOutcome
  <2>. QED  BY <1>11, <1>14, <2>1 DEF OwesTheRest
<1>26. PICK turn, stateHash :
        /\ turn \in UInt48
        /\ st[c] = ChannelData(turn, Now, stateHash, OutcomeHash(outcome))
  BY <1>7
<1>27. PICK mid : mid = [st EXCEPT ![c] = ChannelData(turn, Now, stateHash, OutcomeHash(leftSource))]
  OBVIOUS
<1>28. /\ mid = [x \in Channel |-> mid[x]]
       /\ mid[c] = ChannelData(turn, Now, stateHash, OutcomeHash(leftSource))
       /\ \A x \in Channel \ {c} : mid[x] = st[x]
  BY <1>1, <1>27
<1>29. StatusOK(mid[c]) /\ \A b, d : OwedFrom(mid[c], b, d) = Owed(leftSource, b, d)
  BY <1>26, <1>24, <1>28, WithOutcome
<1>30. \A x \in Channel : StatusOK(mid[x])
  BY <1>1, <1>28, <1>29
<1>31. PICK turnT, stateHashT, outcomeT :
         /\ turnT \in UInt48
         /\ mid[t] = ChannelData(turnT, Now, stateHashT, OutcomeHash(outcomeT))
         /\ \A b, d : d \in External => OwedFrom(mid[t], b, d) = Owed(targetOutcome, b, d)
  <2>1. CASE t = c
    <3>1. outcome = targetOutcome
      BY <1>6, <2>1 DEF OutcomeHash
    <3>. QED  BY <1>26, <1>24, <1>28, <1>29, <2>1, <3>1
  <2>2. CASE t # c
    BY <1>8, <1>28, <2>2
  <2>. QED  BY <2>1, <2>2
<1>32. PICK new : new = [mid EXCEPT ![t] = ChannelData(turnT, Now, stateHashT, OutcomeHash(leftTarget))]
  OBVIOUS
<1>33. statusOf' = new
  <2>1. UpdateFingerprint(st[c], OutcomeHash(leftSource)) = mid[c]
    BY <1>26, <1>28 DEF UpdateFingerprint, ChannelData
  <2>2. UpdateFingerprint(mid[t], OutcomeHash(leftTarget))
          = ChannelData(turnT, Now, stateHashT, OutcomeHash(leftTarget))
    BY <1>31 DEF UpdateFingerprint, ChannelData
  <2>3. [statusOf EXCEPT ![c] = UpdateFingerprint(@, OutcomeHash(leftSource))] = mid
    BY <1>1, <1>27, <1>28, <2>1
  <2>4. statusOf' = [mid EXCEPT ![t] = UpdateFingerprint(@, OutcomeHash(leftTarget))]
    BY <1>23, <2>3
  <2>. QED  BY <1>28, <1>32, <2>2, <2>4
<1>34. /\ new = [x \in Channel |-> new[x]]
       /\ new[t] = ChannelData(turnT, Now, stateHashT, OutcomeHash(leftTarget))
       /\ \A x \in Channel \ {t} : new[x] = mid[x]
  BY <1>28, <1>32
<1>35. StatusOK(new[t]) /\ \A b, d : OwedFrom(new[t], b, d) = Owed(leftTarget, b, d)
  BY <1>31, <1>25, <1>34, WithOutcome
<1>36. \A x \in Channel : StatusOK(new[x])
  BY <1>30, <1>34, <1>35
<1>37. /\ TablesOK'
       /\ \A b \in Asset, d \in External :
            received'[b][d] = received[b][d] + (IF b = a THEN SumOf(to, payouts, d) ELSE 0)
  BY <1>17, <1>23, PayAssetKeeps
<1>38. ASSUME NEW b \in Asset, NEW d \in External
       PROVE  received'[b][d] + OwedAll(new, b, d) <= credited'[b][d]
  <2>1. PICK paid : paid = IF b = a THEN SumOf(to, payouts, d) ELSE 0
    OBVIOUS
  <2>2. paid \in Nat
    BY <1>17, <2>1, PaysOff
  <2>3. /\ OwedAll(st, b, d) \in Nat
        /\ OwedAll(mid, b, d) = OwedAll(st, b, d) - OwedFrom(st[c], b, d) + OwedFrom(mid[c], b, d)
    BY <1>1, <1>28, <1>29, OwedAllUpdate
  <2>4. /\ OwedAll(mid, b, d) \in Nat
        /\ OwedAll(new, b, d) = OwedAll(mid, b, d) - OwedFrom(mid[t], b, d) + OwedFrom(new[t], b, d)
    BY <1>30, <1>34, <1>35, OwedAllUpdate
  <2>5. OwedFrom(mid[c], b, d) = OwedFrom(st[c], b, d) /\ OwedFrom(st[c], b, d) \in Nat
    BY <1>7, <1>24, <1>29, OwedNat
  <2>6. OwedFrom(mid[t], b, d) = Owed(targetOutcome, b, d) /\ Owed(targetOutcome, b, d) \in Nat
        /\ OwedFrom(new[t], b, d) = Owed(targetOutcome, b, d) - paid
    BY <1>8, <1>25, <1>31, <1>35, <2>1, OwedNat
  <2>7. OwedAll(new, b, d) = OwedAll(st, b, d) - paid
    BY <2>2, <2>3, <2>4, <2>5, <2>6
  <2>8. received'[b][d] = received[b][d] + paid
    BY <1>37, <2>1
  <2>9. received[b][d] + OwedAll(st, b, d) <= credited[b][d] /\ received[b][d] \in Nat
        /\ credited[b][d] \in Nat /\ credited' = credited
    BY <1>1, <1>23 DEF AdjudicatorInv
  <2>. QED  BY <2>2, <2>3, <2>7, <2>8, <2>9
<1>39. credited' \in [Asset -> [External -> Nat]]
  BY <1>23 DEF AdjudicatorInv
<1>. QED  BY <1>33, <1>34, <1>36, <1>37, <1>38, <1>39, InvFromParts

\* Paying out all assets of an outcome keeps the tables, pays nobody more than the outcome
\* owes, and leaves a status that owes nothing.
LEMMA PayAllKeeps ==
  ASSUME AdjudicatorInv, NEW c \in Channel, NEW outcome, IsOutcome(outcome),
         NEW turn \in UInt48, NEW stateHash,
         PayAllAssets(c, ChannelData(turn, Now, stateHash, OutcomeHash(outcome)), outcome)
  PROVE  /\ TablesOK'
         /\ \A a \in Asset, d \in External :
              received'[a][d] \in Nat /\ received'[a][d] <= received[a][d] + Owed(outcome, a, d)
         /\ \E word : /\ statusOf' = [statusOf EXCEPT ![c] = word] /\ StatusOK(word)
                       /\ \A a, d : OwedFrom(word, a, d) = 0
<1>1. /\ holdings \in [Asset -> [Channel -> Nat]] /\ balance \in [Asset -> Nat]
      /\ received \in [Asset -> [External -> Nat]]
      /\ \A a \in Asset : Books(holdings[a], balance[a], received[a])
  BY DEF AdjudicatorInv
<1>2. /\ holdings' = [a \in Asset |-> holdings'[a]] /\ balance' = [a \in Asset |-> balance'[a]]
      /\ received' = [a \in Asset |-> received'[a]]
  BY DEF PayAllAssets
<1>3. ASSUME NEW a \in Asset
      PROVE  /\ Books(holdings'[a], balance'[a], received'[a])
             /\ \A d \in External : received'[a][d] <= received[a][d] + Owed(outcome, a, d)
  <2>1. CASE \A n \in DOMAIN outcome : outcome[n].asset # a
    <3>1. {n \in DOMAIN outcome : outcome[n].asset = a} = {}
      BY <2>1
    <3>2. /\ holdings'[a] = holdings[a] /\ balance'[a] = balance[a] - 0 /\ received'[a] = received[a]
      BY <3>1 DEF PayAllAssets
    <3>3. balance[a] - 0 = balance[a] /\ \A d \in External : received[a][d] \in Nat
      BY <1>1
    <3>. QED  BY <1>1, <2>1, <3>2, <3>3, OwedNone
  <2>2. CASE \E n \in DOMAIN outcome : outcome[n].asset = a
    <3>1. PICK n \in DOMAIN outcome : outcome[n].asset = a
      BY <2>2
    <3>2. PICK items \in Items : items = outcome[n].allocations
      BY OutcomeFacts
    <3>3. PICK payouts : payouts = TransferPayouts(holdings[a][c], items, {})
      OBVIOUS
    <3>4. {m \in DOMAIN outcome : outcome[m].asset = a} = {n} /\ (CHOOSE m \in {n} : TRUE) = n
      BY <3>1, OutcomeFacts
    <3>5. /\ holdings'[a] = HoldingsAfter(holdings[a], c, items, payouts)
          /\ balance'[a] = balance[a] - PaidOut(items, payouts)
          /\ received'[a] = ReceivedAfter(received[a], items, payouts)
      BY <3>1, <3>2, <3>3, <3>4 DEF PayAllAssets
    <3>6. holdings[a][c] \in Nat
      BY <1>1
    <3>7. Payable(holdings[a][c], items, payouts)
      BY <3>3, <3>6, TransferPayable
    <3>8. Books(holdings'[a], balance'[a], received'[a])
      BY <1>1, <3>5, <3>7, BooksPaid
    <3>9. ASSUME NEW d \in External PROVE received'[a][d] <= received[a][d] + Owed(outcome, a, d)
      <4>1. received'[a][d] = received[a][d] + SumOf(items, payouts, d) /\ received[a][d] \in Nat
        BY <1>1, <3>5 DEF ReceivedAfter
      <4>2. SumOf(items, payouts, d) \in Nat /\ SumOf(items, payouts, d) <= OwedBy(items, d)
        BY <3>7, PaysOff
      <4>3. OwedBy(items, d) = Owed(outcome, a, d) /\ OwedBy(items, d) \in Nat
        BY <3>1, <3>2, OwedOf, OwedByNat
      <4>. QED  BY <4>1, <4>2, <4>3
    <3>. QED  BY <3>8, <3>9
  <2>. QED  BY <2>1, <2>2
<1>4. \A a \in Asset : /\ holdings'[a] \in [Channel -> Nat] /\ balance'[a] \in Nat
                       /\ received'[a] \in [External -> Nat]
  BY <1>3 DEF Books
<1>5. TablesOK'
  <2>1. holdings' \in [Asset -> [Channel -> Nat]]
    BY <1>2, <1>4
  <2>2. balance' \in [Asset -> Nat]
    BY <1>2, <1>4
  <2>3. received' \in [Asset -> [External -> Nat]]
    BY <1>2, <1>4
  <2>. QED  BY <1>3, <2>1, <2>2, <2>3 DEF TablesOK
<1>6. \E word : /\ statusOf' = [statusOf EXCEPT ![c] = word] /\ StatusOK(word)
                 /\ \A a, d : OwedFrom(word, a, d) = 0
  <2>1. PICK kept : kept = ChannelData(turn, Now, stateHash, BytesHash(outcome))
    OBVIOUS
  <2>2. StatusOK(kept) /\ \A a, d : OwedFrom(kept, a, d) = 0
    BY <2>1, WithBytes
  <2>3. StatusOK(EmptyStatus) /\ \A a, d : OwedFrom(EmptyStatus, a, d) = 0
    BY EmptyNotFinal, NotFinal DEF StatusOK
  <2>4. UpdateFingerprint(ChannelData(turn, Now, stateHash, OutcomeHash(outcome)), BytesHash(outcome)) = kept
    BY <2>1 DEF UpdateFingerprint, ChannelData
  <2>5. \E word \in {EmptyStatus, kept} : statusOf' = [statusOf EXCEPT ![c] = word]
    <3>1. PICK paid \in BOOLEAN :
            statusOf' = [statusOf EXCEPT ![c] =
              IF paid THEN EmptyStatus
              ELSE UpdateFingerprint(ChannelData(turn, Now, stateHash, OutcomeHash(outcome)),
                                     BytesHash(outcome))]
      BY DEF PayAllAssets
    <3>. QED  BY <2>4, <3>1
  <2>. QED  BY <2>2, <2>3, <2>5
<1>. QED  BY <1>3, <1>4, <1>5, <1>6

\* What a channel of which all assets were paid leaves.
LEMMA PaidAllInv ==
  ASSUME AdjudicatorInv, NEW c \in Channel, NEW outcome, IsOutcome(outcome), TablesOK',
         \A a \in Asset, d \in External :
           received'[a][d] \in Nat /\ received'[a][d] <= received[a][d] + Owed(outcome, a, d),
         NEW word, statusOf' = [statusOf EXCEPT ![c] = word], StatusOK(word),
         \A a, d : OwedFrom(word, a, d) = 0,
         credited' \in [Asset -> [External -> Nat]],
         \A a \in Asset, d \in External :
           credited[a][d] + Owed(outcome, a, d) <= credited'[a][d] + OwedFrom(statusOf[c], a, d)
  PROVE  AdjudicatorInv'
<1>1. PICK st : st = statusOf /\ st = [x \in Channel |-> st[x]] /\ \A x \in Channel : StatusOK(st[x])
  BY DEF AdjudicatorInv
<1>2. PICK new : new = [st EXCEPT ![c] = word]
  OBVIOUS
<1>3. /\ statusOf' = new /\ new = [x \in Channel |-> new[x]] /\ new[c] = word
      /\ \A x \in Channel \ {c} : new[x] = st[x]
  BY <1>1, <1>2
<1>4. \A x \in Channel : StatusOK(new[x])
  BY <1>1, <1>3
<1>5. ASSUME NEW a \in Asset, NEW d \in External
      PROVE  received'[a][d] + OwedAll(new, a, d) <= credited'[a][d]
  <2>1. /\ OwedAll(st, a, d) \in Nat
        /\ OwedAll(new, a, d) = OwedAll(st, a, d) - OwedFrom(st[c], a, d) + OwedFrom(new[c], a, d)
    BY <1>1, <1>3, <1>4, OwedAllUpdate
  <2>2. OwedFrom(new[c], a, d) = 0 /\ OwedFrom(st[c], a, d) \in Nat /\ Owed(outcome, a, d) \in Nat
    BY <1>1, <1>3, OwedFromNat, OwedNat
  <2>3. /\ received[a][d] + OwedAll(st, a, d) <= credited[a][d] /\ received[a][d] \in Nat
        /\ credited[a][d] \in Nat /\ credited'[a][d] \in Nat
    BY <1>1 DEF AdjudicatorInv
  <2>4. credited[a][d] + Owed(outcome, a, d) <= credited'[a][d] + OwedFrom(st[c], a, d)
    BY <1>1
  <2>5. received'[a][d] \in Nat /\ received'[a][d] <= received[a][d] + Owed(outcome, a, d)
    OBVIOUS
  <2>. QED  BY <2>1, <2>2, <2>3, <2>4, <2>5
<1>. QED  BY <1>3, <1>4, <1>5, InvFromParts

\* All assets of a finalized channel are paid out.
LEMMA TransferAllInv ==
  ASSUME AdjudicatorInv, NEW c \in Channel, NEW outcome, TransferAllAssets(c, outcome)
  PROVE  AdjudicatorInv'
<1>1. StatusOK(statusOf[c])
  BY DEF AdjudicatorInv
<1>2. Mode(statusOf[c], Now) = "Finalized" /\ statusOf[c].outcomeHash = OutcomeHash(outcome)
  BY DEF TransferAllAssets, Finalized, StoredOutcome
<1>3. /\ IsOutcome(outcome) /\ \A b, d : OwedFrom(statusOf[c], b, d) = Owed(outcome, b, d)
      /\ \E turn \in UInt48 : \E stateHash :
              statusOf[c] = ChannelData(turn, Now, stateHash, OutcomeHash(outcome))
  BY <1>1, <1>2, PresentedOutcome
<1>4. PICK turn, stateHash :
        /\ turn \in UInt48
        /\ statusOf[c] = ChannelData(turn, Now, stateHash, OutcomeHash(outcome))
  BY <1>3
<1>5. PayAllAssets(c, ChannelData(turn, Now, stateHash, OutcomeHash(outcome)), outcome)
      /\ credited' = credited
  BY <1>4 DEF TransferAllAssets
<1>6. /\ TablesOK'
      /\ \A a \in Asset, d \in External :
           received'[a][d] \in Nat /\ received'[a][d] <= received[a][d] + Owed(outcome, a, d)
      /\ \E word : /\ statusOf' = [statusOf EXCEPT ![c] = word] /\ StatusOK(word)
                    /\ \A a, d : OwedFrom(word, a, d) = 0
  BY <1>4, <1>3, <1>5, PayAllKeeps
<1>7. credited' \in [Asset -> [External -> Nat]]
  BY <1>5 DEF AdjudicatorInv
<1>8. ASSUME NEW a \in Asset, NEW d \in External
      PROVE  credited[a][d] + Owed(outcome, a, d) <= credited'[a][d] + OwedFrom(statusOf[c], a, d)
  <2>1. credited[a][d] \in Nat /\ Owed(outcome, a, d) \in Nat /\ credited'[a][d] = credited[a][d]
    BY <1>3, <1>5, OwedNat DEF AdjudicatorInv
  <2>2. OwedFrom(statusOf[c], a, d) = Owed(outcome, a, d)
    BY <1>3
  <2>. QED  BY <2>1, <2>2
<1>. QED  BY <1>3, <1>6, <1>7, <1>8, PaidAllInv

\* A channel is concluded and all of its assets are paid out at once.
LEMMA ConcludeAndTransferAllInv ==
  ASSUME AdjudicatorInv, NEW c \in Channel, NEW outcome \in SignedOutcome[c],
         ConcludeAndTransferAllAssets(c, outcome)
  PROVE  AdjudicatorInv'
<1>1. IsOutcome(outcome)
  BY OutcomeAssumption
<1>2. PayAllAssets(c, ChannelData(0, Now, NoHash, OutcomeHash(outcome)), outcome)
  BY DEF ConcludeAndTransferAllAssets, ConcludedStatus
<1>3. 0 \in UInt48
  BY WidthAssumption DEF UInt48
<1>4. /\ TablesOK'
      /\ \A a \in Asset, d \in External :
           received'[a][d] \in Nat /\ received'[a][d] <= received[a][d] + Owed(outcome, a, d)
      /\ \E word : /\ statusOf' = [statusOf EXCEPT ![c] = word] /\ StatusOK(word)
                    /\ \A a, d : OwedFrom(word, a, d) = 0
  BY <1>1, <1>2, <1>3, PayAllKeeps
<1>5. credited' = [a \in Asset |-> [d \in External |-> credited[a][d] + Owed(outcome, a, d)]]
  BY DEF ConcludeAndTransferAllAssets, Credit
<1>6. credited \in [Asset -> [External -> Nat]]
  BY DEF AdjudicatorInv
<1>7. credited' \in [Asset -> [External -> Nat]]
  BY <1>1, <1>5, <1>6, OwedNat
<1>8. ASSUME NEW a \in Asset, NEW d \in External
      PROVE  credited[a][d] + Owed(outcome, a, d) <= credited'[a][d] + OwedFrom(statusOf[c], a, d)
  <2>1. credited[a][d] \in Nat /\ Owed(outcome, a, d) \in Nat
        /\ credited'[a][d] = credited[a][d] + Owed(outcome, a, d)
    BY <1>1, <1>5, <1>6, OwedNat
  <2>2. OwedFrom(statusOf[c], a, d) \in Nat
    BY OwedFromNat DEF AdjudicatorInv
  <2>. QED  BY <2>1, <2>2
<1>. QED  BY <1>1, <1>4, <1>7, <1>8, PaidAllInv

\* Every step keeps the invariant.
LEMMA NextInv ==
  ASSUME AdjudicatorInv, [AdjudicatorNext]_adjudicatorVars
  PROVE  AdjudicatorInv'
<1>1. CASE AdjudicatorNext
  <2>1. CASE \E a \in Asset, c \in Channel, expectedHeld \in Amount, amount \in Amount :
               Deposit(a, c, expectedHeld, amount)
    BY <2>1, DepositInv
  <2>2. ASSUME NEW c \in Channel, NEW outcome \in SignedOutcome[c],
               \/ Finalize(c, outcome, ConcludedStatus(outcome))
               \/ Finalize(c, outcome, ExpiredStatus(outcome))
               \/ ConcludeAndTransferAllAssets(c, outcome)
        PROVE  AdjudicatorInv'
    BY <2>2, FinalizeInv, ConcludeAndTransferAllInv
  <2>3. ASSUME NEW c \in Channel, NEW outcome, TransferAllAssets(c, outcome) PROVE AdjudicatorInv'
    BY <2>3, TransferAllInv
  <2>4. ASSUME NEW c \in Channel, NEW outcome, NEW n \in DOMAIN outcome, NEW indices,
               Transfer(n, c, outcome, indices)
        PROVE  AdjudicatorInv'
    BY <2>4, TransferInv
  <2>5. ASSUME NEW c \in Channel, NEW t \in Channel, NEW outcome, NEW targetOutcome,
               NEW args \in ClaimArgs(c, t, outcome, targetOutcome), NEW indices, Claim(args, indices)
        PROVE  AdjudicatorInv'
    BY <2>5, ClaimInv
  <2>. QED  BY <1>1, <2>1, <2>2, <2>3, <2>4, <2>5 DEF AdjudicatorNext
<1>2. CASE UNCHANGED adjudicatorVars
  BY <1>2 DEF AdjudicatorInv, adjudicatorVars
<1>. QED  BY <1>1, <1>2

\* The invariant is what it has to be.
LEMMA InvImplies == ASSUME AdjudicatorInv PROVE NeverOverpaid
<1>1. \A a \in Asset : /\ holdings[a] \in [Channel -> Amount] /\ balance[a] \in Amount
                       /\ received[a] \in [External -> Amount]
  BY BooksBound DEF AdjudicatorInv
<1>2. /\ holdings \in [Asset -> [Channel -> Amount]] /\ balance \in [Asset -> Amount]
      /\ received \in [Asset -> [External -> Amount]]
  BY <1>1 DEF AdjudicatorInv
<1>3. ASSUME NEW c \in Channel, statusOf[c] # EmptyStatus
      PROVE  /\ statusOf[c].turnNumRecord \in UInt48 /\ statusOf[c].finalizesAt = Now
             /\ statusOf[c].outcomeHash.hashOf \in {"outcome", "bytes"}
             /\ IsOutcome(OutcomeOf(c))
  <2>1. IsFinalized(statusOf[c])
    BY <1>3 DEF AdjudicatorInv, StatusOK
  <2>. QED  BY <2>1 DEF IsFinalized, ChannelData, OutcomeHash, BytesHash, OutcomeOf
<1>4. AdjudicatorTypeOK
  BY <1>2, <1>3 DEF AdjudicatorTypeOK, AdjudicatorInv
<1>5. HoldingsBacked
  BY <1>4 DEF HoldingsBacked, AdjudicatorInv, Books
<1>6. ASSUME NEW a \in Asset, NEW d \in External
      PROVE  received[a][d] + OwedNow(a, d) <= credited[a][d]
  <2>1. OwedNow(a, d) = OwedAll(statusOf, a, d)
    <3>1. PICK st : st = statusOf /\ \A c \in Channel : StatusOK(st[c])
      BY DEF AdjudicatorInv
    <3>. QED  BY <3>1, OwedAllIs DEF OwedNow, Live, Finalized, OutcomeOf
  <2>. QED  BY <2>1 DEF AdjudicatorInv
<1>. QED  BY <1>5, <1>6 DEF NeverOverpaid

\* In every state nobody was paid more than finalized outcomes allocated to them, the books
\* of the contract are its tokens, and every table holds what it should.
THEOREM NobodyIsOverpaid == AdjudicatorSpec => []NeverOverpaid
<1>1. AdjudicatorInit => AdjudicatorInv
  BY InitInv
<1>2. AdjudicatorInv /\ [AdjudicatorNext]_adjudicatorVars => AdjudicatorInv'
  BY NextInv
<1>3. AdjudicatorInv => NeverOverpaid
  BY InvImplies
<1>. QED  BY <1>1, <1>2, <1>3, PTL DEF AdjudicatorSpec

------------------------------------------------------------------------------
(* The folds of the client library. *)

\* The greatest of a set of rounds, and the rounds before it.
LEMMA LastRound ==
  /\ 1 .. 0 = {}
  /\ \A i \in Nat \ {0} : 1 .. i # {} /\ Max(1 .. i) = i /\ (1 .. i) \ {i} = 1 .. i - 1
<1>1. ASSUME NEW i \in Nat \ {0} PROVE Max(1 .. i) = i
  <2>1. i \in 1 .. i /\ \A y \in 1 .. i : i >= y
    OBVIOUS
  <2>2. \A x \in 1 .. i : (\A y \in 1 .. i : x >= y) => x = i
    OBVIOUS
  <2>. QED  BY <2>1, <2>2 DEF Max
<1>2. 1 .. 0 = {}
  OBVIOUS
<1>3. \A i \in Nat \ {0} : 1 .. i # {} /\ (1 .. i) \ {i} = 1 .. i - 1
  OBVIOUS
<1>. QED  BY <1>1, <1>2, <1>3, Zenon

\* It is one of them.
LEMMA GreatestIn ==
  ASSUME NEW n \in Nat, NEW s \in SUBSET (1 .. n), s # {}
  PROVE  Max(s) \in s
<1>1. PICK T : T = {n - x : x \in s}
  OBVIOUS
<1>2. T \in SUBSET Nat /\ T # {}
  <2>1. \A x \in s : n - x \in Nat
    OBVIOUS
  <2>. QED  BY <1>1, <2>1
<1>3. PICK t \in T : \A u \in T : t <= u
  BY <1>2, LeastElement
<1>4. PICK x \in s : t = n - x
  BY <1>1
<1>5. \A y \in s : x >= y
  BY <1>1, <1>3, <1>4
<1>. QED  BY <1>5 DEF Max

\* A fold from the left has a result for each set of rounds.
LeftResults(n, Y, base, F) ==
  {g \in [SUBSET (1 .. n) -> Y] :
     \A s \in SUBSET (1 .. n) : g[s] = IF s = {} THEN base ELSE F[Max(s)][g[s \ {Max(s)}]]}

\* There always is one.
LEMMA LeftRounds ==
  ASSUME NEW n \in Nat, NEW Y, NEW base \in Y, NEW F \in [1 .. n -> [Y -> Y]]
  PROVE  LeftResults(n, Y, base, F) # {}
<1>1. PICK S : S = 1 .. n /\ IsFiniteSet(S)
  BY FS_Interval
<1>2. PICK pick : pick = [s \in SUBSET S |-> Max(s)]
  OBVIOUS
<1>3. ASSUME NEW s \in SUBSET S, s # {} PROVE pick[s] \in s
  BY <1>1, <1>2, <1>3, GreatestIn
<1>4. F \in [S -> [Y -> Y]]
  BY <1>1
<1>5. FoldResults(S, pick, Y, base, F) # {}
  BY <1>1, <1>3, <1>4, FoldRounds
<1>6. PICK g \in [SUBSET S -> Y] :
        \A s \in SUBSET S : g[s] = IF s = {} THEN base ELSE F[pick[s]][g[s \ {pick[s]}]]
  BY <1>5 DEF FoldResults
<1>7. \A s \in SUBSET S : g[s] = IF s = {} THEN base ELSE F[Max(s)][g[s \ {Max(s)}]]
  BY <1>2, <1>6
<1>. QED  BY <1>1, <1>7 DEF LeftResults

\* The client adds up an exit.
LEMMA TotalOfIs ==
  ASSUME NEW m \in Nat, NEW exit, DOMAIN exit = 1 .. m, NEW paid \in [1 .. m -> Int],
         \A q \in 1 .. m : exit[q].amount = paid[q]
  PROVE  TotalOf(exit) = SumAll(paid)
<1>. DEFINE Rec(g) == g = [s \in SUBSET (1 .. m) |->
                             IF s = {} THEN 0 ELSE g[s \ {Max(s)}] + exit[Max(s)].amount]
            F == [i \in 1 .. m |-> [y \in Int |-> y + paid[i]]]
<1>1. TotalOf(exit) = (CHOOSE g : Rec(g))[1 .. m]
  BY DEF TotalOf, FoldLeft, MapThenFoldSet
<1>2. \E g : Rec(g)
  <2>1. F \in [1 .. m -> [Int -> Int]] /\ \A i \in 1 .. m, y \in Int : F[i][y] = y + exit[i].amount
    OBVIOUS
  <2>. HIDE DEF F
  <2>6. 0 \in Int
    OBVIOUS
  <2>7. LeftResults(m, Int, 0, F) # {}
    BY <2>1, <2>6, LeftRounds
  <2>2. PICK g \in [SUBSET (1 .. m) -> Int] :
          \A s \in SUBSET (1 .. m) : g[s] = IF s = {} THEN 0 ELSE F[Max(s)][g[s \ {Max(s)}]]
    BY <2>7 DEF LeftResults
  <2>3. ASSUME NEW s \in SUBSET (1 .. m), s # {}
        PROVE  F[Max(s)][g[s \ {Max(s)}]] = g[s \ {Max(s)}] + exit[Max(s)].amount
    <3>1. Max(s) \in 1 .. m
      BY <2>3, GreatestIn
    <3>. QED  BY <2>1, <3>1
  <2>4. g = [s \in SUBSET (1 .. m) |-> g[s]]
    OBVIOUS
  <2>5. \A s \in SUBSET (1 .. m) : g[s] = IF s = {} THEN 0 ELSE g[s \ {Max(s)}] + exit[Max(s)].amount
    BY <2>2, <2>3
  <2>. QED  BY <2>4, <2>5
<1>3. PICK g : Rec(g) /\ TotalOf(exit) = g[1 .. m]
  <2>. HIDE DEF Rec
  <2>. QED  BY <1>1, <1>2
<1>. DEFINE P == {i \in 0 .. m : g[1 .. i] = SumOn(paid, 1 .. i)}
<1>4. 0 .. m \subseteq P
  <2>0. IsFiniteSet(1 .. m)
    BY FS_Interval
  <2>1. 0 \in P
    <3>1. g[{}] = 0
      BY <1>3
    <3>2. SumOn(paid, {}) = 0
      BY <2>0, SumOnFacts
    <3>. QED  BY <3>1, <3>2, LastRound
  <2>2. ASSUME NEW i \in 1 .. m, i - 1 \in P PROVE i \in P
    <3>1. PICK s \in SUBSET (1 .. m) : s = 1 .. i
      OBVIOUS
    <3>2. s # {} /\ Max(s) = i /\ s \ {i} = 1 .. i - 1
      BY <3>1, LastRound
    <3>3. g[s] = g[1 .. i - 1] + exit[i].amount
      BY <1>3, <3>2
    <3>4. PICK t \in SUBSET (1 .. m) : t = 1 .. i - 1 /\ i \in (1 .. m) \ t /\ t \union {i} = s
      BY <3>1
    <3>5. SumOn(paid, t \union {i}) = paid[i] + SumOn(paid, t) /\ SumOn(paid, t) \in Int
      <4>1. PICK S : S = 1 .. m
        OBVIOUS
      <4>2. IsFiniteSet(S) /\ paid \in [S -> Int] /\ t \in SUBSET S /\ i \in S \ t
        BY <2>0, <3>4, <4>1
      <4>3. /\ \A u \in SUBSET S : SumOn(paid, u) \in Int
            /\ \A u \in SUBSET S : \A x \in S \ u : SumOn(paid, u \union {x}) = paid[x] + SumOn(paid, u)
        BY <4>2, SumOnFacts
      <4>. QED  BY <4>2, <4>3, Zenon
    <3>6. g[t] = SumOn(paid, t) /\ exit[i].amount = paid[i] /\ paid[i] \in Int
      BY <2>2, <3>4
    <3>7. g[s] = SumOn(paid, s)
      <4>1. g[s] = SumOn(paid, t) + paid[i]
        BY <3>3, <3>4, <3>6, Zenon
      <4>2. SumOn(paid, s) = paid[i] + SumOn(paid, t)
        BY <3>4, <3>5, Zenon
      <4>. QED  BY <3>5, <3>6, <4>1, <4>2
    <3>8. i \in 0 .. m
      OBVIOUS
    <3>. QED  BY <3>1, <3>7, <3>8
  <2>. HIDE DEF P
  <2>. QED  BY <2>1, <2>2, LoopInduction
<1>5. g[1 .. m] = SumOn(paid, 1 .. m)
  <2>1. m \in 0 .. m
    OBVIOUS
  <2>. QED  BY <1>4, <2>1
<1>6. SumOn(paid, 1 .. m) = SumAll(paid)
  <2>1. PICK S : S = 1 .. m
    OBVIOUS
  <2>2. IsFiniteSet(S) /\ paid \in [S -> Int]
    BY <2>1, FS_Interval
  <2>3. SumOn(paid, S) = SumAll(paid)
    BY <2>2, SumOnFacts
  <2>. QED  BY <2>1, <2>3
<1>. QED  BY <1>3, <1>5, <1>6

------------------------------------------------------------------------------
(* The indices, as positions. *)

PlacesOf(indices, n) == IF indices = <<>> THEN [q \in 1 .. n |-> q] ELSE indices

ArePlaces(items, indices, m, ind) ==
  /\ m \in Nat /\ ind \in [1 .. m -> DOMAIN items] /\ ind = PlacesOf(indices, Len(items))
  /\ indices = <<>> \/ (indices = ind /\ Len(indices) = m /\ m > 0)
  /\ \A p, q \in 1 .. m : p < q => ind[p] < ind[q]
  /\ Selected(items, Range(indices)) = {ind[q] : q \in 1 .. m}

\* The positions that are chosen, in increasing order.
LEMMA PlacesFacts ==
  ASSUME NEW items \in Items, NEW indices \in IncreasingIndices(items)
  PROVE  \E m, ind : ArePlaces(items, indices, m, ind)
<1>1. PICK n \in Nat : n = Len(items) /\ DOMAIN items = 1 .. n
  BY ItemFacts
<1>2. CASE indices = <<>>
  <2>1. PICK ind : ind = [q \in 1 .. n |-> q]
    OBVIOUS
  <2>2. ind \in [1 .. n -> DOMAIN items] /\ \A p, q \in 1 .. n : p < q => ind[p] < ind[q]
    BY <1>1, <2>1
  <2>3. {ind[q] : q \in 1 .. n} = DOMAIN items
    BY <1>1, <2>1
  <2>4. Range(indices) = {}
    BY <1>2 DEF Range
  <2>5. Selected(items, Range(indices)) = DOMAIN items
    BY <2>4 DEF Selected
  <2>6. ind = PlacesOf(indices, Len(items))
    BY <1>1, <1>2, <2>1 DEF PlacesOf
  <2>. QED  BY <1>1, <1>2, <2>2, <2>3, <2>5, <2>6 DEF ArePlaces
<1>3. CASE indices # <<>>
  <2>1. PICK m \in 0 .. n : indices \in [1 .. m -> DOMAIN items]
    BY <1>1 DEF IncreasingIndices, SeqOf
  <2>2. \A p, q \in 1 .. m : p < q => indices[p] < indices[q]
    BY <2>1 DEF IncreasingIndices
  <2>3. m > 0
    BY <1>3, <2>1
  <2>4. Len(indices) = m
    BY <2>1
  <2>5. Range(indices) = {indices[q] : q \in 1 .. m}
    BY <2>1 DEF Range
  <2>6. Range(indices) # {} /\ Range(indices) \in SUBSET DOMAIN items
    BY <2>1, <2>3, <2>5
  <2>7. Selected(items, Range(indices)) = {indices[q] : q \in 1 .. m}
    BY <2>5, <2>6 DEF Selected
  <2>8. indices = PlacesOf(indices, Len(items))
    BY <1>3 DEF PlacesOf
  <2>. QED  BY <1>1, <2>1, <2>2, <2>3, <2>4, <2>7, <2>8 DEF ArePlaces
<1>. QED  BY <1>2, <1>3

\* The k-th of the increasing positions is the next one to choose when k were passed.
LEMMA ChosenNext ==
  ASSUME NEW n \in Nat, NEW indices, NEW m \in Nat, NEW ind \in [1 .. m -> 1 .. n],
         ind = PlacesOf(indices, n),
         indices = <<>> \/ (indices = ind /\ Len(indices) = m /\ m > 0),
         \A p, q \in 1 .. m : p < q => ind[p] < ind[q],
         NEW i \in 1 .. n, NEW k \in 0 .. m, \A q \in 1 .. m : ind[q] <= i - 1 <=> q <= k
  PROVE  /\ Chosen(indices, k, i) <=> k < m /\ ind[k + 1] = i
         /\ ~Chosen(indices, k, i) => \A q \in 1 .. m : ind[q] <= i <=> q <= k
         /\ Chosen(indices, k, i) => \A q \in 1 .. m : ind[q] <= i <=> q <= k + 1
         /\ (\E q \in 1 .. m : ind[q] = i) => Chosen(indices, k, i)
<1>1. Chosen(indices, k, i) <=> k < m /\ ind[k + 1] = i
  <2>1. CASE indices = <<>>
    <3>1. ind = [q \in 1 .. n |-> q] /\ m = n
      BY <2>1 DEF PlacesOf
    <3>2. k = i - 1
      <4>1. i - 1 # 0 => i - 1 <= k
        BY <3>1
      <4>2. k # 0 => k <= i - 1
        BY <3>1
      <4>. QED  BY <4>1, <4>2
    <3>. QED  BY <2>1, <3>1, <3>2 DEF Chosen
  <2>2. CASE indices # <<>>
    BY <2>2 DEF Chosen
  <2>. QED  BY <2>1, <2>2
<1>2. ASSUME ~ (k < m /\ ind[k + 1] = i), NEW q \in 1 .. m PROVE ind[q] <= i <=> q <= k
  <2>1. CASE q <= k
    <3>1. ind[q] <= i - 1 /\ ind[q] \in Nat
      BY <2>1
    <3>. QED  BY <2>1, <3>1
  <2>2. CASE q > k
    <3>1. k + 1 \in 1 .. m /\ k < m
      BY <2>2
    <3>2. ind[k + 1] # i /\ ~ (ind[k + 1] <= i - 1) /\ ind[k + 1] \in Nat /\ ind[q] \in Nat
      BY <1>2, <3>1
    <3>3. k + 1 < q => ind[k + 1] < ind[q]
      BY <3>1
    <3>4. k + 1 = q \/ k + 1 < q
      BY <2>2
    <3>. QED  BY <2>2, <3>2, <3>3, <3>4
  <2>. QED  BY <2>1, <2>2
<1>3. ASSUME k < m, ind[k + 1] = i, NEW q \in 1 .. m PROVE ind[q] <= i <=> q <= k + 1
  <2>1. k + 1 \in 1 .. m
    BY <1>3
  <2>2. CASE q <= k
    <3>1. ind[q] <= i - 1 /\ ind[q] \in Nat
      BY <2>2
    <3>. QED  BY <2>2, <3>1
  <2>3. CASE q = k + 1
    BY <1>3, <2>3
  <2>4. CASE q > k + 1
    <3>1. ind[k + 1] < ind[q] /\ ind[q] \in Nat
      BY <2>1, <2>4
    <3>. QED  BY <1>3, <2>4, <3>1
  <2>. QED  BY <2>2, <2>3, <2>4
<1>4. ASSUME NEW q \in 1 .. m, ind[q] = i PROVE k < m /\ ind[k + 1] = i
  <2>1. SUFFICES ASSUME ~ (k < m /\ ind[k + 1] = i) PROVE FALSE
    OBVIOUS
  <2>2. ind[q] <= i <=> q <= k
    BY <1>2, <2>1
  <2>3. q <= k /\ ind[q] <= i - 1
    BY <1>4, <2>2
  <2>. QED  BY <1>4, <2>3
<1>. QED  BY <1>1, <1>2, <1>3, <1>4

------------------------------------------------------------------------------
(* What the client computes of a transfer. *)

Effects(surplus, k, newAllocations, exitAllocations) ==
  [surplus |-> surplus, k |-> k, newAllocations |-> newAllocations,
   exitAllocations |-> exitAllocations]

\* One round of the client's loop.
TransferRound(allocations, indices, i, acc) ==
  LET affords == Least(allocations[i].amount, acc.surplus)
      rest    == [acc EXCEPT !.surplus = @ - affords]
  IN  IF Chosen(indices, acc.k, i)
      THEN [rest EXCEPT !.k = @ + 1,
                        !.newAllocations = Pays(@, i, affords),
                        !.exitAllocations = Append(@, Exit(allocations[i], affords))]
      ELSE rest

Signed == Allocation(Destination, Int)

TransferStates(n) ==
  [surplus : Int, k : Nat, newAllocations : [1 .. n -> Signed], exitAllocations : Seq(Signed)]

\* An allocation with another amount is one.
LEMMA ItemAmount ==
  ASSUME NEW item \in Signed, NEW amount \in Int
  PROVE  /\ Exit(item, amount) \in Signed /\ Exit(item, amount).amount = amount
         /\ [item EXCEPT !.amount = amount] \in Signed
BY DEF Exit, Signed, Allocation

\* Allocations are signed ones.
LEMMA ItemsSigned ==
  ASSUME NEW items \in Items, NEW i \in DOMAIN items
  PROVE  items[i] \in Signed /\ items[i].amount \in Nat
<1>1. items[i] \in Allocation(Destination, Amount)
  BY DEF Items
<1>2. items[i].amount \in Nat
  BY ItemFacts
<1>. QED  BY <1>1, <1>2 DEF Signed, Allocation

\* The exit with one item more.
Extended(exit, item) == Append(exit, item)

\* What a round of the client's loop does with what is not chosen, and with what is.
Passes(items, indices, i, surplus, k, left) ==
  ~Chosen(indices, k, i) /\ left = surplus - Least(items[i].amount, surplus)

Takes(items, indices, i, surplus, k, new, exit, left, next, later, longer) ==
  LET affords == Least(items[i].amount, surplus)
  IN  /\ Chosen(indices, k, i) /\ left = surplus - affords /\ next = k + 1
      /\ later = Pays(new, i, affords) /\ longer = Extended(exit, Exit(items[i], affords))

\* A round that does not choose only charges.
LEMMA RoundPasses ==
  ASSUME NEW items, NEW indices, NEW i, NEW surplus, NEW k, NEW new, NEW exit, NEW left,
         Passes(items, indices, i, surplus, k, left)
  PROVE  TransferRound(items, indices, i, Effects(surplus, k, new, exit)) = Effects(left, k, new, exit)
<1>1. PICK acc : acc = Effects(surplus, k, new, exit)
  OBVIOUS
<1>2. PICK affords : affords = Least(items[i].amount, acc.surplus)
  OBVIOUS
<1>3. PICK rest : rest = [acc EXCEPT !.surplus = acc.surplus - affords]
  OBVIOUS
<1>4. acc.surplus = surplus /\ acc.k = k
  BY <1>1 DEF Effects
<1>5. left = acc.surplus - affords
  BY <1>2, <1>4, Zenon DEF Passes
<1>6. rest = [acc EXCEPT !.surplus = left]
  BY <1>3, <1>5, Zenon
<1>7. rest = Effects(left, k, new, exit)
  BY <1>1, <1>6 DEF Effects
<1>8. TransferRound(items, indices, i, acc) = rest
  BY <1>2, <1>3, <1>4, Zenon DEF TransferRound, Passes
<1>. QED  BY <1>1, <1>7, <1>8, Zenon

\* A round that chooses charges, pays down and adds to the exit.
LEMMA RoundTakes ==
  ASSUME NEW items, NEW indices, NEW i, NEW surplus, NEW k, NEW new, NEW exit,
         NEW left, NEW next, NEW later, NEW longer,
         Takes(items, indices, i, surplus, k, new, exit, left, next, later, longer)
  PROVE  TransferRound(items, indices, i, Effects(surplus, k, new, exit))
           = Effects(left, next, later, longer)
<1>1. PICK acc : acc = Effects(surplus, k, new, exit)
  OBVIOUS
<1>2. PICK affords : affords = Least(items[i].amount, acc.surplus)
  OBVIOUS
<1>3. PICK rest : rest = [acc EXCEPT !.surplus = acc.surplus - affords]
  OBVIOUS
<1>4. acc.surplus = surplus /\ acc.k = k
  BY <1>1 DEF Effects
<1>5. /\ left = acc.surplus - affords /\ next = k + 1 /\ Chosen(indices, acc.k, i)
      /\ later = Pays(new, i, affords) /\ longer = Append(exit, Exit(items[i], affords))
  BY <1>2, <1>4, Zenon DEF Takes, Extended
<1>6. rest = [acc EXCEPT !.surplus = left]
  BY <1>3, <1>5, Zenon
<1>7. rest = [surplus |-> left, k |-> k, newAllocations |-> new, exitAllocations |-> exit]
  BY <1>1, <1>6 DEF Effects
<1>8. rest.k = k /\ rest.newAllocations = new /\ rest.exitAllocations = exit
  BY <1>7
<1>9. TransferRound(items, indices, i, acc)
        = [rest EXCEPT !.k = @ + 1, !.newAllocations = Pays(@, i, affords),
                       !.exitAllocations = Append(@, Exit(items[i], affords))]
  BY <1>2, <1>3, <1>5, Zenon DEF TransferRound
<1>10. [rest EXCEPT !.k = @ + 1, !.newAllocations = Pays(@, i, affords),
                    !.exitAllocations = Append(@, Exit(items[i], affords))]
         = [rest EXCEPT !.k = next, !.newAllocations = later, !.exitAllocations = longer]
  BY <1>5, <1>8, Zenon
<1>11. PICK r : r = [rest EXCEPT !.k = next]
  OBVIOUS
<1>12. PICK s : s = [r EXCEPT !.newAllocations = later]
  OBVIOUS
<1>13. PICK t : t = [s EXCEPT !.exitAllocations = longer]
  OBVIOUS
<1>14. r = [surplus |-> left, k |-> next, newAllocations |-> new, exitAllocations |-> exit]
  BY <1>7, <1>11
<1>15. s = [surplus |-> left, k |-> next, newAllocations |-> later, exitAllocations |-> exit]
  BY <1>12, <1>14
<1>16. t = [surplus |-> left, k |-> next, newAllocations |-> later, exitAllocations |-> longer]
  BY <1>13, <1>15
<1>17. [rest EXCEPT !.k = next, !.newAllocations = later, !.exitAllocations = longer] = t
  BY <1>11, <1>12, <1>13
<1>. QED  BY <1>1, <1>9, <1>10, <1>16, <1>17, Zenon DEF Effects

\* Every round makes such a state of such a state: allocations with amounts.
LEMMA TransferRoundTyped ==
  ASSUME NEW items \in Items, NEW n \in Nat, n = Len(items), NEW indices, NEW i \in 1 .. n,
         NEW acc \in TransferStates(n)
  PROVE  TransferRound(items, indices, i, acc) \in TransferStates(n)
<1>1. PICK surplus \in Int, k \in Nat, new \in [1 .. n -> Signed], exit \in Seq(Signed) :
        acc = Effects(surplus, k, new, exit)
  BY DEF TransferStates, Effects
<1>2. items[i] \in Signed /\ items[i].amount \in Nat
  BY ItemFacts, ItemsSigned
<1>3. PICK affords \in Int : affords = Least(items[i].amount, surplus)
  BY <1>2 DEF Least
<1>4. new[i] \in Signed /\ new[i].amount - affords \in Int
  <2>1. new[i] \in Signed
    BY <1>1
  <2>2. new[i].amount \in Int
    BY <2>1 DEF Signed, Allocation
  <2>. QED  BY <2>1, <2>2
<1>5. PICK item \in Signed : item = [new[i] EXCEPT !.amount = new[i].amount - affords]
  BY <1>4, ItemAmount
<1>6. PICK paid \in Signed : paid = Exit(items[i], affords)
  BY <1>2, ItemAmount
<1>7. PICK later : later = [new EXCEPT ![i] = item]
  OBVIOUS
<1>8. later \in [1 .. n -> Signed] /\ later = Pays(new, i, affords)
  BY <1>5, <1>7 DEF Pays
<1>9. PICK longer \in Seq(Signed) : longer = Append(exit, paid)
  <2>1. exit \in Seq(Signed) /\ paid \in Signed
    BY <1>1, <1>6
  <2>2. Append(exit, paid) \in Seq(Signed)
    BY <2>1, AppendProperties
  <2>. QED  BY <2>2
<1>10. PICK left \in Int : left = surplus - affords
  OBVIOUS
<1>13. PICK next \in Nat : next = k + 1
  OBVIOUS
<1>11. longer = Extended(exit, Exit(items[i], affords))
  BY <1>6, <1>9, Zenon DEF Extended
<1>14. CASE Chosen(indices, k, i)
  <2>3. Takes(items, indices, i, surplus, k, new, exit, left, next, later, longer)
    BY <1>3, <1>8, <1>10, <1>11, <1>13, <1>14 DEF Takes
  <2>1. TransferRound(items, indices, i, acc) = Effects(left, next, later, longer)
    BY <1>1, <2>3, RoundTakes
  <2>2. Effects(left, next, later, longer) \in TransferStates(n)
    BY <1>8, <1>9, <1>10, <1>13 DEF Effects, TransferStates
  <2>. QED  BY <2>1, <2>2
<1>15. CASE ~Chosen(indices, k, i)
  <2>3. Passes(items, indices, i, surplus, k, left)
    BY <1>3, <1>10, <1>15 DEF Passes
  <2>1. TransferRound(items, indices, i, acc) = Effects(left, k, new, exit)
    BY <1>1, <2>3, RoundPasses
  <2>2. Effects(left, k, new, exit) \in TransferStates(n)
    BY <1>1, <1>10 DEF Effects, TransferStates
  <2>. QED  BY <2>1, <2>2
<1>. QED  BY <1>14, <1>15

\* The client's fold is a fold over the rounds, one after another.
IsTransferFold(g, funds, items, n, indices) ==
  /\ ComputeTransferEffectsAndInteractions(funds, items, indices) = g[1 .. n]
  /\ g[{}] = Effects(funds, 0, items, <<>>)
  /\ \A i \in 1 .. n : g[1 .. i] = TransferRound(items, indices, i, g[1 .. i - 1])

\* It has a result after every round.
LEMMA TransferFold ==
  ASSUME NEW funds \in Nat, NEW items \in Items, NEW n \in Nat, n = Len(items), NEW indices
  PROVE  \E g : IsTransferFold(g, funds, items, n, indices)
<1>. DEFINE base == Effects(funds, 0, items, <<>>)
            Y == TransferStates(n)
            Rec(g) == g = [s \in SUBSET (1 .. n) |->
                             IF s = {} THEN base
                             ELSE TransferRound(items, indices, Max(s), g[s \ {Max(s)}])]
            F == [i \in 1 .. n |-> [y \in Y |-> TransferRound(items, indices, i, y)]]
<1>1. DOMAIN items = 1 .. n
  BY ItemFacts
<1>2. ComputeTransferEffectsAndInteractions(funds, items, indices) = (CHOOSE g : Rec(g))[1 .. n]
  <2>. DEFINE id == [i \in DOMAIN items |-> i]
              Rec0(g) == g = [s \in SUBSET DOMAIN id |->
                                IF s = {} THEN base
                                ELSE TransferRound(items, indices, id[Max(s)], g[s \ {Max(s)}])]
  <2>1. ComputeTransferEffectsAndInteractions(funds, items, indices)
          = (CHOOSE g : Rec0(g))[DOMAIN id]
    BY DEF ComputeTransferEffectsAndInteractions, FoldLeftDomain, FoldLeft, MapThenFoldSet,
           TransferRound, Effects
  <2>2. DOMAIN id = 1 .. n
    BY <1>1
  <2>3. ASSUME NEW s \in SUBSET (1 .. n), s # {} PROVE id[Max(s)] = Max(s)
    <3>1. Max(s) \in 1 .. n
      BY <2>3, GreatestIn
    <3>. QED  BY <1>1, <3>1
  <2>. HIDE DEF id, base
  <2>4. ASSUME NEW g PROVE Rec0(g) <=> Rec(g)
    BY <2>2, <2>3
  <2>. HIDE DEF Rec0, Rec
  <2>5. (CHOOSE g : Rec0(g)) = (CHOOSE g : Rec(g))
    BY <2>4
  <2>. QED  BY <2>1, <2>2, <2>5
<1>3. base \in Y
  <2>1. items \in [1 .. n -> Signed]
    <3>1. \A i \in 1 .. n : items[i] \in Signed
      BY <1>1, ItemsSigned
    <3>2. items = [i \in 1 .. n |-> items[i]]
      BY <1>1 DEF Items
    <3>. QED  BY <3>1, <3>2
  <2>2. <<>> \in Seq(Signed)
    OBVIOUS
  <2>. QED  BY <2>1, <2>2 DEF Effects, TransferStates
<1>4. \E g : Rec(g)
  <2>1. \A i \in 1 .. n, y \in Y : TransferRound(items, indices, i, y) \in Y
    BY TransferRoundTyped
  <2>. HIDE DEF Y, base
  <2>2. F \in [1 .. n -> [Y -> Y]] /\ \A i \in 1 .. n, y \in Y : F[i][y] = TransferRound(items, indices, i, y)
    BY <2>1
  <2>. HIDE DEF F
  <2>3. LeftResults(n, Y, base, F) # {}
    BY <1>3, <2>2, LeftRounds
  <2>4. PICK g \in [SUBSET (1 .. n) -> Y] :
          \A s \in SUBSET (1 .. n) : g[s] = IF s = {} THEN base ELSE F[Max(s)][g[s \ {Max(s)}]]
    BY <2>3 DEF LeftResults
  <2>5. ASSUME NEW s \in SUBSET (1 .. n), s # {}
        PROVE  F[Max(s)][g[s \ {Max(s)}]] = TransferRound(items, indices, Max(s), g[s \ {Max(s)}])
    <3>1. Max(s) \in 1 .. n
      BY <2>5, GreatestIn
    <3>2. g[s \ {Max(s)}] \in Y
      OBVIOUS
    <3>. QED  BY <2>2, <3>1, <3>2
  <2>6. g = [s \in SUBSET (1 .. n) |-> g[s]]
    OBVIOUS
  <2>7. \A s \in SUBSET (1 .. n) :
          g[s] = IF s = {} THEN base ELSE TransferRound(items, indices, Max(s), g[s \ {Max(s)}])
    BY <2>4, <2>5
  <2>. QED  BY <2>6, <2>7
<1>5. PICK g : Rec(g) /\ ComputeTransferEffectsAndInteractions(funds, items, indices) = g[1 .. n]
  <2>. HIDE DEF Rec
  <2>. QED  BY <1>2, <1>4
<1>6. g[{}] = base
  BY <1>5
<1>7. ASSUME NEW i \in 1 .. n PROVE g[1 .. i] = TransferRound(items, indices, i, g[1 .. i - 1])
  <2>1. PICK s \in SUBSET (1 .. n) : s = 1 .. i
    OBVIOUS
  <2>2. s # {} /\ Max(s) = i /\ s \ {i} = 1 .. i - 1
    BY <2>1, LastRound
  <2>. HIDE DEF base
  <2>3. g[s] = TransferRound(items, indices, i, g[s \ {i}])
    BY <1>5, <2>2
  <2>. QED  BY <2>1, <2>2, <2>3
<1>. QED  BY <1>5, <1>6, <1>7 DEF IsTransferFold

\* Taking off what is paid, item by item.
LEMMA PaidDownItem ==
  ASSUME NEW item \in Signed, NEW amount \in Nat, item.amount = amount, NEW paid \in Int
  PROVE  LET left == [item EXCEPT !.amount = item.amount - paid]
         IN  left \in Signed /\ left.amount = amount - paid /\ (paid = 0 => left = item)
<1>1. PICK rest \in Int : rest = item.amount - paid
  OBVIOUS
<1>2. PICK left : left = [item EXCEPT !.amount = rest]
  OBVIOUS
<1>3. left \in Signed /\ left.amount = rest
  BY <1>1, <1>2 DEF Signed, Allocation
<1>4. ASSUME paid = 0 PROVE left = item
  <2>1. rest = item.amount
    BY <1>1, <1>4
  <2>. QED  BY <1>2, <2>1 DEF Signed, Allocation
<1>. QED  BY <1>1, <1>2, <1>3, <1>4

\* The client pays down what the contract pays down, and its exit names what is paid.
LEMMA TransferEffects ==
  ASSUME NEW funds \in Nat, NEW items \in Items, NEW indices, NEW m, NEW ind,
         ArePlaces(items, indices, m, ind)
  PROVE  LET effects == ComputeTransferEffectsAndInteractions(funds, items, indices)
             payouts == TransferPayouts(funds, items, Range(indices))
         IN  /\ effects.newAllocations = PayDown(items, payouts)
             /\ effects.exitAllocations = [q \in 1 .. m |-> Exit(items[ind[q]], payouts[ind[q]])]
<1>1. PICK n \in Nat : n = Len(items) /\ DOMAIN items = 1 .. n
  BY ItemFacts
<1>2. \A i \in 1 .. n : items[i] \in Signed /\ items[i].amount \in Nat
  BY <1>1, ItemsSigned
<1>. m \in Nat /\ ind \in [1 .. m -> DOMAIN items]
  BY DEF ArePlaces
<1>21. /\ ind = PlacesOf(indices, Len(items))
       /\ indices = <<>> \/ (indices = ind /\ Len(indices) = m /\ m > 0)
       /\ \A p, q \in 1 .. m : p < q => ind[p] < ind[q]
       /\ Selected(items, Range(indices)) = {ind[q] : q \in 1 .. m}
  BY DEF ArePlaces
<1>. DEFINE sur == Surplus(funds, items)
<1>3. /\ sur[0] = funds
      /\ \A i \in 1 .. n : sur[i] = sur[i - 1] - Least(items[i].amount, sur[i - 1])
      /\ \A i \in 0 .. n : sur[i] \in Nat
  BY <1>1, SurplusFacts
<1>. HIDE DEF sur
<1>4. PICK aff : aff = [i \in 1 .. n |-> Affords(funds, items, i)]
  OBVIOUS
<1>5. /\ aff \in [1 .. n -> Nat]
      /\ \A i \in 1 .. n : aff[i] = Least(items[i].amount, sur[i - 1])
  <2>1. aff \in [1 .. n -> Nat]
    BY <1>1, <1>4, AffordsFacts
  <2>. QED  BY <1>4, <2>1 DEF Affords, sur
<1>6. PICK payouts : payouts = TransferPayouts(funds, items, Range(indices))
  OBVIOUS
<1>7. \A i \in 1 .. n : payouts[i] = IF \E q \in 1 .. m : ind[q] = i THEN aff[i] ELSE 0
  BY <1>1, <1>4, <1>6, <1>21 DEF TransferPayouts
<1>8. PICK left : left = PayDown(items, payouts)
  OBVIOUS
<1>9. /\ left = [i \in 1 .. n |-> [items[i] EXCEPT !.amount = items[i].amount - payouts[i]]]
  BY <1>1, <1>8 DEF PayDown
<1>10. ASSUME NEW i \in 1 .. n PROVE payouts[i] \in Nat
  <2>1. aff[i] \in Nat /\ 0 \in Nat
    BY <1>5
  <2>2. payouts[i] = aff[i] \/ payouts[i] = 0
    BY <1>7
  <2>. QED  BY <2>1, <2>2
<1>11. ASSUME NEW i \in 1 .. n PROVE left[i] \in Signed /\ (payouts[i] = 0 => left[i] = items[i])
  <2>1. PICK item \in Signed, amount \in Nat, paid \in Int :
          item = items[i] /\ amount = item.amount /\ paid = payouts[i]
    BY <1>2, <1>10
  <2>2. left[i] = [item EXCEPT !.amount = item.amount - paid]
    BY <1>9, <2>1
  <2>3. /\ [item EXCEPT !.amount = item.amount - paid] \in Signed
        /\ paid = 0 => [item EXCEPT !.amount = item.amount - paid] = item
    BY <2>1, PaidDownItem, Zenon
  <2>. QED  BY <2>1, <2>2, <2>3, Zenon
<1>20. PICK g : IsTransferFold(g, funds, items, n, indices)
  BY <1>1, TransferFold
<1>12. /\ ComputeTransferEffectsAndInteractions(funds, items, indices) = g[1 .. n]
       /\ g[{}] = Effects(funds, 0, items, <<>>)
       /\ \A i \in 1 .. n : g[1 .. i] = TransferRound(items, indices, i, g[1 .. i - 1])
  BY <1>20 DEF IsTransferFold
<1>. DEFINE At(i) == [j \in 1 .. n |-> IF j <= i THEN left[j] ELSE items[j]]
            Out(k) == [q \in 1 .. k |-> Exit(items[ind[q]], payouts[ind[q]])]
            Passed(i, k) == \A q \in 1 .. m : ind[q] <= i <=> q <= k
            P == {i \in 0 .. n : \E k \in 0 .. m : /\ Passed(i, k)
                                                  /\ g[1 .. i] = Effects(sur[i], k, At(i), Out(k))}
<1>13. 0 \in P
  <2>1. Passed(0, 0)
    BY <1>1
  <2>2. At(0) = items
    <3>1. \A j \in 1 .. n : At(0)[j] = items[j]
      OBVIOUS
    <3>2. items = [j \in 1 .. n |-> items[j]]
      BY <1>1 DEF Items
    <3>. QED  BY <3>1, <3>2
  <2>3. Out(0) = <<>>
    OBVIOUS
  <2>. HIDE DEF At, Out, Passed
  <2>4. g[1 .. 0] = Effects(sur[0], 0, At(0), Out(0))
    BY <1>3, <1>12, <2>2, <2>3, LastRound
  <2>. QED  BY <2>1, <2>4
<1>14. ASSUME NEW i \in 1 .. n, i - 1 \in P PROVE i \in P
  <2>1. PICK k \in 0 .. m : Passed(i - 1, k) /\ g[1 .. i - 1] = Effects(sur[i - 1], k, At(i - 1), Out(k))
    BY <1>14
  <2>2. /\ Chosen(indices, k, i) <=> k < m /\ ind[k + 1] = i
        /\ ~Chosen(indices, k, i) => \A q \in 1 .. m : ind[q] <= i <=> q <= k
        /\ Chosen(indices, k, i) => \A q \in 1 .. m : ind[q] <= i <=> q <= k + 1
        /\ (\E q \in 1 .. m : ind[q] = i) => Chosen(indices, k, i)
    <3>1. ind \in [1 .. m -> 1 .. n] /\ ind = PlacesOf(indices, n)
      BY <1>1, <1>21
    <3>2. \A q \in 1 .. m : ind[q] <= i - 1 <=> q <= k
      BY <2>1
    <3>. QED  BY <1>21, <3>1, <3>2, ChosenNext
  <2>3. sur[i - 1] \in Nat /\ aff[i] \in Nat /\ aff[i] = Least(items[i].amount, sur[i - 1])
        /\ sur[i] = sur[i - 1] - aff[i]
    BY <1>3, <1>5
  <2>4. CASE Chosen(indices, k, i)
    <3>1. k < m /\ ind[k + 1] = i /\ k + 1 \in 1 .. m /\ payouts[i] = aff[i]
      BY <1>7, <2>2, <2>4
    <3>2. At(i) = Pays(At(i - 1), i, aff[i])
      <4>1. PICK now : now = At(i - 1)
        OBVIOUS
      <4>2. now \in [1 .. n -> Signed] /\ now[i] = items[i] /\ \A j \in 1 .. n : j # i => now[j] = At(i)[j]
        BY <1>2, <1>11, <4>1
      <4>3. PICK item : item = [now[i] EXCEPT !.amount = now[i].amount - aff[i]]
        OBVIOUS
      <4>4. At(i)[i] = item
        BY <1>9, <3>1, <4>2, <4>3
      <4>5. Pays(now, i, aff[i]) = [now EXCEPT ![i] = item]
        BY <4>3 DEF Pays
      <4>6. DOMAIN At(i) = 1 .. n
        OBVIOUS
      <4>7. PICK then : then = [now EXCEPT ![i] = item]
        OBVIOUS
      <4>8. then = [j \in 1 .. n |-> then[j]] /\ \A j \in 1 .. n : then[j] = At(i)[j]
        BY <4>2, <4>4, <4>7
      <4>9. At(i) = [j \in 1 .. n |-> At(i)[j]]
        OBVIOUS
      <4>. HIDE DEF At
      <4>. QED  BY <4>1, <4>5, <4>7, <4>8, <4>9
    <3>3. Out(k + 1) = Extended(Out(k), Exit(items[i], aff[i]))
      <4>1. PICK item : item = Exit(items[i], aff[i])
        OBVIOUS
      <4>2. item \in Signed /\ \A q \in 1 .. m : Exit(items[ind[q]], payouts[ind[q]]) \in Signed
        <5>1. item \in Signed
          <6>1. items[i] \in Signed /\ aff[i] \in Int
            BY <1>2, <2>3
          <6>2. Exit(items[i], aff[i]) \in Signed
            BY <6>1, ItemAmount
          <6>. QED  BY <4>1, <6>2
        <5>2. ASSUME NEW q \in 1 .. m PROVE Exit(items[ind[q]], payouts[ind[q]]) \in Signed
          <6>1. PICK p \in 1 .. n : p = ind[q]
            BY <1>1
          <6>2. items[p] \in Signed /\ payouts[p] \in Int
            BY <1>2, <1>10
          <6>. QED  BY <6>1, <6>2, ItemAmount
        <5>. QED  BY <5>1, <5>2
      <4>3. \A q \in 1 .. k + 1 : Out(k + 1)[q] = IF q = k + 1 THEN item ELSE Out(k)[q]
        BY <3>1, <4>1
      <4>4. Out(k) \in Seq(Signed) /\ Len(Out(k)) = k
        BY <3>1, <4>2
      <4>5. Out(k + 1) \in Seq(Signed) /\ Len(Out(k + 1)) = k + 1
        BY <3>1, <4>2
      <4>. HIDE DEF Out
      <4>6. PICK long : long = Append(Out(k), item)
        OBVIOUS
      <4>7. /\ long \in Seq(Signed) /\ Len(long) = k + 1
            /\ \A q \in 1 .. k : long[q] = Out(k)[q]
            /\ long[k + 1] = item
        BY <4>2, <4>4, <4>6, AppendProperties
      <4>8. \A q \in 1 .. k + 1 : Out(k + 1)[q] = long[q]
        BY <4>3, <4>7
      <4>9. Out(k + 1) = long
        BY <4>5, <4>7, <4>8, SeqEqual
      <4>. QED  BY <4>1, <4>6, <4>9 DEF Extended
    <3>4. Passed(i, k + 1)
      BY <2>2, <2>4
    <3>. HIDE DEF At, Out, Passed
    <3>5. PICK next \in 0 .. m : next = k + 1
      BY <3>1
    <3>6. TransferRound(items, indices, i, Effects(sur[i - 1], k, At(i - 1), Out(k)))
            = Effects(sur[i], next, At(i), Out(next))
      <4>1. Takes(items, indices, i, sur[i - 1], k, At(i - 1), Out(k), sur[i], next, At(i), Out(next))
        BY <2>3, <2>4, <3>2, <3>3, <3>5, Zenon DEF Takes
      <4>. QED  BY <4>1, RoundTakes
    <3>7. g[1 .. i] = Effects(sur[i], next, At(i), Out(next))
      BY <1>12, <2>1, <3>6
    <3>8. Passed(i, next)
      BY <3>4, <3>5
    <3>. QED  BY <3>7, <3>8
  <2>5. CASE ~Chosen(indices, k, i)
    <3>1. payouts[i] = 0
      BY <1>7, <2>2, <2>5
    <3>2. left[i] = items[i]
      BY <1>11, <3>1
    <3>3. At(i) = At(i - 1)
      BY <3>2
    <3>4. Passed(i, k)
      BY <2>2, <2>5
    <3>. HIDE DEF At, Out, Passed
    <3>5. TransferRound(items, indices, i, Effects(sur[i - 1], k, At(i - 1), Out(k)))
            = Effects(sur[i], k, At(i), Out(k))
      <4>1. Passes(items, indices, i, sur[i - 1], k, sur[i])
        BY <2>3, <2>5, Zenon DEF Passes
      <4>2. TransferRound(items, indices, i, Effects(sur[i - 1], k, At(i - 1), Out(k)))
              = Effects(sur[i], k, At(i - 1), Out(k))
        BY <4>1, RoundPasses
      <4>. QED  BY <3>3, <4>2, Zenon
    <3>6. g[1 .. i] = Effects(sur[i], k, At(i), Out(k))
      BY <1>12, <2>1, <3>5
    <3>. QED  BY <3>4, <3>6
  <2>. QED  BY <2>4, <2>5
<1>15. n \in P
  <2>. HIDE DEF P
  <2>1. 0 .. n \subseteq P
    BY <1>13, <1>14, LoopInduction
  <2>2. n \in 0 .. n
    OBVIOUS
  <2>. QED  BY <2>1, <2>2
<1>16. PICK k \in 0 .. m : Passed(n, k) /\ g[1 .. n] = Effects(sur[n], k, At(n), Out(k))
  BY <1>15
<1>17. k = m
  <2>1. m > 0 => ind[m] <= n /\ m \in 1 .. m
    BY <1>1
  <2>. QED  BY <1>16, <2>1
<1>18. At(n) = left
  <2>1. \A j \in 1 .. n : At(n)[j] = left[j]
    OBVIOUS
  <2>2. left = [j \in 1 .. n |-> left[j]]
    BY <1>9
  <2>. QED  BY <2>1, <2>2
<1>19. /\ Effects(sur[n], k, At(n), Out(k)).newAllocations = At(n)
       /\ Effects(sur[n], k, At(n), Out(k)).exitAllocations = Out(k)
  BY DEF Effects
<1>. QED  BY <1>6, <1>8, <1>12, <1>16, <1>17, <1>18, <1>19

\* Whatever the indices, the client computes of a transfer what the contract does.
LEMMA TransferIsRight ==
  ASSUME NEW funds \in Nat, NEW items \in Items, NEW indices \in IncreasingIndices(items)
  PROVE  LET effects == ComputeTransferEffectsAndInteractions(funds, items, indices)
             payouts == TransferPayouts(funds, items, Range(indices))
         IN  /\ effects.newAllocations = PayDown(items, payouts)
             /\ TotalOf(effects.exitAllocations) = Total(payouts)
             /\ LeavesOnlyZeros(effects) <=> AllocatesOnlyZeros(PayDown(items, payouts))
             /\ \A k \in DOMAIN indices :
                  effects.exitAllocations[k] = Exit(items[indices[k]], payouts[indices[k]])
<1>18. PICK m, ind : ArePlaces(items, indices, m, ind)
  BY PlacesFacts
<1>. m \in Nat
  BY <1>18 DEF ArePlaces
<1>1. /\ ind \in [1 .. m -> DOMAIN items]
      /\ indices = <<>> \/ (indices = ind /\ Len(indices) = m /\ m > 0)
      /\ \A p, q \in 1 .. m : p < q => ind[p] < ind[q]
      /\ Selected(items, Range(indices)) = {ind[q] : q \in 1 .. m}
  BY <1>18 DEF ArePlaces
<1>2. PICK effects : effects = ComputeTransferEffectsAndInteractions(funds, items, indices)
  OBVIOUS
<1>3. PICK payouts : payouts = TransferPayouts(funds, items, Range(indices))
  OBVIOUS
<1>4. /\ effects.newAllocations = PayDown(items, payouts)
      /\ effects.exitAllocations = [q \in 1 .. m |-> Exit(items[ind[q]], payouts[ind[q]])]
  <2>1. LET e == ComputeTransferEffectsAndInteractions(funds, items, indices)
            p == TransferPayouts(funds, items, Range(indices))
        IN  /\ e.newAllocations = PayDown(items, p)
            /\ e.exitAllocations = [q \in 1 .. m |-> Exit(items[ind[q]], p[ind[q]])]
    BY <1>18, TransferEffects
  <2>. QED  BY <2>1, <1>2, <1>3
<1>5. PICK S : S = DOMAIN items /\ IsFiniteSet(S) /\ S \in SUBSET Nat
  BY ItemFacts
<1>6. payouts \in [S -> Nat]
  BY <1>3, <1>5, TransferPayable DEF Payable
<1>7. \A x \in S : items[x] \in Signed
  BY <1>5, ItemsSigned
<1>8. PICK paid : paid = [q \in 1 .. m |-> payouts[ind[q]]]
  OBVIOUS
<1>9. paid \in [1 .. m -> Int] /\ \A q \in 1 .. m : paid[q] = payouts[ind[q]]
  BY <1>1, <1>5, <1>6, <1>8
<1>10. PICK exit : exit = effects.exitAllocations
  OBVIOUS
<1>11. TotalOf(exit) = SumAll(paid)
  <2>1. ASSUME NEW q \in 1 .. m PROVE exit[q].amount = paid[q]
    <3>1. PICK x \in S : x = ind[q]
      BY <1>1, <1>5
    <3>2. exit[q] = Exit(items[x], payouts[x])
      BY <1>4, <1>10, <3>1
    <3>3. items[x] \in Signed /\ payouts[x] \in Int
      BY <1>6, <1>7
    <3>4. Exit(items[x], payouts[x]).amount = payouts[x]
      BY <3>3, ItemAmount
    <3>. QED  BY <1>9, <3>1, <3>2, <3>4
  <2>2. DOMAIN exit = 1 .. m
    BY <1>4, <1>10
  <2>. QED  BY <1>9, <2>1, <2>2, TotalOfIs
<1>12. PICK T \in SUBSET S : T = {ind[q] : q \in 1 .. m}
  BY <1>1, <1>5
<1>13. SumOn(payouts, T) = SumAll(paid)
  <2>1. PICK part : part = [x \in T |-> payouts[x]]
    OBVIOUS
  <2>2. PICK Q : Q = 1 .. m /\ IsFiniteSet(Q)
    BY FS_Interval
  <2>3. IsFiniteSet(T) /\ part \in [T -> Int] /\ paid \in [Q -> Int] /\ ind \in [Q -> T]
    BY <1>1, <1>5, <1>6, <1>9, <1>12, <2>1, <2>2, FS_Subset
  <2>4. \A x, y \in Q : ind[x] = ind[y] => x = y
    <3>1. ASSUME NEW x \in 1 .. m, NEW y \in 1 .. m, ind[x] = ind[y] PROVE x = y
      <4>1. ind[x] \in Nat /\ ind[y] \in Nat
        BY <1>1, <1>5
      <4>2. x < y => ind[x] < ind[y]
        BY <1>1
      <4>3. y < x => ind[y] < ind[x]
        BY <1>1
      <4>. QED  BY <3>1, <4>1, <4>2, <4>3
    <3>. QED  BY <2>2, <3>1
  <2>5. \A t \in T : \E x \in Q : ind[x] = t
    BY <1>12, <2>2
  <2>6. \A x \in Q : part[ind[x]] = paid[x]
    BY <1>9, <2>1, <2>2, <2>3
  <2>8. IsFiniteSet(Q) /\ IsFiniteSet(T)
    BY <2>2, <2>3
  <2>9. paid \in [Q -> Int] /\ part \in [T -> Int] /\ ind \in [Q -> T]
    BY <2>3
  <2>7. SumAll(part) = SumAll(paid)
    BY <2>4, <2>5, <2>6, <2>8, <2>9, SumRename
  <2>. QED  BY <2>1, <2>7 DEF SumOn
<1>14. SumOn(payouts, T) = SumAll(payouts)
  <2>1. \A x \in S : payouts[x] = IF x \in T THEN payouts[x] ELSE 0
    BY <1>1, <1>3, <1>5, <1>12 DEF TransferPayouts
  <2>2. PICK f : f = payouts
    OBVIOUS
  <2>3. f \in [S -> Int] /\ IsFiniteSet(S)
    BY <1>5, <1>6, <2>2
  <2>4. \A x \in S : f[x] = IF x \in T THEN f[x] ELSE 0
    BY <2>1, <2>2
  <2>5. SumAll(f) = SumOn(f, T)
    BY <2>3, <2>4, SumWhere
  <2>. QED  BY <2>2, <2>5
<1>15. TotalOf(effects.exitAllocations) = Total(payouts)
  BY <1>10, <1>11, <1>13, <1>14, TotalIsSum
<1>16. LeavesOnlyZeros(effects) <=> AllocatesOnlyZeros(PayDown(items, payouts))
  BY <1>4 DEF LeavesOnlyZeros, AllocatesOnlyZeros
<1>17. ASSUME NEW k \in DOMAIN indices
       PROVE  effects.exitAllocations[k] = Exit(items[indices[k]], payouts[indices[k]])
  <2>1. indices # <<>>
    OBVIOUS
  <2>2. indices = ind /\ k \in 1 .. m
    BY <1>1, <2>1
  <2>. QED  BY <1>4, <2>2
<1>. QED  BY <1>2, <1>3, <1>4, <1>15, <1>16, <1>17

------------------------------------------------------------------------------
(* What the client computes of a claim. *)

\* The q-th of increasing positions has q - 1 before it.
LEMMA PlacesBefore ==
  ASSUME NEW m \in Nat, NEW ind \in [1 .. m -> Nat],
         \A p, q \in 1 .. m : p < q => ind[p] < ind[q], NEW q \in 1 .. m
  PROVE  Matched({ind[p] : p \in 1 .. m}, ind[q]) = q - 1
<1>1. PICK S : S = 1 .. q - 1
  OBVIOUS
<1>2. PICK T : T = {x \in {ind[p] : p \in 1 .. m} : x < ind[q]}
  OBVIOUS
<1>3. S \in SUBSET (1 .. m) /\ S \in SUBSET Nat
  BY <1>1
<1>4. ASSUME NEW p \in 1 .. m PROVE ind[p] < ind[q] <=> p \in S
  <2>1. ind[p] \in Nat /\ ind[q] \in Nat
    OBVIOUS
  <2>2. p < q => ind[p] < ind[q]
    OBVIOUS
  <2>3. q < p => ind[q] < ind[p]
    OBVIOUS
  <2>4. p \in S <=> p < q
    BY <1>1
  <2>. QED  BY <2>1, <2>2, <2>3, <2>4
<1>5. T = {ind[p] : p \in S}
  BY <1>2, <1>3, <1>4
<1>6. PICK f : f = [p \in S |-> ind[p]]
  OBVIOUS
<1>7. f \in [S -> T] /\ \A t \in T : \E p \in S : f[p] = t
  BY <1>5, <1>6
<1>8. ASSUME NEW a \in S, NEW b \in S, f[a] = f[b] PROVE a = b
  <2>1. a \in 1 .. m /\ b \in 1 .. m /\ ind[a] = ind[b]
    BY <1>3, <1>6, <1>8
  <2>2. a < b => ind[a] < ind[b]
    BY <2>1
  <2>3. b < a => ind[b] < ind[a]
    BY <2>1
  <2>4. ind[a] \in Nat /\ ind[b] \in Nat
    BY <2>1
  <2>. QED  BY <2>1, <2>2, <2>3, <2>4
<1>9. ExistsBijection(S, T)
  BY <1>7, <1>8 DEF ExistsBijection, Bijection, Injection, Surjection, IsInjective
<1>10. IsFiniteSet(S) /\ Cardinality(S) = q - 1
  <2>1. q - 1 \in Int /\ (1 > q - 1 => q - 1 = 0) /\ (q - 1) - 1 + 1 = q - 1
    OBVIOUS
  <2>. QED  BY <1>1, <2>1, FS_Interval
<1>11. Cardinality(T) = Cardinality(S)
  BY <1>9, <1>10, FS_Bijection
<1>. QED  BY <1>2, <1>10, <1>11 DEF Matched

\* The client and the contract choose the same positions.
LEMMA SameChoice ==
  ASSUME NEW items \in Items, NEW indices \in IncreasingIndices(items),
         NEW k \in Nat, NEW i \in DOMAIN items
  PROVE  Chosen(indices, k, i)
           <=> (Range(indices) = {} \/ (i \in Range(indices) /\ Matched(Range(indices), i) = k))
<1>1. PICK n \in Nat : n = Len(items) /\ DOMAIN items = 1 .. n
  BY ItemFacts
<1>2. CASE indices = <<>>
  <2>1. Range(indices) = {}
    BY <1>2 DEF Range
  <2>. QED  BY <1>2, <2>1 DEF Chosen
<1>3. CASE indices # <<>>
  <2>1. PICK m \in 0 .. n : indices \in [1 .. m -> DOMAIN items]
    BY <1>1 DEF IncreasingIndices, SeqOf
  <2>2. \A p, q \in 1 .. m : p < q => indices[p] < indices[q]
    BY <2>1 DEF IncreasingIndices
  <2>3. m > 0 /\ Len(indices) = m
    BY <1>3, <2>1
  <2>4. Range(indices) = {indices[q] : q \in 1 .. m}
    BY <2>1 DEF Range
  <2>5. Range(indices) # {}
    BY <2>1, <2>3, <2>4
  <2>6. m \in Nat /\ indices \in [1 .. m -> Nat]
    BY <1>1, <2>1
  <2>7. \A q \in 1 .. m : Matched(Range(indices), indices[q]) = q - 1
    BY <2>2, <2>4, <2>6, PlacesBefore
  <2>8. ASSUME Chosen(indices, k, i) PROVE i \in Range(indices) /\ Matched(Range(indices), i) = k
    <3>1. k < m /\ indices[k + 1] = i
      BY <1>3, <2>3, <2>8 DEF Chosen
    <3>2. k + 1 \in 1 .. m /\ (k + 1) - 1 = k
      BY <3>1, <2>6
    <3>3. Matched(Range(indices), indices[k + 1]) = (k + 1) - 1
      BY <2>7, <3>2
    <3>. QED  BY <2>4, <3>1, <3>2, <3>3
  <2>9. ASSUME i \in Range(indices), Matched(Range(indices), i) = k PROVE Chosen(indices, k, i)
    <3>1. PICK q \in 1 .. m : indices[q] = i
      BY <2>4, <2>9
    <3>2. k = q - 1
      BY <2>7, <2>9, <3>1
    <3>3. k < Len(indices) /\ k + 1 = q
      BY <2>3, <2>6, <3>2
    <3>. QED  BY <3>1, <3>3 DEF Chosen
  <2>. QED  BY <2>5, <2>8, <2>9
<1>. QED  BY <1>2, <1>3

\* Where the client finds a destination: 0 if nowhere.
Position(target, destination) ==
  SelectInSeq(target, LAMBDA item : item.destination = destination)

\* It finds the allocation that the contract finds.
LEMMA SamePosition ==
  ASSUME NEW items \in Items, NEW d
  PROVE  \/ /\ \A i \in DOMAIN items : items[i].destination # d
            /\ Position(items, d) = 0
         \/ /\ \E i \in DOMAIN items : items[i].destination = d
            /\ Position(items, d) = FirstFor(items, d) /\ Position(items, d) \in DOMAIN items
            /\ items[Position(items, d)].destination = d
<1>1. PICK n \in Nat : n = Len(items) /\ DOMAIN items = 1 .. n
  BY ItemFacts
<1>2. PICK I : I = {i \in 1 .. n : items[i].destination = d}
  OBVIOUS
<1>3. Position(items, d) = IF I # {} THEN Min(I) ELSE 0
  BY <1>1, <1>2 DEF Position, SelectInSeq
<1>4. CASE I = {}
  BY <1>1, <1>2, <1>3, <1>4
<1>5. CASE I # {}
  <2>1. Position(items, d) = Min(I)
    BY <1>3, <1>5
  <2>2. FirstFor(items, d) = Min(I)
    BY <1>1, <1>2 DEF FirstFor, Min
  <2>3. \E i \in DOMAIN items : items[i].destination = d
    BY <1>1, <1>2, <1>5
  <2>4. FirstFor(items, d) \in DOMAIN items
    BY <2>3, FirstForIn
  <2>5. \E x \in I : \A y \in I : x <= y
    <3>1. I \in SUBSET Nat
      BY <1>2
    <3>. QED  BY <1>5, <3>1, LeastElement
  <2>6. Min(I) \in I
    BY <2>5 DEF Min
  <2>. QED  BY <1>2, <2>1, <2>2, <2>3, <2>4, <2>6
<1>. QED  BY <1>4, <1>5

\* What the client leaves for a guarantee.
SurplusAfter(funds, allocations) ==
  FoldLeft(LAMBDA left, item : left - Least(item.amount, left), funds, allocations)

SurplusBefore(funds, source, indexOfTarget) ==
  SurplusAfter(funds, SubSeq(source, 1, indexOfTarget - 1))

\* It is what the contract leaves.
LEMMA SameSurplus ==
  ASSUME NEW funds \in Nat, NEW items \in Items, NEW it \in DOMAIN items
  PROVE  SurplusBefore(funds, items, it) = Surplus(funds, items)[it - 1]
<1>1. PICK n \in Nat : n = Len(items) /\ DOMAIN items = 1 .. n
  BY ItemFacts
<1>2. PICK m \in Nat : m = it - 1 /\ m < n /\ 1 .. m \subseteq 1 .. n /\ 0 .. m \subseteq 0 .. n
  BY <1>1
<1>3. PICK part : part = SubSeq(items, 1, m)
  OBVIOUS
<1>4. DOMAIN part = 1 .. m /\ \A i \in 1 .. m : part[i] = items[i]
  <2>1. \A i \in 1 .. m : items[i] \in Signed
    BY <1>1, <1>2, ItemsSigned
  <2>2. 1 \in Int /\ m \in Int /\ m - 1 + 1 = m /\ \A i \in 1 .. m : 1 + i - 1 = i
    OBVIOUS
  <2>3. /\ part \in Seq(Signed) /\ Len(part) = IF 1 <= m THEN m - 1 + 1 ELSE 0
        /\ \A i \in 1 .. m - 1 + 1 : part[i] = items[1 + i - 1]
    BY <1>3, <2>1, <2>2, SubSeqProperties
  <2>4. Len(part) = m
    BY <2>3
  <2>. QED  BY <2>2, <2>3, <2>4
<1>. DEFINE sur == Surplus(funds, items)
<1>5. /\ sur[0] = funds
      /\ \A i \in 1 .. n : sur[i] = sur[i - 1] - Least(items[i].amount, sur[i - 1])
      /\ \A i \in 0 .. n : sur[i] \in Nat
  <2>1. sur[0] = funds
    BY SurplusFacts
  <2>2. \A i \in DOMAIN items : sur[i] = sur[i - 1] - Least(items[i].amount, sur[i - 1])
    BY SurplusFacts
  <2>3. \A i \in 0 .. Len(items) : sur[i] \in Nat
    BY SurplusFacts
  <2>. HIDE DEF sur
  <2>. QED  BY <1>1, <2>1, <2>2, <2>3
<1>. HIDE DEF sur
<1>. DEFINE Rec(g) == g = [s \in SUBSET (1 .. m) |->
                             IF s = {} THEN funds
                             ELSE g[s \ {Max(s)}] - Least(part[Max(s)].amount, g[s \ {Max(s)}])]
            F == [i \in 1 .. m |-> [y \in Int |-> y - Least(items[i].amount, y)]]
<1>6. SurplusBefore(funds, items, it) = (CHOOSE g : Rec(g))[1 .. m]
  <2>1. SurplusBefore(funds, items, it) = SurplusAfter(funds, part)
    BY <1>2, <1>3 DEF SurplusBefore
  <2>2. SurplusAfter(funds, part) = (CHOOSE g : Rec(g))[1 .. m]
    BY <1>4 DEF SurplusAfter, FoldLeft, MapThenFoldSet
  <2>. QED  BY <2>1, <2>2
<1>7. \E g : Rec(g)
  <2>1. \A i \in 1 .. m, y \in Int : y - Least(items[i].amount, y) \in Int
    <3>1. \A i \in 1 .. m : items[i].amount \in Nat
      BY <1>1, <1>2, ItemFacts
    <3>. QED  BY <3>1 DEF Least
  <2>2. F \in [1 .. m -> [Int -> Int]] /\ \A i \in 1 .. m, y \in Int : F[i][y] = y - Least(part[i].amount, y)
    BY <1>4, <2>1
  <2>. HIDE DEF F
  <2>3. funds \in Int
    OBVIOUS
  <2>4. LeftResults(m, Int, funds, F) # {}
    BY <2>2, <2>3, LeftRounds
  <2>5. PICK g \in [SUBSET (1 .. m) -> Int] :
          \A s \in SUBSET (1 .. m) : g[s] = IF s = {} THEN funds ELSE F[Max(s)][g[s \ {Max(s)}]]
    BY <2>4 DEF LeftResults
  <2>6. ASSUME NEW s \in SUBSET (1 .. m), s # {}
        PROVE  F[Max(s)][g[s \ {Max(s)}]]
                 = g[s \ {Max(s)}] - Least(part[Max(s)].amount, g[s \ {Max(s)}])
    <3>1. Max(s) \in 1 .. m
      BY <2>6, GreatestIn
    <3>2. g[s \ {Max(s)}] \in Int
      OBVIOUS
    <3>. QED  BY <2>2, <3>1, <3>2
  <2>7. g = [s \in SUBSET (1 .. m) |-> g[s]]
    OBVIOUS
  <2>8. \A s \in SUBSET (1 .. m) :
          g[s] = IF s = {} THEN funds
                 ELSE g[s \ {Max(s)}] - Least(part[Max(s)].amount, g[s \ {Max(s)}])
    BY <2>5, <2>6
  <2>. QED  BY <2>7, <2>8
<1>8. PICK g : Rec(g) /\ SurplusBefore(funds, items, it) = g[1 .. m]
  <2>. HIDE DEF Rec
  <2>. QED  BY <1>6, <1>7
<1>. DEFINE P == {i \in 0 .. m : g[1 .. i] = sur[i]}
<1>9. 0 \in P
  <2>1. g[{}] = funds
    BY <1>8
  <2>. QED  BY <1>5, <2>1, LastRound
<1>10. ASSUME NEW i \in 1 .. m, i - 1 \in P PROVE i \in P
  <2>1. PICK s \in SUBSET (1 .. m) : s = 1 .. i
    OBVIOUS
  <2>2. s # {} /\ Max(s) = i /\ s \ {i} = 1 .. i - 1
    BY <2>1, LastRound
  <2>3. g[s] = g[1 .. i - 1] - Least(part[i].amount, g[1 .. i - 1])
    BY <1>8, <2>2
  <2>4. g[1 .. i - 1] = sur[i - 1] /\ part[i] = items[i] /\ i \in 1 .. n
    BY <1>2, <1>4, <1>10
  <2>5. g[s] = sur[i]
    BY <1>5, <2>3, <2>4
  <2>. QED  BY <2>1, <2>5
<1>11. m \in P
  <2>. HIDE DEF P
  <2>1. 0 .. m \subseteq P
    BY <1>9, <1>10, LoopInduction
  <2>2. m \in 0 .. m
    OBVIOUS
  <2>. QED  BY <2>1, <2>2
<1>. QED  BY <1>2, <1>8, <1>11 DEF sur

ClaimEffects(surplus, k, newSource, newTarget, exitAllocations) ==
  [surplus |-> surplus, k |-> k, newSource |-> newSource, newTarget |-> newTarget,
   exitAllocations |-> exitAllocations]

\* The client's walk over one beneficiary.
ClaimRound(target, it, indices, acc, destination) ==
  LET i       == Position(target, destination)
      affords == Least(acc.newTarget[i].amount, acc.surplus)
      rest    == [acc EXCEPT !.surplus = @ - affords]
  IN  IF acc.surplus = 0 \/ i = 0 THEN acc
      ELSE IF ~Chosen(indices, acc.k, i) THEN rest
      ELSE [rest EXCEPT !.k = @ + 1,
                        !.newTarget = Pays(@, i, affords),
                        !.newSource = Pays(@, it, affords),
                        !.exitAllocations[i].amount = @ + affords]

\* The exit of one allocation raised.
Raised(exit, i, amount) == [exit EXCEPT ![i].amount = @ + amount]

\* What the walk does with nothing left or nobody found, with what is not chosen, and
\* with what is.
Idles(target, surplus, destination) == surplus = 0 \/ Position(target, destination) = 0

Skips(target, indices, destination, surplus, k, newTarget, left) ==
  LET i == Position(target, destination)
  IN  /\ surplus # 0 /\ i # 0 /\ ~Chosen(indices, k, i)
      /\ left = surplus - Least(newTarget[i].amount, surplus)

Claims(target, it, indices, destination, surplus, k, newSource, newTarget, exit,
       left, next, laterSource, laterTarget, laterExit) ==
  LET i == Position(target, destination)
      affords == Least(newTarget[i].amount, surplus)
  IN  /\ surplus # 0 /\ i # 0 /\ Chosen(indices, k, i)
      /\ left = surplus - affords /\ next = k + 1
      /\ laterTarget = Pays(newTarget, i, affords) /\ laterSource = Pays(newSource, it, affords)
      /\ laterExit = Raised(exit, i, affords)

\* Nothing left or nobody found: nothing changes.
LEMMA ClaimIdles ==
  ASSUME NEW target, NEW it, NEW indices, NEW d, NEW surplus, NEW k, NEW new, NEW rest, NEW exit,
         Idles(target, surplus, d)
  PROVE  ClaimRound(target, it, indices, ClaimEffects(surplus, k, new, rest, exit), d)
           = ClaimEffects(surplus, k, new, rest, exit)
<1>1. PICK acc : acc = ClaimEffects(surplus, k, new, rest, exit)
  OBVIOUS
<1>2. acc.surplus = surplus
  BY <1>1 DEF ClaimEffects
<1>3. acc.surplus = 0 \/ Position(target, d) = 0
  BY <1>2 DEF Idles
<1>4. ClaimRound(target, it, indices, acc, d) = acc
  BY <1>3 DEF ClaimRound
<1>. QED  BY <1>1, <1>4

\* One that is not chosen is only charged.
LEMMA ClaimSkips ==
  ASSUME NEW target, NEW it, NEW indices, NEW d, NEW surplus, NEW k, NEW source, NEW new,
         NEW exit, NEW left, Skips(target, indices, d, surplus, k, new, left)
  PROVE  ClaimRound(target, it, indices, ClaimEffects(surplus, k, source, new, exit), d)
           = ClaimEffects(left, k, source, new, exit)
<1>1. PICK acc : acc = ClaimEffects(surplus, k, source, new, exit)
  OBVIOUS
<1>2. acc.surplus = surplus /\ acc.k = k /\ acc.newTarget = new
  BY <1>1 DEF ClaimEffects
<1>3. PICK i : i = Position(target, d)
  OBVIOUS
<1>4. PICK affords : affords = Least(acc.newTarget[i].amount, acc.surplus)
  OBVIOUS
<1>5. PICK rest : rest = [acc EXCEPT !.surplus = acc.surplus - affords]
  OBVIOUS
<1>6. /\ acc.surplus # 0 /\ i # 0 /\ ~Chosen(indices, acc.k, i)
      /\ left = acc.surplus - affords
  BY <1>2, <1>3, <1>4, Zenon DEF Skips
<1>7. rest = [acc EXCEPT !.surplus = left]
  BY <1>5, <1>6, Zenon
<1>8. rest = ClaimEffects(left, k, source, new, exit)
  BY <1>1, <1>7 DEF ClaimEffects
<1>9. ClaimRound(target, it, indices, acc, d) = rest
  BY <1>3, <1>4, <1>5, <1>6, Zenon DEF ClaimRound
<1>. QED  BY <1>1, <1>8, <1>9, Zenon

\* One that is chosen is charged and paid.
LEMMA ClaimTakes ==
  ASSUME NEW target, NEW it, NEW indices, NEW d, NEW surplus, NEW k, NEW source, NEW new,
         NEW exit, NEW left, NEW next, NEW laterSource, NEW laterTarget, NEW laterExit,
         Claims(target, it, indices, d, surplus, k, source, new, exit,
                left, next, laterSource, laterTarget, laterExit)
  PROVE  ClaimRound(target, it, indices, ClaimEffects(surplus, k, source, new, exit), d)
           = ClaimEffects(left, next, laterSource, laterTarget, laterExit)
<1>1. PICK acc : acc = ClaimEffects(surplus, k, source, new, exit)
  OBVIOUS
<1>2. acc.surplus = surplus /\ acc.k = k /\ acc.newTarget = new
  BY <1>1 DEF ClaimEffects
<1>3. PICK i : i = Position(target, d)
  OBVIOUS
<1>4. PICK affords : affords = Least(acc.newTarget[i].amount, acc.surplus)
  OBVIOUS
<1>5. PICK rest : rest = [acc EXCEPT !.surplus = acc.surplus - affords]
  OBVIOUS
<1>6. /\ acc.surplus # 0 /\ i # 0 /\ Chosen(indices, acc.k, i)
      /\ left = acc.surplus - affords /\ next = k + 1
      /\ laterTarget = Pays(new, i, affords) /\ laterSource = Pays(source, it, affords)
      /\ laterExit = Raised(exit, i, affords)
  BY <1>2, <1>3, <1>4, Zenon DEF Claims
<1>7. rest = [acc EXCEPT !.surplus = left]
  BY <1>5, <1>6, Zenon
<1>8. rest = [surplus |-> left, k |-> k, newSource |-> source, newTarget |-> new,
              exitAllocations |-> exit]
  BY <1>1, <1>7 DEF ClaimEffects
<1>9. PICK all : all = [rest EXCEPT !.k = @ + 1,
                        !.newTarget = Pays(@, i, affords),
                        !.newSource = Pays(@, it, affords),
                        !.exitAllocations[i].amount = @ + affords]
  OBVIOUS
<1>10. ClaimRound(target, it, indices, acc, d) = all
  BY <1>3, <1>4, <1>5, <1>6, <1>9, Zenon DEF ClaimRound
<1>11. rest.k = k /\ rest.newTarget = new /\ rest.newSource = source /\ rest.exitAllocations = exit
  BY <1>8
<1>12. PICK p : p = [rest EXCEPT !.k = next]
  OBVIOUS
<1>13. PICK q : q = [p EXCEPT !.newTarget = laterTarget]
  OBVIOUS
<1>14. PICK r : r = [q EXCEPT !.newSource = laterSource]
  OBVIOUS
<1>15. p = [surplus |-> left, k |-> next, newSource |-> source, newTarget |-> new,
            exitAllocations |-> exit]
  BY <1>8, <1>12
<1>16. q = [surplus |-> left, k |-> next, newSource |-> source, newTarget |-> laterTarget,
            exitAllocations |-> exit]
  BY <1>13, <1>15
<1>17. r = [surplus |-> left, k |-> next, newSource |-> laterSource, newTarget |-> laterTarget,
            exitAllocations |-> exit]
  BY <1>14, <1>16
<1>18. all = [r EXCEPT !.exitAllocations = laterExit]
  BY <1>6, <1>9, <1>11, <1>12, <1>13, <1>14, <1>17 DEF Raised
<1>19. all = [surplus |-> left, k |-> next, newSource |-> laterSource, newTarget |-> laterTarget,
              exitAllocations |-> laterExit]
  BY <1>17, <1>18
<1>. QED  BY <1>1, <1>10, <1>19 DEF ClaimEffects

ClaimStatesOf(S, T) ==
  [surplus : Int, k : Nat, newSource : [S -> Signed], newTarget : [T -> Signed],
   exitAllocations : [T -> Signed]]

\* Allocations with another amount are allocations.
LEMMA WithAmount ==
  ASSUME NEW S, NEW items \in [S -> Signed], NEW i \in S, NEW amount \in Int
  PROVE  /\ items[i] \in Signed /\ items[i].amount \in Int
         /\ [items EXCEPT ![i].amount = amount] \in [S -> Signed]
<1>1. items[i] \in Signed
  OBVIOUS
<1>2. items[i].amount \in Int
  BY <1>1 DEF Signed, Allocation
<1>3. PICK item : item = [items[i] EXCEPT !.amount = amount]
  OBVIOUS
<1>4. item \in Signed
  BY <1>1, <1>3, ItemAmount
<1>5. [items EXCEPT ![i].amount = amount] = [items EXCEPT ![i] = item]
  BY <1>3
<1>6. [items EXCEPT ![i] = item] \in [S -> Signed]
  BY <1>4
<1>. QED  BY <1>1, <1>2, <1>5, <1>6

\* Every round of the client makes such a state of such a state.
LEMMA ClaimRoundTyped ==
  ASSUME NEW S, NEW it \in S, NEW to \in Items, NEW indices, NEW d,
         NEW acc \in ClaimStatesOf(S, DOMAIN to)
  PROVE  ClaimRound(to, it, indices, acc, d) \in ClaimStatesOf(S, DOMAIN to)
<1>1. PICK T : T = DOMAIN to
  OBVIOUS
<1>2. PICK surplus \in Int, k \in Nat, source \in [S -> Signed], new \in [T -> Signed],
           exit \in [T -> Signed] : acc = ClaimEffects(surplus, k, source, new, exit)
  BY <1>1 DEF ClaimStatesOf, ClaimEffects
<1>3. CASE Idles(to, surplus, d)
  BY <1>2, <1>3, ClaimIdles
<1>4. CASE ~Idles(to, surplus, d)
  <2>1. PICK i \in T : i = Position(to, d)
    BY <1>1, <1>4, SamePosition DEF Idles
  <2>2. surplus # 0 /\ i # 0
    BY <1>4, <2>1 DEF Idles
  <2>3. new[i].amount \in Int
    BY WithAmount
  <2>4. PICK affords \in Int : affords = Least(new[i].amount, surplus)
    BY <2>3 DEF Least
  <2>5. PICK left \in Int : left = surplus - affords
    OBVIOUS
  <2>6. CASE ~Chosen(indices, k, i)
    <3>1. Skips(to, indices, d, surplus, k, new, left)
      BY <2>1, <2>2, <2>4, <2>5, <2>6, Zenon DEF Skips
    <3>2. ClaimRound(to, it, indices, acc, d) = ClaimEffects(left, k, source, new, exit)
      BY <1>2, <3>1, ClaimSkips
    <3>3. ClaimEffects(left, k, source, new, exit) \in ClaimStatesOf(S, T)
      BY DEF ClaimEffects, ClaimStatesOf
    <3>. QED  BY <1>1, <3>2, <3>3
  <2>7. CASE Chosen(indices, k, i)
    <3>1. PICK next \in Nat : next = k + 1
      OBVIOUS
    <3>2. new[i].amount - affords \in Int
      BY <2>3
    <3>3. PICK laterTarget \in [T -> Signed] : laterTarget = Pays(new, i, affords)
      <4>1. [new EXCEPT ![i].amount = new[i].amount - affords] \in [T -> Signed]
        BY <3>2, WithAmount
      <4>. QED  BY <4>1 DEF Pays
    <3>4. PICK laterSource \in [S -> Signed] : laterSource = Pays(source, it, affords)
      <4>1. source[it].amount \in Int
        BY WithAmount
      <4>2. source[it].amount - affords \in Int
        BY <4>1
      <4>3. [source EXCEPT ![it].amount = source[it].amount - affords] \in [S -> Signed]
        BY <4>2, WithAmount
      <4>. QED  BY <4>3 DEF Pays
    <3>5. PICK laterExit \in [T -> Signed] : laterExit = Raised(exit, i, affords)
      <4>1. exit[i].amount \in Int
        BY WithAmount
      <4>2. exit[i].amount + affords \in Int
        BY <4>1
      <4>3. [exit EXCEPT ![i].amount = exit[i].amount + affords] \in [T -> Signed]
        BY <4>2, WithAmount
      <4>. QED  BY <4>3 DEF Raised
    <3>6. Claims(to, it, indices, d, surplus, k, source, new, exit,
                 left, next, laterSource, laterTarget, laterExit)
      BY <2>1, <2>2, <2>4, <2>5, <2>7, <3>1, <3>3, <3>4, <3>5, Zenon DEF Claims
    <3>7. ClaimRound(to, it, indices, acc, d)
            = ClaimEffects(left, next, laterSource, laterTarget, laterExit)
      BY <1>2, <3>6, ClaimTakes
    <3>8. ClaimEffects(left, next, laterSource, laterTarget, laterExit) \in ClaimStatesOf(S, T)
      BY DEF ClaimEffects, ClaimStatesOf
    <3>. QED  BY <1>1, <3>7, <3>8
  <2>. QED  BY <2>6, <2>7
<1>. QED  BY <1>3, <1>4

\* A list of allocations, as a function.
LEMMA ItemsFunction ==
  ASSUME NEW items \in Items
  PROVE  items \in [DOMAIN items -> Signed]
<1>1. \A i \in DOMAIN items : items[i] \in Signed
  BY ItemsSigned
<1>2. items = [i \in DOMAIN items |-> items[i]]
  BY DEF Items
<1>. QED  BY <1>1, <1>2

NoExit(target) == [i \in DOMAIN target |-> Exit(target[i], 0)]

\* The client's fold is a walk over the beneficiaries, one after another.
IsClaimFold(g, funds, from, to, it, indices, top) ==
  LET who == from[it].metadata
  IN  /\ ComputeClaimEffectsAndInteractions(funds, from, to, it, indices) = g[1 .. Len(who)]
      /\ g[{}] = ClaimEffects(top, 0, from, to, NoExit(to))
      /\ \A j \in 1 .. Len(who) :
           g[1 .. j] = ClaimRound(to, it, indices, g[1 .. j - 1], who[j])

\* It has a result after every beneficiary.
LEMMA ClaimFold ==
  ASSUME NEW funds \in Nat, NEW from \in Items, NEW to \in Items, NEW it \in DOMAIN from,
         NEW indices, NEW top \in Nat, top = Affords(funds, from, it)
  PROVE  \E g : IsClaimFold(g, funds, from, to, it, indices, top)
<1>1. PICK who : who = from[it].metadata
  OBVIOUS
<1>2. PICK w \in Nat : w = Len(who) /\ DOMAIN who = 1 .. w
  <2>1. from[it] \in Allocation(Destination, Amount)
    BY DEF Items
  <2>. QED  BY <1>1, <2>1 DEF Allocation
<1>. DEFINE base == ClaimEffects(top, 0, from, to, NoExit(to))
            Y == ClaimStatesOf(DOMAIN from, DOMAIN to)
            Rec(g) == g = [s \in SUBSET (1 .. w) |->
                             IF s = {} THEN base
                             ELSE ClaimRound(to, it, indices, g[s \ {Max(s)}], who[Max(s)])]
            F == [j \in 1 .. w |-> [y \in Y |-> ClaimRound(to, it, indices, y, who[j])]]
<1>3. top = Least(SurplusBefore(funds, from, it), from[it].amount)
  <2>1. PICK x : x = Surplus(funds, from)[it - 1]
    OBVIOUS
  <2>2. x \in Nat /\ from[it].amount \in Nat
    <3>1. it - 1 \in 0 .. Len(from) /\ from[it].amount \in Nat
      BY ItemFacts
    <3>2. \A i \in 0 .. Len(from) : Surplus(funds, from)[i] \in Nat
      BY SurplusFacts
    <3>. QED  BY <2>1, <3>1, <3>2
  <2>3. SurplusBefore(funds, from, it) = x
    BY <2>1, SameSurplus
  <2>4. top = Least(from[it].amount, x)
    BY <2>1 DEF Affords
  <2>. QED  BY <2>2, <2>3, <2>4 DEF Least
<1>4. ComputeClaimEffectsAndInteractions(funds, from, to, it, indices) = (CHOOSE g : Rec(g))[1 .. w]
  <2>1. PICK left : left = SurplusBefore(funds, from, it)
    OBVIOUS
  <2>. DEFINE base0 == ClaimEffects(Least(left, from[it].amount), 0, from, to, NoExit(to))
              Rec0(g) == g = [s \in SUBSET DOMAIN who |->
                                IF s = {} THEN base0
                                ELSE ClaimRound(to, it, indices, g[s \ {Max(s)}], who[Max(s)])]
  <2>2. ComputeClaimEffectsAndInteractions(funds, from, to, it, indices)
          = (CHOOSE g : Rec0(g))[DOMAIN who]
    BY <1>1, <2>1 DEF ComputeClaimEffectsAndInteractions, FoldLeft, MapThenFoldSet,
           ClaimRound, ClaimEffects, NoExit, Position, SurplusBefore, SurplusAfter
  <2>3. base0 = base
    BY <1>3, <2>1
  <2>. HIDE DEF base0, base
  <2>4. ASSUME NEW g PROVE Rec0(g) <=> Rec(g)
    BY <1>2, <2>3
  <2>. HIDE DEF Rec0, Rec
  <2>5. (CHOOSE g : Rec0(g)) = (CHOOSE g : Rec(g))
    BY <2>4
  <2>. QED  BY <1>2, <2>2, <2>5
<1>5. base \in Y
  <2>1. \A i \in DOMAIN to : Exit(to[i], 0) \in Signed
    <3>1. \A i \in DOMAIN to : to[i] \in Signed
      BY ItemsSigned
    <3>2. 0 \in Int
      OBVIOUS
    <3>. QED  BY <3>1, <3>2, ItemAmount
  <2>2. NoExit(to) \in [DOMAIN to -> Signed]
    BY <2>1 DEF NoExit
  <2>3. from \in [DOMAIN from -> Signed] /\ to \in [DOMAIN to -> Signed]
    BY ItemsFunction
  <2>. QED  BY <2>2, <2>3 DEF ClaimEffects, ClaimStatesOf
<1>6. \E g : Rec(g)
  <2>1. \A y \in Y : \A d : ClaimRound(to, it, indices, y, d) \in Y
    BY ClaimRoundTyped
  <2>. HIDE DEF Y, base
  <2>2. F \in [1 .. w -> [Y -> Y]]
        /\ \A j \in 1 .. w, y \in Y : F[j][y] = ClaimRound(to, it, indices, y, who[j])
    BY <2>1
  <2>. HIDE DEF F
  <2>3. LeftResults(w, Y, base, F) # {}
    BY <1>5, <2>2, LeftRounds
  <2>4. PICK g \in [SUBSET (1 .. w) -> Y] :
          \A s \in SUBSET (1 .. w) : g[s] = IF s = {} THEN base ELSE F[Max(s)][g[s \ {Max(s)}]]
    BY <2>3 DEF LeftResults
  <2>5. ASSUME NEW s \in SUBSET (1 .. w), s # {}
        PROVE  F[Max(s)][g[s \ {Max(s)}]]
                 = ClaimRound(to, it, indices, g[s \ {Max(s)}], who[Max(s)])
    <3>1. Max(s) \in 1 .. w
      BY <2>5, GreatestIn
    <3>2. g[s \ {Max(s)}] \in Y
      OBVIOUS
    <3>. QED  BY <2>2, <3>1, <3>2
  <2>6. g = [s \in SUBSET (1 .. w) |-> g[s]]
    OBVIOUS
  <2>7. \A s \in SUBSET (1 .. w) :
          g[s] = IF s = {} THEN base
                 ELSE ClaimRound(to, it, indices, g[s \ {Max(s)}], who[Max(s)])
    BY <2>4, <2>5
  <2>. QED  BY <2>6, <2>7
<1>7. PICK g : Rec(g) /\ ComputeClaimEffectsAndInteractions(funds, from, to, it, indices) = g[1 .. w]
  <2>. HIDE DEF Rec
  <2>. QED  BY <1>4, <1>6
<1>8. g[{}] = base
  BY <1>7
<1>9. ASSUME NEW j \in 1 .. w
      PROVE  g[1 .. j] = ClaimRound(to, it, indices, g[1 .. j - 1], who[j])
  <2>1. PICK s \in SUBSET (1 .. w) : s = 1 .. j
    OBVIOUS
  <2>2. s # {} /\ Max(s) = j /\ s \ {j} = 1 .. j - 1
    BY <2>1, LastRound
  <2>. HIDE DEF base
  <2>3. g[s] = ClaimRound(to, it, indices, g[s \ {j}], who[j])
    BY <1>7, <2>2
  <2>. QED  BY <2>1, <2>2, <2>3
<1>. QED  BY <1>1, <1>2, <1>7, <1>8, <1>9 DEF IsClaimFold

Charged(from, it, sum) == [from EXCEPT ![it].amount = @ - sum]
Exits(to, paid) == [i \in DOMAIN to |-> Exit(to[i], paid[i])]

\* What the client knows when the contract has paid so much.
Known(surplus, k, paid, from, to, it) ==
  ClaimEffects(surplus, k, Charged(from, it, SumAll(paid)), PayDown(to, paid), Exits(to, paid))

\* One allocation that was not paid yet is paid an amount.
PaidOne(T, paid, i, amount, later) ==
  /\ paid \in [T -> Nat] /\ i \in T /\ amount \in Nat /\ paid[i] = 0
  /\ later = [paid EXCEPT ![i] = amount]

\* The other allocations are paid what they were.
LEMMA PaidOneFacts ==
  ASSUME NEW T, NEW paid, NEW i, NEW amount, NEW later, PaidOne(T, paid, i, amount, later)
  PROVE  /\ later \in [T -> Nat] /\ later[i] = amount
         /\ \A j \in T \ {i} : later[j] = paid[j]
BY DEF PaidOne

\* The target is paid down by as much.
LEMMA TargetAfter ==
  ASSUME NEW to \in Items, NEW paid, NEW i, NEW amount, NEW later,
         PaidOne(DOMAIN to, paid, i, amount, later)
  PROVE  PayDown(to, later) = Pays(PayDown(to, paid), i, amount)
<1>1. PICK T : T = DOMAIN to
  OBVIOUS
<1>2. /\ paid \in [T -> Nat] /\ i \in T /\ amount \in Nat /\ paid[i] = 0
      /\ later \in [T -> Nat] /\ later[i] = amount /\ \A j \in T \ {i} : later[j] = paid[j]
  BY <1>1, PaidOneFacts DEF PaidOne
<1>3. PICK old : old = PayDown(to, paid)
  OBVIOUS
<1>4. PICK new : new = PayDown(to, later)
  OBVIOUS
<1>5. old = [j \in T |-> [to[j] EXCEPT !.amount = to[j].amount - paid[j]]]
  BY <1>1, <1>3 DEF PayDown
<1>6. new = [j \in T |-> [to[j] EXCEPT !.amount = to[j].amount - later[j]]]
  BY <1>1, <1>4 DEF PayDown
<1>7. PICK item \in Signed : item = to[i]
  BY <1>1, <1>2, ItemsSigned
<1>8. PICK due \in Int : due = item.amount
  BY <1>7 DEF Signed, Allocation
<1>9. old[i] = item
  <2>1. old[i] = [item EXCEPT !.amount = due - 0]
    BY <1>2, <1>5, <1>7, <1>8
  <2>2. due - 0 = due
    OBVIOUS
  <2>3. item = [item EXCEPT !.amount = due]
    BY <1>7, <1>8 DEF Signed, Allocation
  <2>. QED  BY <2>1, <2>2, <2>3
<1>10. new[i] = [item EXCEPT !.amount = due - amount]
  BY <1>2, <1>6, <1>7, <1>8
<1>11. PICK then : then = [old EXCEPT ![i] = new[i]]
  OBVIOUS
<1>12. \A j \in T : then[j] = new[j]
  BY <1>2, <1>5, <1>6, <1>11
<1>13. then = [j \in T |-> then[j]] /\ new = [j \in T |-> new[j]]
  BY <1>5, <1>6, <1>11
<1>14. new = then
  BY <1>12, <1>13
<1>15. Pays(old, i, amount) = [old EXCEPT ![i] = [old[i] EXCEPT !.amount = old[i].amount - amount]]
  BY DEF Pays
<1>16. [old[i] EXCEPT !.amount = old[i].amount - amount] = new[i]
  BY <1>8, <1>9, <1>10
<1>. QED  BY <1>3, <1>4, <1>11, <1>14, <1>15, <1>16

\* The exit of that allocation is as much more.
LEMMA ExitsAfter ==
  ASSUME NEW to \in Items, NEW paid, NEW i, NEW amount, NEW later,
         PaidOne(DOMAIN to, paid, i, amount, later)
  PROVE  Exits(to, later) = Raised(Exits(to, paid), i, amount)
<1>1. PICK T : T = DOMAIN to
  OBVIOUS
<1>2. /\ paid \in [T -> Nat] /\ i \in T /\ amount \in Nat /\ paid[i] = 0
      /\ later \in [T -> Nat] /\ later[i] = amount /\ \A j \in T \ {i} : later[j] = paid[j]
  BY <1>1, PaidOneFacts DEF PaidOne
<1>3. PICK old : old = Exits(to, paid)
  OBVIOUS
<1>4. PICK new : new = Exits(to, later)
  OBVIOUS
<1>5. old = [j \in T |-> Exit(to[j], paid[j])]
  BY <1>1, <1>3 DEF Exits
<1>6. new = [j \in T |-> Exit(to[j], later[j])]
  BY <1>1, <1>4 DEF Exits
<1>7. PICK item \in Signed : item = to[i]
  BY <1>1, <1>2, ItemsSigned
<1>8. old[i] = Exit(item, 0) /\ new[i] = Exit(item, amount)
  BY <1>2, <1>5, <1>6, <1>7
<1>9. old[i].amount = 0
  <2>1. 0 \in Int
    OBVIOUS
  <2>2. Exit(item, 0).amount = 0
    BY <2>1, ItemAmount
  <2>. QED  BY <1>8, <2>2
<1>10. PICK then : then = [old EXCEPT ![i] = new[i]]
  OBVIOUS
<1>11. \A j \in T : then[j] = new[j]
  BY <1>2, <1>5, <1>6, <1>10
<1>12. then = [j \in T |-> then[j]] /\ new = [j \in T |-> new[j]]
  BY <1>5, <1>6, <1>10
<1>13. new = then
  BY <1>11, <1>12
<1>14. Raised(old, i, amount) = [old EXCEPT ![i] = [old[i] EXCEPT !.amount = old[i].amount + amount]]
  BY DEF Raised
<1>15. [old[i] EXCEPT !.amount = old[i].amount + amount] = new[i]
  <2>1. old[i].amount + amount = amount
    BY <1>2, <1>9
  <2>2. [Exit(item, 0) EXCEPT !.amount = amount] = Exit(item, amount)
    BY DEF Exit, Signed, Allocation
  <2>. QED  BY <1>8, <2>1, <2>2
<1>. QED  BY <1>3, <1>4, <1>10, <1>13, <1>14, <1>15

\* The guarantee is charged as much.
LEMMA SourceAfter ==
  ASSUME NEW from \in Items, NEW it \in DOMAIN from, NEW T, IsFiniteSet(T),
         NEW paid, NEW i, NEW amount, NEW later, PaidOne(T, paid, i, amount, later)
  PROVE  Charged(from, it, SumAll(later)) = Pays(Charged(from, it, SumAll(paid)), it, amount)
<1>1. /\ paid \in [T -> Int] /\ later \in [T -> Int] /\ i \in T /\ amount \in Nat /\ paid[i] = 0
      /\ later[i] = amount /\ \A j \in T \ {i} : later[j] = paid[j]
  BY PaidOneFacts DEF PaidOne
<1>2. SumAll(later) = SumAll(paid) - paid[i] + later[i]
  BY <1>1, SumUpdate
<1>3. SumAll(paid) \in Int
  BY <1>1, SumInt
<1>4. PICK sum \in Int : sum = SumAll(paid) /\ SumAll(later) = sum + amount
  BY <1>1, <1>2, <1>3
<1>5. PICK items \in [DOMAIN from -> Signed] : items = from
  BY ItemsFunction
<1>6. PICK item \in Signed : item = items[it]
  OBVIOUS
<1>7. PICK due \in Int : due = item.amount
  BY <1>6 DEF Signed, Allocation
<1>8. PICK old : old = [item EXCEPT !.amount = due - sum]
  OBVIOUS
<1>9. PICK new : new = [item EXCEPT !.amount = due - (sum + amount)]
  OBVIOUS
<1>10. Charged(items, it, sum) = [items EXCEPT ![it] = old]
  BY <1>6, <1>7, <1>8 DEF Charged
<1>11. Charged(items, it, sum + amount) = [items EXCEPT ![it] = new]
  BY <1>6, <1>7, <1>9 DEF Charged
<1>12. old.amount = due - sum /\ new = [old EXCEPT !.amount = old.amount - amount]
  <2>1. old.amount = due - sum
    BY <1>6, <1>8 DEF Signed, Allocation
  <2>2. old.amount - amount = due - (sum + amount)
    BY <1>1, <2>1
  <2>3. [old EXCEPT !.amount = due - (sum + amount)] = new
    BY <1>8, <1>9
  <2>. QED  BY <2>1, <2>2, <2>3
<1>13. PICK list : list = [items EXCEPT ![it] = old]
  OBVIOUS
<1>14. list[it] = old
  BY <1>13
<1>15. Pays(list, it, amount) = [list EXCEPT ![it] = new]
  BY <1>12, <1>14 DEF Pays
<1>16. [list EXCEPT ![it] = new] = [items EXCEPT ![it] = new]
  BY <1>13
<1>. QED  BY <1>4, <1>5, <1>10, <1>11, <1>13, <1>15, <1>16

\* One beneficiary in the contract, and in the client.
SameRound(from, to, it, indices, old, k, d, new, next) ==
  /\ ClaimRound(to, it, indices, Known(old.surplus, k, old.payouts, from, to, it), d)
       = Known(new.surplus, next, new.payouts, from, to, it)
  /\ new.surplus = 0 \/ next = new.k
  /\ \A i \in DOMAIN to : new.payouts[i] # 0 => old.payouts[i] # 0 \/ to[i].destination = d

\* The client keeps what it knows of the claim: it stops counting only when nothing is left.
LEMMA SameClaimRound ==
  ASSUME NEW from \in Items, NEW to \in Items, NEW it \in DOMAIN from,
         NEW indices \in IncreasingIndices(to), NEW top \in Nat, NEW d,
         NEW old \in ClaimStates(top, to), NEW new, new = ClaimStep(to, Range(indices), old, d),
         NEW k \in Nat, old.surplus = 0 \/ k = old.k,
         \A i \in DOMAIN to : to[i].destination = d => old.payouts[i] = 0
  PROVE  \E next \in Nat : SameRound(from, to, it, indices, old, k, d, new, next)
<1>1. PICK T : T = DOMAIN to /\ IsFiniteSet(T)
  BY ItemFacts
<1>2. old.surplus \in Nat /\ old.k \in Nat /\ old.payouts \in [T -> Nat]
  BY <1>1 DEF ClaimStates
<1>3. PICK surplus \in Nat : surplus = old.surplus
  BY <1>2
<1>4. PICK paid \in [T -> Nat] : paid = old.payouts
  BY <1>2
<1>5. PICK source : source = Charged(from, it, SumAll(paid))
  OBVIOUS
<1>6. PICK target : target = PayDown(to, paid)
  OBVIOUS
<1>7. PICK exit : exit = Exits(to, paid)
  OBVIOUS
<1>8. Known(old.surplus, k, old.payouts, from, to, it) = ClaimEffects(surplus, k, source, target, exit)
  BY <1>3, <1>4, <1>5, <1>6, <1>7, Zenon DEF Known
<1>9. ASSUME new.surplus = surplus, new.k = old.k, new.payouts = paid, Idles(to, surplus, d)
      PROVE  SameRound(from, to, it, indices, old, k, d, new, k)
  <2>1. ClaimRound(to, it, indices, ClaimEffects(surplus, k, source, target, exit), d)
          = ClaimEffects(surplus, k, source, target, exit)
    BY <1>9, ClaimIdles
  <2>2. Known(new.surplus, k, new.payouts, from, to, it) = ClaimEffects(surplus, k, source, target, exit)
    BY <1>5, <1>6, <1>7, <1>9, Zenon DEF Known
  <2>3. ClaimRound(to, it, indices, Known(old.surplus, k, old.payouts, from, to, it), d)
          = Known(new.surplus, k, new.payouts, from, to, it)
    BY <1>8, <2>1, <2>2, Zenon
  <2>4. new.surplus = 0 \/ k = new.k
    BY <1>3, <1>9
  <2>5. \A i \in DOMAIN to : new.payouts[i] # 0 => old.payouts[i] # 0 \/ to[i].destination = d
    BY <1>4, <1>9
  <2>. QED  BY <2>3, <2>4, <2>5, Zenon DEF SameRound
<1>10. CASE \A i \in DOMAIN to : to[i].destination # d
  <2>1. new = old
    BY <1>10 DEF ClaimStep
  <2>2. Position(to, d) = 0
    BY <1>10, SamePosition
  <2>3. SameRound(from, to, it, indices, old, k, d, new, k)
    BY <1>3, <1>4, <1>9, <2>1, <2>2 DEF Idles
  <2>. QED  BY <2>3
<1>11. CASE \E i \in DOMAIN to : to[i].destination = d
  <2>1. PICK i \in T : i = FirstFor(to, d) /\ i = Position(to, d) /\ to[i].destination = d
    BY <1>1, <1>11, SamePosition
  <2>2. i # 0 /\ paid[i] = 0
    <3>1. i \in 1 .. Len(to)
      BY <1>1, ItemFacts
    <3>. QED  BY <1>1, <1>4, <2>1, <3>1
  <2>3. PICK amount \in Nat : amount = to[i].amount
    BY <1>1, ItemFacts
  <2>4. PICK affords \in Nat : affords = Least(amount, surplus) /\ surplus - affords \in Nat
    BY LeastFacts
  <2>5. PICK take \in BOOLEAN : take = Chosen(indices, old.k, i)
    BY <1>1 DEF Chosen
  <2>6. take <=> (Range(indices) = {} \/ (i \in Range(indices) /\ Matched(Range(indices), i) = old.k))
    BY <1>1, <1>2, <2>5, SameChoice
  <2>7. new = [surplus |-> surplus - affords, k |-> IF take THEN old.k + 1 ELSE old.k,
               payouts |-> IF take THEN [paid EXCEPT ![i] = affords] ELSE paid]
    <3>1. ~ \A j \in DOMAIN to : to[j].destination # d
      BY <1>11
    <3>2. affords = Least(to[i].amount, old.surplus)
      BY <1>3, <2>3, <2>4
    <3>. QED  BY <1>3, <1>4, <2>1, <2>6, <3>1, <3>2 DEF ClaimStep
  <2>8. CASE surplus = 0
    <3>1. affords = 0
      BY <2>4, <2>8 DEF Least
    <3>2. [paid EXCEPT ![i] = affords] = paid
      BY <2>2, <3>1
    <3>3. new.surplus = 0 /\ new.payouts = paid
      BY <2>7, <2>8, <3>1, <3>2
    <3>4. Idles(to, surplus, d)
      BY <2>8 DEF Idles
    <3>5. ClaimRound(to, it, indices, ClaimEffects(surplus, k, source, target, exit), d)
            = ClaimEffects(surplus, k, source, target, exit)
      BY <3>4, ClaimIdles
    <3>6. Known(new.surplus, k, new.payouts, from, to, it) = ClaimEffects(surplus, k, source, target, exit)
      BY <1>5, <1>6, <1>7, <2>8, <3>3, Zenon DEF Known
    <3>7. ClaimRound(to, it, indices, Known(old.surplus, k, old.payouts, from, to, it), d)
            = Known(new.surplus, k, new.payouts, from, to, it)
      BY <1>8, <3>5, <3>6, Zenon
    <3>8. \A j \in DOMAIN to : new.payouts[j] # 0 => old.payouts[j] # 0 \/ to[j].destination = d
      BY <1>4, <3>3
    <3>9. SameRound(from, to, it, indices, old, k, d, new, k)
      BY <3>3, <3>7, <3>8, Zenon DEF SameRound
    <3>. QED  BY <3>9
  <2>9. CASE surplus # 0
    <3>1. k = old.k
      BY <1>3, <2>9
    <3>2. PICK left \in Nat : left = surplus - affords
      BY <2>4
    <3>3. affords = Least(target[i].amount, surplus)
      <4>1. target[i] = [to[i] EXCEPT !.amount = to[i].amount - 0]
        BY <1>1, <1>6, <2>2 DEF PayDown
      <4>2. to[i] \in Signed
        BY <1>1, ItemsSigned
      <4>3. PICK item \in Signed : item = to[i] /\ item.amount = amount
        BY <2>3, <4>2
      <4>4. [item EXCEPT !.amount = amount - 0].amount = amount
        BY <4>3 DEF Signed, Allocation
      <4>. QED  BY <2>3, <2>4, <4>1, <4>3, <4>4
    <3>4. CASE ~take
      <4>1. new.surplus = left /\ new.k = k /\ new.payouts = paid
        BY <2>7, <3>1, <3>2, <3>4
      <4>2. Skips(to, indices, d, surplus, k, target, left)
        BY <2>1, <2>2, <2>5, <2>9, <3>1, <3>2, <3>3, <3>4, Zenon DEF Skips
      <4>3. ClaimRound(to, it, indices, ClaimEffects(surplus, k, source, target, exit), d)
              = ClaimEffects(left, k, source, target, exit)
        BY <4>2, ClaimSkips
      <4>4. Known(new.surplus, k, new.payouts, from, to, it) = ClaimEffects(left, k, source, target, exit)
        BY <1>5, <1>6, <1>7, <4>1, Zenon DEF Known
      <4>5. ClaimRound(to, it, indices, Known(old.surplus, k, old.payouts, from, to, it), d)
              = Known(new.surplus, k, new.payouts, from, to, it)
        BY <1>8, <4>3, <4>4, Zenon
      <4>6. \A j \in DOMAIN to : new.payouts[j] # 0 => old.payouts[j] # 0 \/ to[j].destination = d
        BY <1>4, <4>1
      <4>7. SameRound(from, to, it, indices, old, k, d, new, k)
        BY <4>1, <4>5, <4>6, Zenon DEF SameRound
      <4>. QED  BY <4>7
    <3>5. CASE take
      <4>1. PICK later : later = [paid EXCEPT ![i] = affords]
        OBVIOUS
      <4>2. PICK next \in Nat : next = k + 1
        OBVIOUS
      <4>3. new.surplus = left /\ new.k = next /\ new.payouts = later
        BY <2>7, <3>1, <3>2, <3>5, <4>1, <4>2
      <4>4. PaidOne(T, paid, i, affords, later)
        BY <2>2, <4>1 DEF PaidOne
      <4>5. PayDown(to, later) = Pays(target, i, affords)
        BY <1>1, <1>6, <4>4, TargetAfter
      <4>6. Exits(to, later) = Raised(exit, i, affords)
        BY <1>1, <1>7, <4>4, ExitsAfter
      <4>7. Charged(from, it, SumAll(later)) = Pays(source, it, affords)
        BY <1>1, <1>5, <4>4, SourceAfter
      <4>8. Claims(to, it, indices, d, surplus, k, source, target, exit,
                   left, next, Charged(from, it, SumAll(later)), PayDown(to, later), Exits(to, later))
        BY <2>1, <2>2, <2>5, <2>9, <3>1, <3>2, <3>3, <3>5, <4>2, <4>5, <4>6, <4>7, Zenon DEF Claims
      <4>9. ClaimRound(to, it, indices, ClaimEffects(surplus, k, source, target, exit), d)
              = ClaimEffects(left, next, Charged(from, it, SumAll(later)), PayDown(to, later),
                             Exits(to, later))
        BY <4>8, ClaimTakes
      <4>10. Known(new.surplus, next, new.payouts, from, to, it)
               = ClaimEffects(left, next, Charged(from, it, SumAll(later)), PayDown(to, later),
                              Exits(to, later))
        BY <4>3, Zenon DEF Known
      <4>11. ClaimRound(to, it, indices, Known(old.surplus, k, old.payouts, from, to, it), d)
               = Known(new.surplus, next, new.payouts, from, to, it)
        BY <1>8, <4>9, <4>10, Zenon
      <4>12. \A j \in DOMAIN to : new.payouts[j] # 0 => old.payouts[j] # 0 \/ to[j].destination = d
        BY <1>1, <1>4, <2>1, <4>1, <4>3
      <4>13. SameRound(from, to, it, indices, old, k, d, new, next)
        BY <4>3, <4>11, <4>12, Zenon DEF SameRound
      <4>. QED  BY <4>13
    <3>. QED  BY <3>4, <3>5
  <2>. QED  BY <2>8, <2>9
<1>. QED  BY <1>10, <1>11

\* The loop of a claim, round by round.
IsClaimLoop(loop, top, items, indices, who) ==
  /\ loop[0] = [surplus |-> top, k |-> 0, payouts |-> [i \in DOMAIN items |-> 0]]
  /\ \A j \in 1 .. Len(who) : loop[j] = ClaimStep(items, indices, loop[j - 1], who[j])
  /\ \A j \in 0 .. Len(who) : loop[j] \in ClaimStates(top, items)

\* The contract's loop is one.
LEMMA ClaimLoopIs ==
  ASSUME NEW top \in Nat, NEW items \in Items, NEW indices, NEW who, Len(who) \in Nat
  PROVE  IsClaimLoop(ClaimLoop(top, who, items, indices), top, items, indices, who)
BY ClaimLoopFacts DEF IsClaimLoop

\* Whatever the indices, the client computes of a claim what the contract does.
LEMMA ClaimIsRight ==
  ASSUME NEW funds \in Nat, NEW from \in Items, NEW to \in Items, NEW it \in DOMAIN from,
         NEW indices \in IncreasingIndices(to), IsInjective(from[it].metadata)
  PROVE  LET effects == ComputeClaimEffectsAndInteractions(funds, from, to, it, indices)
             payouts == ClaimPayouts(funds, from, to, it, Range(indices))
         IN  /\ effects.newTarget = PayDown(to, payouts)
             /\ effects.newSource[it].amount = from[it].amount - Total(payouts)
             /\ \A j \in DOMAIN to : effects.exitAllocations[j] = Exit(to[j], payouts[j])
<1>1. PICK who : who = from[it].metadata
  OBVIOUS
<1>2. PICK w \in Nat : w = Len(who) /\ DOMAIN who = 1 .. w
  <2>1. from[it] \in Allocation(Destination, Amount)
    BY DEF Items
  <2>. QED  BY <1>1, <2>1 DEF Allocation
<1>3. \A a, b \in 1 .. w : who[a] = who[b] => a = b
  BY <1>1, <1>2 DEF IsInjective
<1>4. PICK top \in Nat : top = Affords(funds, from, it)
  <2>1. PICK affords : affords = [i \in DOMAIN from |-> Affords(funds, from, i)]
    OBVIOUS
  <2>2. affords \in [DOMAIN from -> Nat]
    BY <2>1, AffordsFacts
  <2>. QED  BY <2>1, <2>2
<1>5. PICK g : IsClaimFold(g, funds, from, to, it, indices, top)
  BY <1>4, ClaimFold
<1>6. /\ ComputeClaimEffectsAndInteractions(funds, from, to, it, indices) = g[1 .. w]
      /\ g[{}] = ClaimEffects(top, 0, from, to, NoExit(to))
      /\ \A j \in 1 .. w : g[1 .. j] = ClaimRound(to, it, indices, g[1 .. j - 1], who[j])
  BY <1>1, <1>2, <1>5 DEF IsClaimFold
<1>7. PICK loop : loop = ClaimLoop(top, who, to, Range(indices))
  OBVIOUS
<1>8. /\ loop[0] = [surplus |-> top, k |-> 0, payouts |-> [i \in DOMAIN to |-> 0]]
      /\ \A j \in 1 .. w : loop[j] = ClaimStep(to, Range(indices), loop[j - 1], who[j])
      /\ \A j \in 0 .. w : loop[j] \in ClaimStates(top, to)
  <2>1. Len(who) \in Nat
    BY <1>2
  <2>2. IsClaimLoop(ClaimLoop(top, who, to, Range(indices)), top, to, Range(indices), who)
    BY <2>1, ClaimLoopIs
  <2>3. IsClaimLoop(loop, top, to, Range(indices), who)
    BY <1>7, <2>2
  <2>. QED  BY <1>2, <2>3 DEF IsClaimLoop
<1>9. PICK T : T = DOMAIN to /\ IsFiniteSet(T)
  BY ItemFacts
<1>. DEFINE Visited(j) == \A i \in DOMAIN to :
                            loop[j].payouts[i] # 0 => \E p \in 1 .. j : who[p] = to[i].destination
            Same(j, k) == /\ g[1 .. j] = Known(loop[j].surplus, k, loop[j].payouts, from, to, it)
                          /\ loop[j].surplus = 0 \/ k = loop[j].k
            P == {j \in 0 .. w : Visited(j) /\ \E k \in Nat : Same(j, k)}
<1>10. 0 \in P
  <2>1. PICK z : z = [i \in T |-> 0]
    OBVIOUS
  <2>2. z \in [T -> Int] /\ \A i \in T : z[i] = 0
    BY <2>1
  <2>3. SumAll(z) = 0
    BY <1>9, <2>2, SumZero
  <2>4. loop[0].surplus = top /\ loop[0].k = 0 /\ loop[0].payouts = z
    BY <1>8, <1>9, <2>1
  <2>5. PayDown(to, z) = to
    <3>1. ASSUME NEW i \in T PROVE [to[i] EXCEPT !.amount = to[i].amount - z[i]] = to[i]
      <4>1. PICK item \in Signed, due \in Int : item = to[i] /\ due = item.amount
        <5>1. to[i] \in Signed /\ to[i].amount \in Nat
          BY <1>9, ItemsSigned
        <5>. QED  BY <5>1
      <4>2. due - z[i] = due
        BY <2>2
      <4>3. [item EXCEPT !.amount = due] = item
        BY <4>1 DEF Signed, Allocation
      <4>. QED  BY <4>1, <4>2, <4>3
    <3>2. PayDown(to, z) = [i \in T |-> [to[i] EXCEPT !.amount = to[i].amount - z[i]]]
      BY <1>9 DEF PayDown
    <3>3. to = [i \in T |-> to[i]]
      BY <1>9 DEF Items
    <3>. QED  BY <3>1, <3>2, <3>3
  <2>6. Charged(from, it, 0) = from
    <3>1. PICK items \in [DOMAIN from -> Signed] : items = from
      BY ItemsFunction
    <3>2. PICK item \in Signed : item = items[it]
      BY <3>1
    <3>3. PICK due \in Int : due = item.amount
      BY <3>2 DEF Signed, Allocation
    <3>4. due - 0 = due
      OBVIOUS
    <3>5. [item EXCEPT !.amount = due] = item
      BY <3>2, <3>3 DEF Signed, Allocation
    <3>6. Charged(items, it, 0) = [items EXCEPT ![it] = item]
      BY <3>2, <3>3, <3>4, <3>5 DEF Charged
    <3>7. [items EXCEPT ![it] = item] = items
      BY <3>1, <3>2
    <3>. QED  BY <3>1, <3>6, <3>7
  <2>7. Exits(to, z) = NoExit(to)
    BY <1>9, <2>1 DEF Exits, NoExit
  <2>8. Known(top, 0, z, from, to, it) = ClaimEffects(top, 0, from, to, NoExit(to))
    BY <2>3, <2>5, <2>6, <2>7, Zenon DEF Known
  <2>9. g[1 .. 0] = Known(loop[0].surplus, 0, loop[0].payouts, from, to, it)
    BY <1>6, <2>4, <2>8, LastRound
  <2>10. Same(0, 0)
    BY <2>4, <2>9
  <2>11. Visited(0)
    BY <1>9, <2>2, <2>4
  <2>. HIDE DEF Same, Visited
  <2>. QED  BY <2>10, <2>11
<1>11. ASSUME NEW j \in 1 .. w, j - 1 \in P PROVE j \in P
  <2>1. PICK k \in Nat : Same(j - 1, k)
    BY <1>11
  <2>2. PICK old \in ClaimStates(top, to) : old = loop[j - 1]
    BY <1>8
  <2>3. PICK new : new = loop[j] /\ new = ClaimStep(to, Range(indices), old, who[j])
    BY <1>8, <2>2
  <2>4. ASSUME NEW i \in DOMAIN to, to[i].destination = who[j] PROVE old.payouts[i] = 0
    <3>1. SUFFICES ASSUME old.payouts[i] # 0 PROVE FALSE
      OBVIOUS
    <3>2. PICK p \in 1 .. j - 1 : who[p] = to[i].destination
      BY <1>11, <2>2, <3>1
    <3>3. p \in 1 .. w /\ p # j
      BY <3>2
    <3>. QED  BY <1>3, <2>4, <3>2, <3>3
  <2>5. old.surplus = 0 \/ k = old.k
    BY <2>1, <2>2
  <2>6. PICK next \in Nat : SameRound(from, to, it, indices, old, k, who[j], new, next)
    BY <2>3, <2>4, <2>5, SameClaimRound
  <2>7. /\ ClaimRound(to, it, indices, Known(old.surplus, k, old.payouts, from, to, it), who[j])
             = Known(new.surplus, next, new.payouts, from, to, it)
        /\ new.surplus = 0 \/ next = new.k
        /\ \A i \in DOMAIN to : new.payouts[i] # 0 => old.payouts[i] # 0 \/ to[i].destination = who[j]
    BY <2>6 DEF SameRound
  <2>8. g[1 .. j - 1] = Known(old.surplus, k, old.payouts, from, to, it)
    BY <2>1, <2>2
  <2>9. g[1 .. j] = Known(new.surplus, next, new.payouts, from, to, it)
    BY <1>6, <2>7, <2>8
  <2>10. Same(j, next)
    BY <2>3, <2>7, <2>9
  <2>11. Visited(j)
    <3>1. SUFFICES ASSUME NEW i \in DOMAIN to, loop[j].payouts[i] # 0
                   PROVE  \E p \in 1 .. j : who[p] = to[i].destination
      OBVIOUS
    <3>2. CASE to[i].destination = who[j]
      BY <3>2
    <3>3. CASE old.payouts[i] # 0
      <4>1. PICK p \in 1 .. j - 1 : who[p] = to[i].destination
        BY <1>11, <2>2, <3>3
      <4>2. p \in 1 .. j
        BY <4>1
      <4>. QED  BY <4>1, <4>2
    <3>. QED  BY <2>3, <2>7, <3>1, <3>2, <3>3
  <2>. HIDE DEF Same, Visited
  <2>. QED  BY <2>10, <2>11
<1>12. PICK k \in Nat : Same(w, k)
  <2>1. 0 .. w \subseteq P
    <3>. HIDE DEF P
    <3>. QED  BY <1>10, <1>11, LoopInduction
  <2>2. w \in P
    <3>1. w \in 0 .. w
      OBVIOUS
    <3>. HIDE DEF P
    <3>. QED  BY <2>1, <3>1
  <2>. QED  BY <2>2
<1>13. PICK payouts : payouts = ClaimPayouts(funds, from, to, it, Range(indices))
  OBVIOUS
<1>14. payouts = loop[w].payouts
  BY <1>1, <1>2, <1>4, <1>7, <1>13 DEF ClaimPayouts
<1>15. PICK effects : effects = ComputeClaimEffectsAndInteractions(funds, from, to, it, indices)
  OBVIOUS
<1>16. effects = Known(loop[w].surplus, k, payouts, from, to, it)
  BY <1>6, <1>12, <1>14, <1>15
<1>17. /\ effects.newTarget = PayDown(to, payouts) /\ effects.exitAllocations = Exits(to, payouts)
       /\ effects.newSource = Charged(from, it, SumAll(payouts))
  BY <1>16 DEF Known, ClaimEffects
<1>18. effects.newSource[it].amount = from[it].amount - Total(payouts)
  <2>1. PICK items \in [DOMAIN from -> Signed] : items = from
    BY ItemsFunction
  <2>2. PICK item \in Signed : item = items[it]
    BY <2>1
  <2>3. PICK sum : sum = SumAll(payouts) /\ sum = Total(payouts)
    BY TotalIsSum
  <2>4. PICK rest : rest = item.amount - sum
    OBVIOUS
  <2>5. [item EXCEPT !.amount = rest].amount = rest
    BY <2>2 DEF Signed, Allocation
  <2>6. Charged(items, it, sum)[it] = [item EXCEPT !.amount = rest]
    BY <2>1, <2>2, <2>4 DEF Charged
  <2>. QED  BY <1>17, <2>1, <2>2, <2>3, <2>4, <2>5, <2>6
<1>. QED  BY <1>13, <1>15, <1>17, <1>18 DEF Exits

\* A live status is that of a channel finalized with an outcome.
LEMMA LiveStatus ==
  ASSUME NEW word, StatusOK(word), Mode(word, Now) = "Finalized",
         word.outcomeHash.hashOf = "outcome"
  PROVE  /\ IsOutcome(word.outcomeHash.outcome)
         /\ \E turn, stateHash :
              word = ChannelData(turn, Now, stateHash, OutcomeHash(word.outcomeHash.outcome))
<1>1. IsFinalized(word)
  BY EmptyNotFinal DEF StatusOK
<1>2. PICK turn, stateHash, stored :
        /\ turn \in UInt48
        /\ IsOutcome(stored)
        /\ \/ word = ChannelData(turn, Now, stateHash, OutcomeHash(stored))
           \/ word = ChannelData(turn, Now, stateHash, BytesHash(stored))
  BY <1>1 DEF IsFinalized
<1>3. word = ChannelData(turn, Now, stateHash, OutcomeHash(stored))
  BY <1>2 DEF ChannelData, OutcomeHash, BytesHash
<1>4. word.outcomeHash.outcome = stored
  BY <1>3 DEF ChannelData, OutcomeHash
<1>. QED  BY <1>2, <1>3, <1>4

\* A state hash is cleared, or that of a state that was supported.
KnownHash(hash) == hash = NoHash \/ \E outcome : IsOutcome(outcome) /\ hash = OutcomeHash(outcome)

StateHashesKnown == \A c \in Channel : KnownHash(statusOf[c].stateHash)

\* A status that is updated keeps its state hash.
LEMMA KeepsStateHash ==
  ASSUME NEW word, StatusOK(word), NEW hash
  PROVE  UpdateFingerprint(word, hash).stateHash = word.stateHash
<1>1. PICK turn, at, stateHash, stored : word = ChannelData(turn, at, stateHash, stored)
  BY DEF StatusOK, IsFinalized, EmptyStatus
<1>. QED  BY <1>1 DEF UpdateFingerprint, ChannelData

\* Paying out all assets leaves the state hash, or clears everything.
LEMMA PayAllHash ==
  ASSUME AdjudicatorInv, StateHashesKnown, NEW c \in Channel, NEW word, StatusOK(word),
         KnownHash(word.stateHash), NEW outcome, PayAllAssets(c, word, outcome)
  PROVE  StateHashesKnown'
<1>1. PICK st : st = statusOf /\ st = [x \in Channel |-> st[x]]
  BY DEF AdjudicatorInv
<1>2. PICK new : /\ statusOf' = [st EXCEPT ![c] = new]
                 /\ new = EmptyStatus \/ new = UpdateFingerprint(word, BytesHash(outcome))
  BY <1>1 DEF PayAllAssets
<1>3. KnownHash(new.stateHash)
  <2>1. EmptyStatus.stateHash = NoHash
    BY DEF EmptyStatus, ChannelData
  <2>2. UpdateFingerprint(word, BytesHash(outcome)).stateHash = word.stateHash
    BY KeepsStateHash
  <2>. QED  BY <1>2, <2>1, <2>2 DEF KnownHash
<1>4. ASSUME NEW x \in Channel PROVE KnownHash(statusOf'[x].stateHash)
  <2>1. x = c => statusOf'[x] = new
    BY <1>1, <1>2
  <2>2. x # c => statusOf'[x] = st[x]
    BY <1>1, <1>2
  <2>. QED  BY <1>1, <1>3, <2>1, <2>2 DEF StateHashesKnown
<1>. QED  BY <1>4 DEF StateHashesKnown

\* Every step keeps the state hashes known.
LEMMA HashesNext ==
  ASSUME AdjudicatorInv, StateHashesKnown, [AdjudicatorNext]_adjudicatorVars
  PROVE  StateHashesKnown'
<1>1. PICK st : st = statusOf /\ st = [x \in Channel |-> st[x]]
                /\ \A x \in Channel : StatusOK(st[x]) /\ KnownHash(st[x].stateHash)
  BY DEF AdjudicatorInv, StateHashesKnown
<1>2. ASSUME UNCHANGED statusOf PROVE StateHashesKnown'
  BY <1>2 DEF StateHashesKnown
<1>3. ASSUME NEW c \in Channel, NEW outcome \in SignedOutcome[c]
      PROVE  /\ StatusOK(ConcludedStatus(outcome)) /\ KnownHash(ConcludedStatus(outcome).stateHash)
             /\ KnownHash(ExpiredStatus(outcome).stateHash)
  <2>1. IsOutcome(outcome)
    BY OutcomeAssumption
  <2>2. 0 \in UInt48
    BY WidthAssumption DEF UInt48
  <2>3. StatusOK(ConcludedStatus(outcome))
    BY <2>1, <2>2, WithOutcome DEF ConcludedStatus
  <2>4. /\ ConcludedStatus(outcome).stateHash = NoHash
        /\ ExpiredStatus(outcome).stateHash = OutcomeHash(outcome)
    BY DEF ConcludedStatus, ExpiredStatus, ChannelData
  <2>. QED  BY <2>1, <2>3, <2>4 DEF KnownHash
<1>4. ASSUME NEW c \in Channel, NEW word, KnownHash(word.stateHash),
             statusOf' = [statusOf EXCEPT ![c] = word]
      PROVE  StateHashesKnown'
  <2>1. ASSUME NEW x \in Channel PROVE KnownHash(statusOf'[x].stateHash)
    <3>1. x = c => statusOf'[x] = word
      BY <1>1, <1>4
    <3>2. x # c => statusOf'[x] = st[x]
      BY <1>1, <1>4
    <3>. QED  BY <1>1, <1>4, <3>1, <3>2
  <2>. QED  BY <2>1 DEF StateHashesKnown
<1>5. CASE \E a \in Asset, c \in Channel, expectedHeld \in Amount, amount \in Amount :
             Deposit(a, c, expectedHeld, amount)
  BY <1>2, <1>5 DEF Deposit
<1>6. ASSUME NEW c \in Channel, NEW outcome \in SignedOutcome[c],
             \/ Finalize(c, outcome, ConcludedStatus(outcome))
             \/ Finalize(c, outcome, ExpiredStatus(outcome))
             \/ ConcludeAndTransferAllAssets(c, outcome)
      PROVE  StateHashesKnown'
  <2>1. CASE Finalize(c, outcome, ConcludedStatus(outcome))
    BY <1>3, <1>4, <2>1 DEF Finalize
  <2>2. CASE Finalize(c, outcome, ExpiredStatus(outcome))
    BY <1>3, <1>4, <2>2 DEF Finalize
  <2>3. CASE ConcludeAndTransferAllAssets(c, outcome)
    BY <1>3, <2>3, PayAllHash DEF ConcludeAndTransferAllAssets
  <2>. QED  BY <1>6, <2>1, <2>2, <2>3
<1>7. ASSUME NEW c \in Channel, NEW outcome, TransferAllAssets(c, outcome) PROVE StateHashesKnown'
  <2>1. PICK word : word = statusOf[c] /\ StatusOK(word) /\ KnownHash(word.stateHash)
    BY <1>1
  <2>2. PayAllAssets(c, word, outcome)
    BY <1>7, <2>1 DEF TransferAllAssets
  <2>. QED  BY <2>1, <2>2, PayAllHash
<1>8. ASSUME NEW c \in Channel, NEW outcome, NEW n \in DOMAIN outcome, NEW indices,
             Transfer(n, c, outcome, indices)
      PROVE  StateHashesKnown'
  <2>1. PICK hash : statusOf' = [statusOf EXCEPT ![c] = UpdateFingerprint(@, hash)]
    BY <1>8 DEF Transfer
  <2>2. PICK word : word = UpdateFingerprint(st[c], hash)
    OBVIOUS
  <2>3. KnownHash(word.stateHash)
    BY <1>1, <2>2, KeepsStateHash
  <2>4. statusOf' = [statusOf EXCEPT ![c] = word]
    BY <1>1, <2>1, <2>2
  <2>. QED  BY <1>4, <2>3, <2>4
<1>9. ASSUME NEW c \in Channel, NEW t \in Channel, NEW outcome, NEW targetOutcome,
             NEW args \in ClaimArgs(c, t, outcome, targetOutcome), NEW indices, Claim(args, indices)
      PROVE  StateHashesKnown'
  <2>1. args.sourceChannelId = c /\ args.targetChannelId = t
    BY DEF ClaimArgs
  <2>2. PICK hash, last, written :
          /\ written = [statusOf EXCEPT ![c] = UpdateFingerprint(@, hash)]
          /\ statusOf' = [written EXCEPT ![t] = UpdateFingerprint(@, last)]
    BY <1>9, <2>1 DEF Claim
  <2>3. ASSUME NEW x \in Channel
        PROVE  statusOf'[x].stateHash = st[x].stateHash
    <3>1. PICK one : one = UpdateFingerprint(st[c], hash)
      OBVIOUS
    <3>2. one.stateHash = st[c].stateHash /\ StatusOK(st[c])
      BY <1>1, <3>1, KeepsStateHash
    <3>3. written = [st EXCEPT ![c] = one]
      BY <1>1, <2>2, <3>1
    <3>4. /\ x = t => statusOf'[x] = UpdateFingerprint(written[t], last)
          /\ x # t => statusOf'[x] = written[x]
      BY <1>1, <2>2, <3>3
    <3>5. written[t] = IF t = c THEN one ELSE st[t]
      BY <1>1, <3>3
    <3>6. written[x] = IF x = c THEN one ELSE st[x]
      BY <1>1, <3>3
    <3>7. UpdateFingerprint(one, last).stateHash = st[c].stateHash
      <4>1. PICK turn, at, stateHash, stored : st[c] = ChannelData(turn, at, stateHash, stored)
        BY <3>2 DEF StatusOK, IsFinalized, EmptyStatus
      <4>2. one = ChannelData(turn, at, stateHash, hash)
        BY <3>1, <4>1 DEF UpdateFingerprint, ChannelData
      <4>. QED  BY <4>1, <4>2 DEF UpdateFingerprint, ChannelData
    <3>8. UpdateFingerprint(st[t], last).stateHash = st[t].stateHash
      BY <1>1, KeepsStateHash
    <3>. QED  BY <3>2, <3>4, <3>5, <3>6, <3>7, <3>8
  <2>. QED  BY <1>1, <2>3 DEF StateHashesKnown
<1>10. CASE UNCHANGED adjudicatorVars
  BY <1>2, <1>10 DEF adjudicatorVars
<1>11. CASE AdjudicatorNext
  BY <1>5, <1>6, <1>7, <1>8, <1>9, <1>11 DEF AdjudicatorNext
<1>. QED  BY <1>10, <1>11

\* The client's status word of a channel is the contract's.
LEMMA StatusAgrees ==
  ASSUME NEW word, StatusOK(word), KnownHash(word.stateHash)
  PROVE  /\ GetChannelMode(ParseStatus(word).finalizesAt, Now) = Mode(word, Now)
         /\ ChannelDataToStatus(0, 0, Missing, Missing) = EmptyStatus
         /\ Mode(word, Now) = "Finalized" /\ word.outcomeHash.hashOf = "outcome" =>
              ChannelDataToStatus(word.turnNumRecord, word.finalizesAt,
                IF word.stateHash = NoHash THEN Missing ELSE word.stateHash,
                word.outcomeHash.outcome) = word
<1>1. GetChannelMode(ParseStatus(word).finalizesAt, Now) = Mode(word, Now)
  <2>1. word.finalizesAt \in {0, 1}
    BY DEF StatusOK, IsFinalized, EmptyStatus, ChannelData, Now
  <2>2. ParseStatus(word).finalizesAt = word.finalizesAt
    BY DEF ParseStatus
  <2>. QED  BY <2>1, <2>2 DEF GetChannelMode, Mode, Now
<1>2. ChannelDataToStatus(0, 0, Missing, Missing) = EmptyStatus
  BY DEF ChannelDataToStatus, GetFingerprintPreimage, EmptyStatus, ChannelData
<1>3. ASSUME Mode(word, Now) = "Finalized", word.outcomeHash.hashOf = "outcome"
      PROVE  ChannelDataToStatus(word.turnNumRecord, word.finalizesAt,
               IF word.stateHash = NoHash THEN Missing ELSE word.stateHash,
               word.outcomeHash.outcome) = word
  <2>1. PICK outcome : outcome = word.outcomeHash.outcome /\ IsOutcome(outcome)
    BY <1>3, LiveStatus
  <2>2. PICK turn, stateHash : word = ChannelData(turn, Now, stateHash, OutcomeHash(outcome))
    BY <1>3, <2>1, LiveStatus
  <2>3. word.turnNumRecord = turn /\ word.finalizesAt = 1 /\ word.stateHash = stateHash
    BY <2>2 DEF ChannelData, Now
  <2>4. outcome # Missing
    BY <2>1, MissingAssumption DEF IsOutcome
  <2>5. stateHash # NoHash => stateHash # Missing
    <3>1. ASSUME NEW o, IsOutcome(o) PROVE OutcomeHash(o) # Missing
      <4>1. OutcomeHash(o) \in [hashOf : {"outcome"}, outcome : Seq(SingleAssetExit)]
        BY <3>1 DEF OutcomeHash, IsOutcome
      <4>. QED  BY <4>1, MissingAssumption
    <3>. QED  BY <2>3, <3>1 DEF KnownHash
  <2>6. PICK given : given = IF stateHash = NoHash THEN Missing ELSE stateHash
    OBVIOUS
  <2>7. (IF given = Missing THEN NoHash ELSE given) = stateHash
    BY <2>5, <2>6
  <2>8. ChannelDataToStatus(turn, 1, given, outcome) = ChannelData(turn, 1, stateHash, OutcomeHash(outcome))
    <3>1. GetFingerprintPreimage(1, given, outcome).stateHash = stateHash
      BY <2>7 DEF GetFingerprintPreimage
    <3>2. GetFingerprintPreimage(1, given, outcome).outcomeHash = OutcomeHash(outcome)
      BY <2>4 DEF GetFingerprintPreimage
    <3>. QED  BY <3>1, <3>2 DEF ChannelDataToStatus
  <2>. QED  BY <2>1, <2>2, <2>3, <2>6, <2>8 DEF Now
<1>. QED  BY <1>1, <1>2, <1>3

\* In a state of the invariant the client agrees with the contract.
LEMMA InvAgrees ==
  ASSUME AdjudicatorInv, StateHashesKnown
  PROVE  ClientAgrees
<1>1. /\ \A c \in Channel : StatusOK(statusOf[c]) /\ KnownHash(statusOf[c].stateHash)
      /\ \A a \in Asset, c \in Channel : holdings[a][c] \in Nat
  BY DEF AdjudicatorInv, StateHashesKnown
<1>2. ASSUME NEW c \in Channel, Live(c)
      PROVE  /\ IsOutcome(OutcomeOf(c)) /\ Presented(c) \subseteq {OutcomeOf(c)}
  <2>1. IsOutcome(statusOf[c].outcomeHash.outcome)
    BY <1>1, <1>2, LiveStatus DEF Live, Finalized
  <2>. QED  BY <2>1 DEF Presented, OutcomeOf
<1>3. ASSUME NEW c \in Channel
      PROVE  LET word == statusOf[c]
             IN  /\ GetChannelMode(ParseStatus(word).finalizesAt, Now) = Mode(word, Now)
                 /\ ChannelDataToStatus(0, 0, Missing, Missing) = EmptyStatus
                 /\ Live(c) =>
                      ChannelDataToStatus(word.turnNumRecord, word.finalizesAt,
                        IF word.stateHash = NoHash THEN Missing ELSE word.stateHash,
                        OutcomeOf(c)) = word
  <2>1. PICK word : word = statusOf[c]
    OBVIOUS
  <2>2. StatusOK(word) /\ KnownHash(word.stateHash)
    BY <1>1, <2>1
  <2>3. /\ GetChannelMode(ParseStatus(word).finalizesAt, Now) = Mode(word, Now)
        /\ ChannelDataToStatus(0, 0, Missing, Missing) = EmptyStatus
        /\ Mode(word, Now) = "Finalized" /\ word.outcomeHash.hashOf = "outcome" =>
             ChannelDataToStatus(word.turnNumRecord, word.finalizesAt,
               IF word.stateHash = NoHash THEN Missing ELSE word.stateHash,
               word.outcomeHash.outcome) = word
    BY <2>2, StatusAgrees
  <2>. QED  BY <2>1, <2>3, Zenon DEF Live, Finalized, OutcomeOf
<1>4. ASSUME NEW c \in Channel, Live(c), NEW outcome \in Presented(c), NEW n \in DOMAIN outcome,
             NEW indices \in IncreasingIndices(outcome[n].allocations)
      PROVE  TransferAgrees(c, outcome, n, indices)
  <2>1. IsOutcome(outcome)
    BY <1>2, <1>4
  <2>2. PICK items \in Items : items = outcome[n].allocations
    BY <2>1, OutcomeFacts
  <2>3. PICK funds \in Nat : funds = holdings[outcome[n].asset][c]
    <3>1. outcome[n].asset \in Asset
      BY <2>1, OutcomeFacts
    <3>. QED  BY <1>1, <3>1
  <2>4. indices \in IncreasingIndices(items)
    BY <2>2
  <2>5. LET effects == ComputeTransferEffectsAndInteractions(funds, items, indices)
            payouts == TransferPayouts(funds, items, Range(indices))
        IN  /\ effects.newAllocations = PayDown(items, payouts)
            /\ TotalOf(effects.exitAllocations) = Total(payouts)
            /\ LeavesOnlyZeros(effects) <=> AllocatesOnlyZeros(PayDown(items, payouts))
            /\ \A k \in DOMAIN indices :
                 effects.exitAllocations[k] = Exit(items[indices[k]], payouts[indices[k]])
    BY <2>4, TransferIsRight
  <2>. QED  BY <2>2, <2>3, <2>5, Zenon DEF TransferAgrees
<1>5. ASSUME NEW c \in Channel, NEW t \in Channel, Live(c), Live(t),
             NEW args \in ClaimArgs(c, t, OutcomeOf(c), OutcomeOf(t)), ClaimChecks(args),
             NEW indices \in IncreasingIndices(TargetAllocations(args))
      PROVE  ClaimAgrees(args, indices)
  <2>1. /\ args.sourceChannelId = c /\ args.sourceOutcome = OutcomeOf(c)
        /\ args.targetOutcome = OutcomeOf(t)
        /\ args.sourceAssetIndex \in DOMAIN OutcomeOf(c)
        /\ args.targetAssetIndex \in DOMAIN OutcomeOf(t)
    BY DEF ClaimArgs
  <2>2. PICK n \in DOMAIN OutcomeOf(c) : n = args.sourceAssetIndex
    BY <2>1
  <2>3. PICK m \in DOMAIN OutcomeOf(t) : m = args.targetAssetIndex
    BY <2>1
  <2>4. IsOutcome(OutcomeOf(c)) /\ IsOutcome(OutcomeOf(t))
    BY <1>2, <1>5
  <2>5. PICK from \in Items : from = OutcomeOf(c)[n].allocations /\ from = SourceAllocations(args)
    BY <2>1, <2>2, <2>4, OutcomeFacts DEF SourceAllocations
  <2>6. PICK to \in Items : to = TargetAllocations(args)
    BY <2>1, <2>3, <2>4, OutcomeFacts DEF TargetAllocations
  <2>7. PICK it \in DOMAIN from : it = args.indexOfTargetInSource
    BY <1>5, <2>5 DEF ClaimChecks
  <2>8. PICK funds \in Nat : funds = holdings[SourceAsset(args)][args.sourceChannelId]
    <3>1. SourceAsset(args) \in Asset
      BY <2>1, <2>2, <2>4, OutcomeFacts DEF SourceAsset
    <3>. QED  BY <1>1, <2>1, <3>1
  <2>9. IsInjective(from[it].metadata)
    BY <2>4, <2>5 DEF IsOutcome
  <2>10. indices \in IncreasingIndices(to)
    BY <2>6
  <2>11. LET effects == ComputeClaimEffectsAndInteractions(funds, from, to, it, indices)
             payouts == ClaimPayouts(funds, from, to, it, Range(indices))
         IN  /\ effects.newTarget = PayDown(to, payouts)
             /\ effects.newSource[it].amount = from[it].amount - Total(payouts)
             /\ \A j \in DOMAIN to : effects.exitAllocations[j] = Exit(to[j], payouts[j])
    BY <2>9, <2>10, ClaimIsRight
  <2>. QED  BY <2>5, <2>6, <2>7, <2>8, <2>11, Zenon DEF ClaimAgrees
<1>. QED  BY <1>3, <1>4, <1>5 DEF ClientAgrees

\* In every state what the client library computes of a finalized channel is what the
\* contract does: the status word it compares with, and of every transfer and claim that it
\* would carry out, whatever the indices, the outcome that is left and what is paid.
THEOREM ClientIsRight == AdjudicatorSpec => []ClientAgrees
<1>1. AdjudicatorInit => AdjudicatorInv /\ StateHashesKnown
  <2>1. AdjudicatorInit => AdjudicatorInv
    BY InitInv
  <2>2. AdjudicatorInit => StateHashesKnown
    BY DEF AdjudicatorInit, StateHashesKnown, KnownHash, EmptyStatus, ChannelData
  <2>. QED  BY <2>1, <2>2
<1>2. AdjudicatorInv /\ StateHashesKnown /\ [AdjudicatorNext]_adjudicatorVars
        => (AdjudicatorInv /\ StateHashesKnown)'
  BY NextInv, HashesNext
<1>3. AdjudicatorInv /\ StateHashesKnown => ClientAgrees
  BY InvAgrees
<1>. QED  BY <1>1, <1>2, <1>3, PTL DEF AdjudicatorSpec
================================================================================
