------------------------ MODULE ChannelClosingProofs ------------------------
(* Two server wallets that close a channel keep what ChannelClosure promises,   *)
(* and what they store of the chain, and tell their applications, is true.       *)
EXTENDS ChannelClosing, TLAPS

------------------------------------------------------------------------------
(* The invariant.                                                             *)

StatusRow == [finalizesAt : Nat, blockTimestamp : 0 .. MaxTime,
              states : Outcome \cup {"no row", "no states"}]
Registers == [do : {"register"}, finalizesAt : Nat \ {0}, states : Outcome]
Finalizes == [do : {"finalized"}, finalizesAt : Nat \ {0}, blockTimestamp : 0 .. MaxTime]
Payouts == [do : {"payout"}, tracker : {1, 2}, event : [pays : BOOLEAN]]
ChainRequest == [do : {"challenge", "conclude", "withdraw"},
                 outcome : Outcome \cup {"no row", "no states"}]

MemoryOK ==
  /\ tasks \in [Wallet -> SUBSET (Registers \cup Finalizes \cup Payouts)]
  /\ pending \in [Wallet -> SUBSET ChainRequest]

\* A signature is stored first by the one who made it.
SignedFirst == \A w, v \in Wallet : v \in finalSigned[w] => v \in finalSigned[v]
AllSigned == \A w \in Wallet : w \in finalSigned[w]

\* A conclusion is sent when all have signed.
ConclusionsSigned ==
  \A w \in Wallet : \A r \in pending[w] : r.do = "conclude" => AllSigned

\* The chain has a status when and only when it has a finalization time.
ChainOK == chain = NoStatus \/ (chain.finalizesAt > 0 /\ chain.outcome \in Outcome)

\* While the funds are there: the only outcome on chain is that of a challenge, ...
UnpaidChain ==
  chain # NoStatus => /\ chain.outcome = "initial"
                      /\ chain.finalizesAt > time \/ "initial" \in expired
\* ... what a wallet has stored of it or is told agrees with it, ...
UnpaidRow(w) ==
  status[w] # NoRow =>
    /\ chain.finalizesAt > 0 /\ status[w].finalizesAt = chain.finalizesAt
    /\ status[w].states \in {chain.outcome, "no states"}
    /\ status[w].blockTimestamp <= time
UnpaidTasks(w) ==
  \A t \in tasks[w] :
    /\ t \notin Payouts
    /\ chain.finalizesAt > 0 /\ t.finalizesAt = chain.finalizesAt
    /\ t \in Registers => t.states = chain.outcome
    /\ t \in Finalizes => t.finalizesAt <= t.blockTimestamp /\ t.blockTimestamp <= time
\* ... and no wallet believes they are gone.
Unpaid ==
  paid = "nothing" =>
    /\ UnpaidChain
    /\ \A w \in Wallet : UnpaidRow(w) /\ UnpaidTasks(w) /\ funded[w] /\ transferredOut[w] = 0

PayoutIsSeen == \A w \in Wallet : transferredOut[w] > 0 => ~funded[w]

ClosingInv ==
  /\ ClosingTypeOK /\ MemoryOK /\ SignedFirst /\ ConclusionsSigned
  /\ ChainOK /\ Unpaid /\ PayoutIsSeen

\* Where nobody has two trackers and nobody restarts, a payout is recorded once.
RecordedOnce ==
  \A w \in Wallet :
    /\ \A t \in tasks[w] \cap Payouts : t.tracker = 1
    /\ transferredOut[w] <= 1
    /\ transferredOut[w] = 1 => \A t \in tasks[w] \cap Payouts : ~t.event.pays

------------------------------------------------------------------------------
(* The initial states, and what does not change.                              *)

LEMMA ClosingFacts ==
  /\ 0 \in Wallet /\ 1 \in Wallet /\ \A w \in Wallet : Peer(w) \in Wallet /\ Wallet = {w, Peer(w)}
  /\ \A o \in Outcome, w \in Wallet : Share[o][w] \in Nat
  /\ Total \in Nat \ {0} /\ Total = Share["latest"][0] + Share["latest"][1]
  /\ ChallengeDuration \in Nat \ {0} /\ MaxTime \in Nat \ {0} /\ MaxFaults \in Nat
<1>1. 0 \in Wallet /\ 1 \in Wallet /\ \A w \in Wallet : Peer(w) \in Wallet /\ Wallet = {w, Peer(w)}
  BY DEF Wallet, Peer
<1>2. \A o \in Outcome, w \in Wallet : Share[o][w] \in Nat
  BY ShareAssumption
<1>3. Total \in Nat \ {0}
  BY <1>1, <1>2, ClosingAssumption DEF Total, Outcome
<1>. QED  BY <1>1, <1>2, <1>3, ClosingAssumption DEF Total

LEMMA ClosingInit == Init => ClosingInv
<1>. SUFFICES ASSUME Init PROVE ClosingInv
  OBVIOUS
<1>1. ClosingTypeOK
  <2>1. first \in Wallet
    BY ClosingAssumption DEF Init
  <2>2. status \in [Wallet -> [finalizesAt : Nat, blockTimestamp : 0 .. MaxTime,
                              states : Outcome \cup {"no row", "no states"}]]
    <3>1. NoRow \in [finalizesAt : Nat, blockTimestamp : 0 .. MaxTime,
                     states : Outcome \cup {"no row", "no states"}]
      BY ClosingFacts DEF NoRow
    <3>. QED  BY <3>1 DEF Init
  <2>3. chain \in [turn : 0 .. 1, finalizesAt : 0 .. MaxTime + ChallengeDuration,
                  outcome : Outcome \cup {"none"}]
    BY ClosingFacts DEF Init, NoStatus
  <2>4. request \in [Wallet -> [withdraw : [attempts : 0 .. Retries, recent : BOOLEAN],
                               challenge : BOOLEAN]]
    BY DEF Init, Retries
  <2>5. /\ finalSigned \in [Wallet -> SUBSET Wallet]
        /\ objective \in [Wallet -> [Objective -> {"none", "approved", "succeeded"}]]
        /\ funded \in [Wallet -> BOOLEAN] /\ transferredOut \in [Wallet -> Nat]
    BY DEF Init
  <2>6. /\ finalizing \in [Wallet -> 0 .. MaxTime + ChallengeDuration]
        /\ paid \in Outcome \cup {"nothing"} /\ expired \subseteq Outcome
        /\ time \in 1 .. MaxTime /\ faults \in 0 .. MaxFaults
    BY ClosingFacts DEF Init, Unlisted
  <2>. QED  BY <2>1, <2>2, <2>3, <2>4, <2>5, <2>6 DEF ClosingTypeOK
<1>2. MemoryOK /\ SignedFirst /\ ConclusionsSigned /\ ChainOK /\ PayoutIsSeen
  BY DEF Init, MemoryOK, SignedFirst, ConclusionsSigned, ChainOK, PayoutIsSeen
<1>3. Unpaid
  BY DEF Init, Unpaid, UnpaidChain, UnpaidRow, UnpaidTasks
<1>. QED  BY <1>1, <1>2, <1>3 DEF ClosingInv

------------------------------------------------------------------------------
(* The objectives and their cranks: the signatures and the chain requests.     *)

\* What the wallets have stored of the chain.
chainView == <<funded, transferredOut, status, tasks, finalizing, onChain, first>>

LEMMA ViewUnchanged ==
  ASSUME ClosingInv, UNCHANGED chainView
  PROVE  ChainOK' /\ Unpaid' /\ PayoutIsSeen'
BY DEF ClosingInv, chainView, onChain, ChainOK, Unpaid, UnpaidChain, UnpaidRow, UnpaidTasks, PayoutIsSeen

\* A message or a sync: a wallet stores what the other one has stored.
LEMMA PushKeeps ==
  ASSUME ClosingInv, NEW w \in Wallet, NEW signers \in SUBSET finalSigned[Peer(w)],
         NEW withObjective, Push(w, signers, withObjective)
  PROVE  ClosingInv' /\ \A v \in Wallet : v \in finalSigned'[v] <=> v \in finalSigned[v]
<1>1. UNCHANGED <<request, funded, transferredOut, status, memory, onChain, first, faults>>
  BY DEF Push
<1>2. finalSigned' = [finalSigned EXCEPT ![w] = @ \cup signers]
  BY DEF Push
<1>3. finalSigned \in [Wallet -> SUBSET Wallet] /\ Peer(w) \in Wallet
  BY ClosingFacts DEF ClosingInv, ClosingTypeOK
<1>4. finalSigned' \in [Wallet -> SUBSET Wallet]
  BY <1>2, <1>3
<1>5. \A v \in Wallet : v \in finalSigned'[v] <=> v \in finalSigned[v]
  BY <1>2, <1>3 DEF ClosingInv, SignedFirst
<1>6. SignedFirst'
  BY <1>2, <1>3, <1>5 DEF ClosingInv, SignedFirst
<1>7. objective' \in [Wallet -> [Objective -> {"none", "approved", "succeeded"}]]
  BY DEF Push, ClosingInv, ClosingTypeOK, Objective
<1>8. ClosingTypeOK'
  BY <1>1, <1>4, <1>7 DEF ClosingInv, ClosingTypeOK, onChain, memory
<1>9. MemoryOK' /\ ConclusionsSigned'
  BY <1>1, <1>5 DEF ClosingInv, MemoryOK, ConclusionsSigned, AllSigned, memory
<1>. QED  BY <1>1, <1>5, <1>6, <1>8, <1>9, ViewUnchanged DEF ClosingInv, chainView, memory

\* What a crank hands over: requests of the chain service, a conclusion if all signed.
Sound(requests) ==
  requests \subseteq ChainRequest /\ \A r \in requests : r.do = "conclude" => AllSigned'

LEMMA HandOverKeeps ==
  ASSUME ClosingInv, NEW w \in Wallet, NEW requests, HandOver(w, requests), Sound(requests),
         AllSigned => AllSigned', UNCHANGED tasks
  PROVE  MemoryOK' /\ ConclusionsSigned' /\ faults' \in 0 .. MaxFaults
<1>1. pending \in [Wallet -> SUBSET ChainRequest] /\ faults \in 0 .. MaxFaults
  BY DEF ClosingInv, MemoryOK, ClosingTypeOK
<1>2. \A v \in Wallet : pending'[v] = pending[v] \/ (v = w /\ pending'[v] = pending[v] \cup requests)
  BY <1>1 DEF HandOver
<1>3. pending' \in [Wallet -> SUBSET ChainRequest]
  BY <1>1 DEF HandOver, Sound
<1>4. ConclusionsSigned'
  BY <1>2 DEF ClosingInv, ConclusionsSigned, Sound
<1>5. faults' \in 0 .. MaxFaults
  BY <1>1, ClosingFacts DEF HandOver
<1>. QED  BY <1>3, <1>4, <1>5 DEF ClosingInv, MemoryOK

\* A request that is made again has not been made too often.
LEMMA SubmitKeeps ==
  ASSUME ClosingInv, NEW w \in Wallet, NEW signers, NEW submits,
         Submit(w, Requests(w, signers, submits))
  PROVE  request' \in [Wallet -> [withdraw : [attempts : 0 .. Retries, recent : BOOLEAN],
                                  challenge : BOOLEAN]]
<1>1. request \in [Wallet -> [withdraw : [attempts : 0 .. Retries, recent : BOOLEAN],
                              challenge : BOOLEAN]]
  BY DEF ClosingInv, ClosingTypeOK
<1>2. CASE UNCHANGED request
  BY <1>1, <1>2
<1>3. CASE request' = [request EXCEPT ![w].withdraw = Again(@)] /\ Requests(w, signers, submits) # {}
  <2>1. ~ IsValid(request[w].withdraw)
    BY <1>3 DEF Requests
  <2>2. Again(request[w].withdraw) \in [attempts : 0 .. Retries, recent : BOOLEAN]
    BY <1>1, <2>1 DEF IsValid, Again, Retries
  <2>. QED  BY <1>1, <1>3, <2>2
<1>. QED  BY <1>2, <1>3 DEF Submit

LEMMA RequestsSound ==
  ASSUME ClosingInv, NEW w \in Wallet, NEW signers, NEW submits, signers = Wallet => AllSigned'
  PROVE  Sound(Requests(w, signers, submits))
<1>1. status[w] \in StatusRow
  BY DEF ClosingInv, ClosingTypeOK, StatusRow
<1>2. WithdrawRequest(w) \in ChainRequest /\ WithdrawRequest(w).do # "conclude"
  BY <1>1 DEF WithdrawRequest, ChainRequest, StatusRow
<1>3. ConcludeRequest \in ChainRequest
  BY DEF ConcludeRequest, ChainRequest, Outcome
<1>. QED  BY <1>2, <1>3 DEF Requests, Sound

LEMMA CrankCloseKeeps ==
  ASSUME ClosingInv, NEW w \in Wallet, CrankClose(w)
  PROVE  /\ ClosingInv'
         /\ \A v \in Wallet : v \in finalSigned'[v] => v \in finalSigned[v] \/ v = w
         /\ AllSigned => AllSigned'
         /\ SignersAfter(w) = Wallet => AllSigned'
<1>1. finalSigned \in [Wallet -> SUBSET Wallet]
  BY DEF ClosingInv, ClosingTypeOK
<1>2. finalSigned' = [finalSigned EXCEPT ![w] = SignersAfter(w)]
  BY DEF CrankClose
<1>3. SignersAfter(w) = finalSigned[w] \/ SignersAfter(w) = finalSigned[w] \cup {w}
  BY DEF SignersAfter
<1>4. finalSigned' \in [Wallet -> SUBSET Wallet]
  BY <1>1, <1>2, <1>3
<1>5. SignedFirst'
  BY <1>1, <1>2, <1>3 DEF ClosingInv, SignedFirst
<1>6. \A v \in Wallet : /\ v \in finalSigned'[v] => v \in finalSigned[v] \/ v = w
                        /\ v \in finalSigned[v] => v \in finalSigned'[v]
  BY <1>1, <1>2, <1>3
<1>7. SignersAfter(w) = Wallet => AllSigned'
  BY <1>1, <1>2, <1>5 DEF SignedFirst, AllSigned
<1>8. AllSigned => AllSigned'
  BY <1>6 DEF AllSigned
<1>. PICK requests : requests = IF SignersAfter(w) = Wallet
                                THEN Requests(w, SignersAfter(w), w = Submitter) ELSE {}
  OBVIOUS
<1>9. Submit(w, requests)
  BY DEF CrankClose
<1>10. Sound(requests)
  BY <1>7, RequestsSound DEF Sound
<1>11. UNCHANGED <<funded, transferredOut, status, tasks, finalizing, onChain, first>>
  BY DEF CrankClose
<1>12. MemoryOK' /\ ConclusionsSigned' /\ faults' \in 0 .. MaxFaults
  <2>1. HandOver(w, requests) /\ UNCHANGED tasks
    BY <1>9, <1>11 DEF Submit
  <2>. QED  BY <1>8, <1>10, <2>1, HandOverKeeps
<1>13. request' \in [Wallet -> [withdraw : [attempts : 0 .. Retries, recent : BOOLEAN],
                                challenge : BOOLEAN]]
  <2>1. CASE SignersAfter(w) = Wallet
    BY <1>9, <2>1, SubmitKeeps
  <2>2. CASE SignersAfter(w) # Wallet
    BY <1>9, <2>2 DEF Submit, ClosingInv, ClosingTypeOK
  <2>. QED  BY <2>1, <2>2
<1>14. objective' \in [Wallet -> [Objective -> {"none", "approved", "succeeded"}]]
  <2>1. objective \in [Wallet -> [Objective -> {"none", "approved", "succeeded"}]]
    BY DEF ClosingInv, ClosingTypeOK
  <2>2. Succeed(w, "CloseChannel") \/ UNCHANGED objective
    BY DEF CrankClose
  <2>. QED  BY <2>1, <2>2 DEF Succeed, Objective
<1>15. ClosingTypeOK'
  BY <1>4, <1>11, <1>12, <1>13, <1>14 DEF ClosingInv, ClosingTypeOK, onChain
<1>. QED  BY <1>5, <1>6, <1>7, <1>8, <1>11, <1>12, <1>15, ViewUnchanged DEF ClosingInv, chainView

LEMMA CrankDefundKeeps ==
  ASSUME ClosingInv, NEW w \in Wallet, CrankDefund(w)
  PROVE  ClosingInv'
<1>1. UNCHANGED <<finalSigned, funded, transferredOut, status, tasks, finalizing, onChain, first>>
  BY DEF CrankDefund
<1>. PICK requests : requests = Requests(w, finalSigned[w], TRUE)
  OBVIOUS
<1>2. Submit(w, requests)
  BY DEF CrankDefund
<1>3. AllSigned' <=> AllSigned
  BY <1>1 DEF AllSigned
<1>4. Sound(requests)
  <2>1. finalSigned[w] = Wallet => AllSigned
    BY DEF ClosingInv, SignedFirst, AllSigned
  <2>. QED  BY <1>3, <2>1, RequestsSound
<1>5. MemoryOK' /\ ConclusionsSigned' /\ faults' \in 0 .. MaxFaults
  <2>1. HandOver(w, requests) /\ UNCHANGED tasks
    BY <1>1, <1>2 DEF Submit
  <2>. QED  BY <1>3, <1>4, <2>1, HandOverKeeps
<1>6. request' \in [Wallet -> [withdraw : [attempts : 0 .. Retries, recent : BOOLEAN],
                               challenge : BOOLEAN]]
  BY <1>2, SubmitKeeps
<1>7. objective' \in [Wallet -> [Objective -> {"none", "approved", "succeeded"}]]
  BY DEF CrankDefund, Succeed, ClosingInv, ClosingTypeOK, Objective
<1>8. ClosingTypeOK' /\ SignedFirst'
  BY <1>1, <1>5, <1>6, <1>7 DEF ClosingInv, ClosingTypeOK, onChain, SignedFirst
<1>. QED  BY <1>1, <1>5, <1>8, ViewUnchanged DEF ClosingInv, chainView

LEMMA CrankChallengeKeeps ==
  ASSUME ClosingInv, NEW w \in Wallet, CrankChallenge(w)
  PROVE  ClosingInv'
<1>1. UNCHANGED <<finalSigned, funded, transferredOut, status, tasks, finalizing, onChain, first>>
  BY DEF CrankChallenge
<1>. PICK requests : requests = {[do |-> "challenge", outcome |-> "initial"]}
  OBVIOUS
<1>2. HandOver(w, requests)
  BY DEF CrankChallenge
<1>3. AllSigned' <=> AllSigned
  BY <1>1 DEF AllSigned
<1>4. Sound(requests)
  BY DEF Sound, ChainRequest, Outcome
<1>5. MemoryOK' /\ ConclusionsSigned' /\ faults' \in 0 .. MaxFaults
  BY <1>1, <1>2, <1>3, <1>4, HandOverKeeps
<1>6. request' \in [Wallet -> [withdraw : [attempts : 0 .. Retries, recent : BOOLEAN],
                               challenge : BOOLEAN]]
  BY DEF CrankChallenge, ClosingInv, ClosingTypeOK
<1>7. objective' \in [Wallet -> [Objective -> {"none", "approved", "succeeded"}]]
  BY DEF CrankChallenge, Succeed, ClosingInv, ClosingTypeOK, Objective
<1>8. ClosingTypeOK' /\ SignedFirst'
  BY <1>1, <1>5, <1>6, <1>7 DEF ClosingInv, ClosingTypeOK, onChain, SignedFirst
<1>. QED  BY <1>1, <1>5, <1>8, ViewUnchanged DEF ClosingInv, chainView

------------------------------------------------------------------------------
(* The contract and the chain service.                                        *)

LEMMA ModeOfChain ==
  /\ OnChainMode = "Open" <=> chain.finalizesAt = 0
  /\ OnChainMode = "Finalized" <=> chain.finalizesAt # 0 /\ chain.finalizesAt <= time
BY DEF OnChainMode, Mode

LEMMA TimeFacts ==
  ASSUME ClosingInv
  PROVE  /\ time \in 1 .. MaxTime /\ time \in Nat /\ time > 0 /\ time <= MaxTime
         /\ MaxTime \in Nat /\ ChallengeDuration \in Nat /\ ChallengeDuration > 0
         /\ time <= MaxTime + ChallengeDuration
<1>1. time \in 1 .. MaxTime
  BY DEF ClosingInv, ClosingTypeOK
<1>2. MaxTime \in Nat /\ ChallengeDuration \in Nat \ {0}
  BY ClosingFacts
<1>. QED  BY <1>1, <1>2

\* Nothing has been heard of a channel that has no status on chain.
LEMMA NothingHeard ==
  ASSUME ClosingInv, paid = "nothing", chain.finalizesAt = 0
  PROVE  \A w \in Wallet : status[w] = NoRow /\ tasks[w] = {}
BY DEF ClosingInv, Unpaid, UnpaidRow, UnpaidTasks

LEMMA ChallengeKeeps ==
  ASSUME ClosingInv, Challenge, OnChainMode = "Open",
         UNCHANGED <<tables, time, expired, first, faults>>,
         pending' \in [Wallet -> SUBSET ChainRequest], ConclusionsSigned'
  PROVE  ClosingInv'
<1>1. time \in Nat /\ ChallengeDuration \in Nat /\ ChallengeDuration > 0 /\ time \in 1 .. MaxTime /\ MaxTime \in Nat
  BY TimeFacts
<1>2. chain.finalizesAt = 0 /\ UNCHANGED paid
  BY ModeOfChain DEF Challenge
<1>3. /\ chain' = [turn |-> 1, finalizesAt |-> time + ChallengeDuration, outcome |-> "initial"]
      /\ chain'.finalizesAt = time + ChallengeDuration /\ chain'.outcome = "initial"
  BY DEF Challenge
<1>4. \A w \in Wallet : tasks'[w] = tasks[w] \cup {RegisterTask(w)}
  BY DEF Challenge
<1>5. \A w \in Wallet : RegisterTask(w) = [do |-> "register", finalizesAt |-> time + ChallengeDuration,
                                           states |-> "initial"]
  BY <1>3 DEF RegisterTask
<1>6. \A w \in Wallet : RegisterTask(w) \in Registers
  BY <1>1, <1>5 DEF Registers, Outcome
<1>7. tasks' \in [Wallet -> SUBSET (Registers \cup Finalizes \cup Payouts)]
  BY <1>6 DEF Challenge, ClosingInv, MemoryOK
<1>8. finalizing' \in [Wallet -> 0 .. MaxTime + ChallengeDuration]
  <2>1. time + ChallengeDuration \in 0 .. MaxTime + ChallengeDuration
    BY <1>1
  <2>. QED  BY <2>1 DEF Challenge, Listed, ClosingInv, ClosingTypeOK
<1>9. chain' \in [turn : 0 .. 1, finalizesAt : 0 .. MaxTime + ChallengeDuration,
                  outcome : Outcome \cup {"none"}]
  BY <1>1, <1>3 DEF Outcome
<1>10. ClosingTypeOK' /\ SignedFirst' /\ MemoryOK' /\ PayoutIsSeen'
  BY <1>2, <1>7, <1>8, <1>9 DEF ClosingInv, ClosingTypeOK, SignedFirst, MemoryOK, PayoutIsSeen, tables
<1>11. ChainOK'
  BY <1>1, <1>3 DEF ChainOK, Outcome
<1>12. Unpaid'
  <2>. SUFFICES ASSUME paid = "nothing" PROVE Unpaid'
    BY <1>2 DEF Unpaid
  <2>1. UnpaidChain'
    BY <1>1, <1>3 DEF UnpaidChain
  <2>2. ASSUME NEW w \in Wallet PROVE UnpaidRow(w)' /\ UnpaidTasks(w)'
    <3>1. status[w] = NoRow /\ tasks'[w] = {RegisterTask(w)} /\ status'[w] = NoRow
      BY <1>2, <1>4, NothingHeard DEF tables
    <3>2. UnpaidRow(w)'
      BY <3>1 DEF UnpaidRow, NoRow
    <3>3. RegisterTask(w) \notin Payouts /\ RegisterTask(w) \notin Finalizes
      BY <1>5 DEF Payouts, Finalizes
    <3>4. UnpaidTasks(w)'
      BY <1>1, <1>3, <1>5, <3>1, <3>3 DEF UnpaidTasks
    <3>. QED  BY <3>2, <3>4
  <2>3. \A w \in Wallet : funded'[w] /\ transferredOut'[w] = 0
    BY DEF ClosingInv, Unpaid, tables
  <2>. QED  BY <2>1, <2>2, <2>3 DEF Unpaid
<1>. QED  BY <1>10, <1>11, <1>12 DEF ClosingInv

\* After a payout nothing is said any more of what is on chain.
LEMMA TransferKeeps ==
  ASSUME ClosingInv, NEW o \in Outcome, NEW statusBefore, Transfer(o, statusBefore),
         statusBefore \in [turn : 0 .. 1, finalizesAt : 0 .. MaxTime + ChallengeDuration,
                           outcome : Outcome \cup {"none"}],
         statusBefore = NoStatus \/ (statusBefore.finalizesAt > 0 /\ statusBefore.outcome \in Outcome),
         finalizing' \in [Wallet -> 0 .. MaxTime + ChallengeDuration],
         UNCHANGED <<tables, time, expired, first, faults>>,
         pending' \in [Wallet -> SUBSET ChainRequest], ConclusionsSigned'
  PROVE  ClosingInv'
<1>1. paid' \in Outcome
  BY DEF Transfer, ClosingInv, ClosingTypeOK
<1>2. paid' # "nothing"
  BY <1>1 DEF Outcome
<1>3. chain' = NoStatus \/ chain' = statusBefore
  BY DEF Transfer
<1>4. NoStatus \in [turn : 0 .. 1, finalizesAt : 0 .. MaxTime + ChallengeDuration,
                    outcome : Outcome \cup {"none"}]
  BY ClosingFacts DEF NoStatus
<1>5. chain' \in [turn : 0 .. 1, finalizesAt : 0 .. MaxTime + ChallengeDuration,
                  outcome : Outcome \cup {"none"}]
  BY <1>3, <1>4
<1>6. ChainOK'
  BY <1>3 DEF ChainOK
<1>7. \A w \in Wallet, k \in {1, 2} : PayoutTask(k, paid = "nothing") \in Payouts
  BY DEF PayoutTask, AllocationUpdatedEvent, Payouts
<1>8. tasks' \in [Wallet -> SUBSET (Registers \cup Finalizes \cup Payouts)]
  <2>1. \A w \in Wallet : Trackers(w) \subseteq {1, 2}
    BY DEF Trackers
  <2>. QED  BY <1>7, <2>1 DEF Transfer, ClosingInv, MemoryOK
<1>9. ClosingTypeOK' /\ SignedFirst' /\ MemoryOK' /\ PayoutIsSeen'
  BY <1>1, <1>5, <1>8 DEF ClosingInv, ClosingTypeOK, SignedFirst, MemoryOK, PayoutIsSeen, tables
<1>. QED  BY <1>2, <1>6, <1>9 DEF ClosingInv, Unpaid

LEMMA MineKeeps ==
  ASSUME ClosingInv, NEW w \in Wallet, NEW tx, Mine(w, tx)
  PROVE  ClosingInv'
<1>1. tx \in ChainRequest
  BY DEF Mine, ClosingInv, MemoryOK
<1>2. /\ UNCHANGED <<tables, time, expired, first, faults>>
      /\ pending' = [pending EXCEPT ![w] = @ \ {tx}]
  BY DEF Mine
<1>3. pending' \in [Wallet -> SUBSET ChainRequest]
  BY <1>2 DEF ClosingInv, MemoryOK
<1>4. ConclusionsSigned'
  <2>1. AllSigned' <=> AllSigned
    BY <1>2 DEF AllSigned, tables
  <2>2. \A v \in Wallet : pending'[v] \subseteq pending[v]
    BY <1>2 DEF ClosingInv, MemoryOK
  <2>. QED  BY <2>1, <2>2 DEF ClosingInv, ConclusionsSigned
<1>5. CASE ~ Accepts(tx)
  <2>1. UNCHANGED chainView
    BY <1>2, <1>5 DEF Mine, chainView, tables, onChain
  <2>2. ClosingTypeOK' /\ SignedFirst' /\ MemoryOK'
    BY <1>2, <1>3, <2>1 DEF chainView, ClosingInv, ClosingTypeOK, MemoryOK, tables, onChain, SignedFirst
  <2>. QED  BY <1>4, <2>1, <2>2, ViewUnchanged DEF ClosingInv
<1>6. CASE Accepts(tx) /\ tx.do = "challenge"
  BY <1>2, <1>3, <1>4, <1>6, ChallengeKeeps DEF Mine, Accepts
<1>7. CASE Accepts(tx) /\ tx.do = "conclude"
  <2>1. Conclude
    BY <1>7 DEF Mine
  <2>. PICK row : row = [turn |-> 0, finalizesAt |-> time, outcome |-> "latest"]
    OBVIOUS
  <2>2. Transfer("latest", row) /\ "latest" \in Outcome
    BY <2>1 DEF Conclude, Outcome
  <2>3. time \in 1 .. MaxTime /\ time \in Nat /\ time > 0 /\ time <= MaxTime + ChallengeDuration
    BY TimeFacts
  <2>4. row \in [turn : 0 .. 1, finalizesAt : 0 .. MaxTime + ChallengeDuration,
                 outcome : Outcome \cup {"none"}]
    BY <2>2, <2>3, ClosingFacts
  <2>5. row.finalizesAt > 0 /\ row.outcome \in Outcome
    BY <2>2, <2>3
  <2>6. finalizing' \in [Wallet -> 0 .. MaxTime + ChallengeDuration]
    <3>1. time \in 0 .. MaxTime + ChallengeDuration
      BY <2>3, ClosingFacts
    <3>. QED  BY <2>1, <3>1 DEF Conclude, Listed, ClosingInv, ClosingTypeOK
  <2>. QED  BY <1>2, <1>3, <1>4, <2>2, <2>4, <2>5, <2>6, TransferKeeps
<1>8. CASE Accepts(tx) /\ tx.do = "withdraw"
  <2>1. Withdraw(tx.outcome)
    BY <1>8 DEF Mine
  <2>2. tx.outcome = chain.outcome /\ chain.finalizesAt # 0
    BY <1>8, ModeOfChain DEF Accepts
  <2>3. tx.outcome \in Outcome
    BY <2>2 DEF ClosingInv, ChainOK, NoStatus
  <2>4. chain \in [turn : 0 .. 1, finalizesAt : 0 .. MaxTime + ChallengeDuration,
                   outcome : Outcome \cup {"none"}]
    BY DEF ClosingInv, ClosingTypeOK
  <2>5. Transfer(tx.outcome, chain) /\ UNCHANGED finalizing
    BY <2>1 DEF Withdraw
  <2>6. finalizing' \in [Wallet -> 0 .. MaxTime + ChallengeDuration]
    BY <2>5 DEF ClosingInv, ClosingTypeOK
  <2>7. chain = NoStatus \/ (chain.finalizesAt > 0 /\ chain.outcome \in Outcome)
    BY DEF ClosingInv, ChainOK
  <2>. QED  BY <1>2, <1>3, <1>4, <2>3, <2>4, <2>5, <2>6, <2>7, TransferKeeps
<1>. QED  BY <1>1, <1>5, <1>6, <1>7, <1>8 DEF ChainRequest

\* A new block: a challenge that runs out with it is remembered.
LEMMA TickKeeps ==
  ASSUME ClosingInv, Tick
  PROVE  ClosingInv'
<1>1. UNCHANGED <<tables, memory, chain, paid, first, faults>>
  BY DEF Tick
<1>2. time' = time + 1 /\ time < MaxTime
  BY DEF Tick
<1>3. time' \in 1 .. MaxTime
  BY <1>2, TimeFacts
<1>4. expired' \subseteq Outcome /\ expired \subseteq expired'
  <2>1. chain.finalizesAt = time + 1 => chain.outcome \in Outcome
    BY TimeFacts DEF ClosingInv, ChainOK, NoStatus
  <2>. QED  BY <2>1 DEF Tick, ClosingInv, ClosingTypeOK
<1>5. ClosingTypeOK'
  BY <1>1, <1>3, <1>4 DEF ClosingInv, ClosingTypeOK, tables, memory
<1>6. MemoryOK' /\ SignedFirst' /\ ConclusionsSigned' /\ ChainOK' /\ PayoutIsSeen'
  BY <1>1 DEF ClosingInv, MemoryOK, SignedFirst, ConclusionsSigned, AllSigned, ChainOK, PayoutIsSeen, tables, memory
<1>7. Unpaid'
  <2>. SUFFICES ASSUME paid = "nothing" PROVE Unpaid'
    BY <1>1 DEF Unpaid
  <2>1. UnpaidChain'
    <3>. SUFFICES ASSUME chain # NoStatus PROVE UnpaidChain'
      BY <1>1 DEF UnpaidChain
    <3>1. chain.outcome = "initial" /\ (chain.finalizesAt > time \/ "initial" \in expired)
      BY DEF ClosingInv, Unpaid, UnpaidChain
    <3>2. chain.finalizesAt \in Nat
      <4>1. chain.finalizesAt \in 0 .. MaxTime + ChallengeDuration
        BY DEF ClosingInv, ClosingTypeOK
      <4>. QED  BY <4>1, TimeFacts
    <3>3. chain.finalizesAt > time + 1 \/ "initial" \in expired'
      BY <1>4, <3>1, <3>2, TimeFacts DEF Tick
    <3>. QED  BY <1>1, <1>2, <3>1, <3>3 DEF UnpaidChain
  <2>2. ASSUME NEW w \in Wallet PROVE UnpaidRow(w)'
    <3>1. UnpaidRow(w) /\ status[w] \in StatusRow
      BY DEF ClosingInv, ClosingTypeOK, Unpaid, StatusRow
    <3>2. status[w].blockTimestamp <= time => status[w].blockTimestamp <= time + 1
      <4>1. status[w].blockTimestamp \in 0 .. MaxTime
        BY <3>1 DEF StatusRow
      <4>. QED  BY <4>1, TimeFacts
    <3>. QED  BY <1>1, <1>2, <3>1, <3>2 DEF UnpaidRow, tables
  <2>3. ASSUME NEW w \in Wallet PROVE UnpaidTasks(w)'
    <3>1. UnpaidTasks(w) /\ tasks[w] \subseteq Registers \cup Finalizes \cup Payouts
      BY DEF ClosingInv, MemoryOK, Unpaid
    <3>2. ASSUME NEW t \in Finalizes, t.blockTimestamp <= time PROVE t.blockTimestamp <= time + 1
      <4>1. t.blockTimestamp \in Nat
        BY TimeFacts DEF Finalizes
      <4>. QED  BY <3>2, <4>1, TimeFacts
    <3>. QED  BY <1>1, <1>2, <3>1, <3>2 DEF UnpaidTasks, memory
  <2>4. \A w \in Wallet : funded'[w] /\ transferredOut'[w] = 0
    BY <1>1 DEF ClosingInv, Unpaid, tables
  <2>. QED  BY <2>1, <2>2, <2>3, <2>4 DEF Unpaid
<1>. QED  BY <1>5, <1>6, <1>7 DEF ClosingInv

\* What is kept when a wallet only learns of the chain.
LEMMA LearningKeeps ==
  ASSUME ClosingInv, UNCHANGED <<finalSigned, objective, request, pending, onChain, first>>,
         ClosingTypeOK', MemoryOK', PayoutIsSeen',
         paid = "nothing" => \A w \in Wallet : /\ UnpaidRow(w)' /\ UnpaidTasks(w)'
                                               /\ funded'[w] /\ transferredOut'[w] = 0
  PROVE  ClosingInv'
<1>1. SignedFirst' /\ ConclusionsSigned' /\ ChainOK' /\ (UnpaidChain => UnpaidChain')
  BY DEF ClosingInv, SignedFirst, ConclusionsSigned, AllSigned, ChainOK, UnpaidChain, onChain
<1>2. Unpaid'
  BY <1>1 DEF ClosingInv, Unpaid, onChain
<1>. QED  BY <1>1, <1>2 DEF ClosingInv

LEMMA CheckFinalizingKeeps ==
  ASSUME ClosingInv, NEW w \in Wallet, CheckFinalizing(w)
  PROVE  ClosingInv'
<1>1. UNCHANGED <<tables, pending, onChain, first, faults>>
  BY DEF CheckFinalizing
<1>. PICK t : t = [do |-> "finalized", finalizesAt |-> chain.finalizesAt, blockTimestamp |-> time]
  OBVIOUS
<1>2. \/ UNCHANGED tasks /\ finalizing' = [finalizing EXCEPT ![w] = chain.finalizesAt]
      \/ /\ tasks' = [tasks EXCEPT ![w] = @ \cup {t}] /\ finalizing' = [finalizing EXCEPT ![w] = Unlisted]
         /\ chain.finalizesAt # 0 /\ chain.finalizesAt <= time
  BY DEF CheckFinalizing, Unlisted
<1>3. chain.finalizesAt \in 0 .. MaxTime + ChallengeDuration /\ chain.finalizesAt \in Nat
  <2>1. chain.finalizesAt \in 0 .. MaxTime + ChallengeDuration
    BY DEF ClosingInv, ClosingTypeOK
  <2>. QED  BY <2>1, TimeFacts
<1>4. finalizing' \in [Wallet -> 0 .. MaxTime + ChallengeDuration]
  <2>1. Unlisted \in 0 .. MaxTime + ChallengeDuration
    BY TimeFacts DEF Unlisted
  <2>. QED  BY <1>2, <1>3, <2>1 DEF ClosingInv, ClosingTypeOK
<1>5. t \in Finalizes \/ UNCHANGED tasks
  BY <1>2, <1>3, TimeFacts DEF Finalizes
<1>6. tasks' \in [Wallet -> SUBSET (Registers \cup Finalizes \cup Payouts)]
  BY <1>2, <1>5 DEF ClosingInv, MemoryOK
<1>7. ClosingTypeOK' /\ MemoryOK' /\ PayoutIsSeen'
  BY <1>1, <1>4, <1>6 DEF ClosingInv, ClosingTypeOK, MemoryOK, PayoutIsSeen, tables, onChain
<1>8. ASSUME paid = "nothing", NEW v \in Wallet
      PROVE  UnpaidRow(v)' /\ UnpaidTasks(v)' /\ funded'[v] /\ transferredOut'[v] = 0
  <2>1. UnpaidRow(v) /\ UnpaidTasks(v) /\ funded[v] /\ transferredOut[v] = 0
    BY <1>8 DEF ClosingInv, Unpaid
  <2>2. UnpaidRow(v)' /\ funded'[v] /\ transferredOut'[v] = 0
    BY <1>1, <2>1 DEF UnpaidRow, tables, onChain
  <2>3. tasks'[v] = tasks[v] \/ (tasks'[v] = tasks[v] \cup {t} /\ chain.finalizesAt # 0 /\ chain.finalizesAt <= time)
    BY <1>2 DEF ClosingInv, MemoryOK
  <2>4. t \notin Registers /\ t \notin Payouts
    BY DEF Registers, Payouts
  <2>5. t.finalizesAt = chain.finalizesAt /\ t.blockTimestamp = time
    OBVIOUS
  <2>6. UnpaidTasks(v)'
    BY <1>1, <1>3, <2>1, <2>3, <2>4, <2>5, TimeFacts DEF UnpaidTasks, onChain
  <2>. QED  BY <2>2, <2>6
<1>. QED  BY <1>1, <1>7, <1>8, LearningKeeps DEF tables

------------------------------------------------------------------------------
(* The chain listener, and a restart.                                         *)

LEMMA DoneFacts ==
  ASSUME ClosingInv, NEW w \in Wallet, NEW t, tasks' = Done(w, t)
  PROVE  /\ tasks' \in [Wallet -> SUBSET (Registers \cup Finalizes \cup Payouts)]
         /\ \A v \in Wallet : tasks'[v] \subseteq tasks[v]
BY DEF Done, ClosingInv, MemoryOK

\* A task, by what it is to do.
LEMMA TaskOf ==
  ASSUME ClosingInv, NEW w \in Wallet, NEW t \in tasks[w]
  PROVE  /\ t.do = "register" => t \in Registers
         /\ t.do = "finalized" => t \in Finalizes
         /\ t.do = "payout" => t \in Payouts
BY DEF ClosingInv, MemoryOK, Registers, Finalizes, Payouts

LEMMA ChallengeRegisteredKeeps ==
  ASSUME ClosingInv, NEW w \in Wallet, NEW t, ChallengeRegistered(w, t)
  PROVE  ClosingInv'
<1>1. /\ UNCHANGED <<finalSigned, objective, request, funded, transferredOut,
                     pending, finalizing, onChain, first, faults>>
      /\ t \in tasks[w] /\ tasks' = Done(w, t)
  BY DEF ChallengeRegistered
<1>. PICK row : row = [finalizesAt |-> t.finalizesAt, blockTimestamp |-> 0, states |-> t.states]
  OBVIOUS
<1>2. t \in Registers
  BY <1>1, TaskOf DEF ChallengeRegistered
<1>3. UNCHANGED status \/ status' = [status EXCEPT ![w] = row]
  BY DEF ChallengeRegistered
<1>4. row \in StatusRow
  <2>1. t.finalizesAt \in Nat /\ t.states \in Outcome
    BY <1>2 DEF Registers
  <2>2. 0 \in 0 .. MaxTime
    BY TimeFacts
  <2>. QED  BY <2>1, <2>2 DEF StatusRow
<1>5. status \in [Wallet -> StatusRow]
  BY DEF ClosingInv, ClosingTypeOK, StatusRow
<1>6. status' \in [Wallet -> StatusRow]
  BY <1>3, <1>4, <1>5
<1>7. ClosingTypeOK'
  BY <1>1, <1>6 DEF ClosingInv, ClosingTypeOK, onChain, StatusRow
<1>8. MemoryOK' /\ PayoutIsSeen'
  BY <1>1, DoneFacts DEF ClosingInv, MemoryOK, PayoutIsSeen
<1>9. ASSUME paid = "nothing", NEW v \in Wallet
      PROVE  UnpaidRow(v)' /\ UnpaidTasks(v)' /\ funded'[v] /\ transferredOut'[v] = 0
  <2>1. \A u \in Wallet : UnpaidRow(u) /\ UnpaidTasks(u) /\ funded[u] /\ transferredOut[u] = 0
    BY <1>9 DEF ClosingInv, Unpaid
  <2>2. UnpaidTasks(v)'
    BY <1>1, <2>1, DoneFacts DEF UnpaidTasks, onChain
  <2>3. chain.finalizesAt > 0 /\ t.finalizesAt = chain.finalizesAt /\ t.states = chain.outcome
    BY <1>1, <1>2, <2>1 DEF UnpaidTasks
  <2>4. status'[v] = status[v] \/ status'[v] = row
    BY <1>3, <1>5
  <2>5. UnpaidRow(v)'
    <3>1. CASE status'[v] = status[v]
      BY <1>1, <2>1, <3>1 DEF UnpaidRow, onChain
    <3>2. CASE status'[v] = row
      <4>1. row.finalizesAt = chain.finalizesAt /\ row.states = chain.outcome /\ row.blockTimestamp <= time
        BY <2>3, TimeFacts
      <4>. QED  BY <1>1, <2>3, <3>2, <4>1 DEF UnpaidRow, onChain
    <3>. QED  BY <2>4, <3>1, <3>2
  <2>. QED  BY <1>1, <2>1, <2>2, <2>5
<1>. QED  BY <1>1, <1>7, <1>8, <1>9, LearningKeeps

LEMMA ChannelFinalizedKeeps ==
  ASSUME ClosingInv, NEW w \in Wallet, NEW t, ChannelFinalized(w, t)
  PROVE  ClosingInv'
<1>1. /\ UNCHANGED <<finalSigned, objective, request, funded, transferredOut,
                     pending, finalizing, onChain, first, faults>>
      /\ t \in tasks[w] /\ tasks' = Done(w, t)
  BY DEF ChannelFinalized
<1>2. t \in Finalizes
  BY <1>1, TaskOf DEF ChannelFinalized
<1>5. status \in [Wallet -> StatusRow]
  BY DEF ClosingInv, ClosingTypeOK, StatusRow
<1>. PICK new : new = [finalizesAt |-> t.finalizesAt, blockTimestamp |-> t.blockTimestamp,
                       states |-> "no states"]
  OBVIOUS
<1>. PICK marked : marked = [status[w] EXCEPT !.blockTimestamp = t.blockTimestamp]
  OBVIOUS
<1>3. status' = [status EXCEPT ![w] = IF status[w] = NoRow THEN new ELSE marked]
  BY DEF ChannelFinalized
<1>4. new \in StatusRow /\ marked \in StatusRow
  BY <1>2, <1>5 DEF Finalizes, StatusRow
<1>6. status' \in [Wallet -> StatusRow]
  BY <1>3, <1>4, <1>5
<1>7. ClosingTypeOK'
  BY <1>1, <1>6 DEF ClosingInv, ClosingTypeOK, onChain, StatusRow
<1>8. MemoryOK' /\ PayoutIsSeen'
  BY <1>1, DoneFacts DEF ClosingInv, MemoryOK, PayoutIsSeen
<1>9. ASSUME paid = "nothing", NEW v \in Wallet
      PROVE  UnpaidRow(v)' /\ UnpaidTasks(v)' /\ funded'[v] /\ transferredOut'[v] = 0
  <2>1. \A u \in Wallet : UnpaidRow(u) /\ UnpaidTasks(u) /\ funded[u] /\ transferredOut[u] = 0
    BY <1>9 DEF ClosingInv, Unpaid
  <2>2. UnpaidTasks(v)'
    BY <1>1, <2>1, DoneFacts DEF UnpaidTasks, onChain
  <2>3. chain.finalizesAt > 0 /\ t.finalizesAt = chain.finalizesAt /\ t.blockTimestamp <= time
    BY <1>1, <1>2, <2>1 DEF UnpaidTasks
  <2>4. /\ marked.finalizesAt = status[w].finalizesAt /\ marked.states = status[w].states
        /\ marked.blockTimestamp = t.blockTimestamp
    BY <1>5 DEF StatusRow
  <2>5. \/ status'[v] = status[v]
        \/ v = w /\ status[w] = NoRow /\ status'[v] = new
        \/ v = w /\ status[w] # NoRow /\ status'[v] = marked
    BY <1>3, <1>5
  <2>6. UnpaidRow(v)'
    <3>1. CASE status'[v] = status[v]
      BY <1>1, <2>1, <3>1 DEF UnpaidRow, onChain
    <3>2. CASE status'[v] = new
      <4>1. new.finalizesAt = chain.finalizesAt /\ new.states = "no states" /\ new.blockTimestamp <= time
        BY <2>3
      <4>. QED  BY <1>1, <2>3, <3>2, <4>1 DEF UnpaidRow, onChain
    <3>3. CASE v = w /\ status[w] # NoRow /\ status'[v] = marked
      <4>1. /\ status[w].finalizesAt = chain.finalizesAt
            /\ status[w].states \in {chain.outcome, "no states"}
        BY <2>1, <3>3 DEF UnpaidRow
      <4>. QED  BY <1>1, <2>3, <2>4, <3>3, <4>1 DEF UnpaidRow, onChain
    <3>. QED  BY <2>5, <3>1, <3>2, <3>3
  <2>. QED  BY <1>1, <2>1, <2>2, <2>6
<1>. QED  BY <1>1, <1>7, <1>8, <1>9, LearningKeeps

LEMMA AllocationUpdatedKeeps ==
  ASSUME ClosingInv, NEW w \in Wallet, NEW t, AllocationUpdated(w, t)
  PROVE  ClosingInv'
<1>1. /\ UNCHANGED <<finalSigned, objective, request, status, pending, finalizing, onChain,
                     first, faults>>
      /\ t \in tasks[w] /\ tasks' = Done(w, t)
      /\ funded' = [funded EXCEPT ![w] = FALSE]
  BY DEF AllocationUpdated
<1>2. t \in Payouts
  BY <1>1, TaskOf DEF AllocationUpdated
<1>. PICK more : more = (IF t.event.pays THEN 1 ELSE 0)
  OBVIOUS
<1>3. transferredOut' = [transferredOut EXCEPT ![w] = @ + more] /\ more \in Nat
  BY DEF AllocationUpdated
<1>4. funded \in [Wallet -> BOOLEAN] /\ transferredOut \in [Wallet -> Nat]
  BY DEF ClosingInv, ClosingTypeOK
<1>5. funded' \in [Wallet -> BOOLEAN] /\ transferredOut' \in [Wallet -> Nat]
  BY <1>1, <1>3, <1>4
<1>6. ClosingTypeOK'
  BY <1>1, <1>5 DEF ClosingInv, ClosingTypeOK, onChain
<1>7. MemoryOK'
  BY <1>1, DoneFacts DEF ClosingInv, MemoryOK
<1>8. PayoutIsSeen'
  BY <1>1, <1>3, <1>4 DEF ClosingInv, PayoutIsSeen
<1>9. paid # "nothing"
  BY <1>1, <1>2 DEF ClosingInv, Unpaid, UnpaidTasks
<1>. QED  BY <1>1, <1>6, <1>7, <1>8, <1>9, LearningKeeps

LEMMA RestartKeeps ==
  ASSUME ClosingInv, NEW w \in Wallet, Restart(w)
  PROVE  ClosingInv'
<1>1. /\ UNCHANGED <<finalSigned, objective, request, transferredOut, status, pending, onChain, first>>
      /\ faults' = faults + 1 /\ faults < MaxFaults
      /\ finalizing' = [finalizing EXCEPT ![w] = chain.finalizesAt]
  BY DEF Restart
<1>2. PICK replays \in IF paid = "nothing" THEN {FALSE} ELSE BOOLEAN :
        /\ funded' = [funded EXCEPT ![w] = @ /\ (paid = "nothing" \/ replays)]
        /\ tasks' = [tasks EXCEPT ![w] = IF replays THEN {PayoutTask(k, TRUE) : k \in Trackers(w)} ELSE {}]
  BY DEF Restart
<1>3. funded \in [Wallet -> BOOLEAN] /\ funded' \in [Wallet -> BOOLEAN]
  BY <1>2 DEF ClosingInv, ClosingTypeOK
<1>4. \A v \in Wallet : funded'[v] => funded[v]
  BY <1>2, <1>3
<1>5. finalizing' \in [Wallet -> 0 .. MaxTime + ChallengeDuration]
  BY <1>1 DEF ClosingInv, ClosingTypeOK
<1>6. faults' \in 0 .. MaxFaults
  <2>1. faults \in 0 .. MaxFaults
    BY DEF ClosingInv, ClosingTypeOK
  <2>. QED  BY <1>1, <2>1, ClosingFacts
<1>7. ClosingTypeOK'
  BY <1>1, <1>3, <1>5, <1>6 DEF ClosingInv, ClosingTypeOK, onChain
<1>8. MemoryOK'
  <2>1. \A k \in {1, 2} : PayoutTask(k, TRUE) \in Payouts
    BY DEF PayoutTask, AllocationUpdatedEvent, Payouts
  <2>2. Trackers(w) \subseteq {1, 2}
    BY DEF Trackers
  <2>. QED  BY <1>1, <1>2, <2>1, <2>2 DEF ClosingInv, MemoryOK
<1>9. PayoutIsSeen'
  BY <1>1, <1>4 DEF ClosingInv, PayoutIsSeen
<1>10. ASSUME paid = "nothing", NEW v \in Wallet
       PROVE  UnpaidRow(v)' /\ UnpaidTasks(v)' /\ funded'[v] /\ transferredOut'[v] = 0
  <2>1. UnpaidRow(v) /\ UnpaidTasks(v) /\ funded[v] /\ transferredOut[v] = 0
    BY <1>10 DEF ClosingInv, Unpaid
  <2>2. tasks'[v] \subseteq tasks[v]
    BY <1>2, <1>10 DEF ClosingInv, MemoryOK
  <2>3. funded'[v]
    BY <1>2, <1>3, <1>10, <2>1
  <2>. QED  BY <1>1, <2>1, <2>2, <2>3 DEF UnpaidRow, UnpaidTasks, onChain
<1>. QED  BY <1>1, <1>7, <1>8, <1>9, <1>10, LearningKeeps

------------------------------------------------------------------------------
(* Every step.                                                                *)

LEMMA CommenceKeeps ==
  ASSUME ClosingInv, NEW w \in Wallet, NEW o \in Objective, Commence(w, o)
  PROVE  ClosingInv'
<1>1. UNCHANGED <<finalSigned, request, funded, transferredOut, status, memory, onChain, first, faults>>
  BY DEF Commence
<1>2. objective' \in [Wallet -> [Objective -> {"none", "approved", "succeeded"}]]
  BY DEF Commence, ClosingInv, ClosingTypeOK
<1>3. ClosingTypeOK' /\ SignedFirst' /\ MemoryOK' /\ ConclusionsSigned'
  BY <1>1, <1>2 DEF ClosingInv, ClosingTypeOK, SignedFirst, MemoryOK, ConclusionsSigned, AllSigned,
                    onChain, memory
<1>. QED  BY <1>1, <1>3, ViewUnchanged DEF ClosingInv, chainView, memory

LEMMA RequestTimeoutKeeps ==
  ASSUME ClosingInv, NEW w \in Wallet, RequestTimeout(w)
  PROVE  ClosingInv'
<1>1. UNCHANGED <<finalSigned, objective, funded, transferredOut, status, memory, onChain, first, faults>>
  BY DEF RequestTimeout
<1>2. request' \in [Wallet -> [withdraw : [attempts : 0 .. Retries, recent : BOOLEAN],
                               challenge : BOOLEAN]]
  <2>1. request \in [Wallet -> [withdraw : [attempts : 0 .. Retries, recent : BOOLEAN],
                                challenge : BOOLEAN]]
    BY DEF ClosingInv, ClosingTypeOK
  <2>2. PICK row : row = [request[w] EXCEPT !.withdraw.recent = FALSE]
    OBVIOUS
  <2>3. request' = [request EXCEPT ![w] = row]
    BY <2>2 DEF RequestTimeout
  <2>4. row \in [withdraw : [attempts : 0 .. Retries, recent : BOOLEAN], challenge : BOOLEAN]
    <3>. PICK before \in [withdraw : [attempts : 0 .. Retries, recent : BOOLEAN], challenge : BOOLEAN] :
           before = request[w]
      BY <2>1
    <3>. QED  BY <2>2
  <2>. QED  BY <2>1, <2>3, <2>4
<1>3. ClosingTypeOK' /\ SignedFirst' /\ MemoryOK' /\ ConclusionsSigned'
  BY <1>1, <1>2 DEF ClosingInv, ClosingTypeOK, SignedFirst, MemoryOK, ConclusionsSigned, AllSigned,
                    onChain, memory
<1>. QED  BY <1>1, <1>3, ViewUnchanged DEF ClosingInv, chainView, memory

\* The steps that only exchange what the wallets have stored.
Exchanges(w) ==
  \E signers \in SUBSET finalSigned[Peer(w)], withObjective \in BOOLEAN : Push(w, signers, withObjective)

LEMMA ExchangeSteps ==
  ASSUME NEW w \in Wallet, PushMessage(w) \/ SyncObjectives(w) \/ AnswerSync(w)
  PROVE  \E v \in Wallet : Exchanges(v)
<1>1. CASE PushMessage(w)
  BY <1>1 DEF PushMessage, Exchanges
<1>2. CASE SyncObjectives(w)
  <2>1. Peer(w) \in Wallet /\ Peer(Peer(w)) = w
    BY DEF Peer, Wallet
  <2>. QED  BY <1>2, <2>1 DEF SyncObjectives, Exchanges
<1>3. CASE AnswerSync(w)
  BY <1>3 DEF AnswerSync, Exchanges
<1>. QED  BY <1>1, <1>2, <1>3

LEMMA ClosingSteps == ClosingInv /\ [Next]_vars => ClosingInv'
<1>. SUFFICES ASSUME ClosingInv, [Next]_vars PROVE ClosingInv'
  OBVIOUS
<1>1. CASE UNCHANGED vars
  <2>1. UNCHANGED chainView
    BY <1>1 DEF vars, tables, memory, chainView
  <2>2. ClosingTypeOK' /\ SignedFirst' /\ MemoryOK' /\ ConclusionsSigned'
    BY <1>1 DEF ClosingInv, ClosingTypeOK, SignedFirst, MemoryOK, ConclusionsSigned, AllSigned,
                vars, tables, memory, onChain
  <2>. QED  BY <2>1, <2>2, ViewUnchanged DEF ClosingInv
<1>2. CASE Tick
  BY <1>2, TickKeeps
<1>3. ASSUME NEW w \in Wallet,
             \/ \E o \in Objective : Commence(w, o)
             \/ PushMessage(w) \/ SyncObjectives(w) \/ AnswerSync(w)
             \/ Crank(w) \/ Listen(w)
             \/ RequestTimeout(w) \/ CheckFinalizing(w) \/ Restart(w)
             \/ \E r \in pending[w] : Mine(w, r)
      PROVE  ClosingInv'
  <2>1. CASE PushMessage(w) \/ SyncObjectives(w) \/ AnswerSync(w)
    BY <2>1, ExchangeSteps, PushKeeps DEF Exchanges
  <2>2. CASE Crank(w)
    BY <2>2, CrankCloseKeeps, CrankDefundKeeps, CrankChallengeKeeps DEF Crank
  <2>3. CASE Listen(w)
    BY <2>3, ChallengeRegisteredKeeps, ChannelFinalizedKeeps, AllocationUpdatedKeeps DEF Listen
  <2>. QED  BY <1>3, <2>1, <2>2, <2>3, CommenceKeeps, RequestTimeoutKeeps, CheckFinalizingKeeps,
               RestartKeeps, MineKeeps
<1>. QED  BY <1>1, <1>2, <1>3 DEF Next

LEMMA ClosingInvariant == Spec => []ClosingInv
<1>. QED  BY ClosingInit, ClosingSteps, PTL DEF Spec

------------------------------------------------------------------------------
(* What a wallet has stored of the chain, and what it tells its application.   *)

LEMMA RowsAndTypes == ClosingInv => ClosingTypeOK /\ RowsAreTrue
<1>. SUFFICES ASSUME ClosingInv, NEW w \in Wallet, Finalized(w), paid = "nothing"
              PROVE  OnChainMode = "Finalized" /\ status[w].states \in {chain.outcome, "no states"}
  BY DEF ClosingInv, RowsAreTrue
<1>1. status[w].finalizesAt # 0 /\ status[w].finalizesAt <= status[w].blockTimestamp
  BY DEF Finalized, Mode
<1>2. UnpaidRow(w) /\ status[w] # NoRow
  <2>1. NoRow.finalizesAt = 0
    BY DEF NoRow
  <2>. QED  BY <1>1, <2>1 DEF ClosingInv, Unpaid
<1>3. status[w] \in StatusRow
  BY DEF ClosingInv, ClosingTypeOK, StatusRow
<1>4. status[w].blockTimestamp \in 0 .. MaxTime /\ status[w].finalizesAt \in Nat
  BY <1>3 DEF StatusRow
<1>5. chain.finalizesAt # 0 /\ chain.finalizesAt <= time
  <2>1. status[w].finalizesAt = chain.finalizesAt /\ status[w].blockTimestamp <= time
    BY <1>2 DEF UnpaidRow
  <2>2. status[w].finalizesAt <= time
    BY <1>1, <1>4, <2>1, TimeFacts
  <2>. QED  BY <1>1, <2>1, <2>2
<1>. QED  BY <1>2, <1>5, ModeOfChain DEF UnpaidRow

\* A wallet that has an adjudicator_status row which is finalized, while the funds are
\* there, may rely on it: the channel is finalized on chain, with the states of the row
\* if it has any.  And every table has its type.
THEOREM RowsStayTrue == Spec => [](ClosingTypeOK /\ RowsAreTrue)
<1>. QED  BY ClosingInvariant, RowsAndTypes, PTL

\* Where a payout may be recorded twice, an outcome that gives a wallet less than the
\* latest one must give it nothing for the sum not to mislead.
PayoutsAddUp ==
  \/ Twice = {} /\ Unreliable = {}
  \/ \A o \in Outcome, w \in Wallet : Share[o][w] = 0 \/ Share[o][w] >= Share["latest"][w]

LEMMA RecordedInit == Init => RecordedOnce
BY DEF Init, RecordedOnce

LEMMA RecordedSteps ==
  ASSUME ClosingInv, RecordedOnce, [Next]_vars, Twice = {}, Unreliable = {}
  PROVE  RecordedOnce'
<1>1. transferredOut \in [Wallet -> Nat]
  BY DEF ClosingInv, ClosingTypeOK
<1>2. CASE \A w \in Wallet : tasks'[w] \cap Payouts \subseteq tasks[w] /\ transferredOut'[w] = transferredOut[w]
  BY <1>2 DEF RecordedOnce
<1>3. CASE UNCHANGED <<tasks, transferredOut>>
  BY <1>2, <1>3
<1>4. ASSUME NEW w \in Wallet, NEW t, AllocationUpdated(w, t) PROVE RecordedOnce'
  <2>1. t \in tasks[w] /\ t \in Payouts /\ tasks' = [tasks EXCEPT ![w] = @ \ {t}]
    BY <1>4, TaskOf DEF AllocationUpdated, Done
  <2>. PICK more : more = (IF t.event.pays THEN 1 ELSE 0)
    OBVIOUS
  <2>2. transferredOut' = [transferredOut EXCEPT ![w] = @ + more]
    BY <1>4 DEF AllocationUpdated
  <2>3. tasks'[w] = tasks[w] \ {t} /\ transferredOut'[w] = transferredOut[w] + more
    BY <1>1, <2>1, <2>2 DEF ClosingInv, MemoryOK
  <2>4. \A v \in Wallet \ {w} : tasks'[v] = tasks[v] /\ transferredOut'[v] = transferredOut[v]
    BY <1>1, <2>1, <2>2 DEF ClosingInv, MemoryOK
  <2>5. CASE ~ t.event.pays
    <3>1. transferredOut'[w] = transferredOut[w]
      BY <1>1, <2>3, <2>5
    <3>. QED  BY <2>3, <2>4, <3>1 DEF RecordedOnce
  <2>6. CASE t.event.pays
    <3>1. transferredOut[w] = 0 /\ transferredOut'[w] = 1
      BY <1>1, <2>1, <2>3, <2>6 DEF RecordedOnce
    <3>2. ASSUME NEW u \in tasks[w] \cap Payouts, u.event.pays PROVE u = t
      <4>1. u.tracker = t.tracker /\ u.do = t.do /\ u.event = t.event
        <5>1. u.event \in [pays : BOOLEAN] /\ t.event \in [pays : BOOLEAN]
          BY <2>1 DEF Payouts
        <5>2. u.event = t.event
          BY <2>6, <3>2, <5>1
        <5>. QED  BY <2>1, <5>2 DEF RecordedOnce, Payouts
      <4>. QED  BY <2>1, <4>1 DEF Payouts
    <3>. QED  BY <2>3, <2>4, <3>1, <3>2 DEF RecordedOnce
  <2>. QED  BY <2>5, <2>6
<1>5. ASSUME NEW w \in Wallet, NEW t, ChallengeRegistered(w, t) \/ ChannelFinalized(w, t)
      PROVE  RecordedOnce'
  <2>1. tasks' = Done(w, t) /\ UNCHANGED transferredOut
    BY <1>5 DEF ChallengeRegistered, ChannelFinalized
  <2>. QED  BY <1>2, <2>1, DoneFacts
<1>6. ASSUME NEW w \in Wallet, CheckFinalizing(w) PROVE RecordedOnce'
  <2>. PICK t : t = [do |-> "finalized", finalizesAt |-> chain.finalizesAt, blockTimestamp |-> time]
    OBVIOUS
  <2>1. UNCHANGED transferredOut /\ (UNCHANGED tasks \/ tasks' = [tasks EXCEPT ![w] = @ \cup {t}])
    BY <1>6 DEF CheckFinalizing, tables
  <2>2. t \notin Payouts
    BY DEF Payouts
  <2>. QED  BY <1>2, <2>1, <2>2 DEF ClosingInv, MemoryOK
<1>7. ASSUME NEW w \in Wallet, NEW tx, Mine(w, tx) PROVE RecordedOnce'
  <2>1. UNCHANGED transferredOut /\ tx \in ChainRequest
    BY <1>7 DEF Mine, tables, ClosingInv, MemoryOK
  <2>2. CASE UNCHANGED tasks
    BY <1>3, <2>1, <2>2
  <2>3. CASE Challenge
    <3>1. \A v \in Wallet : tasks'[v] = tasks[v] \cup {RegisterTask(v)} /\ RegisterTask(v) \notin Payouts
      BY <2>3 DEF Challenge, RegisterTask, Payouts
    <3>. QED  BY <1>2, <2>1, <3>1
  <2>4. ASSUME NEW o, NEW statusBefore, Transfer(o, statusBefore) PROVE RecordedOnce'
    <3>1. \A v \in Wallet : tasks'[v] = tasks[v] \cup {PayoutTask(1, paid = "nothing")}
      BY <2>4 DEF Transfer, Trackers
    <3>2. PayoutTask(1, paid = "nothing").tracker = 1
      BY DEF PayoutTask
    <3>3. PayoutTask(1, paid = "nothing").event.pays <=> paid = "nothing"
      BY DEF PayoutTask, AllocationUpdatedEvent
    <3>4. paid = "nothing" => \A v \in Wallet : transferredOut[v] = 0
      BY DEF ClosingInv, Unpaid
    <3>. QED  BY <2>1, <3>1, <3>2, <3>3, <3>4 DEF RecordedOnce
  <2>5. UNCHANGED tasks \/ Challenge \/ \E o, statusBefore : Transfer(o, statusBefore)
    BY <1>7, <2>1 DEF Mine, ChainRequest, Conclude, Withdraw
  <2>. QED  BY <2>2, <2>3, <2>4, <2>5
<1>8. ASSUME NEW w \in Wallet, Restart(w) PROVE FALSE
  BY <1>8 DEF Restart
<1>9. CASE UNCHANGED vars \/ Tick
  BY <1>3, <1>9 DEF vars, tables, memory, Tick
<1>10. ASSUME NEW w \in Wallet,
              \/ \E o \in Objective : Commence(w, o)
              \/ PushMessage(w) \/ SyncObjectives(w) \/ AnswerSync(w)
              \/ Crank(w) \/ RequestTimeout(w)
       PROVE  RecordedOnce'
  BY <1>3, <1>10 DEF Commence, PushMessage, SyncObjectives, AnswerSync, Push, Crank, CrankClose,
                     CrankDefund, CrankChallenge, RequestTimeout, memory
<1>. QED  BY <1>4, <1>5, <1>6, <1>7, <1>8, <1>9, <1>10 DEF Next, Listen

LEMMA FundingStatusIsTrue ==
  ASSUME ClosingInv, PayoutsAddUp, Twice = {} /\ Unreliable = {} => RecordedOnce, NEW w \in Wallet
  PROVE  FundingStatusTrue(w)
<1>1. /\ funded[w] \in BOOLEAN /\ transferredOut[w] \in Nat /\ paid \in Outcome \cup {"nothing"}
      /\ Total \in Nat \ {0} /\ Share["latest"][w] \in Nat
  BY ClosingFacts DEF ClosingInv, ClosingTypeOK, Outcome
<1>2. transferredOut[w] # 0 => ~funded[w] /\ paid # "nothing"
  BY <1>1 DEF ClosingInv, PayoutIsSeen, Unpaid
<1>. PICK toMe : toMe = IF transferredOut[w] = 0 THEN 0 ELSE transferredOut[w] * Share[paid][w]
  OBVIOUS
<1>3. DirectFundingStatus(w) = "Defunded" => toMe >= Share["latest"][w]
  BY DEF DirectFundingStatus
<1>4. DirectFundingStatus(w) = "Funded" => (IF funded[w] THEN Total ELSE 0) >= Total
  BY DEF DirectFundingStatus
<1>5. ASSUME DirectFundingStatus(w) = "Funded" PROVE transferredOut[w] = 0
  BY <1>1, <1>2, <1>4, <1>5
<1>6. ASSUME DirectFundingStatus(w) = "Defunded", Share["latest"][w] > 0
      PROVE  paid # "nothing" /\ Share[paid][w] >= Share["latest"][w]
  <2>1. transferredOut[w] # 0 /\ paid \in Outcome /\ paid # "nothing"
    BY <1>1, <1>2, <1>3, <1>6
  <2>2. PICK share \in Nat : share = Share[paid][w]
    BY <2>1, ClosingFacts
  <2>3. toMe = transferredOut[w] * share /\ toMe >= Share["latest"][w]
    BY <1>3, <1>6, <2>1, <2>2
  <2>4. CASE transferredOut[w] = 1
    BY <2>2, <2>3, <2>4, <2>1
  <2>5. CASE transferredOut[w] # 1
    <3>1. ~ (Twice = {} /\ Unreliable = {})
      BY <1>1, <2>1, <2>5 DEF RecordedOnce
    <3>2. share = 0 \/ share >= Share["latest"][w]
      BY <2>1, <2>2, <3>1 DEF PayoutsAddUp
    <3>3. share # 0
      BY <1>1, <1>6, <2>3
    <3>. QED  BY <2>1, <2>2, <3>2, <3>3
  <2>. QED  BY <2>4, <2>5
<1>. QED  BY <1>5, <1>6 DEF FundingStatusTrue

\* What a wallet has stored of the chain is true, and no application is told that its
\* channel is defunded before it has its share, where no payout is recorded twice, or
\* what is recorded twice is a whole share or nothing.
THEOREM StoredIsTrue == PayoutsAddUp => (Spec => []FinalizedOnChain)
<1>. SUFFICES ASSUME PayoutsAddUp PROVE Spec => []FinalizedOnChain
  OBVIOUS
<1>1. CASE Twice = {} /\ Unreliable = {}
  <2>1. RecordedOnce /\ ClosingInv /\ [Next]_vars => RecordedOnce'
    BY <1>1, RecordedSteps
  <2>2. RecordedOnce /\ ClosingInv => FinalizedOnChain
    BY FundingStatusIsTrue, RowsAndTypes DEF FinalizedOnChain
  <2>. QED  BY <2>1, <2>2, RecordedInit, ClosingInvariant, PTL DEF Spec
<1>2. CASE ~ (Twice = {} /\ Unreliable = {})
  <2>1. ClosingInv => FinalizedOnChain
    BY <1>2, FundingStatusIsTrue, RowsAndTypes DEF FinalizedOnChain
  <2>. QED  BY <2>1, ClosingInvariant, PTL
<1>. QED  BY <1>1, <1>2

------------------------------------------------------------------------------
(* The refinement of ChannelClosure.                                          *)

Agreed == {w \in Wallet : w \in finalSigned[w]}
Closed == {w \in Wallet : objective[w]["CloseChannel"] = "succeeded"}
\* A step that Closure takes, or does not see.
MapsToClosure == Closure!ClosureNext \/ UNCHANGED <<Agreed, expired, paid, Closed>>

LEMMA ClosureFacts ==
  /\ Closure!Wallet = Wallet /\ Closure!Signed = Outcome
BY ShareAssumption DEF Closure!Wallet, Wallet, Closure!Signed

\* A wallet that goes on after its objective has succeeded opens it again.
LEMMA PushMaps ==
  ASSUME ClosingInv, NEW w \in Wallet, NEW signers \in SUBSET finalSigned[Peer(w)],
         NEW withObjective, Push(w, signers, withObjective)
  PROVE  MapsToClosure
<1>1. \A v \in Wallet : v \in finalSigned'[v] <=> v \in finalSigned[v]
  BY PushKeeps
<1>2. Agreed' = Agreed /\ UNCHANGED <<expired, paid>>
  BY <1>1 DEF Agreed, Push, onChain
<1>3. Closed' = Closed \/ Closed' = Closed \ {w}
  BY DEF Push, Closed, ClosingInv, ClosingTypeOK, Objective
<1>4. Closed' = Closed \ {w} => Closure!Reopen(w)
  BY <1>2 DEF Closure!Reopen, Agreed, Closed
<1>. QED  BY <1>2, <1>3, <1>4, ClosureFacts DEF MapsToClosure, Closure!ClosureNext

LEMMA CrankCloseMaps ==
  ASSUME ClosingInv, NEW w \in Wallet, CrankClose(w)
  PROVE  MapsToClosure
<1>1. UNCHANGED <<expired, paid>>
  BY DEF CrankClose, onChain
<1>2. finalSigned \in [Wallet -> SUBSET Wallet] /\ finalSigned' = [finalSigned EXCEPT ![w] = SignersAfter(w)]
  BY DEF CrankClose, ClosingInv, ClosingTypeOK
<1>3. SignersAfter(w) = finalSigned[w] \/ SignersAfter(w) = finalSigned[w] \cup {w}
  BY DEF SignersAfter
<1>4. \A v \in Wallet \ {w} : v \in finalSigned'[v] <=> v \in finalSigned[v]
  BY <1>2
<1>5. Agreed' = Agreed \/ Agreed' = Agreed \cup {w}
  BY <1>2, <1>3, <1>4 DEF Agreed
<1>6. CASE UNCHANGED objective
  <2>1. Closed' = Closed
    BY <1>6 DEF Closed
  <2>2. Agreed' = Agreed \cup {w} => Closure!Agree(w)
    BY <1>1, <2>1 DEF Closure!Agree, Agreed, Closed
  <2>. QED  BY <1>1, <1>5, <2>1, <2>2, ClosureFacts DEF MapsToClosure, Closure!ClosureNext
<1>7. CASE SignersAfter(w) = Wallet /\ ~IsPartlyDirectFunded(w) /\ Succeed(w, "CloseChannel")
  <2>1. Agreed' = Wallet /\ Agreed' = Agreed \cup {w}
    <3>1. AllSigned'
      BY <1>7, CrankCloseKeeps
    <3>2. Agreed' = Wallet
      BY <3>1 DEF AllSigned, Agreed
    <3>3. w \in Agreed'
      BY <3>2
    <3>. QED  BY <1>5, <3>2, <3>3
  <2>2. Closed' = Closed \cup {w}
    <3>1. objective \in [Wallet -> [Objective -> {"none", "approved", "succeeded"}]]
      BY DEF ClosingInv, ClosingTypeOK
    <3>2. objective'[w]["CloseChannel"] = "succeeded"
      BY <1>7, <3>1 DEF Succeed, Objective
    <3>3. \A v \in Wallet \ {w} : objective'[v] = objective[v]
      BY <1>7, <3>1 DEF Succeed
    <3>. QED  BY <3>2, <3>3 DEF Closed
  <2>3. paid # "nothing" \/ Share["latest"][w] = 0
    <3>1. CASE ~ funded[w]
      BY <3>1 DEF ClosingInv, Unpaid
    <3>2. CASE ~ (Total > TargetBefore(w))
      <4>1. Share["latest"][0] \in Nat /\ Share["latest"][1] \in Nat
        BY ClosingFacts DEF Outcome
      <4>. QED  BY <3>2, <4>1 DEF Total, TargetBefore, Wallet
    <3>. QED  BY <1>7, <3>1, <3>2 DEF IsPartlyDirectFunded
  <2>4. Closure!Close(w)
    BY <1>1, <2>1, <2>2, <2>3, ClosureFacts DEF Closure!Close, Agreed, Closed
  <2>. QED  BY <2>4, ClosureFacts DEF MapsToClosure, Closure!ClosureNext
<1>. QED  BY <1>6, <1>7 DEF CrankClose

\* A payout is by an outcome that all signed as final, or that a challenge made final.
LEMMA MineMaps ==
  ASSUME ClosingInv, NEW w \in Wallet, NEW tx, Mine(w, tx)
  PROVE  MapsToClosure
<1>1. tx \in ChainRequest /\ tx \in pending[w]
  BY DEF Mine, ClosingInv, MemoryOK
<1>2. Agreed' = Agreed /\ Closed' = Closed /\ UNCHANGED expired
  BY DEF Mine, tables, Agreed, Closed
<1>3. CASE UNCHANGED paid
  BY <1>2, <1>3 DEF MapsToClosure
<1>4. ASSUME NEW o \in Outcome, paid = "nothing", paid' = o,
             o \in expired \/ (o = "latest" /\ Agreed = Wallet)
      PROVE  MapsToClosure
  <2>1. Closure!PayOut(o)
    BY <1>2, <1>4, ClosureFacts DEF Closure!PayOut, Agreed, Closed
  <2>. QED  BY <2>1, ClosureFacts DEF MapsToClosure, Closure!ClosureNext
<1>5. CASE Accepts(tx) /\ tx.do = "challenge"
  BY <1>3, <1>5 DEF Mine, Challenge
<1>6. CASE Accepts(tx) /\ tx.do = "conclude"
  <2>1. paid' = (IF paid = "nothing" THEN "latest" ELSE paid)
    BY <1>6 DEF Mine, Conclude, Transfer
  <2>2. Agreed = Wallet
    BY <1>1, <1>6 DEF ClosingInv, ConclusionsSigned, AllSigned, Agreed
  <2>3. "latest" \in Outcome
    BY DEF Outcome
  <2>. QED  BY <1>3, <1>4, <2>1, <2>2, <2>3
<1>7. CASE Accepts(tx) /\ tx.do = "withdraw"
  <2>1. paid' = IF paid = "nothing" THEN tx.outcome ELSE paid
    BY <1>7 DEF Mine, Withdraw, Transfer
  <2>2. tx.outcome = chain.outcome /\ chain.finalizesAt # 0 /\ chain.finalizesAt <= time
    BY <1>7, ModeOfChain DEF Accepts
  <2>3. ASSUME paid = "nothing" PROVE chain.outcome \in expired /\ chain.outcome \in Outcome
    <3>1. chain # NoStatus
      BY <2>2 DEF NoStatus
    <3>2. chain.finalizesAt \in 0 .. MaxTime + ChallengeDuration
      BY DEF ClosingInv, ClosingTypeOK
    <3>3. ~ (chain.finalizesAt > time)
      BY <2>2, <3>2, TimeFacts
    <3>. QED  BY <2>3, <3>1, <3>3 DEF ClosingInv, Unpaid, UnpaidChain, Outcome
  <2>. QED  BY <1>3, <1>4, <2>1, <2>2, <2>3
<1>8. CASE ~ Accepts(tx)
  BY <1>3, <1>8 DEF Mine
<1>. QED  BY <1>1, <1>5, <1>6, <1>7, <1>8 DEF ChainRequest

LEMMA TickMaps ==
  ASSUME ClosingInv, Tick
  PROVE  MapsToClosure
<1>1. Agreed' = Agreed /\ Closed' = Closed /\ UNCHANGED paid
  BY DEF Tick, tables, Agreed, Closed
<1>2. CASE chain.finalizesAt = time + 1
  <2>1. chain.outcome \in Outcome
    BY <1>2, TimeFacts DEF ClosingInv, ChainOK, NoStatus
  <2>2. Closure!Expire(chain.outcome)
    BY <1>1, <1>2 DEF Tick, Closure!Expire, Agreed, Closed
  <2>. QED  BY <2>1, <2>2, ClosureFacts DEF MapsToClosure, Closure!ClosureNext
<1>3. CASE chain.finalizesAt # time + 1
  BY <1>1, <1>3 DEF Tick, MapsToClosure
<1>. QED  BY <1>2, <1>3

LEMMA OthersMap ==
  ASSUME ClosingInv, NEW w \in Wallet,
         \/ \E o \in Objective : Commence(w, o)
         \/ CrankDefund(w) \/ CrankChallenge(w) \/ Listen(w)
         \/ RequestTimeout(w) \/ CheckFinalizing(w) \/ Restart(w)
  PROVE  MapsToClosure
<1>1. objective \in [Wallet -> [Objective -> {"none", "approved", "succeeded"}]]
  BY DEF ClosingInv, ClosingTypeOK
<1>2. UNCHANGED <<finalSigned, expired, paid>>
  BY DEF Commence, CrankDefund, CrankChallenge, Listen, ChallengeRegistered, ChannelFinalized,
         AllocationUpdated, RequestTimeout, CheckFinalizing, Restart, onChain, tables
<1>3. \A v \in Wallet : objective'[v]["CloseChannel"] = "succeeded" <=> objective[v]["CloseChannel"] = "succeeded"
  <2>1. CASE \E o \in Objective : Commence(w, o)
    BY <1>1, <2>1 DEF Commence, Objective
  <2>2. CASE CrankDefund(w) \/ CrankChallenge(w)
    <3>1. PICK o \in {"DefundChannel", "SubmitChallenge"} : objective' = [objective EXCEPT ![w][o] = "succeeded"]
      BY <2>2 DEF CrankDefund, CrankChallenge, Succeed
    <3>. QED  BY <1>1, <3>1 DEF Objective
  <2>3. CASE Listen(w) \/ RequestTimeout(w) \/ CheckFinalizing(w) \/ Restart(w)
    BY <2>3 DEF Listen, ChallengeRegistered, ChannelFinalized, AllocationUpdated, RequestTimeout,
                CheckFinalizing, Restart, tables
  <2>. QED  BY <2>1, <2>2, <2>3
<1>. QED  BY <1>2, <1>3 DEF MapsToClosure, Agreed, Closed

\* The two wallets and the chain close a channel as ChannelClosure promises: the funds
\* leave by an outcome that both signed as final or that a challenge made final, and no
\* wallet's CloseChannel objective succeeds while it has a share in the channel.
THEOREM ClosesAsPromised == Spec => KeepsClosure
<1>1. Init => Closure!ClosureInit
  <2>. SUFFICES ASSUME Init PROVE Closure!ClosureInit
    OBVIOUS
  <2>1. \A w \in Wallet : finalSigned[w] = {} /\ objective[w]["CloseChannel"] = "none"
    BY DEF Init, Objective
  <2>2. Agreed = {} /\ Closed = {}
    BY <2>1 DEF Agreed, Closed
  <2>. QED  BY <2>2 DEF Init, Closure!ClosureInit, Agreed, Closed
<1>2. ClosingInv /\ [Next]_vars => MapsToClosure
  <2>. SUFFICES ASSUME ClosingInv, [Next]_vars PROVE MapsToClosure
    OBVIOUS
  <2>1. CASE UNCHANGED vars
    BY <2>1 DEF vars, tables, onChain, MapsToClosure, Agreed, Closed
  <2>2. ASSUME NEW w \in Wallet, PushMessage(w) \/ SyncObjectives(w) \/ AnswerSync(w) PROVE MapsToClosure
    BY <2>2, ExchangeSteps, PushMaps DEF Exchanges
  <2>. QED  BY <2>1, <2>2, CrankCloseMaps, MineMaps, TickMaps, OthersMap DEF Next, Crank
<1>3. MapsToClosure => [Closure!ClosureNext]_<<Agreed, expired, paid, Closed>>
  BY DEF MapsToClosure
<1>. QED  BY <1>1, <1>2, <1>3, ClosingInvariant, PTL DEF Spec, KeepsClosure, Closure!ClosureSpec, Agreed, Closed
==============================================================================
