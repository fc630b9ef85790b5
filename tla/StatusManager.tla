---------------------------- MODULE StatusManager ----------------------------
(* The on-chain status of a channel (nitro-protocol StatusManager.sol).      *)
(* The contract packs turnNumRecord, finalizesAt and a fingerprint into one   *)
(* word.  The fingerprint is a hash of (stateHash, outcomeHash), read by      *)
(* comparison only: here a status is the record of the four ChannelData       *)
(* fields, which is the same thing as long as the hash does not collide.      *)
EXTENDS Integers

CONSTANTS Width48,   \* how many values a uint48 has (2^48 in the contract)
          NoHash     \* bytes32(0): the cleared stateHash or outcomeHash

ASSUME WidthAssumption == Width48 \in Nat /\ Width48 > 1

UInt48 == 0 .. Width48 - 1

\* uint48 arithmetic in Solidity 0.7 wraps around.
Uint48(x) == x % Width48

ChannelMode == {"Open", "Challenge", "Finalized"}

ChannelData(turnNumRecord, finalizesAt, stateHash, outcomeHash) ==
  [turnNumRecord |-> turnNumRecord, finalizesAt |-> finalizesAt,
   stateHash |-> stateHash, outcomeHash |-> outcomeHash]

\* What nobody has written to yet reads as zero.
EmptyStatus == ChannelData(0, 0, NoHash, NoHash)

\* Variant with a bug, for mutation tests: a challenge lasts one second too long.
ModeOneSecondLate(status, timestamp) ==
  IF status.finalizesAt = 0 THEN "Open"
  ELSE IF status.finalizesAt < timestamp THEN "Finalized"
  ELSE "Challenge"

\* The mode is never stored: time alone turns a challenge into Finalized.
Mode(status, timestamp) ==
  IF status.finalizesAt = 0 THEN "Open"
  ELSE IF status.finalizesAt <= timestamp THEN "Finalized"
  ELSE "Challenge"
==============================================================================
