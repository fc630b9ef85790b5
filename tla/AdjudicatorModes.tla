--------------------------- MODULE AdjudicatorModes ---------------------------
(* What the protocol documents promise of a channel's on-chain entry: the      *)
(* mode diagram of understand-adjudicator-status.md and the rule it gives for  *)
(* turnNumRecord (it only grows, except that conclude sets it to 0).  A        *)
(* finalized channel has no way out.                                           *)
EXTENDS Integers

VARIABLES mode, turnNumRecord

modeVars == <<mode, turnNumRecord>>

Init == mode = "Open" /\ turnNumRecord = 0

Challenge ==
  /\ mode' = "Challenge"
  /\ \/ mode = "Open"      /\ turnNumRecord' >= turnNumRecord
     \/ mode = "Challenge" /\ turnNumRecord' > turnNumRecord

Respond ==
  mode = "Challenge" /\ mode' = "Open" /\ turnNumRecord' = turnNumRecord + 1

Checkpoint ==
  mode # "Finalized" /\ mode' = "Open" /\ turnNumRecord' > turnNumRecord

Conclude ==
  mode # "Finalized" /\ mode' = "Finalized" /\ turnNumRecord' = 0

Timeout ==
  mode = "Challenge" /\ mode' = "Finalized" /\ UNCHANGED turnNumRecord

Next == Challenge \/ Respond \/ Checkpoint \/ Conclude \/ Timeout

Spec == Init /\ [][Next]_modeVars
===============================================================================
