--------------------------- MODULE MCLedgerChannel ---------------------------
(* Model values for LedgerChannel: two channels to fund, which the ledger can  *)
(* afford together, or only one at a time; and a ledger of many turns, whose   *)
(* channels are closed only after they ran.                                    *)
EXTENDS LedgerChannel

MCApp == {1, 2}
MCFund == [x \in App |-> [w \in Wallet |-> 1]]
\* Channel 1 pays everything to the follower in the end.
MCRefund == [x \in App |-> [w \in Wallet |-> IF x = 1 THEN 2 * w ELSE 1]]
Ample == [w \in Wallet |-> 2]
Tight == [w \in Wallet |-> 1]
Setting(balance, earlyClose, maxTurnNum) ==
  [balance |-> balance, earlyClose |-> earlyClose, maxTurnNum |-> maxTurnNum]
MCSettings ==
  {Setting(Ample, TRUE, 7), Setting(Tight, TRUE, 7), Setting(Ample, FALSE, 11)}
===============================================================================
