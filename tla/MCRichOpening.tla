---------------------------- MODULE MCRichOpening -----------------------------
(* An instance of RichOpening for TLC: two wallets with different amounts.      *)
EXTENDS RichOpening

MCAmount == [w \in 0 .. 1 |-> w + 1]
===============================================================================
