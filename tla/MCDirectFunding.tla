--------------------------- MODULE MCDirectFunding ----------------------------
(* An instance of DirectFunding for TLC: two wallets with different amounts.    *)
EXTENDS DirectFunding

MCAmount == [w \in 0 .. 1 |-> w + 1]
===============================================================================
