---------------------------- MODULE MCLedgerBudget ----------------------------
(* Model values of LedgerBudget for TLC.                                        *)
EXTENDS LedgerBudget

\* As much as, less than and more than what the player puts in.
MCBudgets == {[send |-> 2, receive |-> r] : r \in {1, 2, 3}}
================================================================================
