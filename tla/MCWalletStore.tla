------------------------------ MODULE MCWalletStore ------------------------------
(* Model values of WalletStore for TLC.                                         *)
EXTENDS WalletStore

MCNonces == 0 .. 2
\* Channel 0 runs and it is my turn, or its peer has signed the last final state.
MCInitially ==
  {[Put(Empty, 0, states) EXCEPT !.nonces = 0] :
     states \in {{SignedState(3, FALSE, "x", {0, 1})},
                {SignedState(4, TRUE, "x", {0}), SignedState(5, TRUE, "x", {1})}}}
\* The peer creates channel 1 as well, with another outcome, and answers in channel 0.
MCCalls ==
  {[op |-> "createChannel", outcome |-> o] : o \in {"x", "y"}}
    \cup {[op |-> "addState", id |-> m[1], state |-> SignedState(m[2], FALSE, m[3], {1})] :
            m \in {<<1, 0, "y">>, <<2, 0, "x">>, <<0, 5, "x">>}}
    \cup {[op |-> "updateChannel", id |-> 0, outcome |-> o] : o \in {"x", "y"}}
    \cup {[op |-> o, id |-> 0] : o \in {"signFinalState", "setFunding", "setLedger"}}
    \cup {[op |-> "createBudget", amount |-> 3], [op |-> "clearBudget"]}
    \cup {[op |-> "reserveFunds", id |-> id, amount |-> 2] : id \in {0, 1}}
==================================================================================
