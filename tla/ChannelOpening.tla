---------------------------- MODULE ChannelOpening ----------------------------
(* What opening a directly funded channel promises its participants: deposits  *)
(* are made in the order of the allocation and once each, nobody signs the      *)
(* postfund state of a channel that does not hold everything it allocates, and  *)
(* a wallet reports the channel open when everybody signed that state.          *)
EXTENDS Integers, Functions

CONSTANTS nWallets,       \* participants, numbered in the order of the allocation
          Amount          \* Amount[w]: what the outcome allocates to w

Wallet == 0 .. nWallets - 1

\* The funding milestones of w: what the channel holds before w deposits, after
\* w did, and when it is funded.
TargetBefore(w) == FoldFunction(+, 0, [v \in 0 .. w - 1 |-> Amount[v]])
TargetAfter(w) == TargetBefore(w) + Amount[w]
TargetTotal == TargetBefore(nWallets)

VARIABLES holdings,       \* what the adjudicator holds for the channel
          postfunded,     \* who signed the postfund state
          opened          \* who reported the channel open

openingVars == <<holdings, postfunded, opened>>

OpeningInit == holdings = 0 /\ postfunded = {} /\ opened = {}

MakeDeposit(w) ==
  /\ Amount[w] > 0
  /\ holdings = TargetBefore(w)
  /\ holdings' = TargetAfter(w)
  /\ UNCHANGED <<postfunded, opened>>

SignPostfund(w) ==
  /\ holdings = TargetTotal
  /\ postfunded' = postfunded \cup {w}
  /\ \/ opened' = opened
     \/ postfunded' = Wallet /\ opened' = opened \cup {w}
  /\ UNCHANGED holdings

ReportOpen(w) ==
  /\ postfunded = Wallet
  /\ opened' = opened \cup {w}
  /\ UNCHANGED <<holdings, postfunded>>

OpeningNext == \E w \in Wallet : MakeDeposit(w) \/ SignPostfund(w) \/ ReportOpen(w)

OpeningSpec == OpeningInit /\ [][OpeningNext]_openingVars
===============================================================================
