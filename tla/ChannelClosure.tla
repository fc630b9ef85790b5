---------------------------- MODULE ChannelClosure -----------------------------
(* Abstract: what closing a funded channel promises its two wallets.  Nobody's   *)
(* money leaves the channel but by an outcome that both signed as final, or that *)
(* a challenge made final; and no wallet calls a channel closed while it has a   *)
(* share in it.                                                                  *)
EXTENDS Integers

CONSTANTS Share           \* Share[o][w]: what the signed outcome o allocates to w

VARIABLES agreed,         \* the wallets that signed the final state
          expired,        \* the outcomes of challenges that ran out
          paid,           \* the outcome that was paid, or "nothing"
          closed          \* the wallets that have called the channel closed

Wallet == {0, 1}
Signed == DOMAIN Share

ClosureInit == agreed = {} /\ expired = {} /\ paid = "nothing" /\ closed = {}

Agree(w) ==
  /\ agreed' = agreed \cup {w}
  /\ UNCHANGED <<expired, paid, closed>>

Expire(o) ==
  /\ expired' = expired \cup {o}
  /\ UNCHANGED <<agreed, paid, closed>>

PayOut(o) ==
  /\ paid = "nothing"
  /\ o \in expired \/ (o = "latest" /\ agreed = Wallet)
  /\ paid' = o
  /\ UNCHANGED <<agreed, expired, closed>>

\* What is closed is agreed upon, w's signature being the last perhaps; who calls it
\* closed has been paid, or was to get nothing.
Close(w) ==
  /\ agreed' = agreed \cup {w} /\ agreed' = Wallet
  /\ paid # "nothing" \/ Share["latest"][w] = 0
  /\ closed' = closed \cup {w}
  /\ UNCHANGED <<expired, paid>>

\* A late announcement of the peer re-approves what has succeeded.
Reopen(w) ==
  /\ closed' = closed \ {w}
  /\ UNCHANGED <<agreed, expired, paid>>

ClosureNext ==
  \/ \E w \in Wallet : Agree(w) \/ Close(w) \/ Reopen(w)
  \/ \E o \in Signed : Expire(o) \/ PayOut(o)

ClosureSpec == ClosureInit /\ [][ClosureNext]_<<agreed, expired, paid, closed>>
===============================================================================
