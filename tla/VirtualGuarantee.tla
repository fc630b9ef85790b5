---------------------------- MODULE VirtualGuarantee ----------------------------
(* What a virtually funded channel promises the two leaves: the target channel  *)
(* is funded only while both ledgers guarantee it, and a guarantee is given      *)
(* back only when the money of the target has been shared out.                  *)
CONSTANT Leaves

VARIABLES guaranteed,   \* the leaves whose ledger holds the guarantee
          joint         \* what the joint channel pays: "nobody", "leaves", "target", "shares"

\* A channel may have been funded already, and may have been closed.
Init ==
  \/ guaranteed = {} /\ joint \in {"nobody", "leaves"}
  \/ guaranteed = Leaves /\ joint \in {"target", "shares"}

Agree == joint = "nobody" /\ joint' = "leaves" /\ UNCHANGED guaranteed

Guarantee(w) ==
  /\ joint = "leaves" /\ w \notin guaranteed
  /\ guaranteed' = guaranteed \cup {w}
  /\ UNCHANGED joint

FundTarget ==
  /\ joint = "leaves" /\ guaranteed = Leaves
  /\ joint' = "target"
  /\ UNCHANGED guaranteed

DefundTarget ==
  /\ joint = "target" /\ guaranteed = Leaves
  /\ joint' = "shares"
  /\ UNCHANGED guaranteed

Return(w) ==
  /\ joint = "shares" /\ w \in guaranteed
  /\ guaranteed' = guaranteed \ {w}
  /\ UNCHANGED joint

Next == Agree \/ FundTarget \/ DefundTarget \/ \E w \in Leaves : Guarantee(w) \/ Return(w)

Step == UNCHANGED <<guaranteed, joint>> \/ Next
VirtualSpec == Init /\ [][Next]_<<guaranteed, joint>>
=================================================================================
