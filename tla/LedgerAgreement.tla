--------------------------- MODULE LedgerAgreement ---------------------------
(* What a ledger channel promises its two parties: the outcome they are bound  *)
(* to changes only by taking in channels that both asked to fund and giving    *)
(* back channels that both asked to defund, each channel once, and every        *)
(* change moves exactly the amounts asked for.                                 *)
EXTENDS LedgerProtocol

CONSTANT OpeningBalances

VARIABLES agreed,  \* the outcome signed by both
          asked    \* [Wallet -> SUBSET RequestKey]

agreementVars == <<agreed, asked>>

AgreementInit ==
  /\ \E balance \in OpeningBalances :
       agreed = [bal |-> balance, items |-> [x \in App |-> 0]]
  /\ asked = [w \in Wallet |-> {}]

Ask(w, k) ==
  /\ k \notin asked[w]
  /\ asked' = [asked EXCEPT ![w] = @ \union {k}]
  /\ UNCHANGED agreed

BothAsked(k) == \A w \in Wallet : k \in asked[w]

\* Channels funded move from 0 items to 1, channels given back from 1 to 0.
Agree(funded, returned) ==
  /\ \A x \in funded : BothAsked(Fund(x)) /\ agreed.items[x] = 0
  /\ \A x \in returned : BothAsked(Defund(x)) /\ agreed.items[x] = 1
  /\ agreed' =
       [bal   |-> [w \in Wallet |->
                     agreed.bal[w] + Moved(RefundAmount, returned, w)
                                   - Moved(FundAmount, funded, w)],
        items |-> [x \in App |-> IF x \in funded THEN 1
                                 ELSE IF x \in returned THEN 0 ELSE agreed.items[x]]]
  /\ \A w \in Wallet : agreed'.bal[w] >= 0
  /\ UNCHANGED asked

AgreementNext ==
  \/ \E w \in Wallet, k \in RequestKey : Ask(w, k)
  \/ \E funded, returned \in SUBSET App : Agree(funded, returned)

AgreementSpec == AgreementInit /\ [][AgreementNext]_agreementVars
===============================================================================
