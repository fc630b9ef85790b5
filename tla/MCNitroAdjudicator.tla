-------------------------- MODULE MCNitroAdjudicator --------------------------
(* Model values for NitroAdjudicator: a ledger channel that funds a virtual    *)
(* one by a guarantee, and outcomes over one or two assets.                    *)
EXTENDS ClientPayouts

CONSTANTS eth, token, ledger, app, alice, bob

Simple(d, n) == [destination |-> d, amount |-> n, allocationType |-> "simple",
                 metadata |-> <<>>]
Guarantee(d, n, claimants) ==
  [destination |-> d, amount |-> n, allocationType |-> "guarantee",
   metadata |-> claimants]
Of(asset, allocations) == [asset |-> asset, allocations |-> allocations]

MCAsset == {eth}
MCTwoAssets == {eth, token}
MCChannel == {ledger, app}
MCExternal == {alice, bob}

AppOutcome == <<Of(eth, <<Simple(alice, 1), Simple(bob, 1)>>)>>
GuaranteeFirst ==
  <<Of(eth, <<Guarantee(app, 2, <<bob, alice>>), Simple(alice, 1)>>)>>
GuaranteeLast ==
  <<Of(eth, <<Simple(alice, 1), Guarantee(app, 2, <<bob, alice>>)>>)>>
Nested == <<Of(eth, <<Simple(bob, 1), Simple(app, 2), Simple(ledger, 1)>>)>>

\* Two assets, listed in different orders, with funds passed on to the app.
LedgerOfTwo ==
  <<Of(eth, <<Simple(alice, 1), Simple(app, 1)>>), Of(token, <<Simple(app, 1)>>)>>
AppOfTwo == <<Of(token, <<Simple(bob, 1)>>), Of(eth, <<Simple(alice, 1)>>)>>

\* One of several outcomes for each channel.
MCSigned ==
  [c \in MCChannel |-> IF c = app THEN {AppOutcome, AppOfTwo}
                       ELSE {GuaranteeFirst, Nested, LedgerOfTwo}]
\* A guarantee that is not the first allocation.
MCSignedLast ==
  [c \in MCChannel |-> IF c = app THEN {AppOutcome} ELSE {GuaranteeLast}]
===============================================================================
