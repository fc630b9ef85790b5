--------------------------- MODULE MCChannelClosing ----------------------------
(* Instances of ChannelClosing: the channel was opened with everything in the    *)
(* first wallet's hands, and stands at three to one.                             *)
EXTENDS ChannelClosing

\* "initial" gives everything to 0.
MCShare == [o \in Outcome |-> [w \in Wallet |->
              IF o = "initial" THEN (IF w = 0 THEN 4 ELSE 0)
              ELSE (IF w = 0 THEN 3 ELSE 1)]]
===============================================================================
