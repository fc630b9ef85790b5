---------------------------- MODULE MCVirtualChannel ----------------------------
(* Model values of VirtualChannel for TLC.                                      *)
EXTENDS VirtualChannel

MCOpening == [c \in Channels |-> IF c = "old" THEN [w \in {0, 1} |-> 2 - w] ELSE [w \in {0, 1} |-> 1]]
MCLatest == [c \in Channels |-> IF c = "old" THEN [w \in {0, 1} |-> 1 + w] ELSE [w \in {0, 1} |-> 1]]
\* One channel from the cradle to the grave; one that is taken back while another is funded.
MCStories == {[c \in Channels |-> IF c = "new" THEN "new" ELSE "none"],
              [c \in Channels |-> IF c = "new" THEN "prepared" ELSE "closed"]}
MCFunds == [hub |-> 5, leaf |-> 4]
MCTurn == [w \in {0, 1} |-> IF w = 0 THEN 3 ELSE 1]
=================================================================================
