----------------------------- MODULE MCAppSession ------------------------------
(* Model values for AppSession: either wallet creates the channel; two handlers   *)
(* interleave, or something goes wrong once.                                      *)
EXTENDS AppSession

Setting(creator, earlyClose, maxHandlers, maxFaults) ==
  [creator |-> creator, earlyClose |-> earlyClose, maxHandlers |-> maxHandlers,
   maxFaults |-> maxFaults]
MCSettings ==
  {Setting(0, FALSE, 2, 0), Setting(1, FALSE, 1, 1), Setting(1, TRUE, 1, 0)}
===============================================================================
