--------------------------- MODULE MCWatchedChannel ---------------------------
(* Model values for WatchedChannel: the app lets the outcome move freely, as a *)
(* payment app does.                                                           *)
EXTENDS WatchedChannel

CONSTANTS o1, o2, anyData

MCOutcome == {o1, o2}
MCOneOutcome == {o1}
MCAppData == {anyData}
MCOpeningVars == [appData |-> anyData, outcome |-> o1]
MCValidAppTransition(a, b, turnNumB) == TRUE
===============================================================================
