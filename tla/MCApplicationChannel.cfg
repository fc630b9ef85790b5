SPECIFICATION FairSpec
CONSTANTS
  Amount <- MCAmount
  Outcomes = {"opening", "changed"}
  MaxTurn = 8
  Challengers = {0, 1}
  Rejecters = {0, 1}
INVARIANT PaidAsAgreed
INVARIANT ClosingNeverFails
PROPERTY AppOpeningSpec
PROPERTY AppConcludes
CHECK_DEADLOCK FALSE
