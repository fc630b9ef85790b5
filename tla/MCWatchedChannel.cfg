\* Two participants, one of them honest: two setup rounds, three app turns and two challenge periods.
CONSTANTS
  o1 = o1
  o2 = o2
  anyData = anyData
  NoHash = NoHash
  Width48 = 32
  nParticipants = 2
  AppData <- MCAppData
  Outcome <- MCOutcome
  OpeningVars <- MCOpeningVars
  ValidAppTransition <- MCValidAppTransition
  MaxTurnNum = 6
  Honest = {0}
  ChallengeDuration = 2
  MaxTimestamp = 5
SPECIFICATION WatchedFairSpec
CHECK_DEADLOCK FALSE
INVARIANT RecordSupported
INVARIANT RecordBacked
 
PROPERTY FinalizesNothingStale
PROPERTY ModesSpec
PROPERTY ChallengeResolves
