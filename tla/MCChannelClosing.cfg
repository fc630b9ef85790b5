SPECIFICATION FairSpec
CONSTANTS
  FirstSigners = {0, 1}
  Share <- MCShare
  Challengers = {0}
  Defunders = {0}
  Twice = {}
  Unreliable = {1}
  RestartInChallenge = FALSE
  ChallengeDuration = 1
  MaxTime = 2
  MaxFaults = 1
INVARIANTS FinalizedOnChain
PROPERTIES KeepsClosure ChannelClosesOrGivesUp
CHECK_DEADLOCK FALSE
