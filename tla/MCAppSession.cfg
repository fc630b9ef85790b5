\* One update, restarts and time-outs, closing early and by both.
SPECIFICATION FairSpec
CONSTANTS
  Data = {1}
  LastTurn = 5
  Stake = 1
  Settings <- MCSettings
INVARIANTS SyncAccepted SuccessIsTrue 
PROPERTIES ObjectivesSucceed PromisesResolve
CHECK_DEADLOCK FALSE
