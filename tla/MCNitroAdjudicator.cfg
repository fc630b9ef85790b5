\* A ledger and an app channel, each finalized with one of several outcomes over two assets.
CONSTANTS
  eth = eth
  token = token
  ledger = ledger
  app = app
  alice = alice
  bob = bob
  NoHash = NoHash
  Missing = Missing
  Width48 = 8
  Asset <- MCTwoAssets
  Channel <- MCChannel
  External <- MCExternal
  SignedOutcome <- MCSigned
  MaxFunds = 3
SPECIFICATION AdjudicatorSpec
CHECK_DEADLOCK FALSE
 
INVARIANT ClientAgrees
 
