\* A disagreement: see the findings in README.md.
CONSTANTS
  eth = eth
  token = token
  ledger = ledger
  app = app
  alice = alice
  bob = bob
  NoHash = NoHash
  Missing = Missing
  Width48 = 8
  Asset <- MCTwoAssets
  Channel <- MCChannel
  External <- MCExternal
  SignedOutcome <- MCSigned
  MaxFunds = 2
SPECIFICATION AdjudicatorSpec
CHECK_DEADLOCK FALSE
INVARIANT NothingForgotten
